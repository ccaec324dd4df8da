---------------------------- MODULE TcpSessions ----------------------------
(***************************************************************************)
(* The TCP server of Ethernet/TCP.c: the session table and TCPProcess, the *)
(* handler the main loop runs for every TCP segment that IPProcess admits. *)
(* One step is one whole call of TCPProcess.  The environment is open: any *)
(* segment of the constant Segments may arrive at any time, so loss,       *)
(* duplication, reordering and careless peers are all included.            *)
(*                                                                         *)
(* Data kept: states, peers, ports, sequence numbers (modulo SeqMod) and   *)
(* byte numbers of the payload.  Data abstracted: windows, checksums,      *)
(* addresses and the text of the console lines (payloads are text: "%s"    *)
(* would stop at a NUL byte).  The write-only fields                       *)
(* desWin, lastRxAck, nextAck, dataBuffer, dataLen of a session are left   *)
(* out: nothing reads them.                                                *)
(*                                                                         *)
(* A definition whose name starts with Wrong is what its neighbour would   *)
(* be with a plausible bug; no specification uses it, it only serves to    *)
(* see that a property notices the bug.                                    *)
(***************************************************************************)
EXTENDS Integers, Sequences

CONSTANTS
    TCP_MAX_SESSION,  \* length of tcpSessionTable (8 in the firmware)
    TCP_TIMEOUT,      \* reload value of a session's timeout (60)
    Remotes,          \* the peers: a (desIP, desPort) pair is one of them
    NoRemote,         \* the all-zero peer of a session never used since reset
    Ports,            \* the local ports that segments are addressed to
    NoPort,           \* the zero srcPort of a session never used since reset
    SERVICE_PORT,     \* 60000, the only port TCPProcess passes on to TCPCreateSession
    SeqMod,           \* size of the sequence space (2^32)
    MSS,              \* MAX_SEGMENT_SIZE, what SYN|ACK tells the peers
    MaxLen,           \* longest payload of a segment that arrives
    Segments          \* the segments that may arrive

Sessions == 0 .. TCP_MAX_SESSION - 1
SeqNumbers == 0 .. SeqMod - 1

Flag == {"FIN", "SYN", "RST", "PSH", "ACK"}

\* An arriving segment.  opts tells whether its TCP header carries options.
Segment == [remote : Remotes, dstPort : Ports, flags : SUBSET Flag,
            seq : SeqNumbers, ack : SeqNumbers, len : 0 .. MaxLen,
            opts : BOOLEAN]

\* Options take their room from the payload; one unit stands for them.
FrameLen(seg) == seg.len + (IF seg.opts THEN 1 ELSE 0)

\* How much of the payload is in ethBuffer.  The buffer holds a segment of MSS
\* bytes, but enc28j60PacketReceive copies at most maxlen - 1 bytes of a frame
\* and puts a NUL behind them: a full-size segment arrives without its last
\* byte.  (Peers keep to the MSS; longer frames are not modelled.)
Arrived(seg) == IF FrameLen(seg) < MSS THEN seg.len ELSE seg.len - 1

\* A segment the firmware puts on the wire (all of them are without payload).
Reply == [remote : Remotes, srcPort : Ports \cup {SERVICE_PORT, NoPort},
          flags : SUBSET Flag, seq : SeqNumbers, ack : SeqNumbers]

ASSUME SizesAssumption ==
    /\ TCP_MAX_SESSION \in Nat \ {0}
    /\ TCP_TIMEOUT \in Nat \ {0}
    /\ SeqMod \in Nat \ {0, 1}
    /\ MaxLen \in Nat
    /\ MaxLen < SeqMod
    /\ MSS \in Nat \ {0}

ASSUME PeersAssumption ==
    /\ NoRemote \notin Remotes
    /\ NoPort \notin Ports
    /\ NoPort # SERVICE_PORT

ASSUME SegmentsAssumption ==
    Segments \subseteq {seg \in Segment : FrameLen(seg) <= MSS}

\* No segment fills the receive buffer to its last byte.
ShortSegments == \A seg \in Segments : FrameLen(seg) < MSS

VARIABLES
    tcpSessionTable,  \* tcpSessionTable[], one record for each session
    sent,             \* the replies of the last call, in order
    printed           \* byte numbers of the payload the last call printed

vars == <<tcpSessionTable, sent, printed>>

\* The states TCPProcess leaves a session in; LAST_ACK lasts only inside the
\* call and TIMED_WAIT is looked for by TCPGetFreeSession but never assigned.
States == {"CLOSED", "LISTEN", "SYN_RECEIVED", "ESTABLISHED", "TIMED_WAIT"}

Session == [sesState : States, remote : Remotes \cup {NoRemote},
            srcPort : {NoPort, SERVICE_PORT}, SeqNumber : SeqNumbers,
            AckNumber : SeqNumbers, timeout : 0 .. TCP_TIMEOUT]

Plus(n, k) == (n + k) % SeqMod

\* The byte numbers of n bytes that start at number a.
Bytes(a, n) == {Plus(a, k) : k \in 0 .. n - 1}

---------------------------------------------------------------------------
(* Finding the session of a segment *)

\* i is where a loop over the table that stops at the first hit in S ends.
IsFirst(i, S) == i \in S /\ \A j \in S : i <= j

InState(S) == {i \in Sessions : tcpSessionTable[i].sesState \in S}

\* The lookup forgets half-open sessions.
WrongBound(seg) ==
    {i \in InState({"ESTABLISHED"}) :
        /\ tcpSessionTable[i].srcPort = seg.dstPort
        /\ tcpSessionTable[i].remote = seg.remote}

\* First loop of TCPProcess: the sessions of this peer and local port.
Bound(seg) ==
    {i \in Sessions \ InState({"CLOSED"}) :
        /\ tcpSessionTable[i].srcPort = seg.dstPort
        /\ tcpSessionTable[i].remote = seg.remote}

\* Second loop: sessions in LISTEN on this local port.
Listening(seg) ==
    {i \in InState({"LISTEN"}) : tcpSessionTable[i].srcPort = seg.dstPort}

\* Session 0 is taken without a look for a closed one.
WrongReusable == {0}

\* TCPGetFreeSession, with the "force session 0" of TCPCreateSession.
Reusable ==
    IF InState({"CLOSED"}) # {} THEN InState({"CLOSED"})
    ELSE IF InState({"TIMED_WAIT"}) # {} THEN InState({"TIMED_WAIT"})
    ELSE {0}

Known(seg) == Bound(seg) \cup Listening(seg)

\* TCPProcess continues with session i ...
Selected(seg, i) ==
    IsFirst(i, IF Bound(seg) # {} THEN Bound(seg)
               ELSE IF Listening(seg) # {} THEN Listening(seg)
               ELSE Reusable)

\* An entry that is taken by force keeps its state.
WrongForcedSession(s, remote) ==
    [s EXCEPT !.sesState = IF @ = "CLOSED" THEN "LISTEN" ELSE @,
              !.remote = remote, !.srcPort = SERVICE_PORT]

\* TCPCreateSession: always for SERVICE_PORT, whatever port was dialled; the
\* numbers stay those the entry held before.
NewSession(s, remote) ==
    [s EXCEPT !.sesState = "LISTEN", !.remote = remote,
              !.srcPort = SERVICE_PORT]

\* ... whose record is this by then: found, taken over from LISTEN, or new.
Entry(seg, i) ==
    LET s == [tcpSessionTable[i] EXCEPT !.remote = seg.remote,
                                        !.timeout = TCP_TIMEOUT]
    IN  IF Known(seg) # {} THEN s ELSE NewSession(s, seg.remote)

---------------------------------------------------------------------------
(* Replies *)

\* What TCPPackedSend puts on the wire for session s, without payload.
Packed(s, flags) ==
    [remote |-> s.remote, srcPort |-> s.srcPort, flags |-> flags,
     seq |-> s.SeqNumber, ack |-> s.AckNumber]

\* ... and what it leaves in the session: SYN and FIN take a number.
AfterSend(s, flags) ==
    [s EXCEPT !.SeqNumber =
        Plus(@, IF flags \cap {"SYN", "FIN"} # {} THEN 1 ELSE 0)]

---------------------------------------------------------------------------
(* The branches of TCPProcess, for segment seg, session i, record s *)

Store(i, s) == tcpSessionTable' = [tcpSessionTable EXCEPT ![i] = s]

Quiet == sent' = <<>> /\ printed' = {}

\* RST closes the session whatever its state and its sequence number.
Reset(seg, i, s) ==
    /\ "RST" \in seg.flags
    /\ Store(i, [s EXCEPT !.sesState = "CLOSED"])
    /\ Quiet

\* A SYN on a listening session: the client's own number becomes ours.
ListenSyn(seg, i, s) ==
    LET opened == [s EXCEPT !.sesState = "SYN_RECEIVED",
                            !.SeqNumber = seg.seq,
                            !.AckNumber = Plus(seg.seq, 1)]
        synAck == {"SYN", "ACK"}
    IN  /\ s.sesState = "LISTEN"
        /\ seg.flags = {"SYN"}
        /\ Store(i, AfterSend(opened, synAck))
        /\ sent' = <<Packed(opened, synAck)>>
        /\ printed' = {}

\* A bare ACK is believed in LISTEN, too.
WrongSynReceivedAck(seg, i, s) ==
    /\ s.sesState \in {"LISTEN", "SYN_RECEIVED"}
    /\ seg.flags = {"ACK"}
    /\ s.SeqNumber = seg.ack
    /\ Store(i, [s EXCEPT !.sesState = "ESTABLISHED"])
    /\ Quiet

\* The handshake ends with a bare ACK of our SYN.
SynReceivedAck(seg, i, s) ==
    /\ s.sesState = "SYN_RECEIVED"
    /\ seg.flags = {"ACK"}
    /\ s.SeqNumber = seg.ack
    /\ Store(i, [s EXCEPT !.sesState = "ESTABLISHED"])
    /\ Quiet

\* Everything else in LISTEN and SYN_RECEIVED: the lookup is all that happens.
Ignored(seg, i, s) ==
    /\ "RST" \notin seg.flags
    /\ \/ s.sesState = "LISTEN" /\ seg.flags # {"SYN"}
       \/ s.sesState = "SYN_RECEIVED"
          /\ ~(seg.flags = {"ACK"} /\ s.SeqNumber = seg.ack)
    /\ Store(i, s)
    /\ Quiet

\* TCPCloseSession is not called.
WrongEstablishedFin(seg, i, s) ==
    LET last == [s EXCEPT !.AckNumber = Plus(seg.seq, seg.len + 1)]
        finAck == {"FIN", "ACK"}
    IN  /\ s.sesState = "ESTABLISHED"
        /\ seg.flags \cap {"RST", "FIN"} = {"FIN"}
        /\ Store(i, [AfterSend(last, finAck) EXCEPT !.sesState = "LAST_ACK"])
        /\ sent' = <<Packed(last, {"ACK"}), Packed(last, finAck)>>
        /\ printed' = {}

\* FIN in ESTABLISHED: acknowledged unseen, answered with our FIN, closed.
EstablishedFin(seg, i, s) ==
    LET last == [s EXCEPT !.AckNumber = Plus(seg.seq, seg.len + 1)]
        finAck == {"FIN", "ACK"}
    IN  /\ s.sesState = "ESTABLISHED"
        /\ seg.flags \cap {"RST", "FIN"} = {"FIN"}
        /\ Store(i, [AfterSend(last, finAck) EXCEPT !.sesState = "CLOSED"])
        /\ sent' = <<Packed(last, {"ACK"}), Packed(last, finAck)>>
        /\ printed' = {}

\* The remaining segments of an established session, after its ACK is noted:
\* SeqNumber becomes whatever the peer acknowledges.
Synced(seg, s) ==
    IF "ACK" \in seg.flags THEN [s EXCEPT !.SeqNumber = seg.ack] ELSE s

IsData(seg, s) ==
    s.sesState = "ESTABLISHED" /\ seg.flags \cap {"RST", "FIN"} = {}

\* Accept n new bytes, answer with the given ACKs, print the whole payload.
Deliver(seg, i, s, n, acks) ==
    LET next == [s EXCEPT !.AckNumber = Plus(@, n)]
    IN  /\ Store(i, next)
        /\ sent' = [k \in 1 .. acks |-> Packed(next, {"ACK"})]
        /\ printed' = Bytes(seg.seq, Arrived(seg))

Pushed(seg) == IF "PSH" \in seg.flags THEN 1 ELSE 0

InOrderData(seg, i, s) ==
    /\ IsData(seg, s)
    /\ seg.seq = s.AckNumber
    /\ Deliver(seg, i, Synced(seg, s), seg.len, Pushed(seg))

\* dataLen is not reduced by the overlap.
WrongOverlappingData(seg, i, s) ==
    /\ IsData(seg, s)
    /\ seg.seq < s.AckNumber
    /\ s.AckNumber - seg.seq < seg.len
    /\ Deliver(seg, i, Synced(seg, s), seg.len, Pushed(seg))

\* The comparison is of unsigned numbers, not modulo SeqMod.  *tmp, the top
\* byte of the overlap, is zero for every overlap shorter than a payload, so
\* tcpData does not move and the whole payload is printed.
OverlappingData(seg, i, s) ==
    LET overlap == s.AckNumber - seg.seq
    IN  /\ IsData(seg, s)
        /\ seg.seq < s.AckNumber
        /\ overlap < seg.len
        /\ Deliver(seg, i, Synced(seg, s), seg.len - overlap, Pushed(seg))

\* Old data is not acknowledged again.
WrongRedundantData(seg, i, s) ==
    /\ IsData(seg, s)
    /\ seg.seq < s.AckNumber
    /\ s.AckNumber - seg.seq >= seg.len
    /\ Deliver(seg, i, Synced(seg, s), 0, 0)

\* The resent ACK is built over the received header, whose flags are read
\* again afterwards: without options they are now the reply's (no PSH), with
\* options they are a byte of its numbers or addresses.  Then it is printed.
RedundantData(seg, i, s) ==
    /\ IsData(seg, s)
    /\ seg.seq < s.AckNumber
    /\ s.AckNumber - seg.seq >= seg.len
    /\ \E acks \in (IF seg.opts THEN {1, 2} ELSE {1}) :
           Deliver(seg, i, Synced(seg, s), 0, acks)

\* Data behind a gap is acknowledged as if the gap were filled.
WrongGapData(seg, i, s) ==
    LET next == [s EXCEPT !.AckNumber = Plus(seg.seq, seg.len)]
    IN  /\ IsData(seg, s)
        /\ seg.seq > s.AckNumber
        /\ Store(i, Synced(seg, next))
        /\ sent' = <<Packed(Synced(seg, next), {"ACK"})>>
        /\ printed' = Bytes(seg.seq, seg.len)

\* Data behind a gap is printed at once.
WrongEarlyData(seg, i, s) ==
    /\ IsData(seg, s)
    /\ seg.seq > s.AckNumber
    /\ Deliver(seg, i, Synced(seg, s), 0, 1)

\* Data behind a gap is not kept, only the wanted number is repeated.
GapData(seg, i, s) ==
    /\ IsData(seg, s)
    /\ seg.seq > s.AckNumber
    /\ Store(i, Synced(seg, s))
    /\ sent' = <<Packed(Synced(seg, s), {"ACK"})>>
    /\ printed' = {}

---------------------------------------------------------------------------

\* The zeroed table, after TCPInit.
Init ==
    /\ tcpSessionTable =
         [i \in Sessions |-> [sesState |-> "CLOSED", remote |-> NoRemote,
                              srcPort |-> NoPort, SeqNumber |-> 0,
                              AckNumber |-> 0, timeout |-> 0]]
    /\ sent = <<>>
    /\ printed = {}

Handle(seg, i, s) ==
    \/ Reset(seg, i, s)
    \/ ListenSyn(seg, i, s)
    \/ SynReceivedAck(seg, i, s)
    \/ Ignored(seg, i, s)
    \/ EstablishedFin(seg, i, s)
    \/ InOrderData(seg, i, s)
    \/ OverlappingData(seg, i, s)
    \/ RedundantData(seg, i, s)
    \/ GapData(seg, i, s)

TCPProcess(seg) ==
    \E i \in Sessions :
        Selected(seg, i) /\ Handle(seg, i, Entry(seg, i))

Next == \E seg \in Segments : TCPProcess(seg)

Spec == Init /\ [][Next]_vars

---------------------------------------------------------------------------
(* What the table promises *)

Live == {"SYN_RECEIVED", "ESTABLISHED"}

\* Every field of the table, the replies and the printed bytes stay in range; no
\* call leaves a session in LAST_ACK, which nothing would ever end.
TypeOK ==
    /\ tcpSessionTable \in [Sessions -> Session]
    /\ sent \in Seq(Reply)
    /\ printed \subseteq SeqNumbers

\* Every session in use serves SERVICE_PORT and none waits in TIMED_WAIT:
\* TCPCreateSession is the only way into the table, and the second loop of
\* TCPGetFreeSession never finds what it looks for.
SessionsServe ==
    \A i \in Sessions \ InState({"CLOSED"}) :
        /\ tcpSessionTable[i].srcPort = SERVICE_PORT
        /\ tcpSessionTable[i].sesState # "TIMED_WAIT"

Syns == {seg \in Segments : seg.flags = {"SYN"}}

RemotesIn(S) == {tcpSessionTable[i].remote : i \in InState(S)}

\* No session is ever freed by its timeout (nothing calls TCPCheckTimeOut), and
\* a half-open one whose SYN|ACK was lost stays so.  Even when the table is full
\* of such sessions, a SYN of a peer that has none is answered by the very call
\* that takes it, with its own number acknowledged, and has its session then: a
\* client that gave up is served when it comes back from another port.
NewcomersServed ==
    [][\A seg \in Syns :
          seg.remote \notin RemotesIn(Live) /\ TCPProcess(seg)
          => /\ \E k \in DOMAIN sent' :
                   /\ sent'[k].remote = seg.remote
                   /\ sent'[k].flags = {"SYN", "ACK"}
                   /\ sent'[k].ack = Plus(seg.seq, 1)
             /\ seg.remote \in RemotesIn({"SYN_RECEIVED"})']_vars

\* The lookup loops can only be relied on when at most one session that is
\* not closed belongs to a peer, and at most one listens.  Nothing in
\* TCPCreateSession checks for a second one; it holds as long as all segments
\* are addressed to SERVICE_PORT, which the runs and theorems say.
OneSessionPerPeer ==
    /\ \A i, j \in Sessions \ InState({"CLOSED"}) :
          tcpSessionTable[i].remote = tcpSessionTable[j].remote => i = j
    /\ \A i, j \in InState({"LISTEN"}) : i = j

\* TCPProcess echoes the client's initial number instead of choosing one, so
\* a half-open session's next number to send is its next number to receive.
HandshakeNumbers ==
    \A i \in InState({"SYN_RECEIVED"}) :
        tcpSessionTable[i].SeqNumber = tcpSessionTable[i].AckNumber

\* A half-open or established session loses its entry to another peer only as
\* session 0 of a table in which no entry was left over: no LISTEN entry to
\* take over and no closed one (TCPGetFreeSession, "force session 0").
OnlyFullTableEvicts ==
    [][\A i \in InState(Live) :
          tcpSessionTable'[i].remote # tcpSessionTable[i].remote
              => i = 0 /\ InState(Live) = Sessions]_vars

\* Without the assumption on the ports the entries left over may be LISTEN.
OnlyUnclosedTableEvicts ==
    [][\A i \in InState(Live) :
          tcpSessionTable'[i].remote # tcpSessionTable[i].remote
              => i = 0 /\ InState({"CLOSED"}) = {}]_vars

\* While a session stays established its AckNumber only moves forward, by at
\* most one payload, and every byte it moves over is printed by that call,
\* whatever the order in which the peer's segments arrive.  It takes
\* ShortSegments: the last byte of a full-size segment is acknowledged unseen.
AcknowledgedIsPrinted ==
    [][\A i \in InState({"ESTABLISHED"}) :
          tcpSessionTable'[i].sesState = "ESTABLISHED" =>
              \E n \in 0 .. MaxLen :
                 /\ tcpSessionTable'[i].AckNumber =
                       Plus(tcpSessionTable[i].AckNumber, n)
                 /\ Bytes(tcpSessionTable[i].AckNumber, n)
                       \subseteq printed']_vars
=============================================================================
