------------------------- MODULE TcpSessionsProofs -------------------------
(***************************************************************************)
(* Theorems about the TCP session table, for every table size, every set   *)
(* of peers and every set of segments the environment may send.            *)
(***************************************************************************)
EXTENDS TcpService, FiniteSetTheorems, TLAPS

\* Sequence numbers wrap around.
LEMMA PlusType ==
    ASSUME NEW n \in Int, NEW k \in Int
    PROVE  Plus(n, k) \in SeqNumbers
BY SizesAssumption DEF Plus, SeqNumbers

\* Bytes are sequence numbers.
LEMMA BytesType ==
    ASSUME NEW n \in Int, NEW k \in Int
    PROVE  Bytes(n, k) \subseteq SeqNumbers
BY PlusType DEF Bytes

\* Whatever TCPProcess finds or makes is a session.
LEMMA EntryType ==
    ASSUME TypeOK, NEW seg \in Segment, NEW i \in Sessions
    PROVE  /\ Entry(seg, i) \in Session
           /\ Entry(seg, i).remote = seg.remote
<1> DEFINE s == [tcpSessionTable[i] EXCEPT !.remote = seg.remote,
                                          !.timeout = TCP_TIMEOUT]
<1>1. tcpSessionTable[i] \in Session
  BY DEF TypeOK
<1>2. seg.remote \in Remotes /\ TCP_TIMEOUT \in 0 .. TCP_TIMEOUT
  BY SizesAssumption, SegmentsAssumption DEF Segment
<1>3. s \in Session /\ s.remote = seg.remote
  BY <1>1, <1>2 DEF Session
<1>4. /\ NewSession(s, seg.remote) \in Session
      /\ NewSession(s, seg.remote).remote = seg.remote
  BY <1>2, <1>3 DEF NewSession, Session, States
<1> QED
  BY <1>3, <1>4 DEF Entry

\* tcpPacket fills in a segment of the session.
LEMMA PackedType ==
    ASSUME NEW s \in Session, s.remote \in Remotes, NEW flags \in SUBSET Flag
    PROVE  /\ Packed(s, flags) \in Reply
           /\ AfterSend(s, flags) \in Session
<1>1. Packed(s, flags) \in Reply
  BY DEF Packed, Session, Reply
<1>a. s.SeqNumber \in Int
  BY SizesAssumption DEF Session, SeqNumbers
<1>2. Plus(s.SeqNumber, IF flags \cap {"SYN", "FIN"} # {} THEN 1 ELSE 0)
        \in SeqNumbers
  BY <1>a, PlusType
<1>3. AfterSend(s, flags) \in Session
  BY <1>2 DEF AfterSend, Session
<1> QED
  BY <1>1, <1>3

\* Data delivered in whichever amount leaves the table well formed.
LEMMA DeliverType ==
    ASSUME TypeOK, NEW seg \in Segment, NEW i \in Sessions,
           NEW s \in Session, s.remote \in Remotes,
           NEW n \in Int, NEW acks \in Nat,
           Deliver(seg, i, s, n, acks)
    PROVE  TypeOK'
<1> DEFINE next == [s EXCEPT !.AckNumber = Plus(@, n)]
<1>1. next \in Session /\ next.remote \in Remotes
  BY PlusType, SizesAssumption DEF Session, SeqNumbers
<1>2. Packed(next, {"ACK"}) \in Reply
  BY <1>1, PackedType DEF Flag
<1>3. tcpSessionTable' \in [Sessions -> Session]
  BY <1>1 DEF Deliver, Store, TypeOK
<1>4. sent' \in Seq(Reply)
  BY <1>2 DEF Deliver
<1>5. printed' \subseteq SeqNumbers
  BY BytesType DEF Deliver, Segment, SeqNumbers, Arrived
<1> QED
  BY <1>3, <1>4, <1>5 DEF TypeOK

\* The numbers of a segment are taken into its session.
LEMMA SyncedType ==
    ASSUME NEW seg \in Segment, NEW s \in Session
    PROVE  /\ Synced(seg, s) \in Session
           /\ Synced(seg, s).remote = s.remote
           /\ Synced(seg, s).AckNumber = s.AckNumber
           /\ Synced(seg, s).sesState = s.sesState
BY DEF Synced, Segment, Session

\* One case per branch of TCPProcess.
LEMMA HandleType ==
    ASSUME TypeOK, NEW seg \in Segment, NEW i \in Sessions,
           NEW s \in Session, s.remote \in Remotes,
           Handle(seg, i, s)
    PROVE  TypeOK'
<1>0. ASSUME NEW r \in Session, Store(i, r)
      PROVE  tcpSessionTable' \in [Sessions -> Session]
  BY <1>0 DEF Store, TypeOK
<1>q. ASSUME Quiet PROVE sent' \in Seq(Reply) /\ printed' \subseteq SeqNumbers
  BY <1>q DEF Quiet
<1>1. CASE Reset(seg, i, s)
  <2>1. [s EXCEPT !.sesState = "CLOSED"] \in Session
    BY DEF Session, States
  <2> QED
    BY <1>0, <1>q, <1>1, <2>1 DEF Reset, TypeOK
<1>2. CASE ListenSyn(seg, i, s)
  <2> DEFINE opened == [s EXCEPT !.sesState = "SYN_RECEIVED",
                                 !.SeqNumber = seg.seq,
                                 !.AckNumber = Plus(seg.seq, 1)]
  <2>a. seg.seq \in SeqNumbers /\ Plus(seg.seq, 1) \in SeqNumbers
    BY PlusType DEF Segment, SeqNumbers
  <2>1. opened \in Session /\ opened.remote \in Remotes
    BY <2>a DEF Session, States
  <2>2. Packed(opened, {"SYN", "ACK"}) \in Reply
        /\ AfterSend(opened, {"SYN", "ACK"}) \in Session
    BY <2>1, PackedType DEF Flag
  <2>3. sent' \in Seq(Reply) /\ printed' \subseteq SeqNumbers
    BY <1>2, <2>2 DEF ListenSyn
  <2> QED
    BY <1>0, <1>2, <2>2, <2>3 DEF ListenSyn, TypeOK
<1>3. CASE SynReceivedAck(seg, i, s)
  <2>1. [s EXCEPT !.sesState = "ESTABLISHED"] \in Session
    BY DEF Session, States
  <2> QED
    BY <1>0, <1>q, <1>3, <2>1 DEF SynReceivedAck, TypeOK
<1>4. CASE Ignored(seg, i, s)
  BY <1>0, <1>q, <1>4 DEF Ignored, TypeOK
<1>5. CASE EstablishedFin(seg, i, s)
  <2> DEFINE last == [s EXCEPT !.AckNumber = Plus(seg.seq, seg.len + 1)]
  <2>1. last \in Session /\ last.remote \in Remotes
    BY PlusType DEF Session, Segment, SeqNumbers
  <2>2. /\ Packed(last, {"ACK"}) \in Reply
        /\ Packed(last, {"FIN", "ACK"}) \in Reply
        /\ AfterSend(last, {"FIN", "ACK"}) \in Session
    BY <2>1, PackedType DEF Flag
  <2>3. [AfterSend(last, {"FIN", "ACK"}) EXCEPT !.sesState = "CLOSED"]
          \in Session
    BY <2>2 DEF Session, States
  <2>4. sent' \in Seq(Reply) /\ printed' \subseteq SeqNumbers
    BY <1>5, <2>2 DEF EstablishedFin
  <2> QED
    BY <1>0, <1>5, <2>3, <2>4 DEF EstablishedFin, TypeOK
<1>d. Synced(seg, s) \in Session /\ Synced(seg, s).remote \in Remotes
  BY SyncedType
<1>6. CASE InOrderData(seg, i, s)
  <2>1. seg.len \in Int /\ Pushed(seg) \in Nat
    BY DEF Pushed, Segment
  <2> QED
    BY <1>d, <1>6, <2>1, DeliverType DEF InOrderData
<1>7. CASE OverlappingData(seg, i, s)
  <2>1. seg.len - (s.AckNumber - seg.seq) \in Int /\ Pushed(seg) \in Nat
    BY DEF Pushed, Segment, Session, SeqNumbers
  <2> QED
    BY <1>d, <1>7, <2>1, DeliverType DEF OverlappingData
<1>8. CASE RedundantData(seg, i, s)
  <2>1. PICK acks \in {1, 2} : Deliver(seg, i, Synced(seg, s), 0, acks)
    BY <1>8 DEF RedundantData
  <2> QED
    BY <1>d, <2>1, DeliverType
<1>9. CASE GapData(seg, i, s)
  <2>1. Packed(Synced(seg, s), {"ACK"}) \in Reply
    BY <1>d, PackedType DEF Flag
  <2>2. sent' \in Seq(Reply) /\ printed' \subseteq SeqNumbers
    BY <1>9, <2>1 DEF GapData
  <2> QED
    BY <1>0, <1>d, <1>9, <2>2 DEF GapData, TypeOK
<1> QED
  BY <1>1, <1>2, <1>3, <1>4, <1>5, <1>6, <1>7, <1>8, <1>9 DEF Handle

\* Type correctness: whatever arrives, every field of the table stays in the
\* range of its C type's model, every reply is well formed and every printed
\* byte has a sequence number.
THEOREM TypeCorrect == Spec => []TypeOK
<1>1. Init => TypeOK
  BY SizesAssumption DEF Init, TypeOK, Session, States, SeqNumbers
<1>2. TypeOK /\ [Next]_vars => TypeOK'
  <2> SUFFICES ASSUME TypeOK, [Next]_vars PROVE TypeOK'
    OBVIOUS
  <2>1. CASE Next
    <3>1. PICK seg \in Segment, i \in Sessions :
              Handle(seg, i, Entry(seg, i))
      BY <2>1, SegmentsAssumption DEF Next, TCPProcess
    <3>2. Entry(seg, i) \in Session /\ Entry(seg, i).remote \in Remotes
      BY EntryType DEF Segment
    <3> QED
      BY <3>1, <3>2, HandleType
  <2>2. CASE UNCHANGED vars
    BY <2>2 DEF vars, TypeOK
  <2> QED
    BY <2>1, <2>2
<1> QED
  BY <1>1, <1>2, PTL DEF Spec

---------------------------------------------------------------------------
(* The table invariant *)

TableInv == TypeOK /\ SessionsServe /\ OneSessionPerPeer /\ HandshakeNumbers

\* What every branch of TCPProcess does to the table: it writes session i
\* only, which stays with its peer and port, moves along the life cycle by at
\* most one state, and if half-open is unchanged or holds equal numbers.
LEMMA HandleShape ==
    ASSUME TypeOK, NEW seg \in Segment, NEW i \in Sessions,
           NEW s \in Session, Handle(seg, i, s)
    PROVE  /\ \A j \in Sessions \ {i} : tcpSessionTable'[j] = tcpSessionTable[j]
           /\ tcpSessionTable'[i].remote = s.remote
           /\ tcpSessionTable'[i].srcPort = s.srcPort
           /\ \/ tcpSessionTable'[i].sesState \in {s.sesState, "CLOSED"}
              \/ /\ s.sesState = "LISTEN"
                 /\ tcpSessionTable'[i].sesState = "SYN_RECEIVED"
              \/ /\ s.sesState = "SYN_RECEIVED"
                 /\ tcpSessionTable'[i].sesState = "ESTABLISHED"
           /\ tcpSessionTable'[i].sesState = "SYN_RECEIVED" =>
                 \/ tcpSessionTable'[i] = s
                 \/ tcpSessionTable'[i].SeqNumber = tcpSessionTable'[i].AckNumber
<1>0. ASSUME NEW r, Store(i, r)
      PROVE  /\ \A j \in Sessions \ {i} : tcpSessionTable'[j] = tcpSessionTable[j]
             /\ tcpSessionTable'[i] = r
  BY <1>0 DEF Store, TypeOK
<1>1. CASE Reset(seg, i, s)
  <2> DEFINE r == [s EXCEPT !.sesState = "CLOSED"]
  <2>1. Store(i, r)
    BY <1>1 DEF Reset
  <2>2. r.remote = s.remote /\ r.srcPort = s.srcPort /\ r.sesState = "CLOSED"
    BY DEF Session
  <2> QED
    BY <1>0, <2>1, <2>2
<1>2. CASE ListenSyn(seg, i, s)
  <2> DEFINE opened == [s EXCEPT !.sesState = "SYN_RECEIVED",
                                 !.SeqNumber = seg.seq,
                                 !.AckNumber = Plus(seg.seq, 1)]
             r == AfterSend(opened, {"SYN", "ACK"})
  <2>1. Store(i, r) /\ s.sesState = "LISTEN"
    BY <1>2 DEF ListenSyn
  <2>2. /\ r.remote = s.remote
        /\ r.srcPort = s.srcPort
        /\ r.sesState = "SYN_RECEIVED"
        /\ r.SeqNumber = r.AckNumber
    BY DEF Session, AfterSend
  <2> QED
    BY <1>0, <2>1, <2>2
<1>3. CASE SynReceivedAck(seg, i, s)
  <2> DEFINE r == [s EXCEPT !.sesState = "ESTABLISHED"]
  <2>1. Store(i, r) /\ s.sesState = "SYN_RECEIVED"
    BY <1>3 DEF SynReceivedAck
  <2>2. r.remote = s.remote /\ r.srcPort = s.srcPort
        /\ r.sesState = "ESTABLISHED"
    BY DEF Session
  <2> QED
    BY <1>0, <2>1, <2>2
<1>4. CASE Ignored(seg, i, s)
  BY <1>0, <1>4 DEF Ignored
<1>5. CASE EstablishedFin(seg, i, s)
  <2> DEFINE last == [s EXCEPT !.AckNumber = Plus(seg.seq, seg.len + 1)]
             r == [AfterSend(last, {"FIN", "ACK"}) EXCEPT !.sesState = "CLOSED"]
  <2>1. Store(i, r)
    BY <1>5 DEF EstablishedFin
  <2>2. r.remote = s.remote /\ r.srcPort = s.srcPort /\ r.sesState = "CLOSED"
    BY DEF Session, AfterSend
  <2> QED
    BY <1>0, <2>1, <2>2
<1>d. ASSUME NEW n, NEW acks, Deliver(seg, i, Synced(seg, s), n, acks)
      PROVE  /\ \A j \in Sessions \ {i} : tcpSessionTable'[j] = tcpSessionTable[j]
             /\ tcpSessionTable'[i].remote = s.remote
             /\ tcpSessionTable'[i].srcPort = s.srcPort
             /\ tcpSessionTable'[i].sesState = s.sesState
  <2> DEFINE r == [Synced(seg, s) EXCEPT !.AckNumber = Plus(@, n)]
  <2>1. Store(i, r)
    BY <1>d DEF Deliver
  <2>2. r.remote = s.remote /\ r.srcPort = s.srcPort
        /\ r.sesState = s.sesState
    BY DEF Session, Synced
  <2> QED
    BY <1>0, <2>1, <2>2
<1>6. CASE InOrderData(seg, i, s)
  BY <1>6, <1>d DEF InOrderData, IsData
<1>7. CASE OverlappingData(seg, i, s)
  BY <1>7, <1>d DEF OverlappingData, IsData
<1>8. CASE RedundantData(seg, i, s)
  BY <1>8, <1>d DEF RedundantData, IsData
<1>9. CASE GapData(seg, i, s)
  <2>1. Store(i, Synced(seg, s)) /\ s.sesState = "ESTABLISHED"
    BY <1>9 DEF GapData, IsData
  <2>2. /\ Synced(seg, s).remote = s.remote
        /\ Synced(seg, s).srcPort = s.srcPort
        /\ Synced(seg, s).sesState = s.sesState
    BY DEF Session, Synced
  <2> QED
    BY <1>0, <2>1, <2>2
<1> QED
  BY <1>1, <1>2, <1>3, <1>4, <1>5, <1>6, <1>7, <1>8, <1>9 DEF Handle

\* The record TCPProcess works on, when sessions serve one port only: nothing
\* in use belongs to the peer but the session itself, and a new LISTEN record
\* is only made when nothing listens.
LEMMA EntryShape ==
    ASSUME Ports = {SERVICE_PORT}, TableInv, NEW seg \in Segment,
           NEW i \in Sessions, Selected(seg, i)
    PROVE  LET s == Entry(seg, i) IN
           /\ s.srcPort = SERVICE_PORT
           /\ s.sesState # "TIMED_WAIT"
           /\ \A j \in Sessions \ (InState({"CLOSED"}) \cup {i}) :
                 tcpSessionTable[j].remote # seg.remote
           /\ s.sesState = "LISTEN" => InState({"LISTEN"}) \subseteq {i}
           /\ s.sesState = "SYN_RECEIVED" => s.SeqNumber = s.AckNumber
<1> USE DEF TableInv
<1>1. seg.dstPort = SERVICE_PORT
  BY DEF Segment
<1>2. Bound(seg) = {j \in Sessions \ InState({"CLOSED"}) :
                       tcpSessionTable[j].remote = seg.remote}
  BY <1>1 DEF Bound, SessionsServe
<1>3. Listening(seg) = InState({"LISTEN"})
  BY <1>1 DEF Listening, SessionsServe, InState
<1>4. tcpSessionTable[i] \in Session
  BY DEF TypeOK
<1> DEFINE t == [tcpSessionTable[i] EXCEPT !.remote = seg.remote,
                                          !.timeout = TCP_TIMEOUT]
<1>5. /\ t.sesState = tcpSessionTable[i].sesState
      /\ t.srcPort = tcpSessionTable[i].srcPort
      /\ t.SeqNumber = tcpSessionTable[i].SeqNumber
      /\ t.AckNumber = tcpSessionTable[i].AckNumber
      /\ t \in [sesState : States, remote : Remotes,
               srcPort : {NoPort, SERVICE_PORT}, SeqNumber : SeqNumbers,
               AckNumber : SeqNumbers, timeout : {TCP_TIMEOUT}]
  BY <1>4 DEF Session, Segment
<1>6. CASE Bound(seg) # {}
  <2>1. i \in Bound(seg) /\ Entry(seg, i) = t
    BY <1>6 DEF Selected, IsFirst, Entry, Known
  <2> QED
    BY <1>2, <1>5, <2>1
       DEF OneSessionPerPeer, SessionsServe, HandshakeNumbers, InState
<1>7. CASE Bound(seg) = {} /\ Listening(seg) # {}
  <2>1. i \in Listening(seg) /\ Entry(seg, i) = t
    BY <1>7 DEF Selected, IsFirst, Entry, Known
  <2> QED
    BY <1>2, <1>3, <1>5, <1>7, <2>1
       DEF OneSessionPerPeer, SessionsServe, InState
<1>8. CASE Bound(seg) = {} /\ Listening(seg) = {}
  <2>1. Entry(seg, i) = NewSession(t, seg.remote)
    BY <1>8 DEF Entry, Known
  <2>2. Entry(seg, i).sesState = "LISTEN" /\ Entry(seg, i).srcPort = SERVICE_PORT
    BY <1>5, <2>1 DEF NewSession
  <2> QED
    BY <1>2, <1>3, <1>8, <2>2
<1> QED
  BY <1>6, <1>7, <1>8

\* One call of TCPProcess keeps the table invariant.
LEMMA TableStep ==
    ASSUME Ports = {SERVICE_PORT}, TableInv, NEW seg \in Segment,
           NEW i \in Sessions, Selected(seg, i), Handle(seg, i, Entry(seg, i))
    PROVE  TableInv'
<1> DEFINE s == Entry(seg, i)
<1>1. s \in Session /\ s.remote = seg.remote
  BY EntryType DEF TableInv
<1>2. TypeOK'
  BY <1>1, HandleType DEF TableInv, Segment
<1>3. /\ s.srcPort = SERVICE_PORT
      /\ s.sesState # "TIMED_WAIT"
      /\ \A j \in Sessions \ (InState({"CLOSED"}) \cup {i}) :
            tcpSessionTable[j].remote # seg.remote
      /\ s.sesState = "LISTEN" => InState({"LISTEN"}) \subseteq {i}
      /\ s.sesState = "SYN_RECEIVED" => s.SeqNumber = s.AckNumber
  BY EntryShape
<1> HIDE DEF s
<1>4. /\ \A j \in Sessions \ {i} : tcpSessionTable'[j] = tcpSessionTable[j]
      /\ tcpSessionTable'[i].remote = s.remote
      /\ tcpSessionTable'[i].srcPort = s.srcPort
      /\ \/ tcpSessionTable'[i].sesState \in {s.sesState, "CLOSED"}
         \/ /\ s.sesState = "LISTEN"
            /\ tcpSessionTable'[i].sesState = "SYN_RECEIVED"
         \/ /\ s.sesState = "SYN_RECEIVED"
            /\ tcpSessionTable'[i].sesState = "ESTABLISHED"
      /\ tcpSessionTable'[i].sesState = "SYN_RECEIVED" =>
            \/ tcpSessionTable'[i] = s
            \/ tcpSessionTable'[i].SeqNumber = tcpSessionTable'[i].AckNumber
  BY <1>1, HandleShape DEF TableInv, s
<1>5. SessionsServe'
  BY <1>3, <1>4 DEF TableInv, SessionsServe, InState
<1>6. OneSessionPerPeer'
  <2>1. ASSUME NEW j \in (Sessions \ InState({"CLOSED"}))',
               NEW k \in (Sessions \ InState({"CLOSED"}))',
               tcpSessionTable'[j].remote = tcpSessionTable'[k].remote
        PROVE  j = k
    BY <1>1, <1>3, <1>4, <2>1 DEF TableInv, OneSessionPerPeer, InState
  <2>2. ASSUME NEW j \in InState({"LISTEN"})', NEW k \in InState({"LISTEN"})'
        PROVE  j = k
    BY <1>3, <1>4, <2>2 DEF TableInv, OneSessionPerPeer, InState
  <2> QED
    BY <2>1, <2>2 DEF OneSessionPerPeer
<1>7. HandshakeNumbers'
  BY <1>3, <1>4 DEF TableInv, HandshakeNumbers, InState
<1> QED
  BY <1>2, <1>5, <1>6, <1>7 DEF TableInv

\* A step that is not a stutter is one branch for one segment and session.
LEMMA NextIsHandle ==
    ASSUME Next
    PROVE  \E seg \in Segments, i \in Sessions :
              /\ seg \in Segment
              /\ Selected(seg, i)
              /\ Handle(seg, i, Entry(seg, i))
BY SegmentsAssumption DEF Next, TCPProcess

\* As long as every segment is addressed to SERVICE_PORT, a peer never has two
\* sessions, at most one session listens, all sessions in use serve that port,
\* and a half-open session holds equal numbers: the table the lookups of
\* TCPProcess rely on.
THEOREM TableCorrect == Ports = {SERVICE_PORT} /\ Spec => []TableInv
<1> SUFFICES ASSUME Ports = {SERVICE_PORT} PROVE Spec => []TableInv
  OBVIOUS
<1>1. Init => TableInv
  <2>1. Init => TypeOK
    BY SizesAssumption DEF Init, TypeOK, Session, States, SeqNumbers
  <2>2. Init => InState({"CLOSED"}) = Sessions
    BY DEF Init, InState
  <2> QED
    BY <2>1, <2>2 DEF TableInv, SessionsServe, OneSessionPerPeer,
                      HandshakeNumbers, InState, Init
<1>2. TableInv /\ [Next]_vars => TableInv'
  <2> SUFFICES ASSUME TableInv, [Next]_vars PROVE TableInv'
    OBVIOUS
  <2>1. CASE Next
    BY <2>1, NextIsHandle, TableStep
  <2>2. CASE UNCHANGED vars
    BY <2>2 DEF vars, TableInv, TypeOK, SessionsServe, OneSessionPerPeer,
                HandshakeNumbers, InState
  <2> QED
    BY <2>1, <2>2
<1> QED
  BY <1>1, <1>2, PTL DEF Spec

\* A peer has at most one session, and at most one session listens.
THEOREM PeersHaveOneSession ==
    Ports = {SERVICE_PORT} /\ Spec => []OneSessionPerPeer
BY TableCorrect, PTL DEF TableInv

\* Every session in use serves SERVICE_PORT and none waits in TIMED_WAIT.
THEOREM SessionsAlwaysServe == Ports = {SERVICE_PORT} /\ Spec => []SessionsServe
BY TableCorrect, PTL DEF TableInv

\* A half-open session's next number to send is its next number to receive.
THEOREM HandshakeNumbersEqual ==
    Ports = {SERVICE_PORT} /\ Spec => []HandshakeNumbers
BY TableCorrect, PTL DEF TableInv

\* Only "force session 0" takes a live session from its peer, for a segment
\* that no session listens for, when no entry is closed.
LEMMA EvictionIsForced ==
    ASSUME TypeOK, Next, NEW k \in InState(Live),
           tcpSessionTable'[k].remote # tcpSessionTable[k].remote
    PROVE  /\ k = 0
           /\ InState({"CLOSED"}) = {}
           /\ InState({"TIMED_WAIT"}) = {}
           /\ \E seg \in Segment : Listening(seg) = {}
<1>1. PICK seg \in Segment, i \in Sessions :
          Selected(seg, i) /\ Handle(seg, i, Entry(seg, i))
  BY NextIsHandle
<1>2. Entry(seg, i) \in Session /\ Entry(seg, i).remote = seg.remote
  BY EntryType
<1>3. /\ \A j \in Sessions \ {i} : tcpSessionTable'[j] = tcpSessionTable[j]
      /\ tcpSessionTable'[i].remote = seg.remote
  BY <1>1, <1>2, HandleShape
<1>4. k = i /\ seg.remote # tcpSessionTable[i].remote
  BY <1>3 DEF InState
<1>5. Bound(seg) = {}
  BY <1>1, <1>4 DEF Selected, IsFirst, Bound
<1>6. Listening(seg) = {}
  BY <1>1, <1>4, <1>5 DEF Selected, IsFirst, Listening, InState, Live
<1>7. IsFirst(i, Reusable)
  BY <1>1, <1>5, <1>6 DEF Selected
<1>8. InState({"CLOSED"}) = {} /\ InState({"TIMED_WAIT"}) = {} /\ i = 0
  BY <1>4, <1>7 DEF Reusable, IsFirst, InState, Live
<1> QED
  BY <1>4, <1>6, <1>8

\* Whatever the ports, a live session is taken from its peer only as session 0
\* and only when no entry of the table is closed.
THEOREM EvictionNeedsUnclosedTable == Spec => OnlyUnclosedTableEvicts
<1> DEFINE Evicts ==
      \A i \in InState(Live) :
         tcpSessionTable'[i].remote # tcpSessionTable[i].remote
             => i = 0 /\ InState({"CLOSED"}) = {}
<1>1. TypeOK /\ [Next]_vars => [Evicts]_vars
  BY EvictionIsForced
<1> QED
  BY <1>1, TypeCorrect, PTL DEF Spec, OnlyUnclosedTableEvicts

\* With one port, it is taken only from a table full of live sessions: then
\* "no session listens for this segment" means that none listens at all.
THEOREM EvictionNeedsFullTable ==
    Ports = {SERVICE_PORT} /\ Spec => OnlyFullTableEvicts
<1> SUFFICES ASSUME Ports = {SERVICE_PORT} PROVE Spec => OnlyFullTableEvicts
  OBVIOUS
<1> DEFINE Evicts ==
      \A i \in InState(Live) :
         tcpSessionTable'[i].remote # tcpSessionTable[i].remote
             => i = 0 /\ InState(Live) = Sessions
<1>1. TableInv /\ [Next]_vars => [Evicts]_vars
  <2> SUFFICES ASSUME TableInv, Next, NEW k \in InState(Live),
                      tcpSessionTable'[k].remote # tcpSessionTable[k].remote
               PROVE  k = 0 /\ InState(Live) = Sessions
    OBVIOUS
  <2>1. /\ k = 0
        /\ InState({"CLOSED"}) = {}
        /\ InState({"TIMED_WAIT"}) = {}
        /\ \E seg \in Segment : Listening(seg) = {}
    BY EvictionIsForced DEF TableInv
  <2>2. InState({"LISTEN"}) = {}
    BY <2>1 DEF Listening, InState, Segment, TableInv, SessionsServe
  <2>3. InState(Live) = Sessions
    BY <2>1, <2>2 DEF InState, Live, TableInv, TypeOK, Session, States
  <2> QED
    BY <2>1, <2>3
<1> QED
  BY <1>1, TableCorrect, PTL DEF Spec, OnlyFullTableEvicts

\* A peer without a live session gets a listening one, whether the entry it
\* finds is its own, listening, closed or taken by force.
LEMMA NewcomerListens ==
    ASSUME Ports = {SERVICE_PORT}, TableInv, NEW seg \in Segment,
           seg.remote \notin RemotesIn(Live),
           NEW i \in Sessions, Selected(seg, i)
    PROVE  Entry(seg, i).sesState = "LISTEN"
<1> DEFINE t == [tcpSessionTable[i] EXCEPT !.remote = seg.remote,
                                          !.timeout = TCP_TIMEOUT]
<1>1. tcpSessionTable[i] \in Session
  BY DEF TableInv, TypeOK
<1>2. t.sesState = tcpSessionTable[i].sesState
  BY <1>1 DEF Session
<1>3. CASE Bound(seg) # {}
  <2>1. i \in Bound(seg) /\ Entry(seg, i) = t
    BY <1>3 DEF Selected, IsFirst, Entry, Known
  <2>2. i \notin InState(Live) /\ i \notin InState({"CLOSED"})
    BY <2>1 DEF Bound, RemotesIn
  <2>3. tcpSessionTable[i].sesState \notin {"CLOSED", "TIMED_WAIT"} \cup Live
    BY <2>2 DEF TableInv, SessionsServe, InState
  <2> QED
    BY <1>1, <1>2, <2>1, <2>3 DEF Session, States, Live
<1>4. CASE Bound(seg) = {} /\ Listening(seg) # {}
  <2>1. i \in Listening(seg) /\ Entry(seg, i) = t
    BY <1>4 DEF Selected, IsFirst, Entry, Known
  <2> QED
    BY <1>2, <2>1 DEF Listening, InState
<1>5. CASE Bound(seg) = {} /\ Listening(seg) = {}
  <2>1. Entry(seg, i) = NewSession(t, seg.remote)
    BY <1>5 DEF Entry, Known
  <2> QED
    BY <1>1, <2>1 DEF NewSession, Session
<1> QED
  BY <1>3, <1>4, <1>5

\* The SYN of a peer without a live session is answered by the call that takes
\* it, however many hung sessions the table holds.
THEOREM NewcomersAreServed ==
    Ports = {SERVICE_PORT} /\ Spec => NewcomersServed
<1> SUFFICES ASSUME Ports = {SERVICE_PORT} PROVE Spec => NewcomersServed
  OBVIOUS
<1> DEFINE Served ==
      \A seg \in Syns :
         seg.remote \notin RemotesIn(Live) /\ TCPProcess(seg)
         => /\ \E k \in DOMAIN sent' :
                  /\ sent'[k].remote = seg.remote
                  /\ sent'[k].flags = {"SYN", "ACK"}
                  /\ sent'[k].ack = Plus(seg.seq, 1)
            /\ seg.remote \in RemotesIn({"SYN_RECEIVED"})'
<1>1. TableInv /\ [Next]_vars => [Served]_vars
  <2> SUFFICES ASSUME TableInv, NEW seg \in Syns,
                      seg.remote \notin RemotesIn(Live), TCPProcess(seg)
               PROVE  /\ \E k \in DOMAIN sent' :
                            /\ sent'[k].remote = seg.remote
                            /\ sent'[k].flags = {"SYN", "ACK"}
                            /\ sent'[k].ack = Plus(seg.seq, 1)
                      /\ seg.remote \in RemotesIn({"SYN_RECEIVED"})'
    OBVIOUS
  <2>1. seg \in Segment /\ seg.flags = {"SYN"}
    BY SegmentsAssumption DEF Syns
  <2>2. PICK i \in Sessions : Selected(seg, i) /\ Handle(seg, i, Entry(seg, i))
    BY DEF TCPProcess
  <2> DEFINE s == Entry(seg, i)
             opened == [s EXCEPT !.sesState = "SYN_RECEIVED",
                                 !.SeqNumber = seg.seq,
                                 !.AckNumber = Plus(seg.seq, 1)]
             r == AfterSend(opened, {"SYN", "ACK"})
  <2>3. s \in Session /\ s.remote = seg.remote /\ s.sesState = "LISTEN"
    BY <2>1, <2>2, EntryType, NewcomerListens DEF TableInv
  <2>4. ListenSyn(seg, i, s)
    BY <2>1, <2>2, <2>3 DEF Handle, Reset, SynReceivedAck, Ignored,
          EstablishedFin, InOrderData, OverlappingData, RedundantData,
          GapData, IsData
  <2>5. Store(i, r) /\ sent' = <<Packed(opened, {"SYN", "ACK"})>>
    BY <2>4 DEF ListenSyn
  <2>6. tcpSessionTable'[i] = r
    BY <2>5 DEF Store, TableInv, TypeOK
  <2>7. r.remote = seg.remote /\ r.sesState = "SYN_RECEIVED"
    BY <2>3 DEF Session, AfterSend
  <2>8. seg.remote \in RemotesIn({"SYN_RECEIVED"})'
    BY <2>6, <2>7 DEF RemotesIn, InState
  <2>9. /\ opened.remote = seg.remote
        /\ opened.AckNumber = Plus(seg.seq, 1)
    BY <2>3 DEF Session
  <2>10. /\ 1 \in DOMAIN sent'
         /\ sent'[1] = Packed(opened, {"SYN", "ACK"})
    BY <2>5
  <2>11. /\ sent'[1].remote = seg.remote
         /\ sent'[1].flags = {"SYN", "ACK"}
         /\ sent'[1].ack = Plus(seg.seq, 1)
    BY <2>9, <2>10 DEF Packed
  <2> QED
    BY <2>8, <2>10, <2>11
<1> QED
  BY <1>1, TableCorrect, PTL DEF Spec, NewcomersServed

---------------------------------------------------------------------------
(* The byte stream *)

\* No bytes advance no sequence number.
LEMMA PlusZero ==
    ASSUME NEW n \in SeqNumbers
    PROVE  Plus(n, 0) = n /\ Bytes(n, 0) = {}
BY SizesAssumption DEF Plus, Bytes, SeqNumbers

\* The bytes from number b on are among those from number a <= b on.
LEMMA BytesSuffix ==
    ASSUME NEW a \in SeqNumbers, NEW b \in SeqNumbers, NEW n \in Nat,
           a <= b, b - a <= n
    PROVE  Bytes(b, n - (b - a)) \subseteq Bytes(a, n)
<1> SUFFICES ASSUME NEW k \in 0 .. n - (b - a) - 1
             PROVE  Plus(b, k) \in Bytes(a, n)
  BY SizesAssumption DEF Bytes, SeqNumbers
<1>1. b - a + k \in 0 .. n - 1 /\ b + k = a + (b - a + k)
  BY SizesAssumption DEF SeqNumbers
<1>2. Plus(b, k) = Plus(a, b - a + k)
  BY <1>1 DEF Plus
<1> QED
  BY <1>1, <1>2 DEF Bytes

\* One call on an established session that stays established.
LEMMA AdvanceIsPrinted ==
    ASSUME TypeOK, NEW seg \in Segment, NEW i \in Sessions,
           NEW s \in Session, s.remote \in Remotes, s.sesState = "ESTABLISHED",
           FrameLen(seg) < MSS,
           Handle(seg, i, s), tcpSessionTable'[i].sesState = "ESTABLISHED"
    PROVE  \E n \in 0 .. MaxLen :
              /\ tcpSessionTable'[i].AckNumber = Plus(s.AckNumber, n)
              /\ Bytes(s.AckNumber, n) \subseteq printed'
<1>0. ASSUME NEW r, Store(i, r) PROVE tcpSessionTable'[i] = r
  BY <1>0 DEF Store, TypeOK
<1>t. /\ s.AckNumber \in SeqNumbers /\ seg.seq \in SeqNumbers
      /\ seg.len \in 0 .. MaxLen /\ MaxLen \in Nat /\ SeqMod \in Nat
  BY SizesAssumption DEF Session, Segment
<1>d. ASSUME NEW n \in 0 .. MaxLen, NEW acks,
             Deliver(seg, i, Synced(seg, s), n, acks)
      PROVE  /\ tcpSessionTable'[i].AckNumber = Plus(s.AckNumber, n)
             /\ printed' = Bytes(seg.seq, seg.len)
  <2>1. Synced(seg, s) \in Session /\ Synced(seg, s).AckNumber = s.AckNumber
    BY SyncedType
  <2> QED
    BY <1>0, <1>d, <2>1 DEF Deliver, Session, Arrived
<1>1. CASE InOrderData(seg, i, s)
  BY <1>t, <1>d, <1>1 DEF InOrderData
<1>2. CASE OverlappingData(seg, i, s)
  <2> DEFINE n == seg.len - (s.AckNumber - seg.seq)
  <2>1. /\ seg.seq < s.AckNumber
        /\ s.AckNumber - seg.seq < seg.len
        /\ Deliver(seg, i, Synced(seg, s), n, Pushed(seg))
    BY <1>2 DEF OverlappingData
  <2>2. n \in 0 .. MaxLen
    BY <1>t, <2>1 DEF SeqNumbers
  <2>3. Bytes(s.AckNumber, n) \subseteq Bytes(seg.seq, seg.len)
    BY <1>t, <2>1, BytesSuffix DEF SeqNumbers
  <2> QED
    BY <1>d, <2>1, <2>2, <2>3
<1>3. CASE RedundantData(seg, i, s)
  <2>1. PICK acks \in {1, 2} : Deliver(seg, i, Synced(seg, s), 0, acks)
    BY <1>3 DEF RedundantData
  <2> QED
    BY <1>t, <1>d, <2>1, PlusZero
<1>4. CASE GapData(seg, i, s)
  <2>1. tcpSessionTable'[i].AckNumber = s.AckNumber
    BY <1>0, <1>4, SyncedType DEF GapData
  <2> QED
    BY <1>t, <2>1, PlusZero
<1>5. CASE Reset(seg, i, s) \/ EstablishedFin(seg, i, s)
  <2>1. tcpSessionTable'[i].sesState = "CLOSED"
    BY <1>0, <1>5 DEF Reset, EstablishedFin, AfterSend, Session
  <2> QED
    BY <2>1
<1> QED
  BY <1>1, <1>2, <1>3, <1>4, <1>5
     DEF Handle, ListenSyn, SynReceivedAck, Ignored

\* While a session stays established its AckNumber moves forward by at most
\* one payload, over bytes the same call prints: what the firmware
\* acknowledges it has put on the console, in whatever order it arrived, as
\* long as no segment fills the receive buffer.
THEOREM AcknowledgedBytesPrinted ==
    ShortSegments /\ Spec => AcknowledgedIsPrinted
<1> SUFFICES ASSUME ShortSegments PROVE Spec => AcknowledgedIsPrinted
  OBVIOUS
<1> DEFINE Advances ==
      \A i \in InState({"ESTABLISHED"}) :
         tcpSessionTable'[i].sesState = "ESTABLISHED" =>
            \E n \in 0 .. MaxLen :
               /\ tcpSessionTable'[i].AckNumber =
                     Plus(tcpSessionTable[i].AckNumber, n)
               /\ Bytes(tcpSessionTable[i].AckNumber, n) \subseteq printed'
<1>1. TypeOK /\ [Next]_vars => [Advances]_vars
  <2> SUFFICES ASSUME TypeOK, Next, NEW k \in InState({"ESTABLISHED"}),
                      tcpSessionTable'[k].sesState = "ESTABLISHED"
               PROVE  \E n \in 0 .. MaxLen :
                         /\ tcpSessionTable'[k].AckNumber =
                               Plus(tcpSessionTable[k].AckNumber, n)
                         /\ Bytes(tcpSessionTable[k].AckNumber, n)
                               \subseteq printed'
    OBVIOUS
  <2>1. PICK seg \in Segment, i \in Sessions :
            /\ Selected(seg, i)
            /\ Handle(seg, i, Entry(seg, i))
            /\ FrameLen(seg) < MSS
    BY NextIsHandle DEF ShortSegments
  <2>2. Entry(seg, i) \in Session /\ Entry(seg, i).remote \in Remotes
    BY EntryType DEF Segment
  <2>3. k \in Sessions /\ tcpSessionTable[k] \in Session
        /\ tcpSessionTable[k].sesState = "ESTABLISHED"
    BY DEF InState, TypeOK
  <2>4. CASE k # i
    <3>1. tcpSessionTable'[k] = tcpSessionTable[k]
      BY <2>1, <2>2, <2>3, <2>4, HandleShape
    <3> QED
      BY <2>3, <3>1, PlusZero, SizesAssumption DEF Session
  <2>5. CASE k = i
    <3>1. \/ Entry(seg, i).sesState = "LISTEN"
          \/ /\ Entry(seg, i).sesState = "ESTABLISHED"
             /\ Entry(seg, i).AckNumber = tcpSessionTable[i].AckNumber
      BY <2>3, <2>5 DEF Entry, NewSession, Session
    <3>2. Entry(seg, i).sesState # "LISTEN"
      BY <2>1, <2>2, <2>5, HandleShape
    <3> QED
      BY <2>1, <2>2, <2>5, <3>1, <3>2, AdvanceIsPrinted
  <2> QED
    BY <2>4, <2>5
<1> QED
  BY <1>1, TypeCorrect, PTL DEF Spec, AcknowledgedIsPrinted

---------------------------------------------------------------------------
(* The refinement of TcpConnections: the table invariant makes the mapping   *)
(* read one session per peer, and counts them.                               *)

\* Every live session belongs to a peer, none to the zero address.
LiveHavePeers == \A i \in InState(Live) : tcpSessionTable[i].remote \in Remotes

ServiceInv == TableInv /\ LiveHavePeers

\* The live entries of a table, and the mapping as a function of the table.
LiveIn(table) == {i \in Sessions : table[i].sesState \in Live}

ConnectionsIn(table) ==
    [p \in Remotes |->
        IF \E i \in LiveIn(table) : table[i].remote = p
        THEN StatusOf(table[CHOOSE i \in LiveIn(table) : table[i].remote = p].sesState)
        ELSE "none"]

\* The mapping, by what it takes of the table.
LEMMA MappingOfTable ==
    /\ connection = ConnectionsIn(tcpSessionTable)
    /\ connection' = ConnectionsIn(tcpSessionTable')
    /\ InState(Live) = LiveIn(tcpSessionTable)
BY DEF connection, ConnectionsIn, LiveIn, InState

\* When no two live sessions are of one peer, the mapping shows each of them.
LEMMA MappingShows ==
    ASSUME NEW table,
           \A i, j \in LiveIn(table) : table[i].remote = table[j].remote => i = j,
           NEW p \in Remotes
    PROVE  /\ \A i \in LiveIn(table) :
                 table[i].remote = p =>
                     ConnectionsIn(table)[p] = StatusOf(table[i].sesState)
           /\ (\A i \in LiveIn(table) : table[i].remote # p) =>
                 ConnectionsIn(table)[p] = "none"
           /\ ConnectionsIn(table)[p] # "none" =>
                 \E i \in LiveIn(table) : table[i].remote = p
<1>1. ASSUME NEW i \in LiveIn(table), table[i].remote = p
      PROVE  ConnectionsIn(table)[p] = StatusOf(table[i].sesState)
  <2>. DEFINE found == CHOOSE k \in LiveIn(table) : table[k].remote = p
  <2>1. found \in LiveIn(table) /\ table[found].remote = p
    BY <1>1
  <2>2. found = i
    BY <1>1, <2>1
  <2>. HIDE DEF found
  <2>3. ConnectionsIn(table)[p] = StatusOf(table[found].sesState)
    BY <1>1 DEF ConnectionsIn, found
  <2>. QED
    BY <2>2, <2>3
<1>2. ASSUME \A i \in LiveIn(table) : table[i].remote # p
      PROVE  ConnectionsIn(table)[p] = "none"
  BY <1>2 DEF ConnectionsIn
<1>. QED
  BY <1>1, <1>2

\* A session has a status.
LEMMA StatusIsNone == ASSUME NEW state PROVE StatusOf(state) # "none"
BY DEF StatusOf

\* The table invariant, as the mapping needs it.
LEMMA OneEach ==
    ASSUME ServiceInv
    PROVE  \A i, j \in LiveIn(tcpSessionTable) :
               tcpSessionTable[i].remote = tcpSessionTable[j].remote => i = j
BY DEF ServiceInv, TableInv, OneSessionPerPeer, LiveIn, InState, Live

\* The instance counts with the Cardinality that this module counts with.
LEMMA SameCardinality ==
    ASSUME NEW S PROVE Connections!Cardinality(S) = Cardinality(S)
BY DEF Connections!Cardinality, Cardinality

\* As many peers are connected as sessions are live.
LEMMA ConnectedCount ==
    ASSUME ServiceInv
    PROVE  /\ Cardinality(Connections!Connected) = TCP_MAX_SESSION
                  <=> LiveIn(tcpSessionTable) = Sessions
           /\ Cardinality(Connections!Connected) <= TCP_MAX_SESSION
           /\ Cardinality(Connections!Connected) \in Nat
<1>. DEFINE live == LiveIn(tcpSessionTable)
            peer == [i \in live |-> tcpSessionTable[i].remote]
            connected == Connections!Connected
<1>1. IsFiniteSet(Sessions) /\ Cardinality(Sessions) = TCP_MAX_SESSION
  <2>1. /\ 0 \in Int /\ TCP_MAX_SESSION - 1 \in Int /\ TCP_MAX_SESSION \in Int
        /\ ~(0 > TCP_MAX_SESSION - 1) /\ TCP_MAX_SESSION - 1 - 0 + 1 = TCP_MAX_SESSION
    BY SizesAssumption
  <2>. QED
    BY <2>1, FS_Interval DEF Sessions
<1>2. /\ live \in SUBSET Sessions /\ IsFiniteSet(live)
      /\ Cardinality(live) <= TCP_MAX_SESSION
      /\ Cardinality(live) = TCP_MAX_SESSION <=> live = Sessions
      /\ Cardinality(live) \in Nat
  <2>1. live \in SUBSET Sessions
    BY DEF LiveIn
  <2>. QED
    BY <1>1, <2>1, FS_Subset, FS_CardinalityType
<1>3. connected = {p \in Remotes : \E i \in live : tcpSessionTable[i].remote = p}
  <2>1. \A p \in Remotes :
          connection[p] # "none" <=> \E i \in live : tcpSessionTable[i].remote = p
    BY OneEach, MappingOfTable, MappingShows, StatusIsNone
  <2>. QED
    BY <2>1 DEF Connections!Connected
<1>4. \A i \in live : tcpSessionTable[i].remote \in Remotes
  BY MappingOfTable DEF ServiceInv, LiveHavePeers
<1>5. peer \in Bijection(live, connected)
  <2>1. peer \in [live -> connected]
    BY <1>3, <1>4
  <2>2. peer \in Injection(live, connected)
    <3>1. \A i, j \in live : peer[i] = peer[j] => i = j
      BY OneEach
    <3>. HIDE DEF live, peer, connected
    <3>. QED
      BY <2>1, <3>1 DEF Injection, IsInjective
  <2>3. peer \in Surjection(live, connected)
    BY <1>3, <2>1 DEF Surjection
  <2>. QED
    BY <2>2, <2>3 DEF Bijection
<1>6. Cardinality(connected) = Cardinality(live)
  BY <1>2, <1>5, FS_Bijection DEF ExistsBijection
<1>. QED
  BY <1>2, <1>6

---------------------------------------------------------------------------
(* Every call is an abstract step *)

\* What one call does to the live sessions: it changes entry i, from whatever it
\* was, for the peer p of the segment.
LEMMA CallShape ==
    ASSUME Ports = {SERVICE_PORT}, ServiceInv, NEW seg \in Segment,
           NEW i \in Sessions, Selected(seg, i), Handle(seg, i, Entry(seg, i))
    PROVE  LET p == seg.remote
               old == tcpSessionTable[i]
               new == tcpSessionTable'[i]
           IN  /\ ServiceInv'
               /\ p \in Remotes /\ new.remote = p
               /\ \A j \in Sessions \ {i} : tcpSessionTable'[j] = tcpSessionTable[j]
               /\ \A j \in LiveIn(tcpSessionTable) \ {i} : tcpSessionTable[j].remote # p
               /\ \/ /\ old.sesState \in Live /\ old.remote = p
                     /\ \/ new.sesState = old.sesState
                        \/ new.sesState = "CLOSED"
                        \/ old.sesState = "SYN_RECEIVED" /\ new.sesState = "ESTABLISHED"
                  \/ /\ old.sesState \in Live => /\ old.remote # p
                                                 /\ LiveIn(tcpSessionTable) = Sessions
                     /\ new.sesState \in {"LISTEN", "CLOSED", "SYN_RECEIVED"}
<1>. DEFINE s == Entry(seg, i)
            old == tcpSessionTable[i]
            new == tcpSessionTable'[i]
<1>. USE DEF ServiceInv
<1>1. s \in Session /\ s.remote = seg.remote /\ seg.remote \in Remotes
  BY EntryType DEF TableInv, Segment
<1>2. TableInv'
  BY TableStep
<1>3. /\ \A j \in Sessions \ {i} : tcpSessionTable'[j] = tcpSessionTable[j]
      /\ new.remote = seg.remote
      /\ \/ new.sesState \in {s.sesState, "CLOSED"}
         \/ s.sesState = "LISTEN" /\ new.sesState = "SYN_RECEIVED"
         \/ s.sesState = "SYN_RECEIVED" /\ new.sesState = "ESTABLISHED"
  BY <1>1, HandleShape DEF TableInv
<1>4. LiveHavePeers'
  BY <1>1, <1>3 DEF LiveHavePeers, InState
<1>5. \A j \in LiveIn(tcpSessionTable) \ {i} : tcpSessionTable[j].remote # seg.remote
  BY EntryShape DEF LiveIn, InState, Live
<1>6. old \in Session
  BY DEF TableInv, TypeOK
<1>7. CASE Bound(seg) # {}
  <2>1. i \in Bound(seg) /\ s.sesState = old.sesState
    BY <1>6, <1>7 DEF Selected, IsFirst, Entry, Known, Session
  <2>2. old.remote = seg.remote /\ old.sesState \in {"LISTEN", "SYN_RECEIVED", "ESTABLISHED"}
    BY <1>6, <2>1 DEF Bound, InState, TableInv, SessionsServe, Session, States
  <2>. QED
    BY <1>1, <1>2, <1>3, <1>4, <1>5, <2>1, <2>2 DEF Live
<1>8. CASE Bound(seg) = {} /\ Listening(seg) # {}
  <2>1. i \in Listening(seg) /\ s.sesState = old.sesState
    BY <1>6, <1>8 DEF Selected, IsFirst, Entry, Known, Session
  <2>2. old.sesState = "LISTEN"
    BY <2>1 DEF Listening, InState
  <2>. QED
    BY <1>1, <1>2, <1>3, <1>4, <1>5, <2>1, <2>2 DEF Live
<1>9. CASE Bound(seg) = {} /\ Listening(seg) = {}
  <2>1. s.sesState = "LISTEN" /\ i \in Reusable
    <3>1. s = NewSession([old EXCEPT !.remote = seg.remote, !.timeout = TCP_TIMEOUT],
                         seg.remote)
      BY <1>9 DEF Entry, Known
    <3>. QED
      BY <1>6, <1>9, <3>1 DEF NewSession, Session, Selected, IsFirst
  <2>2. ASSUME old.sesState \in Live
        PROVE  old.remote # seg.remote /\ LiveIn(tcpSessionTable) = Sessions
    <3>1. old.remote # seg.remote
      <4>1. seg.dstPort = SERVICE_PORT /\ old.srcPort = SERVICE_PORT
        BY <2>2 DEF Segment, TableInv, SessionsServe, InState, Live
      <4>. QED
        BY <1>9, <2>2, <4>1 DEF Bound, InState, Live
    <3>2. InState({"CLOSED"}) = {} /\ InState({"TIMED_WAIT"}) = {}
      BY <2>1, <2>2 DEF Reusable, InState, Live
    <3>3. InState({"LISTEN"}) = {}
      BY <1>9 DEF Listening, InState, Segment, TableInv, SessionsServe
    <3>4. \A j \in Sessions : tcpSessionTable[j].sesState \in Live
      BY <3>2, <3>3 DEF InState, Live, TableInv, TypeOK, Session, States
    <3>. QED
      BY <3>1, <3>4 DEF LiveIn
  <2>. QED
    BY <1>1, <1>2, <1>3, <1>4, <1>5, <2>1, <2>2
<1>. QED
  BY <1>7, <1>8, <1>9

\* The call as a step of the connections.
LEMMA CallIsAbstractStep ==
    ASSUME Ports = {SERVICE_PORT}, ServiceInv, NEW seg \in Segment,
           NEW i \in Sessions, Selected(seg, i), Handle(seg, i, Entry(seg, i))
    PROVE  [Connections!Next]_connection
<1>. DEFINE p == seg.remote
            old == tcpSessionTable[i]
            new == tcpSessionTable'[i]
            status == IF new.sesState \in Live THEN StatusOf(new.sesState) ELSE "none"
<1>1. /\ ServiceInv'
      /\ p \in Remotes /\ new.remote = p
      /\ \A j \in Sessions \ {i} : tcpSessionTable'[j] = tcpSessionTable[j]
      /\ \A j \in LiveIn(tcpSessionTable) \ {i} : tcpSessionTable[j].remote # p
      /\ \/ /\ old.sesState \in Live /\ old.remote = p
            /\ \/ new.sesState = old.sesState
               \/ new.sesState = "CLOSED"
               \/ old.sesState = "SYN_RECEIVED" /\ new.sesState = "ESTABLISHED"
         \/ /\ old.sesState \in Live => /\ old.remote # p
                                        /\ LiveIn(tcpSessionTable) = Sessions
            /\ new.sesState \in {"LISTEN", "CLOSED", "SYN_RECEIVED"}
  BY CallShape
<1>2. \A j, k \in LiveIn(tcpSessionTable') :
        tcpSessionTable'[j].remote = tcpSessionTable'[k].remote => j = k
  BY <1>1 DEF ServiceInv, TableInv, OneSessionPerPeer, LiveIn, InState, Live
<1>3. /\ connection = ConnectionsIn(tcpSessionTable)
      /\ connection' = ConnectionsIn(tcpSessionTable')
      /\ DOMAIN connection = Remotes /\ DOMAIN connection' = Remotes
      /\ connection = [q \in Remotes |-> connection[q]]
      /\ connection' = [q \in Remotes |-> connection'[q]]
  BY MappingOfTable DEF ConnectionsIn
<1>4. connection'[p] = status
  <2>1. CASE new.sesState \in Live
    <3>1. i \in LiveIn(tcpSessionTable')
      BY <2>1 DEF LiveIn
    <3>. QED
      BY <1>1, <1>2, <1>3, <2>1, <3>1, MappingShows
  <2>2. CASE new.sesState \notin Live
    <3>1. \A j \in LiveIn(tcpSessionTable') : tcpSessionTable'[j].remote # p
      BY <1>1, <2>2 DEF LiveIn
    <3>. QED
      BY <1>1, <1>2, <1>3, <2>2, <3>1, MappingShows
  <2>. QED
    BY <2>1, <2>2
<1>5. ASSUME NEW q \in Remotes, q # p, old.sesState \in Live => old.remote # q
      PROVE  connection'[q] = connection[q]
  <2>1. CASE \E j \in LiveIn(tcpSessionTable) : tcpSessionTable[j].remote = q
    <3>1. PICK j \in LiveIn(tcpSessionTable) : tcpSessionTable[j].remote = q
      BY <2>1
    <3>2. j # i /\ j \in Sessions
      BY <1>5, <3>1 DEF LiveIn
    <3>3. j \in LiveIn(tcpSessionTable') /\ tcpSessionTable'[j] = tcpSessionTable[j]
      BY <1>1, <3>1, <3>2 DEF LiveIn
    <3>4. connection[q] = StatusOf(tcpSessionTable[j].sesState)
      BY <1>3, <3>1, OneEach, MappingShows
    <3>5. connection'[q] = StatusOf(tcpSessionTable'[j].sesState)
      BY <1>2, <1>3, <3>1, <3>3, MappingShows
    <3>. QED
      BY <3>3, <3>4, <3>5
  <2>2. CASE ~\E j \in LiveIn(tcpSessionTable) : tcpSessionTable[j].remote = q
    <3>1. connection[q] = "none"
      BY <1>3, <2>2, OneEach, MappingShows
    <3>2. \A j \in LiveIn(tcpSessionTable') : tcpSessionTable'[j].remote # q
      BY <1>1, <1>5, <2>2 DEF LiveIn
    <3>3. connection'[q] = "none"
      BY <1>2, <1>3, <3>2, MappingShows
    <3>. QED
      BY <3>1, <3>3
  <2>. QED
    BY <2>1, <2>2
<1>6. ASSUME old.sesState \in Live => old.remote = p
      PROVE  connection' = [connection EXCEPT ![p] = status]
  <2>1. \A q \in Remotes : connection'[q] = IF q = p THEN status ELSE connection[q]
    BY <1>4, <1>5, <1>6
  <2>. HIDE DEF p, status
  <2>. QED
    BY <1>3, <2>1
<1>7. CASE old.sesState \in Live /\ old.remote = p
  <2>1. connection[p] = StatusOf(old.sesState) /\ connection[p] # "none"
    <3>1. i \in LiveIn(tcpSessionTable)
      BY <1>7 DEF LiveIn
    <3>. QED
      BY <1>1, <1>3, <1>7, <3>1, OneEach, MappingShows, StatusIsNone
  <2>2. CASE new.sesState = old.sesState
    <3>1. status = connection[p]
      BY <1>7, <2>1, <2>2
    <3>2. connection' = connection
      BY <1>1, <1>3, <1>6, <1>7, <3>1
    <3>. QED
      BY <3>2
  <2>3. CASE new.sesState = "CLOSED"
    <3>1. status = "none"
      BY <2>3 DEF Live
    <3>2. Connections!Close(p)
      BY <1>6, <1>7, <2>1, <3>1 DEF Connections!Close
    <3>. QED
      BY <1>1, <3>2 DEF Connections!Next
  <2>4. CASE old.sesState = "SYN_RECEIVED" /\ new.sesState = "ESTABLISHED"
    <3>1. status = "open" /\ connection[p] = "opening"
      BY <2>1, <2>4 DEF Live, StatusOf
    <3>2. Connections!Accept(p)
      BY <1>6, <1>7, <3>1 DEF Connections!Accept
    <3>. QED
      BY <1>1, <3>2 DEF Connections!Next
  <2>. QED
    BY <1>1, <1>7, <2>2, <2>3, <2>4
<1>8. CASE ~(old.sesState \in Live /\ old.remote = p)
  <2>1. /\ old.sesState \in Live => LiveIn(tcpSessionTable) = Sessions
        /\ new.sesState \in {"LISTEN", "CLOSED", "SYN_RECEIVED"}
        /\ status \in {"none", "opening"}
    BY <1>1, <1>8 DEF Live, StatusOf
  <2>2. connection[p] = "none"
    <3>1. \A j \in LiveIn(tcpSessionTable) : tcpSessionTable[j].remote # p
      BY <1>1, <1>8 DEF LiveIn
    <3>. QED
      BY <1>1, <1>3, <3>1, OneEach, MappingShows
  <2>3. CASE old.sesState \notin Live
    <3>1. connection' = [connection EXCEPT ![p] = status]
      BY <1>6, <2>3
    <3>2. CASE status = "none"
      <4>1. connection' = connection
        BY <1>1, <1>3, <2>2, <3>1, <3>2
      <4>. QED
        BY <4>1
    <3>3. CASE status = "opening"
      <4>1. Cardinality(Connections!Connected) < TCP_MAX_SESSION
        <5>1. LiveIn(tcpSessionTable) # Sessions
          BY <2>3 DEF LiveIn
        <5>. QED
          BY <5>1, ConnectedCount, SizesAssumption
      <4>2. Connections!Open(p)
        <5>1. connection' = [connection EXCEPT ![p] = "opening"]
          BY <3>1, <3>3
        <5>. QED
          BY <2>2, <4>1, <5>1, SameCardinality DEF Connections!Open
      <4>. QED
        BY <1>1, <4>2 DEF Connections!Next
    <3>. QED
      BY <2>1, <3>2, <3>3
  <2>4. CASE old.sesState \in Live
    <3>. DEFINE victim == old.remote
    <3>1. victim \in Remotes /\ victim # p /\ connection[victim] # "none"
      <4>1. i \in LiveIn(tcpSessionTable) /\ victim \in Remotes
        BY <2>4, MappingOfTable DEF LiveIn, ServiceInv, LiveHavePeers
      <4>. QED
        BY <1>3, <1>8, <2>4, <4>1, OneEach, MappingShows, StatusIsNone
    <3>2. connection'[victim] = "none"
      <4>1. \A j \in LiveIn(tcpSessionTable') : tcpSessionTable'[j].remote # victim
        <5>1. \A j \in LiveIn(tcpSessionTable) : j # i => tcpSessionTable[j].remote # victim
          BY <2>4, OneEach DEF LiveIn
        <5>. QED
          BY <1>1, <3>1, <5>1 DEF LiveIn
      <4>. QED
        BY <1>2, <1>3, <3>1, <4>1, MappingShows
    <3>3. Cardinality(Connections!Connected) = TCP_MAX_SESSION
      BY <2>1, <2>4, ConnectedCount
    <3>4. connection' = [connection EXCEPT ![victim] = "none", ![p] = status]
      <4>1. \A q \in Remotes :
              connection'[q] = IF q = p THEN status
                               ELSE IF q = victim THEN "none" ELSE connection[q]
        BY <1>4, <1>5, <3>2
      <4>. HIDE DEF p, status, victim
      <4>. QED
        BY <1>3, <3>1, <4>1
    <3>5. Connections!Evict(p, victim)
      <4>. HIDE DEF p, status, victim
      <4>. QED
        BY <2>1, <2>2, <3>1, <3>3, <3>4, SameCardinality DEF Connections!Evict
    <3>. QED
      BY <1>1, <3>1, <3>5 DEF Connections!Next
  <2>. QED
    BY <2>3, <2>4
<1>. QED
  BY <1>7, <1>8

---------------------------------------------------------------------------
\* As long as every segment is addressed to SERVICE_PORT, the table of sessions
\* implements the connections of the peers: each call of TCPProcess opens,
\* accepts or closes one connection, drops one for a newcomer when all are in
\* use, or changes nothing a peer can see.
THEOREM TableImplementsConnections ==
    Ports = {SERVICE_PORT} /\ Spec => ImplementsConnections
<1>. SUFFICES ASSUME Ports = {SERVICE_PORT} PROVE Spec => ImplementsConnections
  OBVIOUS
<1>1. Init => LiveHavePeers /\ Connections!Init
  <2>. SUFFICES ASSUME Init PROVE LiveHavePeers /\ Connections!Init
    OBVIOUS
  <2>1. InState(Live) = {}
    BY DEF Init, InState, Live
  <2>. QED
    BY <2>1 DEF LiveHavePeers, Connections!Init, connection
<1>2. TableInv /\ LiveHavePeers /\ [Next]_vars => LiveHavePeers' /\ [Connections!Next]_connection
  <2>. SUFFICES ASSUME ServiceInv, [Next]_vars
                PROVE  LiveHavePeers' /\ [Connections!Next]_connection
    BY DEF ServiceInv
  <2>1. CASE Next
    <3>1. PICK seg \in Segment, i \in Sessions :
              Selected(seg, i) /\ Handle(seg, i, Entry(seg, i))
      BY <2>1, NextIsHandle
    <3>. QED
      BY <3>1, CallShape, CallIsAbstractStep DEF ServiceInv
  <2>2. CASE UNCHANGED vars
    BY <2>2 DEF vars, ServiceInv, LiveHavePeers, InState, connection
  <2>. QED
    BY <2>1, <2>2
<1>. QED
  BY <1>1, <1>2, TableCorrect, PTL DEF Spec, ImplementsConnections, Connections!Spec
=============================================================================
