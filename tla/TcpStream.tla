----------------------------- MODULE TcpStream -----------------------------
(***************************************************************************)
(* One connection end to end: a client that sends Total bytes and closes,  *)
(* a network that loses, duplicates and reorders segments, and TCPProcess. *)
(* The client is not part of the firmware; it is any TCP that retransmits  *)
(* from its first unacknowledged byte, cutting segments as it likes, and   *)
(* is modelled from what TCPProcess expects of it.                         *)
(***************************************************************************)
EXTENDS TcpSessions, FiniteSets

CONSTANTS
    client,         \* the peer
    ISN,            \* its initial sequence number
    Total,          \* bytes it has to send
    MaxInFlight,    \* bound: segments in flight in each direction
    Duplicating,    \* TRUE: the network itself duplicates what it carries
    Patient,        \* TRUE: it sends FIN once all bytes are acknowledged
    LossyHandshake  \* TRUE: segments of the handshake and the close get lost too

ASSUME StreamAssumption ==
    /\ client \in Remotes
    /\ SERVICE_PORT \in Ports
    /\ ISN \in SeqNumbers
    /\ Total \in 1 .. SeqMod - 3
    /\ MaxInFlight \in Nat \ {0}
    /\ MaxLen < MSS
    /\ {Patient, LossyHandshake, Duplicating} \subseteq BOOLEAN

VARIABLES
    cstate,     \* the client's TCP state
    una,        \* how many of its bytes are acknowledged
    nxt,        \* how many it has sent at least once
    toServer,   \* segments on their way to the firmware
    toClient,   \* replies on their way to the client
    shown       \* history: positions whose bytes were printed

clientVars == <<cstate, una, nxt>>
streamVars == <<vars, clientVars, toServer, toClient, shown>>

Positions == 0 .. Total - 1

\* The sequence number of the byte at position k (the SYN takes ISN).
Number(k) == Plus(ISN, k + 1)

ClientSegment(flags, seq, ack, len) ==
    [remote |-> client, dstPort |-> SERVICE_PORT, flags |-> flags,
     seq |-> seq, ack |-> ack, len |-> len, opts |-> FALSE]

Send(seg) ==
    /\ seg \notin toServer
    /\ Cardinality(toServer) < MaxInFlight
    /\ toServer' = toServer \cup {seg}

---------------------------------------------------------------------------
(* The client *)

SynSegment == ClientSegment({"SYN"}, ISN, 0, 0)
DataSegment(k, n) == ClientSegment({"PSH", "ACK"}, Number(k), Number(0), n)
FinSegment == ClientSegment({"FIN", "ACK"}, Number(Total), Number(0), 0)

\* A bare acknowledgement carries the next number the client would send.
AckSegment ==
    ClientSegment({"ACK"},
                  Number(IF cstate \in {"fin_sent", "done"} THEN Total + 1 ELSE nxt),
                  Number(IF cstate = "done" THEN 1 ELSE 0), 0)

\* (Re)send the SYN.
Connect ==
    /\ cstate = "syn_sent"
    /\ Send(SynSegment)
    /\ UNCHANGED <<vars, clientVars, toClient, shown>>

\* Send from the first byte unsent or, again, from the first unacknowledged.
SendData(k, n) ==
    /\ cstate = "established"
    /\ k \in {una, nxt}
    /\ k + n <= Total
    /\ Send(DataSegment(k, n))
    /\ nxt' = IF k + n > nxt THEN k + n ELSE nxt
    /\ UNCHANGED <<vars, cstate, una, toClient, shown>>

\* (Re)send the FIN.
Finish ==
    /\ cstate \in {"established", "fin_sent"}
    /\ IF Patient THEN una = Total ELSE nxt = Total
    /\ Send(FinSegment)
    /\ cstate' = "fin_sent"
    /\ UNCHANGED <<vars, una, nxt, toClient, shown>>

\* The SYN|ACK is confirmed, again if it arrives again.
OnSynAck(reply) ==
    /\ reply.flags = {"SYN", "ACK"}
    /\ cstate' = IF cstate = "syn_sent" THEN "established" ELSE cstate
    /\ UNCHANGED <<una, nxt>>
    /\ toServer' = toServer \cup {AckSegment'}

\* How many bytes a reply acknowledges, if it acknowledges what was sent.
Acknowledged(reply) ==
    {k \in una .. nxt :
        \/ reply.ack = Number(k)
        \/ k = Total /\ cstate = "fin_sent" /\ reply.ack = Number(Total + 1)}

OnAck(reply) ==
    /\ reply.flags = {"ACK"}
    /\ una' \in IF Acknowledged(reply) = {} THEN {una} ELSE Acknowledged(reply)
    /\ UNCHANGED <<cstate, nxt, toServer>>

\* The server's FIN, once it acknowledges the client's, is confirmed.
OnFin(reply) ==
    /\ reply.flags = {"FIN", "ACK"}
    /\ IF cstate = "fin_sent" /\ reply.ack = Number(Total + 1)
       THEN cstate' = "done" /\ una' = Total
       ELSE UNCHANGED <<cstate, una>>
    /\ UNCHANGED nxt
    /\ toServer' = toServer \cup {AckSegment'}

---------------------------------------------------------------------------
(* The network; keep tells whether a delivered segment arrives again *)

ServerReceive(seg, keep) ==
    /\ seg \in toServer
    /\ TCPProcess(seg)
    /\ toServer' = IF keep THEN toServer ELSE toServer \ {seg}
    /\ toClient' = toClient \cup {sent'[k] : k \in DOMAIN sent'}
    /\ shown' = shown \cup {k \in Positions : Number(k) \in printed'}
    /\ UNCHANGED clientVars

ClientReceive(reply, keep) ==
    /\ reply \in toClient
    /\ OnSynAck(reply) \/ OnAck(reply) \/ OnFin(reply)
    /\ toClient' = IF keep THEN toClient ELSE toClient \ {reply}
    /\ UNCHANGED <<vars, shown>>

\* Segments that may get lost.
Losable(seg) ==
    LossyHandshake \/ seg \in {DataSegment(k, n) : k \in Positions, n \in 1 .. MaxLen}

LosableReply(reply) == LossyHandshake \/ reply.flags = {"ACK"}

Lose ==
    /\ \/ /\ \E seg \in toServer : Losable(seg) /\ toServer' = toServer \ {seg}
          /\ UNCHANGED toClient
       \/ /\ \E reply \in toClient :
                LosableReply(reply) /\ toClient' = toClient \ {reply}
          /\ UNCHANGED toServer
    /\ UNCHANGED <<vars, clientVars, shown>>

---------------------------------------------------------------------------

StreamInit ==
    /\ Init
    /\ cstate = "syn_sent"
    /\ una = 0
    /\ nxt = 0
    /\ toServer = {}
    /\ toClient = {}
    /\ shown = {}

StreamNext ==
    \/ Connect
    \/ \E k \in Positions, n \in 1 .. MaxLen : SendData(k, n)
    \/ Finish
    \/ \E seg \in toServer, keep \in {FALSE, Duplicating} :
           ServerReceive(seg, keep)
    \/ \E reply \in toClient, keep \in {FALSE, Duplicating} :
           ClientReceive(reply, keep)
    \/ Lose

StreamSpec == StreamInit /\ [][StreamNext]_streamVars

\* The client keeps retransmitting, and a segment sent again and again gets
\* through and is processed: main polls PacketInComming for ever.
ServerTakes(segments) == \E seg \in segments : ServerReceive(seg, FALSE)

ClientTakes(flags) ==
    \E reply \in toClient : reply.flags = flags /\ ClientReceive(reply, FALSE)

Fairness ==
    /\ WF_streamVars(Connect)
    /\ SF_streamVars(ServerTakes({SynSegment}))
    /\ WF_streamVars(ClientTakes({"SYN", "ACK"}))
    /\ SF_streamVars(ServerTakes({ClientSegment({"ACK"}, Number(0), Number(0), 0)}))
    /\ SF_streamVars(SendData(una, 1))
    /\ SF_streamVars(ServerTakes({DataSegment(una, n) : n \in 1 .. MaxLen}))
    /\ SF_streamVars(ClientTakes({"ACK"}) /\ una' # una)
    /\ SF_streamVars(Finish)
    /\ SF_streamVars(ServerTakes({FinSegment}))
    /\ WF_streamVars(ClientTakes({"FIN", "ACK"}))

FairStreamSpec == StreamSpec /\ Fairness

---------------------------------------------------------------------------
(* What the stream promises *)

\* A byte the client has an acknowledgement for was printed on the console.
AcknowledgedWasPrinted == 0 .. una - 1 \subseteq shown

\* Until the numbers wrap, bytes come out in the order of the stream: none is
\* printed for the first time before those in front of it, however segments
\* overtake each other.  (Behind the wrap they do not: TCPProcess compares the
\* numbers unsigned and prints what it takes for redundant.)
PrintedInOrder ==
    \A k \in shown : Number(k) > ISN => 0 .. k \subseteq shown

\* Whatever gets lost of data and acknowledgements, an opened connection ends
\* with every byte printed and both sides closed.
StreamCompletes ==
    (cstate = "established") ~>
        (cstate = "done" /\ shown = Positions)
=============================================================================
