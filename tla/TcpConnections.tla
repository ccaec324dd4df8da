--------------------------- MODULE TcpConnections ---------------------------
(***************************************************************************)
(* What the TCP server promises its peers, without table, ports or         *)
(* numbers: each peer has no connection, one being opened, or one open     *)
(* connection; a connection is only opened through the handshake, and a    *)
(* peer loses its connection to another one only when Capacity peers are   *)
(* connected.  TcpSessions implements it (TcpService.tla).                 *)
(***************************************************************************)
EXTENDS Naturals, FiniteSets

CONSTANTS Peers, Capacity

VARIABLE conn

Status == {"none", "opening", "open"}

Connected == {p \in Peers : conn[p] # "none"}

Init == conn = [p \in Peers |-> "none"]

\* The peer's SYN is answered.
Open(p) ==
    /\ conn[p] = "none"
    /\ Cardinality(Connected) < Capacity
    /\ conn' = [conn EXCEPT ![p] = "opening"]

\* The peer acknowledges the answer.
Accept(p) ==
    /\ conn[p] = "opening"
    /\ conn' = [conn EXCEPT ![p] = "open"]

\* The peer resets the connection, at any time, or finishes an open one.
Close(p) ==
    /\ conn[p] # "none"
    /\ conn' = [conn EXCEPT ![p] = "none"]

\* A further peer appears while every connection is in use: one of them is
\* dropped without a word to its peer, whether or not the newcomer gets it.
Evict(p, victim) ==
    /\ conn[p] = "none"
    /\ conn[victim] # "none"
    /\ Cardinality(Connected) = Capacity
    /\ \E s \in {"none", "opening"} :
           conn' = [conn EXCEPT ![victim] = "none", ![p] = s]

Next ==
    \E p \in Peers :
        \/ Open(p)
        \/ Accept(p)
        \/ Close(p)
        \/ \E victim \in Peers : Evict(p, victim)

Spec == Init /\ [][Next]_conn
=============================================================================
