----------------------------- MODULE TcpService -----------------------------
(***************************************************************************)
(* TcpSessions implements TcpConnections when all segments are addressed   *)
(* to SERVICE_PORT: the refinement mapping reads a peer's status off the   *)
(* session that belongs to it.                                             *)
(***************************************************************************)
EXTENDS TcpSessions

StatusOf(state) == IF state = "ESTABLISHED" THEN "open" ELSE "opening"

connection ==
    [p \in Remotes |->
        IF \E i \in InState(Live) : tcpSessionTable[i].remote = p
        THEN StatusOf(tcpSessionTable[CHOOSE i \in InState(Live) :
                         tcpSessionTable[i].remote = p].sesState)
        ELSE "none"]

Connections ==
    INSTANCE TcpConnections
        WITH Peers <- Remotes, Capacity <- TCP_MAX_SESSION, conn <- connection

\* The session table of TCPProcess implements the connections of its peers:
\* every call is one abstract step or none.
ImplementsConnections == Connections!Spec
=============================================================================
