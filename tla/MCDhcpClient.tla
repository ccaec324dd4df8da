--------------------------- MODULE MCDhcpClient ---------------------------
(****************************************************************************)
(* DhcpClient for TLC: two servers, of which one leaves the router out, and *)
(* messages that may be older than the client's timeout when they arrive.   *)
(****************************************************************************)
EXTENDS DhcpClient

CONSTANTS S1, S2

MCServers == {S1, S2}

\* S2 has no router to name.
NoRouter == {<<S2, "offer">>, <<S2, "ack">>}
===========================================================================
