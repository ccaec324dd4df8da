---------------------------- MODULE MCNetStack ----------------------------
(***************************************************************************)
(* NetStack for TLC: two hosts that compete for the table's one usable     *)
(* entry, and two addresses that DHCP leases to the board.                 *)
(***************************************************************************)
EXTENDS NetStack

CONSTANTS H1, H2, A1, A2

MCHosts == {H1, H2}
MCPersistent == {H1}
MCNetworks == {[subnet |-> <<Ones, Zeros>>, gateway |-> HostIP(H2)]}
===========================================================================
