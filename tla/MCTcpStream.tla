---------------------------- MODULE MCTcpStream ----------------------------
(***************************************************************************)
(* TcpStream for TLC: two or three bytes from one client over one session, *)
(* and an initial number that makes the sequence numbers wrap on the way.  *)
(***************************************************************************)
EXTENDS TcpStream

CONSTANTS service
=============================================================================
