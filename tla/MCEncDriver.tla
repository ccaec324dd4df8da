---------------------------- MODULE MCEncDriver ----------------------------
(***************************************************************************)
(* EncDriver for TLC: a ring of ten bytes and frames of four and six, so   *)
(* that frames end before, at and beyond the end of the ring.              *)
(***************************************************************************)
EXTENDS EncDriver
=============================================================================
