---------------------------- MODULE MCConsole -----------------------------
(***************************************************************************)
(* Console for TLC: two keywords, the second of which begins like the      *)
(* first, as words over a, b and c, and lines with one more character in   *)
(* front and behind.                                                       *)
(***************************************************************************)
EXTENDS Console

MCKeywords == << <<"a", "b">>, <<"a", "a", "c">> >>
MCHeads == {<<>>, <<"a">>}
MCTails == {<<>>, <<"x">>}
===========================================================================
