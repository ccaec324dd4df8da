--------------------------- MODULE MCTcpSessions ---------------------------
(***************************************************************************)
(* TcpSessions for TLC: a table of two entries, three peers, so that the   *)
(* table overflows, and the segments the code tells apart.                 *)
(***************************************************************************)
EXTENDS TcpService, TLC

CONSTANTS a, b, c, service, other

PeerSymmetry == Permutations({a, b, c})

Seg(F, S, A, L, O) ==
    [remote : Remotes, dstPort : Ports, flags : F,
     seq : S, ack : A, len : L, opts : O]

\* Control segments: numbers vary only where a branch reads them.  Those of a SYN
\* wrap at once or later.
Opening == Seg({{"SYN"}}, {0, SeqMod - 1}, {0}, {0}, {FALSE})
Closing ==
    Seg({{"RST"}, {"RST", "ACK"}}, {0}, {0}, {0}, {FALSE})
    \cup Seg({{"FIN", "ACK"}}, SeqNumbers, {0}, {1}, {FALSE})
Odd == Seg({{"SYN", "ACK"}, {}}, {0}, {0}, {0}, {FALSE})
Acking == Seg({{"ACK"}}, {0}, SeqNumbers, {0}, {FALSE})

\* Data at every position against the acknowledged byte.
Pushing(L, O) == Seg({{"ACK", "PSH"}}, SeqNumbers, {1}, L, O)

MCSegments ==
    Opening \cup Closing \cup Odd \cup Acking
    \cup Pushing(0 .. MaxLen, {FALSE}) \cup Pushing({1}, {TRUE})

\* Segments up to the size the firmware announces, without options.
MCFullSegments == Opening \cup Acking \cup Pushing(0 .. MaxLen, {FALSE})
=============================================================================
