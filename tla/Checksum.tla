------------------------------ MODULE Checksum ------------------------------
(***************************************************************************)
(* The two Internet checksums of the stack: ipChecksum of Ethernet/IP.c    *)
(* adds up 16-bit words as the processor reads them, low byte first, for   *)
(* IP and ICMP; checksum of Ethernet/TCP.c, high byte first, for TCP and   *)
(* its pseudo header.  The receiver is that of RFC 1071.                   *)
(*                                                                         *)
(* Radix stands for 256.  Packets are so short that the 32-bit sums do not *)
(* overflow (a frame has fewer than 65537 words).                          *)
(***************************************************************************)
EXTENDS Integers, Sequences

CONSTANT Radix   \* values of a byte

ASSUME RadixAssumption == Radix \in Nat \ {0, 1}

Word == Radix * Radix     \* values of a 16-bit word
AllOnes == Word - 1

\* Byte k, or the zero that fills up the last word.
Padded(bytes, k) == IF k \in DOMAIN bytes THEN bytes[k] ELSE 0

\* The sum of all words, the byte at an odd place k taken times odd, the one
\* behind it times even.
SumOfWords(bytes, odd, even) ==
    LET sum[k \in Nat] ==
            IF k > Len(bytes) THEN 0
            ELSE Padded(bytes, k) * odd + Padded(bytes, k + 1) * even + sum[k + 2]
    IN  sum[1]

\* Mutant: only one carry is added.
WrongFolded(sum) == ((sum % Word) + (sum \div Word)) % Word

\* The carries are added until there are none.
Folded(sum) ==
    LET fold[rest \in Nat] ==
            IF rest < Word THEN rest ELSE fold[(rest % Word) + (rest \div Word)]
    IN  fold[sum]

\* The value as it lies in the packet: the processor stores the low byte first.
ipChecksum(bytes) ==
    LET value == AllOnes - Folded(SumOfWords(bytes, 1, Radix))
    IN  <<value % Radix, value \div Radix>>

\* TCPPackedSend stores it by way of HTONS: the high byte first.
checksum(bytes) ==
    LET value == AllOnes - Folded(SumOfWords(bytes, Radix, 1))
    IN  <<value \div Radix, value % Radix>>

\* RFC 1071: with the checksum in its field the words add up to all ones, the
\* carries added as they come.
Accepts(bytes, check) ==
    LET carry[sum \in Nat] == IF sum < Word THEN sum ELSE sum - Word + 1
        add[k \in Nat] ==
            IF k > Len(bytes) THEN check[1] * Radix + check[2]
            ELSE carry[add[k + 2] + Padded(bytes, k) * Radix + Padded(bytes, k + 1)]
    IN  add[1] = AllOnes
=============================================================================
