------------------------------ MODULE ArpEntry ------------------------------
(***************************************************************************)
(* The ARP table as those who send through it see it: one entry, because   *)
(* every search ends at the first.  Its owner, whatever the destination of *)
(* a frame, is the host the frame goes to.  NetStack implements it, and    *)
(* DhcpClient sends through it.                                            *)
(***************************************************************************)

CONSTANTS
    Hosts,       \* the hosts of the link
    Nobody       \* 00:00:00:00:00:00

VARIABLES
    hasAddress,  \* the board has an IP address
    owner        \* the host of the entry

Init == hasAddress = FALSE /\ owner = Nobody

\* The board is given an address.
Configure == hasAddress' = TRUE /\ UNCHANGED owner

\* A host resolves the board's address, which takes one.
Resolve(h) == hasAddress /\ owner' = h /\ UNCHANGED hasAddress

Reset == hasAddress' = FALSE /\ owner' = Nobody

Next == Configure \/ Reset \/ \E h \in Hosts : Resolve(h)

Spec == Init /\ [][Next]_<<hasAddress, owner>>
=============================================================================
