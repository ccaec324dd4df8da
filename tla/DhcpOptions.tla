---------------------------- MODULE DhcpOptions ----------------------------
(***************************************************************************)
(* The bytes of DHCP options: how parse_opions of Ethernet/DHCP.c takes    *)
(* them from a message and how dhcpRequest writes its own over those of    *)
(* the offer, in the same buffer.  DhcpClient relies on both.              *)
(*                                                                         *)
(* Of an address or a time, four bytes, any four bytes will do.            *)
(***************************************************************************)
EXTENDS Integers, Sequences, FiniteSetsExt

NETMASK == 1
ROUTERS == 3
DNSSERVERS == 6
REQUESTEDIP == 50
LEASETIME == 51
DHCPMSGTYPE == 53
SERVERID == 54
END == 255
REQUEST == 3

\* Bytes of options in a request: room for more than the 15 that are written.
RequestLength == 3 + 6 + 6 + 6 + 8 + 1

\* The options of four bytes the client keeps.
Kept == {NETMASK, ROUTERS, DNSSERVERS, SERVERID, LEASETIME}

At(bytes, k) == IF k \in DOMAIN bytes THEN bytes[k] ELSE 0
Four(bytes, k) == [m \in 1 .. 4 |-> At(bytes, k + m - 1)]

\* Mutant: the length is taken for that of the whole option.
WrongPlaces(bytes, len) ==
    LET from[k \in Nat] ==
            IF k > len \/ At(bytes, k) = END THEN {}
            ELSE {k} \cup from[k + At(bytes, k + 1) + 1]
    IN  from[1]

\* Where the options begin that parse_opions looks at, up to len or END: opt
\* goes on by the length of each, whatever it is.  (PAD, which has no length
\* byte, is no exception: offers padded in front of END are misread.)
Places(bytes, len) ==
    LET from[k \in Nat] ==
            IF k > len \/ At(bytes, k) = END THEN {}
            ELSE {k} \cup from[k + At(bytes, k + 1) + 2]
    IN  from[1]

\* The last option of a kind counts.
LastPlace(bytes, len, code) ==
    LET places == {k \in Places(bytes, len) : At(bytes, k) = code}
    IN  IF places = {} THEN 0 ELSE Max(places)

\* The record s after the message; kept is what it was.
parse_opions(bytes, len, kept) ==
    [code \in Kept |->
        LET k == LastPlace(bytes, len, code)
        IN  IF k = 0 THEN kept[code] ELSE Four(bytes, k + 2)]

\* What parse_opions returns.
MessageType(bytes, len) ==
    LET k == LastPlace(bytes, len, DHCPMSGTYPE)
    IN  IF k = 0 THEN 0 ELSE At(bytes, k + 2)

add_msg_type(type) == <<DHCPMSGTYPE, 1, type>>
add_sever_id(type, id) == <<type, 4>> \o id

\* Mutant: the server identifier is taken for the address.
WrongdhcpRequest(bytes, yiaddr, server_id) ==
    LET own == add_msg_type(REQUEST) \o add_sever_id(REQUESTEDIP, server_id)
                   \o add_sever_id(SERVERID, server_id)
    IN  [k \in 1 .. RequestLength |-> IF k \in DOMAIN own THEN own[k] ELSE At(bytes, k)]

\* The options of the request: those of dhcpRequest in front, no END, and what
\* is left of the offer up to the length given to udpSend.
dhcpRequest(bytes, yiaddr, server_id) ==
    LET own == add_msg_type(REQUEST) \o add_sever_id(REQUESTEDIP, yiaddr)
                   \o add_sever_id(SERVERID, server_id)
    IN  [k \in 1 .. RequestLength |-> IF k \in DOMAIN own THEN own[k] ELSE At(bytes, k)]

---------------------------------------------------------------------------
(* The other side *)

\* A server's options, each a code and a value, as bytes.
Encoded(options) ==
    LET bytes[k \in 0 .. Len(options)] ==
            IF k = 0 THEN <<>>
            ELSE bytes[k - 1] \o <<options[k].code, Len(options[k].value)>>
                             \o options[k].value
    IN  bytes[Len(options)] \o <<END>>

\* A server looks for the first option of a kind and ignores one cut off.
Asked(bytes, code) ==
    LET places == {k \in Places(bytes, Len(bytes)) :
                      bytes[k] = code /\ k + At(bytes, k + 1) + 1 <= Len(bytes)}
    IN  IF places = {} THEN <<>>
        ELSE LET k == Min(places) IN SubSeq(bytes, k + 2, k + bytes[k + 1] + 1)
=============================================================================
