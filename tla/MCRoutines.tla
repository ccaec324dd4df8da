----------------------------- MODULE MCRoutines -----------------------------
(***************************************************************************)
(* The leaf routines for TLC, what the layers above take for granted: the  *)
(* SPI routines as they run, and the checksums, the option parser, the     *)
(* answers in ethBuffer and the printing on inputs chosen before SPI is    *)
(* set up.  The inputs are independent: a behaviour exercises one of them. *)
(***************************************************************************)
EXTENDS SpiBus, Checksum, EthBuffer, UartPrint

CONSTANTS
    e, v, m,      \* registers: an ordinary, a volatile and a MAC register
    MaxBytes,     \* longest input of the checksums
    MaxOptions    \* options in an offer

ASSUME MaximaAssumption == MaxBytes \in Nat /\ MaxOptions \in Nat

VARIABLES
    bytes,        \* input of the checksums
    offer,        \* options of an offer
    behind,       \* byte the buffer holds behind the offer or the frame
    request,      \* the frame in ethBuffer
    print         \* a conversion with its argument

inputs == <<bytes, offer, behind, request, print>>

\* Kept options, the type and one the client does not know; among the values are
\* codes of options, and of END.
OfferedOptions ==
    {[code |-> DHCPMSGTYPE, value |-> <<2>>], [code |-> 12, value |-> <<54, 4>>]}
    \cup {[code |-> code, value |-> value] :
             code \in {SERVERID, ROUTERS}, value \in {<<53, 1, 5, 255>>, <<3, 4, 1, 1>>}}

OfferedIP == <<9, 3, 54, 50>>
Before == [code \in Kept |-> <<0, 0, 0, 0>>]

Options == UNION {[1 .. len -> OfferedOptions] : len \in 0 .. MaxOptions}
Inputs == UNION {[1 .. len -> 0 .. Radix - 1] : len \in 0 .. MaxBytes}

\* The buffer behind the header: the offer and what an earlier frame left.
Buffer == Encoded(offer) \o [k \in 1 .. RequestLength |-> behind]

---------------------------------------------------------------------------
(* The frames *)

Client == [hwAddr |-> <<2, 0, 0, 0, 0, 7>>, ipAddr |-> <<10, 0, 0, 7>>]
ClientPort == <<200, 1>>
ServerIP == <<10, 0, 0, 9>>
Board ==
    [hwAddr |-> <<2, 0, 192, 168, 0, 1>>, ipAddr |-> <<10, 0, 0, 1>>, to |-> Client.hwAddr,
     port |-> <<7, 207>>, DhcpTransactID |-> <<2, 0, 192, 168>>]

\* Before it has an address.
NewBoard == [Board EXCEPT !.ipAddr = Zeros(4), !.to = Zeros(6)]

Hello == <<72, 101, 108, 108, 111, 10>>
Ack == <<0, 1, 255, 255>>
Nothing == [kind |-> "nothing", seq |-> Ack, options |-> <<>>, payload |-> <<>>]

\* Sequence numbers about to carry and to wrap; headers with no, few and many
\* options; frames with and without padding.
Requests ==
    [kind : {"arp", "echo", "message", "syn", "data", "push", "fin", "discover", "offer"},
     seq : {<<0, 0, 255, 254>>, <<255, 255, 255, 255>>},
     options : {<<>>, <<1, 1, 1, 1>>, [k \in 1 .. 20 |-> 1]},
     payload : {<<>>, <<66>>, <<67, 68, 69, 70, 71, 72, 73>>}]

FlagsOf(kind) ==
    CASE kind = "syn" -> TCP_SYN_FLAG
      [] kind = "data" -> TCP_ACK_FLAG
      [] kind = "push" -> TCP_PSH_FLAG + TCP_ACK_FLAG
      [] kind = "fin" -> TCP_FIN_FLAG + TCP_ACK_FLAG

DataOf(q) == IF q.kind = "syn" THEN <<>> ELSE q.payload

\* The frame of a request.  An offer repeats the flag of the discover.
FrameOf(q) ==
    LET Unicast(protocol, payload) ==
            Ethernet(Board.hwAddr, Client.hwAddr, 2048,
                     Ipv4(protocol, 64, Client.ipAddr, Board.ipAddr, payload))
    IN  CASE q.kind = "arp" ->
                Ethernet(Zeros(6), Client.hwAddr, 2054,
                         Arp(1, Client, [Board EXCEPT !.hwAddr = Zeros(6)]))
          [] q.kind = "echo" -> Unicast(IP_PROTO_ICMP, Icmp(8, q.seq \o q.payload))
          [] q.kind = "message" ->
                Unicast(IP_PROTO_UDP, Udp(ClientPort, Board.port, q.payload))
          [] q.kind \in {"syn", "data", "push", "fin"} ->
                Unicast(IP_PROTO_TCP,
                        Tcp(Client.ipAddr, Board.ipAddr, ClientPort \o Short(60000), q.seq,
                            Ack, FlagsOf(q.kind), q.options, DataOf(q)))
          [] q.kind = "offer" ->
                Ethernet(Board.hwAddr, Client.hwAddr, 2048,
                         Ipv4(IP_PROTO_UDP, 64, ServerIP, AllOnesIP,
                              Udp(DHCP_UDP_SERVER_PORT, DHCP_UDP_CLIENT_PORT,
                                  Bootp(2, Board.DhcpTransactID, Short(1), OfferedIP,
                                        Board.hwAddr)
                                      \o Encoded(<<[code |-> SERVERID, value |-> ServerIP]>>))))
          [] OTHER -> <<>>

MinFrame == 60
BufferSize == 320

\* What ethBuffer holds: the frame, padding, the 0 the driver puts behind it,
\* and older frames.
Received(q) ==
    LET frame == FrameOf(q)
        length == Max({MinFrame, Len(frame)})
    IN  [k \in 1 .. BufferSize |->
            IF k \in DOMAIN frame THEN frame[k]
            ELSE IF q.kind # "discover" /\ k <= length + 1 THEN 0 ELSE behind]

\* The functions that answer it, one after the other.
Replies(q) ==
    LET buffer == Received(q)
    IN  CASE q.kind = "arp" -> <<ArpReply(buffer, Board, MinFrame)>>
          [] q.kind = "echo" -> <<icmpEchoReply(buffer, Board)>>
          [] q.kind = "message" ->
                <<UDPReply(buffer, Board, Client.ipAddr, Short(23), Hello)>>
          [] q.kind \in {"syn", "data", "push", "fin"} -> TCPReplies(buffer, Board)
          [] q.kind = "offer" -> <<RequestOver(buffer, NewBoard, ServerIP)>>
          [] q.kind = "discover" -> <<dhcpDiscover(buffer, NewBoard)>>
          [] OTHER -> <<>>

\* The number so many bytes further on, of which there are 2^32.
Further(seq, more) ==
    LET low == Number(SubSeq(seq, 3, 4)) + more
        high == Number(SubSeq(seq, 1, 2)) + low \div 65536
    IN  Short(high % 65536) \o Short(low % 65536)

\* The flag that asks a server to broadcast: the first bit.
Broadcast == <<128, 0>>

\* The frames the RFCs have in answer to it: a message of DHCP is sent to everyone
\* on the Ethernet, and its options end in END, with PAD up to the length it is
\* sent in.  That length, the TTL and the padding are the sender's to choose.
Expected(q) ==
    LET Unicast(protocol, ttl, payload) ==
            Ethernet(Client.hwAddr, Board.hwAddr, 2048,
                     Ipv4(protocol, ttl, Board.ipAddr, Client.ipAddr, payload))
        Segments(seq, more, flags, options) ==
            Unicast(IP_PROTO_TCP, IP_TIME_TO_LIVE,
                    Tcp(Board.ipAddr, Client.ipAddr, Short(60000) \o ClientPort, seq,
                        Further(q.seq, Len(DataOf(q)) + more), flags, options, <<>>))
        Dhcp(options, length) ==
            Ethernet([k \in 1 .. 6 |-> 255], Board.hwAddr, 2048,
                     Ipv4(IP_PROTO_UDP, IP_TIME_TO_LIVE, Zeros(4), AllOnesIP,
                          Udp(DHCP_UDP_CLIENT_PORT, DHCP_UDP_SERVER_PORT,
                              Bootp(1, Board.DhcpTransactID, Broadcast, Zeros(4), Board.hwAddr)
                                  \o options \o <<END>> \o Zeros(length - Len(options) - 1))))
        MSS == <<2, 4, 2, 188, 1, 3, 3, 0>>
    IN  CASE q.kind = "arp" ->
                <<Ethernet(Client.hwAddr, Board.hwAddr, 2054, Arp(2, Board, Client))
                      \o Zeros(4)>>
          [] q.kind = "echo" -> <<Unicast(IP_PROTO_ICMP, 64, Icmp(0, q.seq \o q.payload))>>
          [] q.kind = "message" ->
                <<Unicast(IP_PROTO_UDP, IP_TIME_TO_LIVE, Udp(Board.port, Short(23), Hello))>>
          [] q.kind = "syn" -> <<Segments(q.seq, 1, TCP_SYN_FLAG + TCP_ACK_FLAG, MSS)>>
          [] q.kind = "push" -> <<Segments(Ack, 0, TCP_ACK_FLAG, <<>>)>>
          [] q.kind = "fin" ->
                <<Segments(Ack, 1, TCP_ACK_FLAG, <<>>),
                  Segments(Ack, 1, TCP_FIN_FLAG + TCP_ACK_FLAG, <<>>)>>
          [] q.kind = "discover" ->
                <<Dhcp(<<DHCPMSGTYPE, 1, 1, 55, 3, NETMASK, ROUTERS, DNSSERVERS>>, 12)>>
          [] q.kind = "offer" ->
                <<Dhcp(<<DHCPMSGTYPE, 1, REQUEST, REQUESTEDIP, 4>> \o OfferedIP
                           \o <<SERVERID, 4>> \o ServerIP, RequestLength)>>
          [] OTHER -> <<>>

\* Where the client's messages are not what the RFCs have, as offsets into the
\* frame: their Ethernet destination, the hardware address of entry 0, all zero as
\* yet (DHCP.h:73 calls the message a broadcast); the flag 1 (DHCP.c:89); ten
\* bytes behind CHAddr that are not written (DHCP.c:94); the three behind END of a
\* discover (DHCP.c:103), and the request from where it should end (DHCP.c:107-118).
Deviations(q) ==
    IF q.kind \notin {"discover", "offer"} THEN {}
    ELSE LET field == DHCPHeader
         IN  0 .. 5
             \cup {Message + field.Flag + k : k \in 0 .. 1}
             \cup {Message + field.CHAddr + k : k \in 6 .. 15}
             \cup {Message + field.options + k :
                      k \in IF q.kind = "discover" THEN 9 .. 11 ELSE 15 .. RequestLength - 1}
---------------------------------------------------------------------------

(* What is printed *)

Numbers ==
    [kind : {"d", "u", "x"}, width : {<<>>, <<3>>, <<0, 3>>, <<5>>, <<0, 5>>},
     arg : 0 .. Modulus - 1]
Texts ==
    [kind : {"s"}, width : {<<>>, <<3>>}, arg : UNION {[1 .. len -> {"a", "\n"}] : len \in 0 .. 3}]
NoPrint == [kind |-> "none", width |-> <<>>, arg |-> 0]

Format(p) ==
    <<"\n", "%">> \o [k \in DOMAIN p.width |-> Digit(p.width[k])] \o <<p.kind, "%", "%", "a">>

\* The digits of a number.
DigitsOf(number, base) ==
    LET digits[rest \in Nat] ==
            IF rest < base THEN <<Digit(rest)>>
            ELSE Append(digits[rest \div base], Digit(rest % base))
    IN  digits[number]

\* What printf of C makes of it, with a line end as terminals want it.
Wanted(p) ==
    LET neg == p.kind = "d" /\ p.arg >= Modulus \div 2
        sign == IF neg THEN <<"-">> ELSE <<>>
        body == IF p.kind = "s" THEN UARTwrite(p.arg)
                ELSE DigitsOf(IF neg THEN Modulus - p.arg ELSE p.arg, IF p.kind = "x" THEN 16 ELSE 10)
        length == IF p.kind = "s" THEN Len(p.arg) ELSE Len(sign \o body)
        width == IF p.width = <<>> THEN 0 ELSE p.width[Len(p.width)]
        Fill0(char) == Times(char, IF width > length THEN width - length ELSE 0)
    IN  <<"\r", "\n">>
            \o (IF p.kind = "s" THEN body \o Fill0(" ")
                ELSE IF p.width # <<>> /\ p.width[1] = 0 THEN sign \o Fill0("0") \o body
                ELSE Fill0(" ") \o sign \o body)
            \o <<"%", "a">>
---------------------------------------------------------------------------

NoInputs ==
    bytes = <<>> /\ offer = <<>> /\ behind = 0 /\ request = Nothing /\ print.kind = "none"

\* The inputs do not depend on the state of SPI, whose states go without them.
MCInit ==
    /\ Init
    /\ \/ /\ bytes \in Inputs
          /\ offer = <<>> /\ behind = 0 /\ request = Nothing /\ print = NoPrint
       \/ /\ offer \in Options /\ behind \in {0, 4, SERVERID}
          /\ bytes = <<>> /\ request = Nothing /\ print = NoPrint
       \/ /\ request \in Requests /\ behind \in {0, 4, SERVERID}
          /\ bytes = <<>> /\ offer = <<>> /\ print = NoPrint
       \/ /\ print \in Numbers \/ print \in Texts
          /\ bytes = <<>> /\ offer = <<>> /\ behind = 0 /\ request = Nothing
    /\ NoInputs \/ (rx = <<>> /\ ~cs)

\* The inputs have been looked at.
Dismiss ==
    /\ ~NoInputs
    /\ bytes' = <<>> /\ offer' = <<>> /\ behind' = 0 /\ request' = Nothing /\ print' = NoPrint
    /\ UNCHANGED vars

Spi == NoInputs /\ Next /\ UNCHANGED inputs

MCNext == Dismiss \/ Spi

mcVars == <<vars, inputs>>
MCFairSpec == MCInit /\ [][MCNext]_mcVars /\ WF_mcVars(Dismiss) /\ Fairness

---------------------------------------------------------------------------

\* Whatever the number of bytes and the carries, a receiver accepts what either
\* checksum of the stack puts into its field.
ChecksumsRight == Accepts(bytes, ipChecksum(bytes)) /\ Accepts(bytes, checksum(bytes))

\* The value of the last option of this kind in the offer.
Sent(code, none) ==
    LET places == {k \in DOMAIN offer : offer[k].code = code}
    IN  IF places = {} THEN none ELSE offer[Max(places)].value

\* From an offer that ends in END, parse_opions takes the values the server sent
\* and leaves the others alone, whatever lies behind it and however much too
\* large the length is that dhcpIn is given.
ParsedAsSent ==
    LET parsed == parse_opions(Buffer, Len(Buffer), Before)
    IN  /\ \A code \in Kept : parsed[code] = Sent(code, Before[code])
        /\ <<MessageType(Buffer, Len(Buffer))>> = Sent(DHCPMSGTYPE, <<0>>)

\* A server that takes the first option of a kind reads the request as one, for
\* the address and the server of the offer, although it has no END and goes over
\* into the middle of an old option.
RequestNamesOffer ==
    LET server_id == parse_opions(Buffer, Len(Buffer), Before)[SERVERID]
        own == dhcpRequest(Buffer, OfferedIP, server_id)
    IN  /\ Asked(own, DHCPMSGTYPE) = <<REQUEST>>
        /\ Asked(own, REQUESTEDIP) = OfferedIP
        /\ Asked(own, SERVERID) = server_id

\* Every answer of ARP, ICMP, UDP and TCP is the frame the RFCs have for it,
\* checksums and all, although it is written over the request and its pseudo
\* header over its own IP header: nothing of an older frame gets into it.  Discover
\* and request are so outside the places where the code deviates from them.
AnswersRight ==
    LET answers == Replies(request)
        wanted == Expected(request)
    IN  /\ Len(answers) = Len(wanted)
        /\ \A k \in DOMAIN answers :
              LET frame == answers[k].frame
              IN  /\ Len(frame) = Len(wanted[k])
                  /\ \A at \in DOMAIN frame :
                        at - 1 \in Deviations(request) \/ frame[at] = wanted[k][at]

\* The data of a segment, which TCPProcess prints after the answers are sent, is
\* still in ethBuffer, found behind options of any length, with a 0 behind it.
PayloadKept ==
    request.kind \in {"data", "push", "fin"} =>
        LET answers == Replies(request)
            buffer == IF answers = <<>> THEN Received(request)
                      ELSE answers[Len(answers)].buffer
            segment == Segment(Received(request))
        IN  Read(buffer, segment.tcpData, segment.dataLen + 1) = request.payload \o <<0>>

\* A number is printed with the digits that read back as it, whatever overflows
\* while the power for the first digit is looked for, filled up as printf of C
\* would; of what TCP received no character is lost.
PrintedAsMeant ==
    print.kind # "none" => UARTvprintf(Format(print), <<print.arg>>) = Wanted(print)
=============================================================================
