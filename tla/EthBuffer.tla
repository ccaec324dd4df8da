----------------------------- MODULE EthBuffer -----------------------------
(***************************************************************************)
(* ethBuffer byte by byte: the stack receives a frame into it and writes   *)
(* the answer over the frame, from the innermost header outwards, at       *)
(* places that depend on the length of the request's header.  Which        *)
(* answer is due is left to TcpSessions, NetStack and DhcpClient; here is  *)
(* what leaves the board, and what stays behind in the buffer.             *)
(*                                                                         *)
(* An operator named after a function takes the buffer and returns it as   *)
(* the function leaves it; the functions that send return it with the      *)
(* frame.  my is what the board knows: its two addresses and to, the       *)
(* hardware address in entry 0 of the ARP table.  Ports and sequence       *)
(* numbers are bytes in the order of the network.                          *)
(***************************************************************************)
EXTENDS DhcpOptions

Sums == INSTANCE Checksum WITH Radix <- 256

\* Where the fields of the headers begin.
ethHeader == [desAddr |-> 0, srcAddr |-> 6, type |-> 12]
arpHeader ==
    [hwType |-> 0, protocol |-> 2, hwLen |-> 4, protoLen |-> 5, opcode |-> 6,
     shwAddr |-> 8, sipAddr |-> 14, dhwAddr |-> 18, dipAddr |-> 24]
ipHeader ==
    [verHdrLen |-> 0, ToS |-> 1, Len |-> 2, IDNumber |-> 4, Offset |-> 6, TTL |-> 8,
     Protocol |-> 9, Checksum |-> 10, srcIPAddr |-> 12, desIPAddr |-> 16]
icmpHeader == [Type |-> 0, Code |-> 1, Checksum |-> 2]
udpHeader == [srcPort |-> 0, desPort |-> 2, Len |-> 4, Checksum |-> 6, data |-> 8]
tcpHeader ==
    [Srcport |-> 0, DstPort |-> 2, SeqNumber |-> 4, AckNumber |-> 8, Offset |-> 12,
     Flags |-> 13, Windown |-> 14, Checksum |-> 16, Urgenpt |-> 18, options |-> 20]
DHCPHeader ==
    [opcode |-> 0, Htype |-> 1, Hlen |-> 2, Hops |-> 3, Xid |-> 4, Secs |-> 8,
     Flag |-> 10, CIAddr |-> 12, YIAddr |-> 16, SIAddr |-> 20, GIAddr |-> 24,
     CHAddr |-> 28, SName |-> 44, File |-> 108, cookie |-> 236, options |-> 240]

ETH_HEADER_LEN == 14
IP_HEADER_LEN == 20
UDP_HEADER_LEN == 8
TCP_HEADER_LEN == 20
DHCP_HEADER_LEN == 240
ETHERNET_BUFFER_SIZE == 700 + ETH_HEADER_LEN + IP_HEADER_LEN + TCP_HEADER_LEN
MAX_SEGMENT_SIZE == ETHERNET_BUFFER_SIZE - ETH_HEADER_LEN - IP_HEADER_LEN - TCP_HEADER_LEN

IP_PROTO_ICMP == 1
IP_PROTO_TCP == 6
IP_PROTO_UDP == 17
IP_TIME_TO_LIVE == 128
TCP_FIN_FLAG == 1
TCP_SYN_FLAG == 2
TCP_PSH_FLAG == 8
TCP_ACK_FLAG == 16

\* Where the packet of a received frame begins, and what is behind its header.
Packet == ETH_HEADER_LEN
Inner == ETH_HEADER_LEN + IP_HEADER_LEN

Zeros(len) == [k \in 1 .. len |-> 0]
AllOnesIP == <<255, 255, 255, 255>>

\* HTONS of a number, and of the bytes of one.
Short(number) == <<number \div 256, number % 256>>
Number(bytes) == bytes[1] * 256 + bytes[2]

\* parseHexIP(u32con(four) + more): the carries, without the last one.
Plus(four, more) ==
    LET carry[k \in 1 .. 4] ==
            IF k = 4 THEN more ELSE (four[k + 1] + carry[k + 1]) \div 256
    IN  [k \in 1 .. 4 |-> (four[k] + carry[k]) % 256]

Read(buffer, at, len) == SubSeq(buffer, at + 1, at + len)

\* Stores to fields of the header that begins at this place.
Fill(buffer, at, header, values) ==
    LET Stored(k) == {f \in DOMAIN values : k - at - header[f] \in DOMAIN values[f]}
    IN  [k \in DOMAIN buffer |->
            IF Stored(k) = {} THEN buffer[k]
            ELSE LET f == CHOOSE f \in Stored(k) : TRUE
                 IN  values[f][k - at - header[f]]]

ethSendFrame(len, buffer, at) == [buffer |-> buffer, frame |-> Read(buffer, at, len)]

---------------------------------------------------------------------------
(* ARP and IP *)

\* The answer of arpProcess, as long as the request without an Ethernet header,
\* which the padding of the request makes up for.
ArpReply(buffer, my, len) ==
    LET arpPacket == Packet
        target == Fill(buffer, arpPacket, arpHeader,
            [dhwAddr |-> Read(buffer, arpPacket + arpHeader.shwAddr, 6),
             dipAddr |-> Read(buffer, arpPacket + arpHeader.sipAddr, 4)])
        sender == Fill(target, arpPacket, arpHeader,
            [shwAddr |-> my.hwAddr, sipAddr |-> my.ipAddr, opcode |-> Short(2)])
        to == Fill(sender, 0, ethHeader, [desAddr |-> Read(sender, ethHeader.srcAddr, 6)])
    IN  ethSendFrame(len - ETH_HEADER_LEN, Fill(to, 0, ethHeader, [srcAddr |-> my.hwAddr]), 0)

arpIpOut(buffer, at, my) ==
    Fill(buffer, at, ethHeader,
         [type |-> Short(2048), srcAddr |-> my.hwAddr, desAddr |-> my.to])

ipSend(buffer, my, dstIp, protocol, len, ipData) ==
    LET ipPacket == ipData - IP_HEADER_LEN
        ethPacket == ipPacket - ETH_HEADER_LEN
        total == len + IP_HEADER_LEN
        header == Fill(buffer, ipPacket, ipHeader,
            [desIPAddr |-> dstIp, srcIPAddr |-> my.ipAddr, Protocol |-> <<protocol>>,
             Len |-> Short(total), verHdrLen |-> <<69>>, ToS |-> <<0>>,
             IDNumber |-> Zeros(2), Offset |-> Zeros(2), TTL |-> <<IP_TIME_TO_LIVE>>,
             Checksum |-> Zeros(2)])
        check == Sums!ipChecksum(Read(header, ipPacket, IP_HEADER_LEN))
        packet == Fill(header, ipPacket, ipHeader, [Checksum |-> check])
    IN  ethSendFrame(total + ETH_HEADER_LEN, arpIpOut(packet, ethPacket, my), ethPacket)

\* The IP header's checksum stays: the sum does not change with the swap.
icmpEchoReply(buffer, my) ==
    LET Address(field) == Read(buffer, Packet + ipHeader[field], 4)
        len == Number(Read(buffer, Packet + ipHeader.Len, 2))
        type == Fill(buffer, Inner, icmpHeader, [Type |-> <<0>>, Checksum |-> Zeros(2)])
        check == Sums!ipChecksum(Read(type, Inner, len - IP_HEADER_LEN))
        reply == Fill(type, Inner, icmpHeader, [Checksum |-> check])
        swapped == Fill(reply, Packet, ipHeader,
            [desIPAddr |-> Address("srcIPAddr"), srcIPAddr |-> Address("desIPAddr")])
    IN  ethSendFrame(len + ETH_HEADER_LEN, arpIpOut(swapped, 0, my), 0)

---------------------------------------------------------------------------
(* UDP and DHCP *)

UDPReply(buffer, my, dstIP, dstPort, str) ==
    LET len == UDP_HEADER_LEN + Len(str)
        datagram == Fill(buffer, Inner, udpHeader,
            [desPort |-> dstPort, srcPort |-> my.port, Len |-> Short(len),
             Checksum |-> Zeros(2), data |-> str])
    IN  ipSend(datagram, my, dstIP, IP_PROTO_UDP, len, Inner)

udpSend(buffer, my, dstIp, dstPort, srcPort, len, udpData) ==
    LET total == len + UDP_HEADER_LEN
        datagram == Fill(buffer, udpData - UDP_HEADER_LEN, udpHeader,
            [desPort |-> dstPort, srcPort |-> srcPort, Len |-> Short(total),
             Checksum |-> Zeros(2)])
    IN  ipSend(datagram, my, dstIp, IP_PROTO_UDP, total, udpData - UDP_HEADER_LEN)

DHCP_UDP_SERVER_PORT == Short(67)
DHCP_UDP_CLIENT_PORT == Short(68)
Message == Inner + UDP_HEADER_LEN
magic_cookie == <<99, 130, 83, 99>>
add_req_opions == <<55, 3, NETMASK, ROUTERS, DNSSERVERS>>

\* Three bytes that were not written follow END, and ten follow CHAddr.
dhcpDiscover(buffer, my) ==
    LET message == Fill(buffer, Message, DHCPHeader,
            [opcode |-> <<1>>, Htype |-> <<1>>, Hlen |-> <<6>>, Hops |-> <<0>>,
             Xid |-> my.DhcpTransactID, Secs |-> Zeros(2), Flag |-> Short(1),
             CIAddr |-> my.ipAddr, YIAddr |-> Zeros(4), SIAddr |-> Zeros(4),
             GIAddr |-> Zeros(4), CHAddr |-> my.hwAddr, SName |-> Zeros(64),
             File |-> Zeros(128), cookie |-> magic_cookie,
             options |-> add_msg_type(1) \o add_req_opions \o <<END>>])
    IN  udpSend(message, my, AllOnesIP, DHCP_UDP_SERVER_PORT, DHCP_UDP_CLIENT_PORT,
                DHCP_HEADER_LEN + 3 + 1 + 8, Message)

\* The request is written over the offer, whose address it names.
RequestOver(buffer, my, severid) ==
    LET yiaddr == Read(buffer, Message + DHCPHeader.YIAddr, 4)
        options == Read(buffer, Message + DHCPHeader.options, RequestLength)
        message == Fill(buffer, Message, DHCPHeader,
            [opcode |-> <<1>>, CIAddr |-> Zeros(4), GIAddr |-> Zeros(4), YIAddr |-> Zeros(4),
             options |-> dhcpRequest(options, yiaddr, severid)])
    IN  udpSend(message, my, AllOnesIP, DHCP_UDP_SERVER_PORT, DHCP_UDP_CLIENT_PORT,
                DHCP_HEADER_LEN + RequestLength, Message)

---------------------------------------------------------------------------
(* TCP *)

Has(flags, flag) == (flags \div flag) % 2 = 1

\* Mutant: they go to every segment.
WrongSynOptions(flags) == <<2, 4>> \o Short(MAX_SEGMENT_SIZE) \o <<1, 3, 3, 0>>

\* The options of a SYN, written behind the header, over what is there.
SynOptions(flags) ==
    IF Has(flags, TCP_SYN_FLAG)
    THEN <<2, 4>> \o Short(MAX_SEGMENT_SIZE) \o <<1, 3, 3, 0>>
    ELSE <<>>

\* Mutant: TTL keeps what it was.
WrongPseudoHeader(buffer, my, ses, len, at) ==
    Fill(buffer, at - IP_HEADER_LEN, ipHeader,
         [srcIPAddr |-> my.ipAddr, desIPAddr |-> ses.desIP, Checksum |-> Short(len),
          Protocol |-> <<IP_PROTO_TCP>>])

\* The pseudo header is laid over the end of the IP header, so that it lies
\* right in front of the segment: its length where the checksum is going to be.
PseudoHeader(buffer, my, ses, len, at) ==
    Fill(buffer, at - IP_HEADER_LEN, ipHeader,
         [srcIPAddr |-> my.ipAddr, desIPAddr |-> ses.desIP, Checksum |-> Short(len),
          TTL |-> <<0>>, Protocol |-> <<IP_PROTO_TCP>>])

\* No call gives it data to send.
TCPPackedSend(buffer, my, ses, flags, dataBuffer) ==
    LET options == SynOptions(flags)
        len == TCP_HEADER_LEN + Len(options)
        at == dataBuffer - TCP_HEADER_LEN
        segment == Fill(buffer, at, tcpHeader,
            [options |-> options, Srcport |-> ses.srcPort, DstPort |-> ses.desPort,
             SeqNumber |-> ses.SeqNumber, AckNumber |-> ses.AckNumber,
             Offset |-> <<len * 4>>, Flags |-> <<flags>>, Windown |-> Short(8192),
             Checksum |-> Zeros(2), Urgenpt |-> Zeros(2)])
        pseudo == PseudoHeader(segment, my, ses, len, at)
        check == Sums!checksum(Read(pseudo, at - IP_HEADER_LEN + ipHeader.TTL, len + 12))
    IN  ipSend(Fill(pseudo, at, tcpHeader, [Checksum |-> check]), my, ses.desIP,
               IP_PROTO_TCP, len, at)

\* Where TCPProcess finds the data of a segment, and how much of it.
Segment(buffer) ==
    LET ipHeaderLen == (buffer[Packet + 1] % 16) * 4
        tcpHeaderLen == (buffer[Inner + tcpHeader.Offset + 1] \div 16) * 4
    IN  [tcpData |-> Packet + ipHeaderLen + tcpHeaderLen,
         dataLen |-> Number(Read(buffer, Packet + ipHeader.Len, 2)) - ipHeaderLen - tcpHeaderLen]

\* What TCPProcess sends for the segments that go well: the SYN of a new
\* session, and the next segment or the FIN of an established one.
TCPReplies(buffer, my) ==
    LET Field(field, len) == Read(buffer, Inner + tcpHeader[field], len)
        flags == Field("Flags", 1)[1]
        tcpData == Segment(buffer).tcpData
        dataLen == Segment(buffer).dataLen
        Ses(seq, ack) ==
            [srcPort |-> Short(60000), desPort |-> Field("Srcport", 2),
             desIP |-> Read(buffer, Packet + ipHeader.srcIPAddr, 4),
             SeqNumber |-> seq, AckNumber |-> ack]
        Reply(in, ses, reply) == TCPPackedSend(in, my, ses, reply, tcpData)
        seq == Field("SeqNumber", 4)
        ack == Field("AckNumber", 4)
    IN  IF flags = TCP_SYN_FLAG
        THEN <<Reply(buffer, Ses(seq, Plus(seq, 1)), TCP_SYN_FLAG + TCP_ACK_FLAG)>>
        ELSE IF Has(flags, TCP_FIN_FLAG)
        THEN LET ses == Ses(ack, Plus(seq, dataLen + 1))
                 first == Reply(buffer, ses, TCP_ACK_FLAG)
             IN  <<first, Reply(first.buffer, ses, TCP_FIN_FLAG + TCP_ACK_FLAG)>>
        ELSE IF Has(flags, TCP_PSH_FLAG)
        THEN <<Reply(buffer, Ses(ack, Plus(seq, dataLen)), TCP_ACK_FLAG)>>
        ELSE <<>>

---------------------------------------------------------------------------
(* The other side: frames as the RFCs lay them out *)

Ethernet(des, src, type, payload) == des \o src \o Short(type) \o payload

Arp(opcode, sender, target) ==
    <<0, 1, 8, 0, 6, 4>> \o Short(opcode) \o sender.hwAddr \o sender.ipAddr
        \o target.hwAddr \o target.ipAddr

Ipv4(protocol, ttl, src, des, payload) ==
    LET Header(check) ==
            <<69, 0>> \o Short(20 + Len(payload)) \o <<0, 0, 0, 0, ttl, protocol>>
                \o check \o src \o des
    IN  Header(Sums!checksum(Header(<<0, 0>>))) \o payload

Icmp(type, rest) ==
    LET Echo(check) == <<type, 0>> \o check \o rest
    IN  Echo(Sums!checksum(Echo(<<0, 0>>)))

Udp(srcPort, desPort, payload) ==
    srcPort \o desPort \o Short(8 + Len(payload)) \o <<0, 0>> \o payload

Tcp(src, des, ports, seq, ack, flags, options, payload) ==
    LET Header(check) ==
            ports \o seq \o ack \o <<(20 + Len(options)) * 4, flags, 32, 0>> \o check
                \o <<0, 0>> \o options
        length == Len(Header(<<0, 0>>) \o payload)
        pseudo == src \o des \o <<0, 6>> \o Short(length)
    IN  Header(Sums!checksum(pseudo \o Header(<<0, 0>>) \o payload)) \o payload

\* A message of DHCP without its options: what is not given is 0.
Bootp(opcode, xid, flag, yiaddr, hwAddr) ==
    <<opcode, 1, 6, 0>> \o xid \o <<0, 0>> \o flag \o Zeros(4) \o yiaddr \o Zeros(8)
        \o hwAddr \o Zeros(10) \o Zeros(192) \o magic_cookie
=============================================================================
