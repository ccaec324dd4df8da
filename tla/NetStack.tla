------------------------------ MODULE NetStack ------------------------------
(***************************************************************************)
(* ARP, IP, ICMP and UDP between the frames the ENC28J60 has stored and    *)
(* the frames the board sends.  The main loop takes one frame at a time,   *)
(* answers it from the same buffer and ends the turn; the timer interrupt  *)
(* ages the ARP table.  Hosts on the link resolve an address of the board, *)
(* ping it there and send it UDP messages, and forget what they resolved.  *)
(* DHCP gives the board an address and, whenever a further ACK comes, the  *)
(* same or another one; hosts and frames under way go on with the old.     *)
(*                                                                         *)
(* A hardware address is the name of its owner.  An IP address is a pair   *)
(* of halves, network and host, and a mask is a pair of Zeros and Ones.    *)
(* DHCP and TCP traffic is left to DhcpClient and TcpSessions.             *)
(***************************************************************************)
EXTENDS Integers, Sequences

CONSTANTS
    Hosts,                   \* hosts of the link; the name is the MAC address
    Persistent,              \* hosts that ping and resolve the board for ever
    Board,                   \* the board's MAC address
    Leases,                  \* host halves of the addresses that DHCP leases to it
    Networks,                \* masks and gateways that come with an address
    ARP_TABLE_SIZE,
    ARP_CACHE_TIME_TO_LIVE,
    TIMER_PERIOD,            \* ticks of Timer_ISR for one call of arpTimer (10)
    MaxWaiting,              \* bound: frames waiting in the chip's ring
    MaxFaults                \* bound: answers lost, restarts, and changes of
                             \* an address in use

Zeros == "0"
Ones == "1"
Lan == "lan"
NoHost == "00:00:00:00:00:00"
Everyone == "ff:ff:ff:ff:ff:ff"

NoIP == <<Zeros, Zeros>>
BroadcastIP == <<Ones, Ones>>
BoardIP(lease) == <<Lan, lease>>
HostIP(h) == <<Lan, h>>

ASSUME NetAssumption ==
    /\ Board \notin Hosts
    /\ Persistent \subseteq Hosts
    /\ {Board, Zeros, Ones, Lan, NoHost, Everyone} \cap Hosts = {}
    /\ Leases \cap (Hosts \cup {Zeros, Ones}) = {}
    /\ Networks \subseteq [subnet : {<<Ones, Zeros>>, NoIP},
                           gateway : {HostIP(h) : h \in Hosts} \cup {NoIP}]
    /\ {ARP_TABLE_SIZE, ARP_CACHE_TIME_TO_LIVE, TIMER_PERIOD} \subseteq Nat \ {0}
    /\ {MaxWaiting, MaxFaults} \subseteq Nat

VARIABLES
    Info,       \* GetInfo(): ipAddr, subnet, gateway
    ARPMyAddr,  \* ipAddr, hwAddr
    ARPTable,
    i,          \* Delay.c: ticks since arpTimer was called
    rx,         \* frames in the chip's ring, the oldest first
    sent,       \* frames sent in the last step
    knows,      \* the address of the board that each host has in its ARP cache
    answered,   \* history: Persistent hosts that had an echo reply since their last ping
    asker,      \* history: the host whose ARP packet was taken last
    age,        \* history: ticks since then, up to MaxAge
    faults

boardVars == <<Info, ARPMyAddr, ARPTable, i>>
hostVars == <<knows, answered>>
history == <<asker, age>>
vars == <<boardVars, rx, sent, hostVars, history, faults>>

Halves == {Zeros, Ones, Lan} \cup Leases \cup Hosts
IP == Halves \X Halves
BoardIPs == {BoardIP(lease) : lease \in Leases}
MAC == Hosts \cup {Board, NoHost, Everyone}
MaxAge == TIMER_PERIOD * ARP_CACHE_TIME_TO_LIVE + 1

Arp(from, opcode, ip) ==
    [type |-> "arp", opcode |-> opcode, srcAddr |-> from, desAddr |-> Everyone,
     shwAddr |-> from, sipAddr |-> HostIP(from),
     dhwAddr |-> NoHost, dipAddr |-> ip]
Ip(from, protocol, dst) ==
    [type |-> "ip", protocol |-> protocol, srcAddr |-> from, desAddr |-> Board,
     srcIPAddr |-> HostIP(from), desIPAddr |-> dst]

---------------------------------------------------------------------------
(* The ARP table *)

Indices == 0 .. ARP_TABLE_SIZE - 1
EmptyEntry == [ipAddr |-> NoIP, hwAddr |-> NoHost, time |-> 0]

\* The if of the loop ends in a semicolon, so the first entry is always found.
arpSearchIP(ip) == 0

\* Mutant: the entry of the first asker is kept.
WrongarpUpdateEntry(hw, ip) ==
    LET kept == ARPTable[arpSearchIP(ip)].hwAddr
    IN  ARPTable' = [ARPTable EXCEPT ![arpSearchIP(ip)] =
            [ipAddr |-> ip, hwAddr |-> IF kept = NoHost THEN hw ELSE kept,
             time |-> ARP_CACHE_TIME_TO_LIVE]]

arpUpdateEntry(hw, ip) ==
    LET index == arpSearchIP(ip)
    IN  ARPTable' = [ARPTable EXCEPT ![index] =
            [ipAddr |-> ip, hwAddr |-> hw, time |-> ARP_CACHE_TIME_TO_LIVE]]

\* Mutant: without the test for zero.
WrongarpTimer ==
    ARPTable' = [k \in Indices |-> [ARPTable[k] EXCEPT !.time = @ - 1]]

arpTimer ==
    ARPTable' = [k \in Indices |->
        [ARPTable[k] EXCEPT !.time = IF @ > 0 THEN @ - 1 ELSE @]]

\* arpIpOut; phyDstIp is the address of the gateway or, for a null pointer, the
\* frame's own destination.
arpIpOut(frame, phyDstIp) ==
    LET index == arpSearchIP(phyDstIp)
    IN  [frame EXCEPT !.srcAddr = ARPMyAddr.hwAddr,
            !.desAddr = IF index \in Indices THEN ARPTable[index].hwAddr
                                             ELSE Everyone]

---------------------------------------------------------------------------
(* Answers, made in the buffer that holds the frame they answer *)

\* x | mask, half by half.
Or(ip, mask) == [n \in 1 .. 2 |-> IF mask[n] = Ones THEN Ones ELSE ip[n]]

\* Mutant: the own addresses are written before the asker's are copied.
WrongArpReply(p) ==
    [p EXCEPT !.dhwAddr = ARPMyAddr.hwAddr, !.dipAddr = ARPMyAddr.ipAddr,
              !.shwAddr = ARPMyAddr.hwAddr, !.sipAddr = ARPMyAddr.ipAddr,
              !.opcode = "reply",
              !.desAddr = p.srcAddr, !.srcAddr = ARPMyAddr.hwAddr]

ArpReply(p) ==
    [p EXCEPT !.dhwAddr = p.shwAddr, !.dipAddr = p.sipAddr,
              !.shwAddr = ARPMyAddr.hwAddr, !.sipAddr = ARPMyAddr.ipAddr,
              !.opcode = "reply",
              !.desAddr = p.srcAddr, !.srcAddr = ARPMyAddr.hwAddr]

icmpEchoReply(p) ==
    LET reply == [p EXCEPT !.protocol = "echo_reply",
                           !.desIPAddr = p.srcIPAddr, !.srcIPAddr = p.desIPAddr]
    IN  arpIpOut(reply, reply.desIPAddr)

icmpIpIn(p) == IF p.protocol = "echo_request" THEN <<icmpEchoReply(p)>> ELSE <<>>

\* == binds stronger than & in C: the test of ipSend is
\* subnet & (dst == ipAddr) & subnet, whose lowest bit is the mask's.
Local(dst) == dst = Info.ipAddr /\ Info.subnet[2] = Ones

ipSend(dst, p) ==
    arpIpOut([p EXCEPT !.desIPAddr = dst, !.srcIPAddr = Info.ipAddr],
             IF Local(dst) THEN dst ELSE Info.gateway)

UDPReply(dst, p) == ipSend(dst, p)

\* A message to the port, answered with "Hello"; messages to others are DHCP's.
UDPProcess(p) ==
    IF p.desIPAddr = Info.ipAddr THEN <<UDPReply(p.srcIPAddr, p)>> ELSE <<>>

Accepted(p) == p.desIPAddr \in {Info.ipAddr, Or(Info.ipAddr, Info.subnet), BroadcastIP}

\* What is sent for an IP packet.
IPProcess(p) ==
    CASE ~Accepted(p) -> <<>>
      [] Accepted(p) /\ p.protocol = "udp" -> UDPProcess(p)
      [] OTHER -> icmpIpIn(p)

---------------------------------------------------------------------------
(* The board *)

\* A host receives what is sent to its address or to everyone, and takes the
\* sender of an ARP answer for the board.  A frame has at most one answer.
Deliver(frames) ==
    LET for(h) == {n \in DOMAIN frames : frames[n].desAddr \in {h, Everyone}}
    IN  /\ knows' = [h \in Hosts |->
               IF \E n \in for(h) : frames[n].type = "arp" THEN Head(frames).sipAddr
                                                           ELSE knows[h]]
        /\ answered' = answered \cup {h \in Persistent : \E n \in for(h) :
               /\ frames[n].type = "ip"
               /\ frames[n].protocol = "echo_reply"
               /\ frames[n].desIPAddr = HostIP(h)}

Transmit(frames) ==
    /\ sent' = frames
    /\ \/ Deliver(frames) /\ UNCHANGED faults
       \/ /\ frames # <<>>
          /\ faults < MaxFaults
          /\ faults' = faults + 1
          /\ UNCHANGED hostVars

\* Mutant: takes ARP packets for any address.
WrongarpProcess(p) ==
    /\ arpUpdateEntry(p.shwAddr, p.sipAddr)
    /\ Transmit(IF p.opcode = "request" THEN <<ArpReply(p)>> ELSE <<>>)
    /\ asker' = p.shwAddr
    /\ age' = 0

\* The checks of arpProcess on the types and lengths hold for every ARP frame
\* here.
arpProcess(p) ==
    IF p.dipAddr = ARPMyAddr.ipAddr
    THEN /\ arpUpdateEntry(p.shwAddr, p.sipAddr)
         /\ Transmit(IF p.opcode = "request" THEN <<ArpReply(p)>> ELSE <<>>)
         /\ asker' = p.shwAddr
         /\ age' = 0
    ELSE Transmit(<<>>) /\ UNCHANGED <<ARPTable, history>>

PacketInComming ==
    /\ rx # <<>>
    /\ rx' = Tail(rx)
    /\ \/ Head(rx).type = "arp" /\ arpProcess(Head(rx))
       \/ /\ Head(rx).type = "ip"
          /\ Transmit(IPProcess(Head(rx)))
          /\ UNCHANGED <<ARPTable, history>>
    /\ UNCHANGED <<Info, ARPMyAddr, i>>

\* Mutant: counts one tick too many.
WrongTimer_ISR ==
    /\ i' = IF i = TIMER_PERIOD THEN 0 ELSE i + 1
    /\ IF i = TIMER_PERIOD THEN arpTimer ELSE UNCHANGED ARPTable
    /\ age' = IF asker = NoHost \/ age = MaxAge THEN age ELSE age + 1
    /\ sent' = <<>>
    /\ UNCHANGED <<Info, ARPMyAddr, rx, hostVars, asker, faults>>

\* An interrupt between two of the stores of arpUpdateEntry changes nothing but
\* the entry's time, which the last of the stores sets.
Timer_ISR ==
    /\ i' = (i + 1) % TIMER_PERIOD
    /\ IF i' = 0 THEN arpTimer ELSE UNCHANGED ARPTable
    /\ age' = IF asker = NoHost \/ age = MaxAge THEN age ELSE age + 1
    /\ sent' = <<>>
    /\ UNCHANGED <<Info, ARPMyAddr, rx, hostVars, asker, faults>>

ipConfig(ip, mask, gateway) ==
    Info' = [ipAddr |-> ip, subnet |-> mask, gateway |-> gateway]

\* Mutant: ARP keeps an address that it has.
WrongarpSetAddress(hw, ip) ==
    ARPMyAddr' = [ipAddr |-> IF ARPMyAddr.ipAddr = NoIP THEN ip ELSE ARPMyAddr.ipAddr,
                  hwAddr |-> hw]

arpSetAddress(hw, ip) == ARPMyAddr' = [ipAddr |-> ip, hwAddr |-> hw]

\* dhcpIn, for an ACK in any state: the first one, the same again, or that of
\* another server, which changes an address in use.  The table stays as it is.
DhcpAck ==
    /\ \E lease \in Leases, network \in Networks :
           ipConfig(BoardIP(lease), network.subnet, network.gateway)
    /\ arpSetAddress(Board, Info'.ipAddr)
    /\ faults' = IF Info.ipAddr \in {NoIP, Info'.ipAddr} THEN faults ELSE faults + 1
    /\ faults' <= MaxFaults
    /\ sent' = <<>>
    /\ UNCHANGED <<ARPTable, i, rx, hostVars, history>>

NoInfo == [ipAddr |-> NoIP, subnet |-> NoIP, gateway |-> NoIP]
NoAddress == [ipAddr |-> NoIP, hwAddr |-> Board]
EmptyTable == [k \in Indices |-> EmptyEntry]

\* netInit after a reset, which also empties the chip's ring.
Restart ==
    /\ faults < MaxFaults
    /\ faults' = faults + 1
    /\ ipConfig(NoIP, NoIP, NoIP) /\ arpSetAddress(Board, NoIP)
    /\ ARPTable' = EmptyTable /\ i' = 0
    /\ rx' = <<>> /\ sent' = <<>>
    /\ asker' = NoHost /\ age' = 0
    /\ UNCHANGED hostVars

---------------------------------------------------------------------------
(* The hosts *)

\* When the ring is full the chip drops the frame.
Send(frame) ==
    /\ Len(rx) < MaxWaiting
    /\ rx' = Append(rx, frame)
    /\ sent' = <<>>
    /\ UNCHANGED <<boardVars, history, faults>>

\* A host does not know which address the board has, and tries.
Ask(h, ip) == knows[h] = NoIP /\ Send(Arp(h, "request", ip)) /\ UNCHANGED hostVars

\* An ARP reply that nobody asked for: the board never calls arpSendReq.
Announce(h, ip) == Send(Arp(h, "reply", ip)) /\ UNCHANGED hostVars

\* A host pings the address it has resolved, though it may be the board's no more.
Ping(h) ==
    /\ knows[h] # NoIP
    /\ Send(Ip(h, "echo_request", knows[h]))
    /\ answered' = answered \ {h}
    /\ UNCHANGED knows

PingAll(h) == Send(Ip(h, "echo_request", BroadcastIP)) /\ UNCHANGED hostVars

Message(h) == knows[h] # NoIP /\ Send(Ip(h, "udp", knows[h])) /\ UNCHANGED hostVars

Forget(h) ==
    /\ knows[h] # NoIP
    /\ knows' = [knows EXCEPT ![h] = NoIP]
    /\ sent' = <<>>
    /\ UNCHANGED <<boardVars, rx, answered, history, faults>>

Host(h) ==
    \/ \E ip \in BoardIPs : Ask(h, ip) \/ Announce(h, ip)
    \/ Ping(h) \/ PingAll(h) \/ Message(h) \/ Forget(h)

Init ==
    /\ Info = NoInfo /\ ARPMyAddr = NoAddress /\ ARPTable = EmptyTable /\ i = 0
    /\ rx = <<>> /\ sent = <<>>
    /\ knows = [h \in Hosts |-> NoIP] /\ answered = {}
    /\ asker = NoHost /\ age = 0
    /\ faults = 0

Next == PacketInComming \/ Timer_ISR \/ DhcpAck \/ Restart \/ \E h \in Hosts : Host(h)

\* The main loop takes every frame, and a board without an address gets one.
\* Persistent hosts age their caches, try every address the board may have and go
\* on pinging; a frame that is sent again and again is not dropped for ever.
\* Other hosts may fall silent.
Fairness ==
    /\ WF_vars(PacketInComming) /\ WF_vars(DhcpAck /\ Info.ipAddr = NoIP)
    /\ \A h \in Persistent :
           /\ \A ip \in BoardIPs : SF_vars(Ask(h, ip))
           /\ SF_vars(Ping(h)) /\ WF_vars(Forget(h))

Spec == Init /\ [][Next]_vars
FairSpec == Spec /\ Fairness
---------------------------------------------------------------------------
(* Properties *)

\* The table, the addresses and the wire hold values of their types.
TypeOK ==
    /\ Info \in [ipAddr : IP, subnet : IP, gateway : IP]
    /\ ARPMyAddr \in [ipAddr : IP, hwAddr : MAC]
    /\ ARPTable \in [Indices -> [ipAddr : IP, hwAddr : MAC, time : 0 .. ARP_CACHE_TIME_TO_LIVE]]
    /\ i \in 0 .. TIMER_PERIOD - 1
    /\ Len(rx) <= MaxWaiting
    /\ Len(sent) <= 1
    /\ knows \in [Hosts -> BoardIPs \cup {NoIP}] /\ answered \subseteq Hosts
    /\ asker \in Hosts \cup {NoHost}
    /\ age \in 0 .. MaxAge
    /\ faults \in 0 .. MaxFaults

SentOf(type) == {sent[n] : n \in {m \in DOMAIN sent : sent[m].type = type}}

\* An ARP answer, which is written over the request, names as the sender the
\* board and the address that IPProcess accepts, as the target the asker, and goes
\* to the asker: neither a wrong order of the copies nor a change of the address,
\* which is kept in ARPMyAddr and in GetInfo(), while the request waits or hosts
\* remember the old one, makes a host send where nobody listens.
ArpAnswersTrue ==
    \A p \in SentOf("arp") :
        /\ p.opcode = "reply"
        /\ p.sipAddr = Info.ipAddr /\ p.shwAddr = Board /\ p.srcAddr = Board
        /\ p.dhwAddr = p.desAddr
        /\ p.dipAddr = HostIP(p.desAddr)

\* As long as the board has no address it knows no host, so what it sends goes
\* to 00:00:00:00:00:00.
UnaddressedKnowsNobody ==
    Info.ipAddr = NoIP => \A k \in Indices : ARPTable[k] = EmptyEntry

Owner ==
    INSTANCE ArpEntry
        WITH Nobody <- NoHost, hasAddress <- Info.ipAddr # NoIP,
             owner <- ARPTable[0].hwAddr

\* The table is the one entry DhcpClient sends through: it changes hands only
\* when a host resolves the board, which has an address then, a change of the
\* address leaves it as it is, and a restart clears it together with the address,
\* though four functions write the two.
ImplementsArpEntry == Owner!Spec

\* An answer to an IP packet reaches the host it is meant for exactly if no other
\* host's ARP packet was taken, and the board has not restarted, since that host
\* resolved the board: every lookup ends at the first entry of the table.
AnswersGoToLastAsker ==
    \A p \in SentOf("ip") : \A h \in Hosts :
        p.desIPAddr = HostIP(h) => (p.desAddr = h <=> asker = h)

\* arpPrintTable shows an entry until its time is up, counted in whole periods
\* of the timer from the ARP packet that made it: not longer, and at most one
\* period less.
EntryShownForItsTime ==
    asker # NoHost =>
        IF ARPTable[0].time > 0
        THEN age < TIMER_PERIOD * ARP_CACHE_TIME_TO_LIVE
        ELSE age > TIMER_PERIOD * (ARP_CACHE_TIME_TO_LIVE - 1)

OtherAsks(h) ==
    /\ PacketInComming
    /\ Head(rx).type = "arp" /\ Head(rx).srcAddr # h

\* A host that goes on pinging and resolving the board is answered again and
\* again, unless other hosts resolve the board again and again: the table
\* recovers from any ARP traffic, lost answer, restart or change of the address.
AskerServed ==
    \A h \in Persistent : []<>(h \in answered) \/ []<><<OtherAsks(h)>>_vars
=============================================================================
