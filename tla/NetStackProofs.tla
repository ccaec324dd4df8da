--------------------------- MODULE NetStackProofs ---------------------------
(***************************************************************************)
(* Theorems about NetStack, for any hosts, table size, lifetime and ring.  *)
(* The first entry of the table is the only one in use, and it belongs to  *)
(* the host whose ARP packet was taken last; none is taken before the      *)
(* board has an address, because hosts ask for leased addresses only.      *)
(***************************************************************************)
EXTENDS NetStack, SequenceTheorems, TLAPS

\* What waits in the ring is what Ask, Announce, Ping, PingAll and Message send.
WaitingArp ==
    {Arp(h, opcode, ip) : h \in Hosts, opcode \in {"request", "reply"}, ip \in BoardIPs}
WaitingIp ==
    {Ip(h, protocol, ip) : h \in Hosts, protocol \in {"echo_request", "udp"}, ip \in BoardIPs}
    \cup {Ip(h, "echo_request", BroadcastIP) : h \in Hosts}
Waiting == WaitingArp \cup WaitingIp

\* How the age of the first entry and the time left to it belong together: every
\* period that has been taken from its time has passed, and i ticks of the next
\* one, less the at most TIMER_PERIOD - 1 ticks that i had when the entry was made.
Periods(n) == TIMER_PERIOD * n

InStep(time, ticks, old) ==
    IF time > 0
    THEN /\ Periods(ARP_CACHE_TIME_TO_LIVE - time) + ticks - (TIMER_PERIOD - 1) <= old
         /\ old <= Periods(ARP_CACHE_TIME_TO_LIVE - time) + ticks
    ELSE old > Periods(ARP_CACHE_TIME_TO_LIVE - 1)

TimeKept == asker # NoHost => InStep(ARPTable[0].time, i, age)

\* ARP answers for the address IP accepts: two copies of it, in ARPMyAddr and in
\* GetInfo(), that are written in different functions.
IdentityAgrees == ARPMyAddr = [ipAddr |-> Info.ipAddr, hwAddr |-> Board]

\* The inductive invariant: the board has no address or one DHCP gave it, the
\* first entry of the table is the last asker's, and the frames of the last step
\* are answers the properties allow.
NetInv ==
    /\ TypeOK
    /\ rx \in Seq(Waiting)
    /\ Info.ipAddr \in BoardIPs \cup {NoIP}
    /\ ARPTable[0].hwAddr = asker
    /\ IdentityAgrees
    /\ UnaddressedKnowsNobody
    /\ ArpAnswersTrue
    /\ AnswersGoToLastAsker
    /\ TimeKept

\* What the constants are.
LEMMA Constants ==
    /\ 0 \in Indices
    /\ TIMER_PERIOD \in Nat \ {0}
    /\ ARP_CACHE_TIME_TO_LIVE \in Nat \ {0}
    /\ MaxAge \in Nat
    /\ NoIP \notin BoardIPs
    /\ BoardIPs \cup {NoIP} \subseteq IP
    /\ \A h \in Hosts : HostIP(h) \in IP /\ h # NoHost
    /\ \A network \in Networks : network.subnet \in IP /\ network.gateway \in IP
<1>1. \A h \in Hosts : HostIP(h) \in IP /\ h # NoHost
  BY NetAssumption DEF HostIP, IP, Halves
<1>2. NoIP \notin BoardIPs /\ BoardIPs \cup {NoIP} \subseteq IP
  BY DEF BoardIPs, BoardIP, NoIP, IP, Halves, Zeros, Lan
<1>3. <<Ones, Zeros>> \in IP
  BY DEF IP, Halves
<1>4. \A network \in Networks : network.subnet \in IP /\ network.gateway \in IP
  BY <1>1, <1>2, <1>3, NetAssumption
<1>. QED
  BY <1>1, <1>2, <1>4, NetAssumption DEF Indices, MaxAge

\* Multiples of the period, by what their users need of them.
LEMMA PeriodsGrow ==
    /\ Periods(0) = 0
    /\ \A n \in Int : /\ Periods(n) \in Int
                      /\ Periods(n + 1) = Periods(n) + TIMER_PERIOD
    /\ \A m, n \in Int : m <= n => Periods(m) <= Periods(n)
<1>. DEFINE P == TIMER_PERIOD
<1>1. P \in Nat \ {0}
  BY Constants
<1>. HIDE DEF P
<1>2. P * 0 = 0 /\ \A n \in Int : P * n \in Int /\ P * (n + 1) = P * n + P
  BY <1>1
<1>3. ASSUME NEW m \in Int, NEW n \in Int, m <= n
      PROVE  P * m <= P * n
  <2>1. n - m \in Nat /\ P * (n - m) = P * n - P * m
    BY <1>1, <1>3
  <2>2. P * (n - m) >= 0
    BY <1>1, <2>1
  <2>3. P * m \in Int /\ P * n \in Int
    BY <1>1
  <2>. QED
    BY <2>1, <2>2, <2>3
<1>. QED
  BY <1>2, <1>3 DEF Periods, P

\* The ages of an entry with some time left, against those of its last period.
LEMMA PeriodsPassed ==
    ASSUME NEW L \in Nat \ {0}, NEW time \in 0 .. L
    PROVE  /\ Periods(L) \in Int /\ Periods(L - 1) \in Int /\ Periods(L - time) \in Int
           /\ Periods(L) = Periods(L - 1) + TIMER_PERIOD
           /\ Periods(L - (time - 1)) = Periods(L - time) + TIMER_PERIOD
           /\ time > 0 => Periods(L - time) <= Periods(L - 1)
<1>1. /\ L \in Int /\ L - 1 \in Int /\ L - time \in Int
      /\ L = (L - 1) + 1 /\ L - (time - 1) = (L - time) + 1
      /\ time > 0 => L - time <= L - 1
  OBVIOUS
<1>2. Periods((L - 1) + 1) = Periods(L - 1) + TIMER_PERIOD
  BY <1>1, PeriodsGrow
<1>3. Periods((L - time) + 1) = Periods(L - time) + TIMER_PERIOD
  BY <1>1, PeriodsGrow
<1>4. time > 0 => Periods(L - time) <= Periods(L - 1)
  BY <1>1, PeriodsGrow
<1>. QED
  BY <1>1, <1>2, <1>3, <1>4, PeriodsGrow

\* What comes out of the ring was sent by a host.
LEMMA WaitingShape ==
    /\ \A p \in Waiting : p.type = "arp" =>
           \E h \in Hosts, opcode \in {"request", "reply"}, ip \in BoardIPs :
               p = Arp(h, opcode, ip)
    /\ \A p \in Waiting : p.type = "ip" =>
           \E h \in Hosts, protocol \in {"echo_request", "udp"},
              dst \in BoardIPs \cup {BroadcastIP} : p = Ip(h, protocol, dst)
<1>1. ASSUME NEW p \in WaitingArp
      PROVE  /\ p.type = "arp"
             /\ \E h \in Hosts, opcode \in {"request", "reply"}, ip \in BoardIPs :
                   p = Arp(h, opcode, ip)
  BY DEF WaitingArp, Arp
<1>2. ASSUME NEW p \in WaitingIp
      PROVE  /\ p.type = "ip"
             /\ \E h \in Hosts, protocol \in {"echo_request", "udp"},
                   dst \in BoardIPs \cup {BroadcastIP} : p = Ip(h, protocol, dst)
  <2>1. PICK h \in Hosts, protocol \in {"echo_request", "udp"},
             dst \in BoardIPs \cup {BroadcastIP} : p = Ip(h, protocol, dst)
    <3>1. CASE p \in {Ip(h, protocol, ip) :
                         h \in Hosts, protocol \in {"echo_request", "udp"}, ip \in BoardIPs}
      BY <3>1 DEF Ip
    <3>2. CASE p \in {Ip(h, "echo_request", BroadcastIP) : h \in Hosts}
      BY <3>2 DEF Ip
    <3>. QED
      BY <3>1, <3>2 DEF WaitingIp
  <2>2. p.type = "ip"
    BY <2>1 DEF Ip
  <2>. QED
    BY <2>1, <2>2
<1>. QED
  BY <1>1, <1>2 DEF Waiting

\* The table after an ARP packet.
LEMMA UpdateEntry ==
    ASSUME TypeOK, NEW h \in Hosts, arpUpdateEntry(h, HostIP(h))
    PROVE  /\ ARPTable' \in [Indices -> [ipAddr : IP, hwAddr : MAC,
                                         time : 0 .. ARP_CACHE_TIME_TO_LIVE]]
           /\ ARPTable'[0].hwAddr = h
           /\ ARPTable'[0].time = ARP_CACHE_TIME_TO_LIVE
BY Constants DEF TypeOK, arpUpdateEntry, arpSearchIP, MAC

\* Aging changes times only, and keeps them in range.
LEMMA Aging ==
    ASSUME TypeOK, arpTimer
    PROVE  /\ ARPTable' \in [Indices -> [ipAddr : IP, hwAddr : MAC,
                                         time : 0 .. ARP_CACHE_TIME_TO_LIVE]]
           /\ \A k \in Indices : ARPTable'[k].hwAddr = ARPTable[k].hwAddr
           /\ \A k \in Indices : ARPTable[k] = EmptyEntry => ARPTable'[k] = EmptyEntry
           /\ ARPTable'[0].time =
                 IF ARPTable[0].time > 0 THEN ARPTable[0].time - 1 ELSE 0
BY Constants DEF TypeOK, arpTimer, EmptyEntry

\* Sending frames delivers or loses them; hosts and faults stay in range.
LEMMA Transmission ==
    ASSUME TypeOK, NEW frames, Transmit(frames),
           \A n \in DOMAIN frames : frames[n].type = "arp" => Head(frames).sipAddr \in BoardIPs
    PROVE  /\ sent' = frames
           /\ knows' \in [Hosts -> BoardIPs \cup {NoIP}] /\ answered' \subseteq Hosts
           /\ faults' \in 0 .. MaxFaults
<1>1. CASE Deliver(frames) /\ UNCHANGED faults
  <2>1. knows' \in [Hosts -> BoardIPs \cup {NoIP}]
    BY <1>1 DEF Deliver, TypeOK
  <2>2. answered' \subseteq Hosts
    BY <1>1, NetAssumption DEF Deliver, TypeOK
  <2>. QED
    BY <1>1, <2>1, <2>2 DEF Transmit, TypeOK
<1>2. CASE faults < MaxFaults /\ faults' = faults + 1 /\ UNCHANGED hostVars
  BY <1>2, NetAssumption DEF Transmit, TypeOK, hostVars
<1>. QED
  BY <1>1, <1>2 DEF Transmit

\* A step that sends nothing answers nobody.
LEMMA NothingSent ==
    ASSUME sent = <<>>
    PROVE  /\ Len(sent) <= 1
           /\ ArpAnswersTrue /\ AnswersGoToLastAsker
BY DEF ArpAnswersTrue, AnswersGoToLastAsker, SentOf

\* The rest of a step that sends nothing and leaves table, addresses and askers
\* alone.
LEMMA QuietStep ==
    ASSUME NetInv, rx' \in Seq(Waiting), Len(rx') <= MaxWaiting, sent' = <<>>,
           UNCHANGED <<boardVars, history, faults>>,
           knows' \in [Hosts -> BoardIPs \cup {NoIP}], answered' \subseteq Hosts
    PROVE  NetInv'
<1>1. TypeOK'
  BY DEF NetInv, TypeOK, boardVars, history
<1>2. ArpAnswersTrue' /\ AnswersGoToLastAsker'
  BY DEF ArpAnswersTrue, AnswersGoToLastAsker, SentOf
<1>. QED
  BY <1>1, <1>2 DEF NetInv, IdentityAgrees, UnaddressedKnowsNobody, TimeKept,
      boardVars, history

\* What a host sends waits at the end of the ring.
LEMMA SendStep ==
    ASSUME NetInv, NEW frame \in Waiting, Send(frame),
           knows' \in [Hosts -> BoardIPs \cup {NoIP}], answered' \subseteq Hosts
    PROVE  NetInv'
<1>1. rx' \in Seq(Waiting) /\ Len(rx') = Len(rx) + 1
  BY AppendProperties DEF NetInv, Send
<1>2. Len(rx') <= MaxWaiting
  BY <1>1, NetAssumption, LenProperties DEF Send, NetInv
<1>. QED
  BY <1>1, <1>2, QuietStep DEF Send

\* A host asks, answers or sends a datagram.
LEMMA HostStep ==
    ASSUME NetInv, NEW h \in Hosts, Host(h)
    PROVE  NetInv'
<1>0. knows \in [Hosts -> BoardIPs \cup {NoIP}] /\ answered \subseteq Hosts
  BY DEF NetInv, TypeOK
<1>1. ASSUME NEW ip \in BoardIPs, Ask(h, ip) PROVE NetInv'
  <2>1. Arp(h, "request", ip) \in Waiting
    BY DEF Waiting, WaitingArp
  <2>. QED
    BY <1>0, <1>1, <2>1, SendStep DEF Ask, hostVars
<1>2. ASSUME NEW ip \in BoardIPs, Announce(h, ip) PROVE NetInv'
  <2>1. Arp(h, "reply", ip) \in Waiting
    BY DEF Waiting, WaitingArp
  <2>. QED
    BY <1>0, <1>2, <2>1, SendStep DEF Announce, hostVars
<1>3. CASE Ping(h)
  <2>1. Ip(h, "echo_request", knows[h]) \in Waiting
    BY <1>0, <1>3 DEF Waiting, WaitingIp, Ping
  <2>. QED
    BY <1>0, <1>3, <2>1, SendStep DEF Ping
<1>4. CASE PingAll(h)
  <2>1. Ip(h, "echo_request", BroadcastIP) \in Waiting
    BY DEF Waiting, WaitingIp
  <2>. QED
    BY <1>0, <1>4, <2>1, SendStep DEF PingAll, hostVars
<1>5. CASE Message(h)
  <2>1. Ip(h, "udp", knows[h]) \in Waiting
    BY <1>0, <1>5 DEF Waiting, WaitingIp, Message
  <2>. QED
    BY <1>0, <1>5, <2>1, SendStep DEF Message, hostVars
<1>6. CASE Forget(h)
  BY <1>0, <1>6, QuietStep DEF Forget, NetInv, TypeOK
<1>. QED
  BY <1>1, <1>2, <1>3, <1>4, <1>5, <1>6 DEF Host

\* An ARP packet taken from the ring makes its sender the last asker; only a
\* board that has an address takes one.
LEMMA ArpStep ==
    ASSUME NetInv, NEW h \in Hosts, NEW opcode \in {"request", "reply"}, NEW ip \in BoardIPs,
           arpProcess(Arp(h, opcode, ip)), UNCHANGED <<Info, ARPMyAddr, i>>,
           rx' \in Seq(Waiting), Len(rx') <= MaxWaiting
    PROVE  NetInv'
<1> DEFINE p == Arp(h, opcode, ip)
<1>0. TypeOK
  BY DEF NetInv
<1>1. /\ p.shwAddr = h /\ p.sipAddr = HostIP(h) /\ p.srcAddr = h
      /\ p.dipAddr = ip /\ p.opcode = opcode /\ p.type = "arp"
  BY DEF Arp
<1>2. CASE p.dipAddr = ARPMyAddr.ipAddr
  <2> DEFINE frames == IF opcode = "request" THEN <<ArpReply(p)>> ELSE <<>>
  <2>1. arpUpdateEntry(h, HostIP(h)) /\ Transmit(frames) /\ asker' = h /\ age' = 0
    BY <1>1, <1>2 DEF arpProcess
  <2>2. Info.ipAddr = ip /\ ARPMyAddr = [ipAddr |-> ip, hwAddr |-> Board]
    BY <1>1, <1>2 DEF NetInv, IdentityAgrees
  <2>3. /\ sent' = frames
        /\ knows' \in [Hosts -> BoardIPs \cup {NoIP}] /\ answered' \subseteq Hosts
        /\ faults' \in 0 .. MaxFaults
    <3>. DEFINE reply == ArpReply(p)
    <3>1. reply.sipAddr = ip
      BY <2>2 DEF ArpReply, Arp
    <3>2. \A n \in DOMAIN frames : Head(frames).sipAddr \in BoardIPs
      <4>. HIDE DEF reply
      <4>1. CASE opcode = "request"
        <5>1. frames = <<reply>>
          BY <4>1 DEF reply
        <5>. QED
          BY <5>1, <3>1
      <4>2. CASE opcode # "request"
        BY <4>2
      <4>. QED
        BY <4>1, <4>2
    <3>. QED
      BY <2>1, <3>2, <1>0, Transmission
  <2>4. /\ ARPTable' \in [Indices -> [ipAddr : IP, hwAddr : MAC,
                                      time : 0 .. ARP_CACHE_TIME_TO_LIVE]]
        /\ ARPTable'[0].hwAddr = h
        /\ ARPTable'[0].time = ARP_CACHE_TIME_TO_LIVE
    BY <2>1, <1>0, UpdateEntry
  <2>5. TypeOK'
    BY <1>0, <2>1, <2>3, <2>4, Constants DEF TypeOK
  <2>6. /\ ArpReply(p).type = "arp" /\ ArpReply(p).opcode = "reply"
        /\ ArpReply(p).sipAddr = ip /\ ArpReply(p).shwAddr = Board
        /\ ArpReply(p).srcAddr = Board /\ ArpReply(p).desAddr = h
        /\ ArpReply(p).dhwAddr = h /\ ArpReply(p).dipAddr = HostIP(h)
    BY <2>2 DEF ArpReply, Arp
  <2>7. ArpAnswersTrue' /\ AnswersGoToLastAsker'
    BY <2>2, <2>3, <2>6 DEF ArpAnswersTrue, AnswersGoToLastAsker, SentOf
  <2>8. TimeKept'
    <3>1. i' = i /\ i \in 0 .. TIMER_PERIOD - 1 /\ age' = 0
      BY <1>0, <2>1 DEF TypeOK
    <3>2. ARP_CACHE_TIME_TO_LIVE - ARPTable'[0].time = 0
      BY <2>4, Constants
    <3>. QED
      <4>1. Periods(0) + i' - (TIMER_PERIOD - 1) <= age' /\ age' <= Periods(0) + i'
        <5>1. Periods(0) = 0 /\ TIMER_PERIOD \in Nat /\ i' \in 0 .. TIMER_PERIOD - 1
          BY <3>1, Constants, PeriodsGrow
        <5>. QED
          BY <3>1, <5>1
      <4>2. ARPTable'[0].time > 0
        BY <2>4, Constants
      <4>. QED
        BY <3>2, <4>1, <4>2 DEF TimeKept, InStep
  <2>. QED
    BY <2>1, <2>2, <2>4, <2>5, <2>7, <2>8, Constants
    DEF NetInv, IdentityAgrees, UnaddressedKnowsNobody
<1>3. CASE p.dipAddr # ARPMyAddr.ipAddr
  <2>1. Transmit(<<>>) /\ UNCHANGED <<ARPTable, history>>
    BY <1>3 DEF arpProcess
  <2>2. /\ sent' = <<>> /\ knows' \in [Hosts -> BoardIPs \cup {NoIP}] /\ answered' \subseteq Hosts
        /\ UNCHANGED faults
    BY <2>1, <1>0, Transmission DEF Transmit
  <2>. QED
    BY <2>1, <2>2, QuietStep DEF boardVars
<1>. QED
  BY <1>2, <1>3

\* Every answer to an IP packet goes to the host of the first entry.
LEMMA IpAnswer ==
    ASSUME NEW h \in Hosts, NEW protocol \in {"echo_request", "udp"},
           NEW dst \in BoardIPs \cup {BroadcastIP}
    PROVE  \/ IPProcess(Ip(h, protocol, dst)) = <<>>
           \/ \E q : /\ IPProcess(Ip(h, protocol, dst)) = <<q>>
                     /\ q.type = "ip"
                     /\ q.desIPAddr = HostIP(h)
                     /\ q.desAddr = ARPTable[0].hwAddr
<1> DEFINE p == Ip(h, protocol, dst)
           echo == icmpEchoReply(p)
           hello == UDPReply(p.srcIPAddr, p)
<1>1. IPProcess(p) \in {<<>>, <<echo>>, <<hello>>}
  <2>1. CASE ~Accepted(p)
    BY <2>1 DEF IPProcess
  <2>2. CASE Accepted(p) /\ p.protocol = "udp"
    BY <2>2 DEF IPProcess, UDPProcess
  <2>3. CASE Accepted(p) /\ p.protocol # "udp"
    BY <2>3 DEF IPProcess, icmpIpIn
  <2>. QED
    BY <2>1, <2>2, <2>3
<1>2. /\ echo.type = "ip" /\ echo.desIPAddr = HostIP(h)
      /\ echo.desAddr = ARPTable[0].hwAddr
  BY Constants DEF icmpEchoReply, arpIpOut, arpSearchIP, Ip
<1>3. /\ hello.type = "ip" /\ hello.desIPAddr = HostIP(h)
      /\ hello.desAddr = ARPTable[0].hwAddr
  BY Constants DEF UDPReply, ipSend, arpIpOut, arpSearchIP, Ip
<1>. QED
  BY <1>1, <1>2, <1>3

\* IPProcess: the asker is entered into the table before it is answered.
LEMMA IpStep ==
    ASSUME NetInv, NEW h \in Hosts, NEW protocol \in {"echo_request", "udp"},
           NEW dst \in BoardIPs \cup {BroadcastIP},
           Transmit(IPProcess(Ip(h, protocol, dst))),
           UNCHANGED <<boardVars, history>>,
           rx' \in Seq(Waiting), Len(rx') <= MaxWaiting
    PROVE  NetInv'
<1> DEFINE frames == IPProcess(Ip(h, protocol, dst))
<1>1. /\ sent' = frames
      /\ knows' \in [Hosts -> BoardIPs \cup {NoIP}] /\ answered' \subseteq Hosts
      /\ faults' \in 0 .. MaxFaults
  <2>1. \A n \in DOMAIN frames : frames[n].type # "arp"
    BY IpAnswer
  <2>. QED
    BY <2>1, Transmission DEF NetInv
<1>2. Len(frames) <= 1 /\ ArpAnswersTrue' /\ AnswersGoToLastAsker'
  <2>1. CASE frames = <<>>
    BY <1>1, <2>1 DEF ArpAnswersTrue, AnswersGoToLastAsker, SentOf
  <2>2. CASE frames # <<>>
    <3>1. PICK q : /\ frames = <<q>>
                   /\ q.type = "ip"
                   /\ q.desIPAddr = HostIP(h)
                   /\ q.desAddr = ARPTable[0].hwAddr
      BY <2>2, IpAnswer
    <3>2. asker' = ARPTable[0].hwAddr
      BY DEF NetInv, history
    <3>. QED
      BY <1>1, <3>1, <3>2 DEF ArpAnswersTrue, AnswersGoToLastAsker, SentOf
  <2>. QED
    BY <2>1, <2>2
<1>3. TypeOK'
  BY <1>1, <1>2 DEF NetInv, TypeOK, boardVars, history
<1>. QED
  BY <1>2, <1>3 DEF NetInv, IdentityAgrees, UnaddressedKnowsNobody, TimeKept,
      boardVars, history

\* PacketInComming: one frame from the ENC28J60, whatever its protocol.
LEMMA ReceiveStep ==
    ASSUME NetInv, PacketInComming
    PROVE  NetInv'
<1> DEFINE p == Head(rx)
<1>1. /\ p \in Waiting
      /\ rx' \in Seq(Waiting)
      /\ Len(rx') <= MaxWaiting
  <2>1. rx \in Seq(Waiting) /\ rx # <<>> /\ rx' = Tail(rx) /\ Len(rx) <= MaxWaiting
    BY DEF NetInv, TypeOK, PacketInComming
  <2>2. p \in Waiting /\ Tail(rx) \in Seq(Waiting) /\ Len(Tail(rx)) = Len(rx) - 1
    BY <2>1, HeadTailProperties
  <2>3. Len(rx) \in Nat
    BY <2>1, LenProperties
  <2>. QED
    BY <2>1, <2>2, <2>3, NetAssumption
<1>2. CASE p.type = "arp" /\ arpProcess(p)
  <2>1. PICK h \in Hosts, opcode \in {"request", "reply"}, ip \in BoardIPs :
             p = Arp(h, opcode, ip)
    BY <1>1, <1>2, WaitingShape
  <2>. QED
    BY <1>1, <1>2, <2>1, ArpStep DEF PacketInComming
<1>3. CASE p.type = "ip" /\ Transmit(IPProcess(p)) /\ UNCHANGED <<ARPTable, history>>
  <2>1. PICK h \in Hosts, protocol \in {"echo_request", "udp"},
             dst \in BoardIPs \cup {BroadcastIP} : p = Ip(h, protocol, dst)
    BY <1>1, <1>3, WaitingShape
  <2>. QED
    BY <1>1, <1>3, <2>1, IpStep DEF PacketInComming, boardVars
<1>. QED
  BY <1>2, <1>3 DEF PacketInComming

\* The tick that completes a period takes one from the time of the first entry.
LEMMA TimeStep ==
    ASSUME NetInv, Timer_ISR
    PROVE  TimeKept'
<1>. SUFFICES ASSUME asker' # NoHost
              PROVE  TimeKept'
  BY DEF TimeKept
<1>. DEFINE P == TIMER_PERIOD
            L == ARP_CACHE_TIME_TO_LIVE
            time == ARPTable[0].time
            time2 == ARPTable'[0].time
            age2 == age'
            i2 == i'
<1>1. /\ P \in Nat \ {0} /\ L \in Nat \ {0}
      /\ time \in 0 .. L /\ i \in 0 .. P - 1 /\ age \in 0 .. MaxAge
      /\ MaxAge = Periods(L) + 1
  BY Constants DEF NetInv, TypeOK, MaxAge, Periods
<1>2. /\ time > 0 => /\ Periods(L - time) + i - (P - 1) <= age
                     /\ age <= Periods(L - time) + i
      /\ time = 0 => age > Periods(L - 1)
  <2>1. asker # NoHost /\ TimeKept
    BY DEF NetInv, Timer_ISR
  <2>2. IF time > 0 THEN /\ Periods(L - time) + i - (P - 1) <= age
                         /\ age <= Periods(L - time) + i
                    ELSE age > Periods(L - 1)
    BY <2>1 DEF TimeKept, InStep
  <2>. HIDE DEF time
  <2>. QED
    BY <1>1, <2>2
<1>3. age2 = IF age = MaxAge THEN age ELSE age + 1
  BY DEF Timer_ISR
<1>4. \/ i = P - 1 /\ i2 = 0 /\ time2 = IF time > 0 THEN time - 1 ELSE 0
      \/ i < P - 1 /\ i2 = i + 1 /\ time2 = time
  <2>1. i2 = IF i = P - 1 THEN 0 ELSE i + 1
    BY <1>1 DEF Timer_ISR
  <2>2. i2 = 0 => time2 = IF time > 0 THEN time - 1 ELSE 0
    BY Aging DEF Timer_ISR, NetInv
  <2>3. i2 # 0 => time2 = time
    BY DEF Timer_ISR
  <2>. QED
    BY <1>1, <2>1, <2>2, <2>3
<1>5. /\ Periods(L) \in Int /\ Periods(L - 1) \in Int /\ Periods(L - time) \in Int
      /\ Periods(L) = Periods(L - 1) + P
      /\ Periods(L - (time - 1)) = Periods(L - time) + P
      /\ time > 0 => Periods(L - time) <= Periods(L - 1)
  BY <1>1, PeriodsPassed
<1>6. IF time2 > 0 THEN /\ Periods(L - time2) + i2 - (P - 1) <= age2
                        /\ age2 <= Periods(L - time2) + i2
                   ELSE age2 > Periods(L - 1)
  <2>. HIDE DEF P, L, time, time2, age2, i2
  <2>1. CASE i < P - 1 /\ i2 = i + 1 /\ time2 = time /\ time > 0
    BY <1>1, <1>2, <1>3, <1>5, <2>1
  <2>2. CASE time = 0
    BY <1>1, <1>2, <1>3, <1>4, <1>5, <2>2
  <2>3. CASE i = P - 1 /\ i2 = 0 /\ time2 = time - 1 /\ time > 1
    <3>1. Periods(L - time2) = Periods(L - time) + P
      BY <1>5, <2>3
    <3>. QED
      BY <1>1, <1>2, <1>3, <1>5, <2>3, <3>1
  <2>4. CASE i = P - 1 /\ i2 = 0 /\ time2 = time - 1 /\ time = 1
    BY <1>1, <1>2, <1>3, <1>5, <2>4
  <2>. QED
    BY <1>1, <1>4, <2>1, <2>2, <2>3, <2>4
<1>. QED
  BY <1>6 DEF TimeKept, InStep

\* Timer_ISR: the entries grow older by one period.
LEMMA TimerStep ==
    ASSUME NetInv, Timer_ISR
    PROVE  NetInv'
<1>0. TypeOK
  BY DEF NetInv
<1>1. /\ ARPTable' \in [Indices -> [ipAddr : IP, hwAddr : MAC,
                                    time : 0 .. ARP_CACHE_TIME_TO_LIVE]]
      /\ \A k \in Indices : ARPTable'[k].hwAddr = ARPTable[k].hwAddr
      /\ \A k \in Indices : ARPTable[k] = EmptyEntry => ARPTable'[k] = EmptyEntry
  BY <1>0, Aging DEF Timer_ISR, TypeOK
<1>2. i' \in 0 .. TIMER_PERIOD - 1
  BY <1>0, Constants DEF Timer_ISR, TypeOK
<1>3. age' \in 0 .. MaxAge
  BY <1>0, Constants DEF Timer_ISR, TypeOK
<1>4. TypeOK'
  BY <1>0, <1>1, <1>2, <1>3 DEF Timer_ISR, TypeOK, hostVars
<1>5. ArpAnswersTrue' /\ AnswersGoToLastAsker'
  BY DEF Timer_ISR, ArpAnswersTrue, AnswersGoToLastAsker, SentOf
<1>6. TimeKept'
  BY TimeStep
<1>. QED
  BY <1>1, <1>4, <1>5, <1>6, Constants
  DEF NetInv, Timer_ISR, IdentityAgrees, UnaddressedKnowsNobody

\* The DHCP client gets an address, its first or another one, and tells it to the
\* ARP module.
LEMMA AckStep ==
    ASSUME NetInv, DhcpAck
    PROVE  NetInv'
<1>1. /\ Info' \in [ipAddr : IP, subnet : IP, gateway : IP]
      /\ Info'.ipAddr \in BoardIPs
  <2>1. PICK lease \in Leases, network \in Networks :
            Info' = [ipAddr |-> BoardIP(lease), subnet |-> network.subnet,
                     gateway |-> network.gateway]
    BY DEF DhcpAck, ipConfig
  <2>2. BoardIP(lease) \in BoardIPs
    BY DEF BoardIPs
  <2>. QED
    BY <2>1, <2>2, Constants
<1>2. ARPMyAddr' = [ipAddr |-> Info'.ipAddr, hwAddr |-> Board]
  BY <1>1 DEF DhcpAck, arpSetAddress
<1>3. TypeOK'
  <2>1. faults' \in 0 .. MaxFaults
    BY NetAssumption DEF NetInv, TypeOK, DhcpAck
  <2>. QED
    BY <1>1, <1>2, <2>1, Constants DEF NetInv, TypeOK, DhcpAck, MAC, hostVars, history
<1>4. ArpAnswersTrue' /\ AnswersGoToLastAsker'
  BY DEF DhcpAck, ArpAnswersTrue, AnswersGoToLastAsker, SentOf
<1>. QED
  BY <1>1, <1>2, <1>3, <1>4, Constants
  DEF NetInv, DhcpAck, IdentityAgrees, UnaddressedKnowsNobody, TimeKept, history

\* The state after netInit, whoever is on the link.
Booted ==
    /\ Info = NoInfo /\ ARPMyAddr = NoAddress /\ ARPTable = EmptyTable /\ i = 0
    /\ rx = <<>> /\ sent = <<>>
    /\ knows \in [Hosts -> BoardIPs \cup {NoIP}] /\ answered \subseteq Hosts
    /\ asker = NoHost /\ age = 0
    /\ faults \in 0 .. MaxFaults

\* When the board has booted its table is empty.
LEMMA BootedInv == Booted => NetInv
<1> SUFFICES ASSUME Booted PROVE NetInv
  OBVIOUS
<1> USE DEF Booted
<1>1. rx \in Seq(Waiting) /\ Len(rx) <= MaxWaiting
  BY NetAssumption
<1>2. TypeOK
  BY <1>1, Constants DEF TypeOK, NoInfo, NoAddress, EmptyTable, EmptyEntry, MAC
<1>3. ArpAnswersTrue /\ AnswersGoToLastAsker
  BY NothingSent
<1>. QED
  BY <1>1, <1>2, <1>3, Constants
  DEF NetInv, NoInfo, NoAddress, EmptyTable, EmptyEntry, IdentityAgrees,
      UnaddressedKnowsNobody, TimeKept

\* Whatever the hosts send and whenever the board restarts, the inductive
\* invariant of the network stack holds.
THEOREM NetCorrect == Spec => []NetInv
<1>1. Init => NetInv
  BY BootedInv, NetAssumption DEF Init, Booted
<1>2. NetInv /\ [Next]_vars => NetInv'
  <2> SUFFICES ASSUME NetInv, [Next]_vars PROVE NetInv'
    OBVIOUS
  <2>1. CASE PacketInComming
    BY <2>1, ReceiveStep
  <2>2. CASE Timer_ISR
    BY <2>2, TimerStep
  <2>3. CASE DhcpAck
    BY <2>3, AckStep
  <2>4. CASE Restart
    <3>1. Booted'
      BY <2>4, NetAssumption DEF Restart, Booted, ipConfig, arpSetAddress, NoInfo,
         NoAddress, EmptyTable, EmptyEntry, NetInv, TypeOK, hostVars
    <3>. QED
      BY <3>1, BootedInv, PTL
  <2>5. CASE \E h \in Hosts : Host(h)
    BY <2>5, HostStep
  <2>6. CASE UNCHANGED vars
    BY <2>6 DEF NetInv, TypeOK, IdentityAgrees, UnaddressedKnowsNobody, TimeKept,
       ArpAnswersTrue, AnswersGoToLastAsker, SentOf, vars, boardVars, hostVars, history
  <2>. QED
    BY <2>1, <2>2, <2>3, <2>4, <2>5, <2>6 DEF Next
<1>. QED
  BY <1>1, <1>2, PTL DEF Spec

\* The table, the addresses and the wire keep their types.
THEOREM NetTypeCorrect == Spec => []TypeOK
BY NetCorrect, PTL DEF NetInv

\* arpPrintTable shows an entry until its time is up (ARP.c:170-195).
THEOREM EntriesShownForTheirTime == Spec => []EntryShownForItsTime
<1>1. NetInv => EntryShownForItsTime
  <2>. SUFFICES ASSUME NetInv, asker # NoHost PROVE EntryShownForItsTime
    BY DEF EntryShownForItsTime
  <2>. DEFINE P == TIMER_PERIOD
              L == ARP_CACHE_TIME_TO_LIVE
              time == ARPTable[0].time
  <2>1. /\ P \in Nat \ {0} /\ L \in Nat \ {0}
        /\ time \in 0 .. L /\ i \in 0 .. P - 1 /\ age \in Nat
    BY Constants DEF NetInv, TypeOK
  <2>2. IF time > 0 THEN age <= Periods(L - time) + i ELSE age > Periods(L - 1)
    BY DEF NetInv, TimeKept, InStep
  <2>3. /\ Periods(L - 1) \in Int /\ Periods(L - time) \in Int
        /\ Periods(L) = Periods(L - 1) + P
        /\ time > 0 => Periods(L - time) <= Periods(L - 1)
    BY <2>1, PeriodsPassed
  <2>4. IF time > 0 THEN age < Periods(L) ELSE age > Periods(L - 1)
    <3>. HIDE DEF P, L, time
    <3>. QED
      BY <2>1, <2>2, <2>3
  <2>. QED
    BY <2>4 DEF EntryShownForItsTime, Periods
<1>. QED
  BY <1>1, NetCorrect, PTL

\* An ARP answer names the board's addresses to the asker (ARP.c:114-120).
THEOREM ArpAnswersAreTrue == Spec => []ArpAnswersTrue
BY NetCorrect, PTL DEF NetInv

\* A board without an address sends to nobody (ARP.c:77).
THEOREM UnaddressedBoardKnowsNobody == Spec => []UnaddressedKnowsNobody
BY NetCorrect, PTL DEF NetInv

\* An answer to an IP packet reaches its host exactly if that host's ARP packet was
\* taken last (ARP.c:27).
THEOREM AnswersGoToTheLastAsker == Spec => []AnswersGoToLastAsker
BY NetCorrect, PTL DEF NetInv

\* The table is one entry for whoever sends through it: it changes hands only when
\* a host resolves a board that has an address, and is cleared with the address.
THEOREM TableIsOneEntry == Spec => ImplementsArpEntry
<1> DEFINE owner == ARPTable[0].hwAddr
           hasAddress == Info.ipAddr # NoIP
<1>1. Init => Owner!Init
  BY Constants DEF Init, Owner!Init, NoInfo, EmptyTable, EmptyEntry
<1>2. NetInv /\ NetInv' /\ [Next]_vars => [Owner!Next]_<<hasAddress, owner>>
  <2> SUFFICES ASSUME NetInv, NetInv', [Next]_vars
               PROVE  [Owner!Next]_<<hasAddress, owner>>
    OBVIOUS
  <2>a. owner = asker /\ owner' = asker'
    BY DEF NetInv
  <2>1. CASE PacketInComming
    <3>1. PICK p \in Waiting : PacketInComming /\ p = Head(rx)
      BY <2>1, HeadTailProperties DEF PacketInComming, NetInv
    <3>2. UNCHANGED Info
      BY <3>1 DEF PacketInComming
    <3>3. CASE UNCHANGED history
      BY <2>a, <3>2, <3>3 DEF history
    <3>4. CASE p.type = "arp" /\ arpProcess(p) /\ p.dipAddr = ARPMyAddr.ipAddr
      <4>1. PICK h \in Hosts, opcode \in {"request", "reply"}, ip \in BoardIPs :
                p = Arp(h, opcode, ip)
        BY <3>4, WaitingShape
      <4>2. asker' = h /\ Info.ipAddr = ip
        BY <3>4, <4>1 DEF arpProcess, Arp, NetInv, IdentityAgrees
      <4>. QED
        BY <2>a, <3>2, <4>2, Constants DEF Owner!Next, Owner!Resolve
    <3>. QED
      BY <3>1, <3>3, <3>4 DEF PacketInComming, arpProcess
  <2>2. CASE Timer_ISR
    BY <2>a, <2>2 DEF Timer_ISR
  <2>3. CASE DhcpAck
    <3>1. hasAddress'
      <4>1. PICK lease \in Leases : Info'.ipAddr = BoardIP(lease)
        BY <2>3 DEF DhcpAck, ipConfig
      <4>. QED
        BY <4>1, Constants DEF BoardIPs
    <3>2. UNCHANGED owner
      BY <2>3 DEF DhcpAck
    <3>. QED
      BY <3>1, <3>2 DEF Owner!Next, Owner!Configure
  <2>4. CASE Restart
    <3>1. ~hasAddress' /\ owner' = NoHost
      BY <2>a, <2>4 DEF Restart, ipConfig
    <3>. QED
      BY <3>1 DEF Owner!Next, Owner!Reset
  <2>5. CASE \E h \in Hosts : Host(h)
    <3>1. UNCHANGED boardVars
      BY <2>5 DEF Host, Ask, Announce, Ping, PingAll, Message, Forget, Send
    <3>. QED
      BY <3>1 DEF boardVars
  <2>6. CASE UNCHANGED vars
    BY <2>6 DEF vars, boardVars
  <2>. QED
    BY <2>1, <2>2, <2>3, <2>4, <2>5, <2>6 DEF Next
<1>. QED
  BY <1>1, <1>2, NetCorrect, PTL DEF Spec, ImplementsArpEntry, Owner!Spec
=============================================================================
