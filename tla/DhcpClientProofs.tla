-------------------------- MODULE DhcpClientProofs --------------------------
(***************************************************************************)
(* Theorems about DhcpClient, for any servers, neighbours, lease, timeout  *)
(* and delay of the network.  The argument is about the ACKs under way: a  *)
(* server granted what they say, and an ACK that is as old as the network  *)
(* allows has used up as much of the server's lease.                       *)
(***************************************************************************)
EXTENDS DhcpClient, TLAPS

\* The ACKs under way, first copies and duplicates, were granted, and the lease
\* they grant runs at the server since they were sent.
AcksTrue ==
    \A m \in net : m.type = "ack" =>
        /\ m.server \in granted
        /\ LeaseTime <= lease[m.server] + m.age

\* The inductive invariant.
DhcpInv ==
    /\ TypeOK
    /\ AcksTrue
    /\ AddressGranted
    /\ DhcpLeaseTime > 0 => ipAddr \in Servers
    /\ LeaseCovered

\* What the constants are.
LEMMA Constants ==
    /\ NoServer \notin Servers
    /\ Unicasting \subseteq Servers /\ Neighbours \subseteq Servers
    /\ DHCP_RETRIES \in Nat
    /\ DHCP_TIMEOUT \in Nat /\ DHCP_TIMEOUT >= 1
    /\ LeaseTime \in Nat /\ MaxDelay \in Nat /\ MaxFaults \in Nat
BY DhcpAssumption

\* What is sent is a message.
LEMMA SentIsMessage ==
    ASSUME NEW type \in {"discover", "request", "offer", "ack", "nak"},
           NEW server \in Servers, NEW to \in Hosts \cup {Everyone}
    PROVE  /\ Sent(type, server, to) \in Message
           /\ Sent(type, server, to).type = type
           /\ Sent(type, server, to).server = server
           /\ Sent(type, server, to).age = 0
BY Constants DEF Sent, Message

\* A frame is addressed to a host or to everyone.
LEMMA Addresses ==
    /\ TypeOK => Destination \in Hosts \cup {Everyone}
    /\ \A server \in Servers : AnsweredTo(server) \in Hosts \cup {Everyone}
BY Constants DEF TypeOK, Destination, AnsweredTo, Hosts

\* dhcpDiscover and the timers of main leave address and lease alone.
LEMMA DhcpServiceStep == ASSUME DhcpInv, DhcpService PROVE DhcpInv'
<1>1. Discover \subseteq Message /\ \A m \in Discover : m.type = "discover"
  BY Addresses, SentIsMessage DEF Discover, DhcpInv
<1>2. TypeOK'
  BY <1>1, Constants DEF DhcpInv, DhcpService, TypeOK, servers
<1>3. AcksTrue'
  BY <1>1 DEF DhcpInv, AcksTrue, DhcpService, servers
<1>. QED
  BY <1>2, <1>3
     DEF DhcpInv, DhcpService, AddressGranted, LeaseCovered, servers

\* Whatever options it brings, a message is taken or dropped: an ACK sets address
\* and lease, and a gateway that may be of an earlier message, and another message
\* none of them.
LEMMA ReceiveStep == ASSUME DhcpInv, NEW m \in net, Receive(m) PROVE DhcpInv'
<1>. USE Constants DEF DhcpInv
<1>1. /\ m \in Message /\ m.server \in Servers /\ m.age \in 0 .. MaxDelay
      /\ UNCHANGED <<DhcpTimeout, DhcpRetries, lease, granted, entry, faults>>
  BY DEF TypeOK, Message, Receive, servers
<1>2. CASE Accepted(m)
  <2>1. DhcpIn(m)
    BY <1>2 DEF Receive
  <2>2. /\ s' \in [server_id : Hosts, router : Hosts, lease_time : {0, LeaseTime}]
        /\ s'.server_id = m.server
        /\ m.type = "ack" => s'.lease_time = LeaseTime
    <3>. DEFINE value == [server_id |-> m.server, router |-> m.server, lease_time |-> LeaseTime]
    <3>1. /\ s \in [server_id : Hosts, router : Hosts, lease_time : {0, LeaseTime}]
          /\ s' = [option \in DOMAIN s |-> IF option \in Options(m) THEN value[option]
                                           ELSE s[option]]
      BY <2>1 DEF DhcpIn, parse_opions, TypeOK
    <3>2. s' = [server_id |-> IF "server_id" \in Options(m) THEN m.server ELSE s.server_id,
                router |-> IF "router" \in Options(m) THEN m.server ELSE s.router,
                lease_time |-> IF "lease_time" \in Options(m) THEN LeaseTime ELSE s.lease_time]
      BY <3>1
    <3>3. "server_id" \in Options(m) /\ (m.type = "ack" => "lease_time" \in Options(m))
      BY DEF Options
    <3>4. m.server \in Hosts
      BY <1>1 DEF Hosts
    <3>. QED
      BY <3>1, <3>2, <3>3, <3>4
  <2>3. net' \subseteq Message /\ \A p \in net' : p.type = "ack" => p \in net
    <3>1. Sent("request", s'.server_id, Destination) \in Message
          /\ Sent("request", s'.server_id, Destination).type = "request"
      BY <1>1, <2>2, Addresses, SentIsMessage
    <3>. QED
      BY <2>1, <3>1 DEF DhcpIn, TypeOK
  <2>4. AcksTrue'
    BY <1>1, <2>3 DEF AcksTrue
  <2>5. CASE m.type = "ack"
    <3>1. ipAddr' = m.server /\ gateway' \in Hosts /\ DhcpLeaseTime' = LeaseTime
      BY <2>1, <2>2, <2>5 DEF DhcpIn
    <3>2. m.server \in granted /\ LeaseTime <= lease[m.server] + m.age
      BY <2>5 DEF AcksTrue
    <3>3. LeaseCovered'
      <4>1. lease[m.server] \in Nat
        BY <1>1 DEF TypeOK
      <4>. QED
        BY <1>1, <3>1, <3>2, <4>1 DEF LeaseCovered
    <3>4. TypeOK'
      BY <1>1, <2>2, <2>3, <3>1 DEF TypeOK, Hosts
    <3>. QED
      BY <1>1, <2>4, <3>1, <3>2, <3>3, <3>4 DEF AddressGranted
  <2>6. CASE m.type # "ack"
    <3>1. UNCHANGED <<ipAddr, gateway, DhcpLeaseTime>>
      BY <2>1, <2>6 DEF DhcpIn
    <3>2. TypeOK'
      BY <1>1, <2>2, <2>3, <3>1 DEF TypeOK
    <3>. QED
      BY <1>1, <2>4, <3>1, <3>2 DEF AddressGranted, LeaseCovered
  <2>. QED
    BY <2>5, <2>6
<1>3. CASE ~Accepted(m)
  <2>1. net' \subseteq net /\ UNCHANGED <<ipAddr, gateway, s, DhcpLeaseTime>>
    BY <1>3 DEF Receive
  <2>2. TypeOK'
    BY <1>1, <2>1 DEF TypeOK
  <2>. QED
    BY <1>1, <2>1, <2>2 DEF AcksTrue, AddressGranted, LeaseCovered
<1>. QED
  BY <1>2, <1>3

\* A second counts down both the client's lease and the server's, and makes what
\* is under way a second older.
LEMMA TickStep == ASSUME DhcpInv, Tick PROVE DhcpInv'
<1>. USE Constants DEF DhcpInv
<1>1. /\ net' = {[m EXCEPT !.age = @ + 1] : m \in net}
      /\ \A m \in net : m.age < MaxDelay
      /\ lease' = [server \in Servers |-> IF lease[server] > 0 THEN lease[server] - 1 ELSE 0]
      /\ DhcpLeaseTime' = IF DhcpLeaseTime > 0 THEN DhcpLeaseTime - 1 ELSE 0
      /\ DhcpTimeout' = IF DhcpTimeout > 0 THEN DhcpTimeout - 1 ELSE 0
      /\ UNCHANGED <<ipAddr, gateway, s, DhcpRetries, granted, entry, faults>>
  BY DEF Tick, dhcpTimer
<1>2. \A p \in net' : \E m \in net : /\ p \in Message
                                     /\ p.type = m.type /\ p.server = m.server
                                     /\ p.age = m.age + 1
  <2>. SUFFICES ASSUME NEW m \in net
                PROVE  LET p == [m EXCEPT !.age = @ + 1]
                       IN  /\ p \in Message
                           /\ p.type = m.type /\ p.server = m.server
                           /\ p.age = m.age + 1
    BY <1>1
  <2>1. m \in Message /\ m.age < MaxDelay
    BY <1>1 DEF TypeOK
  <2>. QED
    BY <2>1 DEF Message
<1>3. lease' \in [Servers -> 0 .. LeaseTime]
  BY <1>1 DEF TypeOK
<1>4. TypeOK'
  BY <1>1, <1>2, <1>3 DEF TypeOK
<1>5. AcksTrue'
  <2>. SUFFICES ASSUME NEW p \in net', p.type = "ack"
                PROVE  /\ p.server \in granted'
                       /\ LeaseTime <= lease'[p.server] + p.age
    BY DEF AcksTrue
  <2>1. PICK m \in net : p.type = m.type /\ p.server = m.server /\ p.age = m.age + 1
    BY <1>2
  <2>2. m.server \in Servers /\ m.age \in Nat
    BY DEF TypeOK, Message
  <2>3. m.server \in granted /\ LeaseTime <= lease[m.server] + m.age
    BY <2>1 DEF AcksTrue
  <2>4. lease[m.server] \in Nat
    BY <2>2 DEF TypeOK
  <2>. QED
    BY <1>1, <2>1, <2>2, <2>3, <2>4
<1>6. (DhcpLeaseTime > 0 => ipAddr \in Servers)' /\ LeaseCovered'
  <2>. SUFFICES ASSUME DhcpLeaseTime' > 0
                PROVE  ipAddr \in Servers /\ DhcpLeaseTime' <= lease'[ipAddr] + MaxDelay
    BY <1>1 DEF LeaseCovered
  <2>1. DhcpLeaseTime \in Nat /\ DhcpLeaseTime > 0 /\ DhcpLeaseTime' = DhcpLeaseTime - 1
    BY <1>1 DEF TypeOK
  <2>2. /\ ipAddr \in Servers /\ lease[ipAddr] \in Nat
        /\ DhcpLeaseTime <= lease[ipAddr] + MaxDelay
    BY <2>1 DEF TypeOK, LeaseCovered
  <2>. QED
    BY <1>1, <2>1, <2>2
<1>. QED
  BY <1>1, <1>4, <1>5, <1>6 DEF AddressGranted

\* A server that sends an ACK reserves the address for the whole lease, again if
\* need be.
LEMMA ServerStep == ASSUME DhcpInv, NEW m \in net, ServerReceive(m) PROVE DhcpInv'
<1>. USE Constants DEF DhcpInv
<1>1. /\ m \in Message /\ m.server \in Servers
      /\ UNCHANGED <<ipAddr, gateway, s, DhcpLeaseTime, DhcpTimeout, DhcpRetries>>
      /\ UNCHANGED <<entry, faults>>
  BY DEF TypeOK, Message, ServerReceive, client
<1>2. /\ \A type \in {"offer", "ack"} :
             LET answer == Sent(type, m.server, AnsweredTo(m.server))
             IN  /\ answer \in Message /\ answer.age = 0
                 /\ answer.type = type /\ answer.server = m.server
  BY <1>1, Addresses, SentIsMessage
<1>3. CASE m.type = "request" /\ Heard(m)
  <2>. DEFINE ack == Sent("ack", m.server, AnsweredTo(m.server))
  <2>1. /\ net' = (net \ {m}) \cup {ack}
        /\ lease' = [lease EXCEPT ![m.server] = LeaseTime]
        /\ granted' = granted \cup {m.server}
    BY <1>3 DEF ServerReceive
  <2>2. /\ ack \in Message /\ ack.server = m.server /\ ack.age = 0
        /\ lease \in [Servers -> 0 .. LeaseTime]
    BY <1>2 DEF TypeOK
  <2>. HIDE DEF ack
  <2>3. /\ \A server \in Servers :
               /\ lease'[server] \in 0 .. LeaseTime /\ lease[server] \in 0 .. LeaseTime
               /\ lease[server] <= lease'[server]
        /\ lease'[m.server] = LeaseTime
        /\ lease' \in [Servers -> 0 .. LeaseTime]
    BY <1>1, <2>1, <2>2
  <2>4. TypeOK'
    BY <1>1, <2>1, <2>2, <2>3 DEF TypeOK
  <2>5. AcksTrue'
    <3>. SUFFICES ASSUME NEW p \in net', p.type = "ack"
                  PROVE  p.server \in granted' /\ LeaseTime <= lease'[p.server] + p.age
      BY DEF AcksTrue
    <3>1. CASE p = ack
      BY <2>1, <2>2, <2>3, <3>1
    <3>2. CASE p \in net
      <4>1. p.server \in Servers /\ p.age \in Nat
        BY <3>2 DEF TypeOK, Message
      <4>2. p.server \in granted /\ LeaseTime <= lease[p.server] + p.age
        BY <3>2 DEF AcksTrue
      <4>. QED
        BY <2>1, <2>3, <4>1, <4>2
    <3>. QED
      BY <2>1, <3>1, <3>2
  <2>6. LeaseCovered'
    <3>. SUFFICES ASSUME DhcpLeaseTime > 0
                  PROVE  DhcpLeaseTime <= lease'[ipAddr] + MaxDelay
      BY <1>1 DEF LeaseCovered
    <3>1. ipAddr \in Servers /\ DhcpLeaseTime <= lease[ipAddr] + MaxDelay
      BY DEF LeaseCovered
    <3>2. DhcpLeaseTime \in Nat
      BY DEF TypeOK
    <3>. QED
      BY <2>3, <3>1, <3>2
  <2>7. AddressGranted'
    BY <1>1, <2>1 DEF AddressGranted
  <2>. QED
    BY <1>1, <2>4, <2>5, <2>6, <2>7
<1>4. CASE ~(m.type = "request" /\ Heard(m))
  <2>1. /\ \A p \in net' : p \in Message /\ (p.type = "ack" => p \in net)
        /\ UNCHANGED <<lease, granted>>
    <3>1. CASE ~Heard(m)
      BY <3>1 DEF ServerReceive, servers, TypeOK
    <3>2. CASE Heard(m)
      <4>1. m.type = "discover"
        BY <1>4, <3>2 DEF ServerReceive
      <4>2. /\ net' = (net \ {m}) \cup {Sent("offer", m.server, AnsweredTo(m.server))}
            /\ UNCHANGED <<lease, granted>>
        BY <3>2, <4>1 DEF ServerReceive, servers
      <4>. QED
        BY <1>2, <4>2 DEF TypeOK
    <3>. QED
      BY <3>1, <3>2
  <2>2. TypeOK'
    BY <1>1, <2>1 DEF TypeOK
  <2>. QED
    BY <1>1, <2>1, <2>2 DEF AcksTrue, AddressGranted, LeaseCovered
<1>. QED
  BY <1>3, <1>4

\* A doubled ACK says what the first one says; a NAK is no ACK.
LEMMA FaultStep == ASSUME DhcpInv, NEW m \in net, Fault(m) PROVE DhcpInv'
<1>. USE Constants DEF DhcpInv
<1>1. /\ m \in Message /\ m.server \in Servers /\ faults' \in 0 .. MaxFaults
      /\ UNCHANGED <<ipAddr, gateway, s, DhcpLeaseTime, DhcpTimeout, DhcpRetries>>
      /\ UNCHANGED <<lease, granted, entry>>
  BY DEF TypeOK, Message, Fault, client, servers
<1>2. \A p \in net' : /\ p \in Message
                      /\ p.type = "ack" => \E q \in net : /\ q.type = "ack"
                                                          /\ q.server = p.server
                                                          /\ q.age = p.age
  <2>1. CASE net' = net \ {m}
    BY <2>1 DEF TypeOK
  <2>2. CASE net' = net \cup {[m EXCEPT !.copy = 2]}
    <3>. DEFINE p == [m EXCEPT !.copy = 2]
    <3>1. p \in Message /\ p.type = m.type /\ p.server = m.server /\ p.age = m.age
      BY <1>1 DEF Message
    <3>. HIDE DEF p
    <3>. QED
      BY <2>2, <3>1 DEF TypeOK, p
  <2>3. CASE net' = (net \ {m}) \cup {Sent("nak", m.server, AnsweredTo(m.server))}
    <3>1. /\ Sent("nak", m.server, AnsweredTo(m.server)) \in Message
          /\ Sent("nak", m.server, AnsweredTo(m.server)).type = "nak"
      BY <1>1, Addresses, SentIsMessage
    <3>. QED
      BY <2>3, <3>1 DEF TypeOK
  <2>. QED
    BY <2>1, <2>2, <2>3 DEF Fault
<1>3. TypeOK'
  BY <1>1, <1>2 DEF TypeOK
<1>4. AcksTrue'
  BY <1>1, <1>2 DEF AcksTrue
<1>. QED
  BY <1>1, <1>3, <1>4 DEF AddressGranted, LeaseCovered

\* Restarts forget everything, and other hosts take the table's entry.
LEMMA OtherStep ==
    ASSUME DhcpInv, Restart \/ (\E host \in Neighbours : Resolve(host)) \/ UNCHANGED vars
    PROVE  DhcpInv'
<1>. USE Constants DEF DhcpInv, client, servers
<1>1. CASE Restart
  <2>1. TypeOK'
    BY <1>1 DEF Restart, Booted, TypeOK, Hosts, Arp!Reset
  <2>. QED
    BY <1>1, <2>1
       DEF Restart, Booted, AcksTrue, AddressGranted, LeaseCovered
<1>2. ASSUME NEW host \in Neighbours, Resolve(host) PROVE DhcpInv'
  BY <1>2 DEF Resolve, Arp!Resolve, TypeOK, AcksTrue, AddressGranted, LeaseCovered
<1>3. CASE UNCHANGED vars
  BY <1>3 DEF vars, TypeOK, AcksTrue, AddressGranted, LeaseCovered
<1>. QED
  BY <1>1, <1>2, <1>3

\* At the start there is no address and no lease.
LEMMA InitInv == ASSUME Init PROVE DhcpInv
<1>. USE Constants DEF Init
<1>1. TypeOK
  BY DEF TypeOK, Hosts, Arp!Init
<1>. QED
  BY <1>1 DEF DhcpInv, AcksTrue, AddressGranted, LeaseCovered

---------------------------------------------------------------------------
(* The theorems *)

\* The inductive invariant holds in every reachable state.
THEOREM DhcpInvariant == Spec => []DhcpInv
<1>1. Init => DhcpInv
  BY InitInv
<1>2. DhcpInv /\ [Next]_vars => DhcpInv'
  BY DhcpServiceStep, ReceiveStep, TickStep, ServerStep, FaultStep, OtherStep
     DEF Next, Deliver
<1>. QED
  BY <1>1, <1>2, PTL DEF Spec

\* Every variable keeps its type: the counters of seconds and retries never run
\* below zero, whatever the interrupt and main do in between.
THEOREM DhcpTypeCorrect == Spec => []TypeOK
BY DhcpInvariant, PTL DEF DhcpInv

\* dhcpIn configures only what a server has granted, in whatever order offers,
\* ACKs, duplicates and messages from before a restart come in.
THEOREM OnlyGranted == Spec => []AddressGranted
BY DhcpInvariant, PTL DEF DhcpInv

\* The client gives up its lease at most the network's delay later than the
\* server, for any lease and any delay.
THEOREM LeaseIsCovered == Spec => []LeaseCovered
BY DhcpInvariant, PTL DEF DhcpInv
=============================================================================
