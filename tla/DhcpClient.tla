----------------------------- MODULE DhcpClient -----------------------------
(***************************************************************************)
(* The DHCP client of Ethernet/DHCP.c: dhcpService and dhcpIn run in the   *)
(* main loop, dhcpTimer once a second in the timer interrupt, and the      *)
(* servers answer over a network that delays, reorders, loses and          *)
(* duplicates messages.  main and the interrupt share DhcpTimeout and      *)
(* DhcpLeaseTime; each access of main to them is a single load or store,   *)
(* so a step of main is one action.                                        *)
(*                                                                         *)
(* A server offers one address.  The router is an option that it may leave *)
(* out: DISCOVER asks for it, REQUEST for nothing; lease time and server   *)
(* identifier, which RFC 2131 demands, are in every offer and ACK.  Every  *)
(* message carries its age in seconds, and none gets older than MaxDelay.  *)
(***************************************************************************)
EXTENDS Integers

CONSTANTS
    Servers,       \* DHCP servers of the network
    Promiscuous,   \* do servers take frames that are not addressed to them?
    Unicasting,    \* servers that answer to the offered address, because the
                   \* client does not set the broadcast flag
    Neighbours,    \* servers whose host resolves the board's address
    Routerless,    \* the messages without a router: <<server, type>>
    DHCP_RETRIES,
    DHCP_TIMEOUT,
    LeaseTime,     \* seconds a server leases an address for
    MaxDelay,      \* seconds a message may be under way
    MaxFaults,     \* bound: messages lost, doubled or refused, and restarts
    NoServer       \* no server's address: 0.0.0.0, 00:00:00:00:00:00

ASSUME DhcpAssumption ==
    /\ NoServer \notin Servers
    /\ {Unicasting, Neighbours} \subseteq SUBSET Servers
    /\ Routerless \subseteq Servers \X {"offer", "ack"}
    /\ Promiscuous \in BOOLEAN
    /\ DHCP_RETRIES \in Nat
    /\ DHCP_TIMEOUT \in Nat \ {0}
    /\ {LeaseTime, MaxDelay, MaxFaults} \subseteq Nat

VARIABLES
    ipAddr,         \* GetInfo()->ipAddr: the server whose address is in use
    gateway,        \* GetInfo()->gateway: the server that named it
    s,              \* options of the last messages that had them
    DhcpLeaseTime,
    DhcpTimeout,
    DhcpRetries,
    net,            \* messages under way
    lease,          \* seconds each server still reserves its address for
    granted,        \* history: servers that have sent an ACK
    entry,          \* the ARP table: the server whose host it sends to, if any
    faults

client == <<ipAddr, gateway, s, DhcpLeaseTime, DhcpTimeout, DhcpRetries>>
servers == <<lease, granted>>
vars == <<client, net, servers, entry, faults>>

Hosts == Servers \cup {NoServer}
Everyone == "everyone"    \* 255.255.255.255 and ff:ff:ff:ff:ff:ff

Message == [type : {"discover", "request", "offer", "ack", "nak"},
            server : Servers, to : Hosts \cup {Everyone},
            age : 0 .. MaxDelay, copy : 1 .. 2]

Sent(type, server, to) ==
    [type |-> type, server |-> server, to |-> to, age |-> 0, copy |-> 1]

---------------------------------------------------------------------------
(* The client *)

\* Every frame goes to the owner of the ARP table's one entry, and never to
\* everyone.
Arp == INSTANCE ArpEntry
    WITH Hosts <- Neighbours, Nobody <- NoServer,
         hasAddress <- ipAddr # NoServer, owner <- entry

Destination == entry

\* A host resolves the board's address (NetStack!PacketInComming).
Resolve(host) ==
    /\ UNCHANGED <<client, net, servers, faults>>
    /\ Arp!Resolve(host)

\* dhcpDiscover by way of udpSend and ipSend; every server gets its copy.
Discover == {Sent("discover", server, Destination) : server \in Servers}

\* main.c:26 and dhcpService.
DhcpService ==
    /\ DhcpLeaseTime = 0
    /\ DhcpRetries > 0 /\ DhcpTimeout = 0 /\ ipAddr = NoServer
    /\ DhcpRetries' = DhcpRetries - 1
    /\ DhcpTimeout' = DHCP_TIMEOUT
    /\ net' = net \cup Discover
    /\ UNCHANGED <<ipAddr, gateway, s, DhcpLeaseTime, servers, entry, faults>>

\* The options of a message that the client keeps.
Options(m) ==
    {"server_id"}
    \cup (IF m.type \in {"offer", "ack"} THEN {"lease_time"} ELSE {})
    \cup (IF m.type \in {"offer", "ack"} /\ <<m.server, m.type>> \notin Routerless
          THEN {"router"} ELSE {})

\* Options the message has replace those of earlier ones, whoever sent them; one
\* that it does not have keeps its value.
parse_opions(m) ==
    LET value == [server_id |-> m.server, router |-> m.server, lease_time |-> LeaseTime]
    IN  [option \in DOMAIN s |-> IF option \in Options(m) THEN value[option] ELSE s[option]]

\* IPProcess lets pass what is sent to this address or to everyone.
Accepted(m) == m.to \in {ipAddr, Everyone}

\* An offer is taken for granted.
WrongDhcpIn(m) ==
    /\ s' = parse_opions(m)
    /\ IF m.type \in {"offer", "ack"}
       THEN /\ ipAddr' = m.server
            /\ gateway' = s'.router
            /\ DhcpLeaseTime' = s'.lease_time
       ELSE UNCHANGED <<ipAddr, gateway, DhcpLeaseTime>>
    /\ net' = net \ {m}

\* dhcpIn: the transaction identifier is the board's MAC address, so every
\* answer to it passes, in any state; every offer is requested and every ACK
\* sets the address, for IP (ipConfig) as for ARP (arpSetAddress).
DhcpIn(m) ==
    /\ s' = parse_opions(m)
    /\ IF m.type = "ack"
       THEN /\ ipAddr' = m.server
            /\ gateway' = s'.router
            /\ DhcpLeaseTime' = s'.lease_time
       ELSE UNCHANGED <<ipAddr, gateway, DhcpLeaseTime>>
    /\ net' = (net \ {m}) \cup
              (IF m.type = "offer" THEN {Sent("request", s'.server_id, Destination)} ELSE {})

Receive(m) ==
    /\ m.type \in {"offer", "ack", "nak"}
    /\ IF Accepted(m)
       THEN DhcpIn(m)
       ELSE net' = net \ {m} /\ UNCHANGED <<ipAddr, gateway, s, DhcpLeaseTime>>
    /\ UNCHANGED <<DhcpTimeout, DhcpRetries, servers, entry, faults>>

\* Without its if, the byte runs below zero.
WrongdhcpTimer ==
    /\ DhcpLeaseTime' = IF DhcpLeaseTime > 0 THEN DhcpLeaseTime - 1 ELSE 0
    /\ DhcpTimeout' = DhcpTimeout - 1

\* The lease is not counted down.
WrongLeaseTimer ==
    /\ DhcpTimeout' = IF DhcpTimeout > 0 THEN DhcpTimeout - 1 ELSE 0
    /\ UNCHANGED DhcpLeaseTime

\* The braces of the first if include the second.
WrongNestedTimer ==
    IF DhcpLeaseTime > 0
    THEN /\ DhcpLeaseTime' = DhcpLeaseTime - 1
         /\ DhcpTimeout' = IF DhcpTimeout > 0 THEN DhcpTimeout - 1 ELSE 0
    ELSE UNCHANGED <<DhcpLeaseTime, DhcpTimeout>>

dhcpTimer ==
    /\ DhcpLeaseTime' = IF DhcpLeaseTime > 0 THEN DhcpLeaseTime - 1 ELSE 0
    /\ DhcpTimeout' = IF DhcpTimeout > 0 THEN DhcpTimeout - 1 ELSE 0

\* A second passes, for the board, the servers and the network.
Tick ==
    /\ \A m \in net : m.age < MaxDelay
    /\ dhcpTimer
    /\ lease' = [server \in Servers |-> IF lease[server] > 0 THEN lease[server] - 1 ELSE 0]
    /\ net' = {[m EXCEPT !.age = @ + 1] : m \in net}
    /\ UNCHANGED <<ipAddr, gateway, s, DhcpRetries, granted, entry, faults>>

\* netInit, dhcpInit: every variable of the program as after a reset.
Booted ==
    /\ ipAddr' = NoServer
    /\ gateway' = NoServer
    /\ s' = [server_id |-> NoServer, router |-> NoServer, lease_time |-> 0]
    /\ DhcpLeaseTime' = 0
    /\ DhcpTimeout' = 1
    /\ DhcpRetries' = DHCP_RETRIES

Restart ==
    /\ faults < MaxFaults
    /\ faults' = faults + 1
    /\ Booted
    /\ Arp!Reset
    /\ UNCHANGED <<net, servers>>

---------------------------------------------------------------------------
(* The servers and the network *)

\* A frame for nobody is dropped by the network card of a server, unless that
\* is promiscuous.
Heard(m) == Promiscuous \/ m.to \in {m.server, Everyone}

AnsweredTo(server) == IF server \in Unicasting THEN server ELSE Everyone

ServerReceive(m) ==
    /\ m.type \in {"discover", "request"}
    /\ IF ~Heard(m)
       THEN net' = net \ {m} /\ UNCHANGED servers
       ELSE IF m.type = "discover"
       THEN /\ net' = (net \ {m}) \cup {Sent("offer", m.server, AnsweredTo(m.server))}
            /\ UNCHANGED servers
       ELSE /\ net' = (net \ {m}) \cup {Sent("ack", m.server, AnsweredTo(m.server))}
            /\ lease' = [lease EXCEPT ![m.server] = LeaseTime]
            /\ granted' = granted \cup {m.server}
    /\ UNCHANGED <<client, entry, faults>>

\* What else may become of a message; none of it more than MaxFaults times.
Fault(m) ==
    /\ faults < MaxFaults
    /\ faults' = faults + 1
    /\ \/ net' = net \ {m}
       \/ m.copy = 1 /\ net' = net \cup {[m EXCEPT !.copy = 2]}
       \/ m.type = "request" /\ Heard(m) /\
          net' = (net \ {m}) \cup {Sent("nak", m.server, AnsweredTo(m.server))}
    /\ UNCHANGED <<client, servers, entry>>

---------------------------------------------------------------------------

Init ==
    /\ ipAddr = NoServer
    /\ gateway = NoServer
    /\ s = [server_id |-> NoServer, router |-> NoServer, lease_time |-> 0]
    /\ DhcpLeaseTime = 0
    /\ DhcpTimeout = 1
    /\ DhcpRetries = DHCP_RETRIES
    /\ net = {}
    /\ lease = [server \in Servers |-> 0]
    /\ granted = {}
    /\ Arp!Init
    /\ faults = 0

Deliver == \E m \in net : Receive(m) \/ ServerReceive(m)

Next ==
    \/ DhcpService
    \/ Deliver
    \/ \E m \in net : Fault(m)
    \/ Tick
    \/ Restart
    \/ \E host \in Neighbours : Resolve(host)

Spec == Init /\ [][Next]_vars

\* main goes round, the timer runs, and messages arrive or are lost.
FairSpec == Spec /\ WF_vars(DhcpService) /\ WF_vars(Deliver) /\ WF_vars(Tick)

---------------------------------------------------------------------------

TypeOK ==
    /\ {ipAddr, gateway} \subseteq Hosts
    /\ s \in [server_id : Hosts, router : Hosts, lease_time : {0, LeaseTime}]
    /\ DhcpLeaseTime \in 0 .. LeaseTime
    /\ DhcpTimeout \in 0 .. DHCP_TIMEOUT
    /\ DhcpRetries \in 0 .. DHCP_RETRIES
    /\ net \subseteq Message
    /\ lease \in [Servers -> 0 .. LeaseTime]
    /\ granted \subseteq Servers
    /\ entry \in Neighbours \cup {NoServer}
    /\ faults \in 0 .. MaxFaults

\* The address in use is one a server has granted: whatever comes late, twice
\* or from before a restart, an offer alone never configures the board.
AddressGranted == ipAddr # NoServer => ipAddr \in granted

\* While the client counts its lease down, the server that granted the address
\* still reserves it, but for the time the ACK was under way.
LeaseCovered ==
    DhcpLeaseTime > 0 => DhcpLeaseTime <= lease[ipAddr] + MaxDelay

\* A board that is not restarted any more gets an address for good, as long as
\* fewer messages are lost or refused than it has retries.
StaysConfigured == <>[](ipAddr # NoServer)

\* DHCP.h:77 says, "ACK is sent to client by server in confirmation of REQUEST,
\* contains config and IP": the router is not that of another server than the one
\* whose ACK set the address.  It is, when the ACK names none (README, section 7).
ConfigFromOneServer == gateway \in {ipAddr, NoServer}

UnderWay(server, type) == \E m \in net : m.server = server /\ m.type = type

\* DHCP.h:73 says that "DISCOVER is broadcast by client to solicit OFFER from
\* any/all DHCP servers": every server within reach answers it with an offer.
DiscoverSolicitsOffers ==
    \A server \in Servers :
        UnderWay(server, "discover") ~> UnderWay(server, "offer")
=============================================================================
