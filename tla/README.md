# Verification of the ENC28J60 network stack for the Tiva C

The program is the firmware of a TM4C123 board with an ENC28J60 Ethernet
controller: a bare-metal IP stack with a TCP server on port 60000, a UDP port,
ping, ARP and a DHCP client, and a command line on the UART. It has no tests.
Its own README says "TCP is not working. It can only establish a connection,
close the connection, the sender can only send data from the Client"; "This
project also includes ARP, ICMP, DHCP."

This directory holds TLA+ modules of that stack, configurations that check them
with TLC, and theorems that TLAPS proves. `PROJECT.json` lists the components,
the runs, the source lines behind every definition, the hazards and the
theorems.

    tlc -workers 2 -config TcpSessions.cfg MCTcpSessions     # a run
    tlapm TcpSessionsProofs.tla                              # the proofs of a module

Contents: 1 the system, 2 how it is modelled, 3 the modules, 4 the runs,
5 fairness, 6 the proofs, 7 where the code differs from what is said of it,
8 what is not modelled, 9 the plan.

## 1 The system

### Control flow

`main` (main.c:13-30) sets up UART, timer, SPI and network and then loops:

    debug();                                  // the console
    if (DhcpLeaseTime == 0) dhcpService();    // no lease, or it is over
    PacketInComming();                        // at most one frame

Everything that handles frames is one thread: `PacketInComming` reads a frame
into the one buffer `ethBuffer` and calls `arpProcess` or `IPProcess`, which
call ICMP, UDP (and from there DHCP) or TCP; every answer is written over the
received frame in the same buffer and sent before the call returns. Concurrency
comes from

- `Timer_ISR` (Delay/Delay.c:36), once a second: `dhcpTimer`, and every tenth
  time `arpTimer`; it is running before the network is set up;
- `UART0_IntHandler` (UART/UART.c:42), which fills the command buffer that
  `debug` searches and clears;
- the ENC28J60, which receives and transmits on its own;
- the peers and the network;
- a reset of the processor, which zeroes the program's memory and leaves the
  chip, the peers and the frames on their way as they are.

The GPIO interrupt of SPI.c sets `eth_got_frame`, which nothing reads. SysTick
counts microseconds.

### Components

| component | state | operations | relies on | hard about it |
|---|---|---|---|---|
| TCP server (`Ethernet/TCP.c`) | `tcpSessionTable`: per session state, peer, ports, numbers, timeout | `TCPInit`, `TCPProcess` with lookup, creation, the branches per state, the replies | IP, the driver's frame length | segments lost, doubled, reordered; sequence arithmetic at its limit; a table of 8 entries (`TCP_MAX_SESSION`) that overflows |
| ENC28J60 driver (`ENC/ENC.c`) | `Enc28j60Bank`, `gNextPacketPtr`; in the chip: bank, ring, pointers, packet count, error flag | `enc28j60_init`, `enc28j60PacketReceive`, `enc28j60PacketSend`, `enc28j60SetBank` and the register accesses | SPI | the chip stores and transmits meanwhile; cached bank and pointer; wrap-around of the ring; waits without timeout; restart of one side only |
| SPI (`SPI/SPI.c`, `ENC.c:30-147`) | SSI FIFOs, chip select | `spi_init`; `ReadOp`, `WriteOp`, `ReadBuffer`, `WriteBuffer` | — | one byte back for each put: a miscounted one shifts all later reads |
| DHCP client (`Ethernet/DHCP.c`) | option record `s`, `DhcpLeaseTime`, `DhcpTimeout`, `DhcpRetries` | `dhcpService`, `dhcpIn`, `dhcpTimer`, `dhcpInit` | UDP, IP filter, ARP table | late, doubled and mixed answers, retries, restart with the same Xid, counters shared with the interrupt |
| ARP (`Ethernet/ARP.c`) | `ARPTable`, `ARPMyAddr` | `arpProcess`, `arpUpdateEntry`, `arpSearchIP`, `arpIpOut`, `arpTimer`, `arpSetAddress` | — | aged from an interrupt, renewed by main; answers written over the request |
| IP, ICMP, UDP | `Info` (address, mask, gateway); `udpBuffer` | `IPProcess`, `ipSend`, `icmpIpIn`, `UDPProcess`, `UDPReply`, `ipConfig`, `ipChecksum` | ARP | the address is kept in two places; answers depend on a stale ARP entry |
| main loop, Ethernet glue | `ethBuffer` | `main`, `netInit`, `PacketInComming` | all | order of one turn, restart |
| Console (`UART/UART.c`, `debug.c`) | `UART0_buf`, `bufCount_0` | `UART0_IntHandler`, `debug`, `SearchIndexOf`, `Reset` | UART | the buffer is shared with an interrupt and not locked |
| Timers and delays (`Delay/Delay.c`) | `i`, the microsecond counter | `Timer_ISR`, `delayMicroseconds` | — | runs between any two steps of main |
| TI UART library (`UART/uartstdio.c`) | — (as built here) | `UARTprintf`, `UARTwrite` | UART | overflow while the first digit of a number is looked for |
| Startup code | — | — | — | vendored |

### What makes them correct

- **TCP**: a peer has at most one session; sessions are lost to others only when
  the table is full; what is acknowledged was printed; a stream whose handshake
  gets through is printed completely and closed.
- **Driver**: the cached bank is the chip's; the driver's pointer is the oldest
  frame; frames are neither spoilt nor lost between arrival and copy; the ring
  is given back; the transmit buffer is written only when the chip has done with
  it; no wait is for ever.
- **SPI**: reads return what the register or memory holds, writes take effect,
  every operation ends.
- **DHCP**: the address in use was granted to the board, its lease is covered by
  the server's, the board ends up with an address. (That gateway and address come
  from one server is not so, see section 7.)
- **ARP/IP**: ARP answers are true, for the address that IP has at that moment,
  however often DHCP changes it; answers reach the host they are meant for in exactly the cases the one-entry
  table allows; the table recovers.
- **Frames**: every answer of ARP, ICMP, UDP and TCP, built over the request in the
  one buffer, is the frame the RFCs have for it, and the messages of DHCP are outside
  the places listed in section 7; the data of a segment outlasts the answer to it.
- **Console**: every command is executed once, in order, and not before it is
  typed; what is printed is what was meant.

The hazards behind these properties are listed with their lines in
`PROJECT.json`.

## 2 How it is modelled

**Steps.** A frame is handled from its arrival in `ethBuffer` to the answer on
the wire without a break: interrupts touch nothing a handler of TCP, IP or DHCP
reads in the middle, except `DhcpTimeout`, `DhcpLeaseTime` and the ARP
entry's time, for which the modules say why one step is enough. So in `TcpSessions`,
`DhcpClient` and `NetStack` an action is a whole handler. Where something does
run in between, the steps are finer: in `EncDriver` each access of the driver to
the chip is a step, since the chip goes on; in `Console` each access of `debug`
to the buffer, and each character the interrupt stores; in `SpiBus` each byte.

**Data.** What the state machines leave out, the bytes of frames and of printed
text, is in modules of functions (`EthBuffer`, `DhcpOptions`, `Checksum`,
`UartPrint`), which are compared with reference definitions. In the rest, peers,
servers and ports are model values; addresses are pairs of network and host part;
a payload is the set of sequence numbers its bytes have; sequence numbers are taken modulo `SeqMod`, and compared as the code compares
them, as plain unsigned numbers; the ring has the structure of the real one
(odd last address, frames at even addresses, header and padding) and is shorter.

**Environment.** What is not in the repository is modelled from the way the code
uses it and marked external in `PROJECT.json`: the chip's side of `EncDriver`
and `SpiBus`, the network and the client of `TcpStream`, servers and network of
`DhcpClient`, hosts of `NetStack`, the user of `Console`, the receiver of a
checksum, the layouts of frames in the RFCs.

**Names.** Definitions have the names of the functions, variables and constants
of the code. Definitions called `Wrong...` are not part of any specification:
each is a plausible mistake in the definition next to it (a test left out, an
order exchanged), and `PROJECT.json` says which property catches it when it is
put in its place.

**What one module takes from another.**

| module | takes for granted | because of |
|---|---|---|
| `EncDriver` | a register or buffer access is one exact step | `SpiBus`: `TransfersTrue`, `OperationsEnd` |
| `TcpSessions` | a frame as long as the buffer loses its last byte (`Arrived`) | the driver copies `maxlen - 1` bytes (ENC.c:431) |
| `TcpSessions`, `TcpStream` | replies reach the peer | only while the peer is the last host that resolved the board: `NetStack!AnswersGoToLastAsker` |
| `DhcpClient` | every frame goes to the owner of one ARP entry (`Destination`), which is nobody until a host resolves a board that has an address | `DhcpClient` takes its steps from `ArpEntry`, which `NetStack` implements: `ImplementsArpEntry`, proved |
| `TcpSessions`, `NetStack`, `DhcpClient` | a reply carries the fields of the record they send | `AnswersRight` |
| `TcpSessions` | the payload is printed as it came (`Deliver`), after the reply was built | `PayloadKept`, `PrintedAsMeant` |
| `DhcpClient` | options are read as the server sent them and a request names address and server | `ParsedAsSent`, `RequestNamesOffer` |
| all of the stack | checksums are accepted by the receiver | `ChecksumsRight` |

## 3 The modules

**TcpSessions** — `TCPProcess`. State: `tcpSessionTable`, what the last call put
on the wire (`sent`) and the bytes it printed (`printed`). One action,
`TCPProcess(seg)`: the loops that look for the session (`Bound`, `Listening`,
`Reusable`, `Selected`), the entry with which the code goes on (`Entry`: found,
taken over or created), and one operator per branch: `Reset`, `ListenSyn`,
`SynReceivedAck`, `EstablishedFin`, `InOrderData`, `OverlappingData`,
`RedundantData`, `GapData`, and `Ignored` for all that falls through.
`Packed`/`AfterSend` are `TCPPackedSend`.

**TcpConnections** — the abstract specification: each peer has no, an opening or
an open connection, of which at most `Capacity` exist; connections are opened,
accepted, closed, and dropped for a further peer only when all are in use.
**TcpService** maps the table to it (`connection`) and states
`ImplementsConnections`.

**TcpStream** — `TcpSessions` with one client and a network between them.
The client sends SYN, data and FIN, retransmits and takes acknowledgements as
RFC 793 says; the network holds sets of segments (so it reorders), may keep a
segment it delivers (duplicates) and drop any (loses). `shown` is what was
printed so far.

**EncDriver** — the driver against the chip. `pc` is where main is: `reset`,
`configure`, `poll`, the steps of `enc28j60PacketReceive` (`header`, `copy`,
`release`, `decrement`), the processing of a frame, and those of
`enc28j60PacketSend`. The chip stores a frame (`ChipReceive`) or ends a
transmission (`ChipTransmit`) between any two steps, `Restart` may come at any
point. `phy` waits for the chip's PHY, which takes its time (`ChipPhy`); `getmac`
reads the MAC address back while frames come in already. `ring` is the chip's
queue of frames with their addresses and whether they were stored over. The header
of a frame that was stored over, or that is not where the driver looks, gives any 16
bits for `gNextPacketPtr` (`Pointers`), and what is written to ERXRDPT is cut to the
13 bits of the chip's addresses (`Memory`). A wait for the PHY that looks at another
bank than the one MISTAT is in reads another register, which may wait for ever.

**SpiBus** — the four SPI routines byte by byte over the FIFOs of the SSI module,
with the chip's answers, stale bytes in the FIFO at start and registers the chip
changes on its own.

**DhcpClient** — client, servers, and the network as a set of messages with the
time they have been under way. The board's actions are `DhcpService`, `Receive`
(`DhcpIn` with `parse_opions`), `Tick` (`dhcpTimer`) and `Restart`. A message has
the options `Options(m)`, and `parse_opions` replaces those in the record and keeps
the others, whoever sent them; `Routerless` are the messages that have no router.
**DhcpOptions** — the bytes: `parse_opions`, and `dhcpRequest` writing over the
offer.

**NetStack** — `PacketInComming` with ARP, IP filter, echo replies and the UDP
answer, `Timer_ISR` as far as the table is concerned, `DhcpAck` (the two
functions that set the address, called for every ACK in every state, with any
address of `Leases` and any mask and gateway of `Networks`), `Restart`, and hosts
that resolve and announce any of these addresses, ping and send messages to the
one they resolved (`knows`), which the board may have given up since, and ping
everyone. `asker`, `age` and `answered` are history.

**ArpEntry** — the abstract specification of the table for those who send through
it: one entry that changes hands when a host resolves the board. `NetStack`
implements it with `ARPTable[0]`, and `DhcpClient` sends through it: its action
`Resolve` is that of `ArpEntry`, for the hosts in `Neighbours`.

**EthBuffer** — `ethBuffer` as a sequence of bytes. An operator named after a
function (`ipSend`, `icmpEchoReply`, `UDPReply`, `udpSend`, `dhcpDiscover`,
`TCPPackedSend`, ...) takes the buffer with what is in it and gives the buffer and
the frame that leaves the board; the headers are tables of offsets. Which answer
is due is left to the state machines; `ArpReply`, `RequestOver` and `TCPReplies`
are the parts of `arpProcess`, `dhcpRequest` and `TCPProcess` that write. The
operators behind "the other side" lay frames out as the RFCs do, without a
buffer, and are what the answers are compared with.

**UartPrint** — `UARTvprintf`: the format read character by character
(`TakeCharacter`), the search for the first digit with arithmetic modulo 2^32
(`Scale`), the digits from there on (`Digits`), filling and sign (`Converted`), and
line ends (`UARTwrite`).

**Console** — the interrupt (`UART0_IntHandler` enters and clears the buffer,
`UARTGetBuffer` stores one character or ends), `debug`, one access to the buffer a
step, and a user who types lines made of a head, a keyword or none, a tail and
Enter. main does not run during the interrupt; characters go on arriving.

**Checksum** — `ipChecksum` and the `checksum` of TCP, against a receiver that
follows RFC 1071.

**MCTcpSessions, MCTcpStream, MCEncDriver, MCDhcpClient, MCNetStack, MCConsole**
give the constants values for TLC. **MCRoutines** puts `SpiBus`, `Checksum`,
`DhcpOptions`, `EthBuffer` and `UartPrint` together: a behaviour looks at one input
of the pure routines, an offer, a request with what an older frame left behind it,
or a number to print, or is one of `SpiBus`. It holds the reference definitions:
the frame the RFCs have in answer to a request (`Expected`), the places where
DISCOVER and REQUEST are known to differ from it (`Deviations`), and what printf of C
makes of a conversion (`Wanted`).

**TcpSessionsProofs** (with the theorem about `TcpService`), **TcpStreamProofs,
EncDriverProofs, SpiBusProofs, DhcpClientProofs, NetStackProofs, ConsoleProofs**
hold theorems and proofs about the module in their name. **RoutinesProofs** is about
the functions of `Checksum`, `DhcpOptions` and `UartPrint`; what it proves of them
for all inputs `SpiBusProofs` states as invariants of `MCRoutines`, together with
what it proves itself of `EthBuffer`.

Deadlock is checked everywhere but in the runs of `TcpStream`: there the client
finishes, the network runs empty and nothing is left to happen.

## 4 The runs

| run | shows | bounds, and why they are enough |
|---|---|---|
| `tcp_sessions` | `OneSessionPerPeer`, `NewcomersServed`, `OnlyFullTableEvicts`, `AcknowledgedIsPrinted` and the refinement of `TcpConnections` hold after every sequence of segments | 2 entries and 3 interchangeable peers: the table is empty, partly used, full and overfull. `SeqMod` 4 with payloads up to 2: in order, overlapping, redundant, behind a gap, and wrapped. Numbers vary where a branch reads them; those of a SYN wrap at once or later. |
| `tcp_full_size` | violated: a segment of the announced MSS loses its last byte, which is acknowledged | the same with segments of full size |
| `tcp_stream` | `AcknowledgedWasPrinted` and `PrintedInOrder` with loss, duplication and reordering of everything | 3 bytes in pieces of 1 or 2, so pieces sent again overlap earlier ones in every way; `ISN` so that numbers wrap in the middle of the stream; 2 segments in flight each way, enough for any two to overtake each other |
| `tcp_stream_live` | `StreamCompletes` when data and acknowledgements may be lost at any time | 2 bytes; the bound of 9 segments in flight is never reached, so it disables no step |
| `tcp_stream_early_fin` | violated: a FIN that overtakes data acknowledges it | the client sends its FIN without waiting |
| `enc_driver` | `BankInSync`, `PointerInSync`, `FramesIntact`, `RingReclaimed`, `TransmitBufferFree`, `MainKeepsPolling` | ring of 10 bytes, frames of 4 and 6 with header: frames end at, wrap around and start at the end of the ring, and it fills up; 12 bytes of memory, so there are odd and even addresses behind the ring, and 24 values of a pointer, so the chip's addresses leave a bit of it out; up to 2 answers for a frame and 3 frames counted; the PHY as slow as it likes |
| `enc_overrun` | violated: frames that were not read are stored over when the next frame starts at address 0 | the same |
| `dhcp` | `AddressGranted`, `LeaseCovered`, `StaysConfigured` | 2 servers, one of them on the link and able to resolve the board, the other without a router to name; 2 retries with a timeout of 1 s and messages up to 1 s old, so an answer may come after the next DISCOVER; a lease of 2 s, which runs out; one fault (loss, duplicate, refusal) or restart, one less than the tries |
| `dhcp_broadcast` | violated: DISCOVER does not solicit offers from servers with a filtering network card | the code's own 3 retries and 10 s; one server |
| `net_stack` | `ArpAnswersTrue`, `AnswersGoToLastAsker`, `EntryShownForItsTime`, `AskerServed` and the refinement of `ArpEntry` (`ImplementsArpEntry`) | 2 hosts that displace each other; 2 entries, of which the code uses one; a lifetime of 2 periods of 2 ticks, so entries expire and are renewed at every tick of a period; 2 frames waiting; 2 addresses for the board, which hosts know after it has changed to the other; one fault: a lost answer, a restart, or a change of the address in use |
| `console` | `ExecutedAsTyped`, `CommandsExecuted` | two keywords with a common beginning, and a head that is this beginning, so a search finds part of a keyword in vain and reads a line that changes under it; 3 lines with one more character in front or behind; 2 characters waiting, so that the interrupt takes them one by one or together |
| `routines` | `TransfersTrue`, `OperationsEnd`; `ChecksumsRight`; `ParsedAsSent`, `RequestNamesOffer`; `AnswersRight`, `PayloadKept`; `PrintedAsMeant` | registers of each kind, reads and writes of up to 2 bytes with wrap-around of the memory; all inputs of up to 5 bytes of radix 3, with up to two rounds of carries; all offers of up to 2 options whose values contain codes of options; requests of every kind with headers of 20, 24 and 40 bytes, sequence numbers about to carry and to wrap, payloads of 0, 1 and 7 bytes, so of both parities and shorter and longer than the padding, and three values of the bytes an older frame left; all 256 numbers of 8 bits in each base, width and filling, since the powers of 10 overflow 8 bits as they do 32 |

The properties in a sentence each are in the comments in front of them.
`AcknowledgedIsPrinted` is an action property: it relates the acknowledged number
before and after a call to the bytes that very call printed. `OneSessionPerPeer`
is what makes the lookup that stops at the first hit right.
`AnswersGoToLastAsker` is an equivalence: it says both when answers arrive and
that otherwise they do not.

Assumptions of the passing runs on the environment, all of them visible in the
configurations or `ASSUME`s:

- `tcp_sessions`, `tcp_stream`: all segments are addressed to port 60000
  (`Ports = {service}`) and none fills the receive buffer to its last byte. With
  other ports see section 7.
- `tcp_stream`: the client sends its FIN when all its data is acknowledged
  (`Patient`).
- `tcp_stream_live`: SYN, SYN|ACK, the ACK of it, and the closing segments are
  not lost (`LossyHandshake = FALSE`); see section 7.
- `dhcp`: servers receive frames whatever their destination
  (`Promiscuous = TRUE`) and answer by broadcast (`Unicasting = {}`). They send every
  option but the router, which those in `Routerless` leave out.
- `console`: the user waits for main before beginning a line (`Patient`), and
  `ConsoleAssumption`: nothing that is typed behind a keyword is a character of a
  keyword, a line does not get to the end of the buffer, and a keyword is found
  only where it is meant, even in a text that begins like one line and goes on
  like the next (`FoundAt`; for the reason see section 7).
- `tcp_stream`: `PrintedInOrder` speaks of the stream up to the wrap of its
  numbers; behind it, see section 7.
- `routines`: formats have a conversion for each argument, with widths of up to 5
  (those of the firmware have none); requests have no IP options.

## 5 Fairness

- The main loop never stops, and nothing in it waits for anything but the chip:
  WF of the board's actions (`Driver`, `DhcpService`, `PacketInComming`, `debug`,
  the byte steps of `SpiBus`). In `TcpStream` the handling of an arrived segment
  is part of `ServerReceive`.
- The hardware: the timer ticks (WF `Tick`; `NetStack` does not need it), the
  UART interrupts and the interrupt ends (WF `Interrupt`), the SSI module shifts (WF `Shift`),
  the chip ends every transmission it begins, well or with an error
  (WF `ChipTransmit`), and every write to its PHY (WF `ChipPhy`).
- Peers: in `TcpStream` the client keeps retransmitting (WF `Connect`, SF of
  `SendData` and `Finish`) and a segment that is sent again and again is taken at
  some time, by the server or, if it acknowledges something, by the client (SF).
  SYN|ACK and FIN|ACK, which are sent once, are taken (WF), as `tcp_stream_live`
  has them get through. In `NetStack` only
  `Persistent` hosts go on resolving and pinging (SF, because the ring may be
  full when they try); others may fall silent. In `Console` a line that was begun
  is finished; no new one need be begun. In `DhcpClient` a message under way
  arrives or is lost; losses are bounded by `MaxFaults`.
- Restarts: `MainKeepsPolling` and `AskerServed` hold unless the processor
  restarts, or other hosts resolve the board, for ever; the properties say so.

## 6 The proofs

`TcpSessionsProofs` proves for any number of sessions, peers, sequence numbers
and any set of segments:

- `TypeCorrect`: `Spec => []TypeOK`, without further assumptions.
- `TableCorrect`: if all segments are addressed to `SERVICE_PORT`
  (`Ports = {SERVICE_PORT}`), `Spec => []TableInv`. `TableInv` is `TypeOK` with
  `SessionsServe`, `OneSessionPerPeer` and `HandshakeNumbers`. None of the three
  is inductive alone: that a peer does not get a second session needs that its
  first one is found by the lookup, which needs its local port to be the one
  dialled, which is `SessionsServe`; and takeover of a LISTEN entry must not
  leave a second one listening. The step is proved branch by branch, one lemma
  per branch of `TCPProcess`, over lemmas on what the lookup selects and on the
  entry it gives.
- From it `PeersHaveOneSession`, `SessionsAlwaysServe`, `HandshakeNumbersEqual`,
  `NewcomersAreServed` (the action property `NewcomersServed`: a SYN of a peer
  without a session selects an entry to take over, create or force, and in each
  case passes through LISTEN in the same call), `EvictionNeedsFullTable` (the action property `OnlyFullTableEvicts`; it needs
  that there is no LISTEN entry) and `AcknowledgedBytesPrinted` (the action
  property `AcknowledgedIsPrinted`, with the assumption `ShortSegments`).
- `EvictionNeedsUnclosedTable` is the weaker form that holds for any ports: a
  session is forced out only when no entry is closed.

The same module proves `TableImplementsConnections`: with the same assumption
`TcpSessions` implements `TcpConnections` for any table and any peers. The
invariant is `TableInv` with `LiveHavePeers`. `OneSessionPerPeer` makes the mapping,
which chooses a session for each peer, a function of the table. A step that changes
one entry then changes one connection at most (`CallShape`); that a newcomer takes the place of another only at
capacity is counting: the live sessions and the connected peers are as many.

`TcpStreamProofs` proves for any length of the stream, any initial number, any cut
into segments, any number of them in flight, lost, doubled and reordered:

- `StreamCorrect`: `StreamSpec => []StreamInv`. Its core is `SessionsEarned`: the
  number a live session has acknowledged is that of a position in front of which
  everything was printed. It is inductive over every branch that moves
  `AckNumber`, since the numbers of positions differ as long as the stream is
  shorter than the number space (`Total + 3 <= SeqMod`). The segments under way are
  known by where they were cut (`ClientSegments`), not by when they were sent, so
  delay and duplication need no argument of their own.
- From it `StreamPrintedInOrder`, for any client, and
  `StreamAcknowledgedWasPrinted`, for `Patient` clients: a FIN is acknowledged
  whatever is missing (the run `tcp_stream_early_fin`), so for those only
  `RepliesEarned` and `FinIsLast` are invariant.

`EncDriverProofs` proves for any odd last address of the ring and any even frame
sizes that leave two bytes of it free:

- `EncInvariant`: `Spec => []EncInv`. `PointerInSync`, `FramesIntact` and
  `RingReclaimed` are each not inductive, since what the chip may store over
  depends on where ERXRDPT stops it. `RingInv` says it: the frames that are still to
  be read are chained from the address behind ERXRDPT, without passing it again,
  to the chip's write pointer, and are together no longer than what the chip may
  fill. The proof counts addresses up the ring from there (`PosFrom`), which turns
  the wrap-around into an addition; when a frame is released the base moves on
  (`BaseMoves`). It holds until -1 is written to ERXRDPT and the chip stores
  beyond (`escaped`), which is the finding of `enc_overrun`.
- From it `EncTypeCorrect`, `BankCacheCorrect`, `PointerCorrect`, `NoFrameSpoilt`,
  `RingGivenBack` and `TransmitBufferNotOverwritten`. `EncTypeCorrect` says more than
  ranges while no unread frame was stored over: `gNextPacketPtr` is an even
  address of the ring, because the chip wrote it there, and ERXRDPT an address of the
  ring or what is left of -1. Afterwards both are just values of their width.

`SpiBusProofs` proves for any registers, size of the buffer memory, length of
transfer and stale bytes in the receive FIFO:

- `BusCorrect`: `Spec => []BusInv`: between two exchanges both FIFOs are empty and
  the chip has taken as many bytes as the driver has fetched (`InStep`), and what
  was fetched so far is what memory holds in front of the chip's pointer
  (`ReadBufferInv`, `WriteBufferInv`). One byte too many in the FIFO and every later
  read is shifted: this is why `spi_init` has to empty it, and no read checks it.
- From it `BusTypeCorrect` and `TransfersAreTrue`, on which `EncDriver` relies.
- About the run `routines`, which puts the pure routines beside `SpiBus`: `RunsSpi`,
  that `SpiBus` is not disturbed, and `ChecksumsAlwaysRight`, `OffersAlwaysParsed`,
  `RequestsAlwaysNameOffer` and `PrintsAlwaysAsMeant`: its invariants
  `ChecksumsRight`, `ParsedAsSent`, `RequestNamesOffer` and `PrintedAsMeant`, for
  inputs and offers of any length (`MaxBytes`, `MaxOptions`) and any number of values
  of a `uint32_t`. The inputs of the run are what the theorems of `RoutinesProofs` ask
  for (`InputsRight`, `PrintRight`), and stay so.
- `DataOutlivesAnswers`: of a segment to an established session with any options its
  header can have and any data that the buffer has room for, `TCPProcess` finds the
  data, and it is still there, with a 0 behind it, when the answers are sent. Frame
  and buffer are taken apart byte by byte (`SegmentReceived`), and every store of
  `TCPPackedSend`, of its pseudo header, `ipSend` and `arpIpOut` is shown to end in
  front of the data (`FillKeeps`, `TCPPackedSendKeeps`). Only a SYN's options go
  there. `PayloadAlwaysKept` is `PayloadKept` of the run.

`RoutinesProofs` proves what the recursive functions compute, by least
counterexamples: naturals are well founded, so a function that is wrong somewhere is
wrong for an argument of least measure and right for the one it goes on with
(`LeastWrong`). That TLA+'s recursive functions have a solution at all, without
which nothing is known of them, is `Recursion`, for any recursion that lowers a
measure.

- `ChecksumsAccepted`: whatever the bytes, their number, even or odd, and the number
  of values of a byte, a receiver that follows RFC 1071 accepts both checksums. Both
  sums are equal up to carries (`Same`, which is equality modulo 2^16 - 1), also when
  the words are read the other way round.
- `OffersParsed`: of any list of options with END behind them, in front of anything
  and with any length that is not too short, `parse_opions` takes the value of the
  last of each kept kind and the message type. Kept options must have their four
  bytes and no option more than a byte can say (`RightLengths`, `Option`).
- `RequestUnderstood`: whatever the buffer held, in what `dhcpRequest` leaves a
  server that takes the first option of a kind reads REQUEST, the address and the
  server, though there is no END.
- `NumbersPrinted`: any number in any base up to 16, with or without a sign, in any
  width up to 15, is printed with the digits that spell it (`Spells`). The test that
  looks for overflow by dividing the wrapped product is exact (`OverflowSeen`), the
  width that is left may wrap below zero without being taken for one
  (`WidthLeft`), and the digits counted down from the power found are those the
  number has when it is divided up from the other end (`DigitsShift`). It holds for
  an even number of values of at least 256. `FormatPrinted` puts it into a
  format, character by character (`FormatTaken`), so that `AllPrinted` of
  `SpiBusProofs` says it of a whole call, for `%d`, `%u`, `%x` and `%s` with
  widths of one digit.

`DhcpClientProofs` proves for any servers, neighbours, retries, timeout, lease and
delay of the network:

- `DhcpInvariant`: `Spec => []DhcpInv`. An address is taken from an ACK long after
  it was granted, so the invariant is about the messages: every ACK under way was
  granted, and the server's lease that is left, with the ACK's age, is at least
  what it grants (`AcksTrue`).
- From it `DhcpTypeCorrect`, `OnlyGranted` and `LeaseIsCovered`, whatever messages
  lack a router.

`NetStackProofs` proves for any set of hosts, addresses for the board, table size, lifetime, timer period
and ring length:

- `NetCorrect`: `Spec => []NetInv`. `NetInv` is `TypeOK` with `ArpAnswersTrue`,
  `IdentityAgrees`, `UnaddressedKnowsNobody` and `AnswersGoToLastAsker`,
  strengthened by what entry 0 holds (the hardware address of `asker`, which is
  zero when nobody asked since the restart) and the shape of the frames that wait. Without the first the destination
  of an answer cannot be told, and without `IdentityAgrees`, that ARP and IP hold the same address, neither
  that an answer is true nor that a board without address leaves ARP requests alone.
- `TimeKept`, also part of `NetInv`, counts for entry 0 the periods taken from its
  time and the ticks of the period under way against its age. From it
  `EntriesShownForTheirTime`, for any lifetime and period.
- From `NetInv` also `NetTypeCorrect`, `ArpAnswersAreTrue`,
  `UnaddressedBoardKnowsNobody`, `AnswersGoToTheLastAsker`, and `TableIsOneEntry`:
  `NetStack` implements `ArpEntry`, step by step, with `ARPTable[0].hwAddr` for the
  owner. This is what `DhcpClient` builds on.

`ConsoleProofs` proves for any keywords, lines and sizes that `ConsoleAssumption`
admits:

- `BoundsCorrect`: `Spec => []BoundsInv`, for any user, typing ahead or not.
  `bufCount_0` is checked nowhere in the code. It stays in the buffer because what
  waits in the FIFO without an Enter between belongs to one line (`RunsFit`), and
  `SearchIndexOf` and `Reset` stop because the last character is never written
  (`LastIsNul`). From it `ConsoleTypeCorrect`.
- `PatientCorrect`: if the user waits (`Patient`), `Spec => []PatientInv`. The
  property says nothing of the buffer; the invariant has to: characters of keywords
  in it are of the line that is typed, or, before the first character of it is
  stored, of the head of the line before (`Keys`, `Old`); a line that was not
  executed is in the buffer as typed (`Written`); and what a search has matched so
  far is of the old head up to a place and of the new line behind it (`Searches`),
  since the interrupt may replace the line under a search.
- From it `OnceInOrder`: `Spec => []ExecutedAsTyped`. A full match is what the line
  asks for (`FoundIsAsked`), it is executed, and the buffer is clear of keywords
  before the next search.

Four of the proved invariants, `SessionsServe`, `HandshakeNumbers`,
`IdentityAgrees` and `UnaddressedKnowsNobody`, are parts of the inductive invariants and no run lists
them.

The assumptions are the `ASSUME`s of the modules, which TLC evaluates in every
run, and those named in the theorems. Every proof is checked to the last leaf.

What the proofs changed in the model:

- `Console`: its assumption was too weak for the property. TLC found, once lines
  were tried that it admitted, a keyword in the mixture of two lines and one that
  overlaps itself (section 7). The interrupt was one step and is now one per
  character, as main's part is, and the user types a line instead of keeping the
  rest of one.
- `EncDriver`: `MaxAnswers` has to be at least 1; with 0 its type invariant is false.
- `MCRoutines` says that its bounds are numbers (`MaximaAssumption`), and in
  `UartPrint` the loops of a conversion are functions of one argument, the power
  of the base, of which it can be said that they end.

Only model-checked:

- liveness under fairness (`StreamCompletes`, `MainKeepsPolling`,
  `StaysConfigured`, `AskerServed`, `CommandsExecuted`, `OperationsEnd`): TLAPS
  proves neither fairness arguments with ENABLED nor leads-to chains over them;
- `AnswersRight`: it compares the answers to finitely many requests with whole frames,
  byte for byte, which is a computation and not an argument. What it would take to
  prove it for any request is in section 9.

Every other invariant and action property of a passing run is a theorem.

## 7 Where the code differs from what is said of it

Four runs show a disagreement between the code and its comments
(`tcp_full_size`, `tcp_stream_early_fin`, `enc_overrun`, `dhcp_broadcast`). Others
were met while reading and are modelled as the code has them, or avoided by a
stated assumption:

TCP
- When the SYN|ACK is lost the session stays in SYN_RECEIVED, which answers
  neither the repeated SYN nor data: the client waits for ever. No run forbids
  that; `NewcomersServed` says only that the same client is served when it comes
  again from another port. TCPCheckTimeOut,
  of which TCP.c:57-58 says that it is called every second and frees hung
  sessions, is never called; such sessions go by RST or eviction only.
- A SYN to another port makes a session for port 60000 (TCP.c:257) and is
  answered from there; the next segment to that port is not found to belong to it
  and takes another entry, in the end session 0.
- The server's initial number is the client's (TCP.c:281).
- Overlapping and redundant payload is printed again (TCP.c:349-356 against 385).
  The flags tested after a redundant payload are those of the reply already
  written over the segment (380).
- Numbers are compared without regard to their wrap (343): behind it, a segment
  that overtook others is taken for redundant and printed before them, though not
  acknowledged further than was printed. TIMED_WAIT is never
  assigned. Checksums of arriving segments are not verified.

ENC28J60
- TXERIF is never cleared (ENC.c:369): after one failed transmission, each later
  one that is still running when the next frame is sent is reset, though it has no
  problem: `OnlyProblemsReset`, which says otherwise, is in no run, and TLC refutes it
  with the constants of `EncDriver.cfg`.
- The end of the initialisation writes the even number 0 to ERXRDPT (251-252),
  against the comment in 451; it stays there until a frame is released. What the chip then does to its buffer
  (errata point 13) is not modelled. Comment 263 says that of broadcasts only ARP
  passes; 272 lets all pass. A bit-set operation is applied to the MAC register
  MACON3 (289), where the chip does not define it. enc28j60linkup tests `&& 4`
  (354); nothing calls it.

ARP, IP, ICMP
- `arpSearchIP` ends its `if` with a semicolon (ARP.c:27) and always returns 0:
  the table has one usable entry, the search for a free one (43-52) and the
  broadcast branch (80-90) are unreachable. The time to live (ARP.h:28) is shown
  on the console and never consulted.
- Answers therefore go to the last host that resolved the board; after a restart
  they go to 00:00:00:00:00:00 until some host asks again.
- IP.c:61 compares before it masks; without effect, since both branches end in
  entry 0. The filter lets pass `ip | mask`, which is not the directed broadcast.
  The reply to a broadcast ping has the broadcast address as its source.

DHCP
- REQUEST is sent for every OFFER in any state, against DHCP.h:75. NAK is
  ignored. The flags are set to `HTONS(1)`, the bytes 0 and 1 (DHCP.c:89), where
  the flag for broadcasts is the first bit: it is not set, so offers that a server sends to the
  offered address are dropped by `IPProcess`; `Unicasting` describes such
  servers and is empty in the runs.
- When the lease is over nothing is sent, because `dhcpService` asks only while
  the address is 0.0.0.0 (DHCP.c:141): the address stays in use and is never
  renewed. A client that gets none gives up after three tries.
- PAD, of which DHCP.h:55 says that it may be skipped, has no length byte and is
  misread. The request has no END; its last 15 bytes are the offer's, as are the
  fields of the header it does not clear. DISCOVER has ten bytes of an
  older frame behind the hardware address and three behind END. These places, the
  flags and the Ethernet destination (run `dhcp_broadcast`) are the `Deviations` that
  `AnswersRight` leaves out. `RequestNamesOffer` is about a server that takes the
  first option of a kind; one that joins options of a kind, or takes the last, may
  read something else in the stale bytes, and no property covers it.
- An ACK may leave options out, and the request asks for none (107-118): what it
  leaves out keeps the value of an earlier message, of whatever server. When one of
  two servers names no router, as in the run `dhcp`, the board may use its address
  with the router of the other: `ConfigFromOneServer`, which DHCP.h:77 promises, is in
  no run, and TLC refutes it with the constants of `DhcpClient.cfg`. After a further ACK the board has another address; hosts
  that know the old one get no answer until they resolve it again.

Console
- A command is executed before Enter. What is typed behind it stays in the
  buffer and may complete a keyword of a later line. Somebody who types ahead can
  lose a command, because the interrupt clears the line main has not looked at:
  with `Patient = FALSE` TLC finds it.
- Even for a user who waits, main may be searching while the first character of
  the next line arrives: a search that has read the beginning of the old line goes
  on in the new one and can find a keyword nobody typed. With the keyword `ab`, the
  line `a` and the line `cb` behind it, `ab` is executed. A keyword of which the
  beginning is also its end may be found early in the same way: with `aa` behind a
  head `a`, when its first character is typed. The words of debug.c:61-85 have no
  such beginning, and what is typed in front of them decides about the first.
- uartstdio.c:518-519 says that \n is translated to \n\r; \r is sent first (523).

## 8 What is not modelled

- Functions nothing calls: TCPCheckTimeOut, TCPSend, TCPInitSequenceNumber,
  arpSendReq, arpPacketIn, arpTimerReq, icmpRequest, spi_send, delay, millis, and
  of the driver clkout, getrev, linkup, hasRxPkt, PhyReadH and the switches for
  broadcasts.
- Clock and pin setup, written once, at start, and `udpBuffer`, into which messages
  are copied and which nothing reads.
- The wording of what the console prints.
- The microsecond counter behind `delayMicroseconds`, used for fixed waits during
  initialisation.
- Lines longer than the command buffer, segments longer than the announced MSS,
  and a restart in the middle of an SPI operation, which is taken to release chip
  select.
- Of TI's uartstdio.c the branch for UART_BUFFERED, which is not compiled, and what
  nothing calls (`UARTgets`, the buffer functions); the startup file, without
  state of its own; `Debug/`, which is build output.

## 9 The plan

Order of the modules, the most important first: `TcpSessions` with its abstract
specification, its proofs, `TcpStream`; `EncDriver`; `NetStack` with `ArpEntry` and
its proofs; `DhcpClient`, which sends through `ArpEntry`; `Console`; the leaf
routines below them (`SpiBus`, `Checksum`, `DhcpOptions`, `EthBuffer`,
`UartPrint`). All of these are written, and their safety is proved but for the
layout of the frames in `EthBuffer`. What is left:

1. Theorems that join modules: an abstract bus with an access in one step, as
   `EncDriver` takes it, that `SpiBus` implements; and for `EncDriver` what holds of
   `OnlyReadMemoryFreed`, which is violated when the next frame starts at address 0,
   at all other addresses.
2. `AnswersRight` for any request: that the checksum of what lies in the buffer is
   that of the frame, though the pseudo header has its words in another order.
3. The microsecond counter behind the fixed waits.
