------------------------------- MODULE SpiBus -------------------------------
(***************************************************************************)
(* The four routines of ENC/ENC.c that talk to the ENC28J60 over SPI, byte *)
(* by byte: ReadOp, WriteOp, ReadBuffer and WriteBuffer, on the SSI module *)
(* that SPI/SPI.c sets up.  SPI exchanges bytes: the chip hands one back   *)
(* for every byte it is given, so the driver has to fetch as many as it    *)
(* puts, and to know which of them means anything.                         *)
(*                                                                         *)
(* A byte is the set of its bits; the first byte of an operation is told   *)
(* by its code and register.  Register banks and the soft reset are left   *)
(* to EncDriver.                                                           *)
(***************************************************************************)
EXTENDS Integers, Sequences

CONSTANTS
    EthRegisters,   \* control registers of the selected bank
    MacRegisters,   \* those with SPRD_MASK: MAC and MII registers
    Volatile,       \* registers the chip changes on its own
    Bits,
    MemSize,        \* bytes of buffer memory
    MaxLen,         \* longest buffer read or written
    MaxStale        \* bytes in the receive FIFO when the program starts (8)

\* Bit 7 of the addresses of ENCREG.h tells the kinds of registers apart.
Registers == EthRegisters \cup MacRegisters
Byte == SUBSET Bits
commandEmpty == {}
Addresses == 0 .. MemSize - 1

ASSUME SpiAssumption ==
    /\ EthRegisters \cap MacRegisters = {}
    /\ Volatile \subseteq EthRegisters
    /\ Registers \ Volatile # {}
    /\ MemSize \in Nat \ {0}
    /\ MaxLen \in 0 .. MemSize
    /\ MaxStale \in Nat

VARIABLES
    pc,        \* the driver: "start", "idle", "put", "get", "end"
    op,        \* the operation under way, or the last one
    n,         \* its bytes that were exchanged
    data,      \* what it has read
    tx, rx,    \* FIFOs of the SSI module
    cs,        \* is the chip selected?
    count,     \* the chip: bytes it has seen since it is selected
    command,   \* the chip: the first of them
    reg,       \* the chip: its registers
    mem,       \* the chip: buffer memory
    ERDPT,     \* the chip: where it is read
    EWRPT,     \* the chip: where it is written
    seen       \* history: values of the operation's register while it ran

driverVars == <<pc, op, n, data>>
memVars == <<mem, ERDPT, EWRPT>>
vars == <<driverVars, tx, rx, cs, count, command, reg, memVars, seen>>

---------------------------------------------------------------------------
(* The operations: code, register and what is put behind them *)

\* Mutant: the dummy byte of MAC and MII registers is left out.
WrongReadOp(r) == [code |-> "read", reg |-> r, puts |-> <<commandEmpty>>]

ReadOp(r) ==
    [code |-> "read", reg |-> r,
     puts |-> IF r \in MacRegisters THEN <<commandEmpty, commandEmpty>>
                                    ELSE <<commandEmpty>>]

WriteOp(code, r, byte) == [code |-> code, reg |-> r, puts |-> <<byte>>]

NoRegister == CHOOSE r \in Registers : r \notin Volatile

\* ReadOp and WriteOp with the codes of the buffer memory read and write one
\* byte of it, as these do.
ReadBuffer(len) ==
    [code |-> "read_buffer", reg |-> NoRegister,
     puts |-> [k \in 1 .. len |-> commandEmpty]]

WriteBuffer(bytes) == [code |-> "write_buffer", reg |-> NoRegister, puts |-> bytes]

Strings == UNION {[1 .. len -> Byte] : len \in 0 .. MaxLen}

Operations ==
    {ReadOp(r) : r \in Registers}
    \cup {WriteOp(code, r, byte) : code \in {"write", "set", "clear"},
                                   r \in Registers, byte \in Byte}
    \cup {ReadBuffer(len) : len \in 0 .. MaxLen}
    \cup {WriteBuffer(bytes) : bytes \in Strings}

---------------------------------------------------------------------------
(* The driver *)

\* Mutant: what is left in the receive FIFO stays there.
Wrongspi_init ==
    /\ pc = "start"
    /\ pc' = "idle"
    /\ UNCHANGED <<op, n, data, tx, rx, cs, count, command, reg, memVars, seen>>

\* Mutant: a byte is waited for that need not be there.
WrongBlocking ==
    /\ pc = "start"
    /\ rx # <<>>
    /\ pc' = "idle"
    /\ rx' = Tail(rx)
    /\ UNCHANGED <<op, n, data, tx, cs, count, command, reg, memVars, seen>>

\* The last thing spi_init does is to empty the receive FIFO.
spi_init ==
    /\ pc = "start"
    /\ pc' = "idle"
    /\ rx' = <<>>
    /\ UNCHANGED <<op, n, data, tx, cs, count, command, reg, memVars, seen>>

\* CSACTIVE
Begin(o) ==
    /\ pc = "idle"
    /\ pc' = "put"
    /\ op' = o /\ n' = 0 /\ data' = <<>>
    /\ cs' = TRUE
    /\ seen' = {reg[o.reg]}
    /\ UNCHANGED <<tx, rx, count, command, reg, memVars>>

Item == IF n = 0 THEN [code |-> op.code, reg |-> op.reg, byte |-> {}]
                 ELSE [code |-> "none", reg |-> NoRegister, byte |-> op.puts[n]]

\* SSIDataPut
Put ==
    /\ pc = "put"
    /\ pc' = "get"
    /\ tx' = Append(tx, Item)
    /\ UNCHANGED <<op, n, data, rx, cs, count, command, reg, memVars, seen>>

\* SSIDataGet waits for a byte.  Into data goes what follows the command when
\* something is read, in ReadOp over what came before; the rest is thrash.
Get ==
    /\ pc = "get"
    /\ rx # <<>>
    /\ n' = n + 1
    /\ data' = CASE n > 0 /\ op.code = "read" -> <<Head(rx)>>
                 [] n > 0 /\ op.code = "read_buffer" -> Append(data, Head(rx))
                 [] OTHER -> data
    /\ rx' = Tail(rx)
    /\ pc' = IF n = Len(op.puts) THEN "end" ELSE "put"
    /\ UNCHANGED <<op, tx, cs, count, command, reg, memVars, seen>>

\* CSPASSIVE
End ==
    /\ pc = "end"
    /\ pc' = "idle"
    /\ cs' = FALSE
    /\ count' = 0
    /\ UNCHANGED <<op, n, data, tx, rx, command, reg, memVars, seen>>

Driver == spi_init \/ (\E o \in Operations : Begin(o)) \/ Put \/ Get \/ End

---------------------------------------------------------------------------
(* The SSI module and the chip *)

\* What the chip hands back for its next byte; where it says nothing, anything.
Answers ==
    CASE count = 1 /\ command.code = "read" /\ command.reg \in EthRegisters ->
             {reg[command.reg]}
      [] count = 2 /\ command.code = "read" /\ command.reg \in MacRegisters ->
             {reg[command.reg]}
      [] count > 0 /\ command.code = "read_buffer" -> {mem[ERDPT]}
      [] OTHER -> Byte

\* The values a register may get.  Setting and clearing bits is for Ethernet
\* registers only; nothing is known of what it does to the others.
Written(code, r, byte) ==
    LET value == CASE code = "write" -> byte
                   [] code = "set" -> reg[r] \cup byte
                   [] code = "clear" -> reg[r] \ byte
    IN  IF code = "write" \/ r \in EthRegisters THEN {value} ELSE {value, reg[r]}

NextAddress(address) == (address + 1) % MemSize

\* The selected chip takes a byte.
ChipTakes(item) ==
    /\ count' = count + 1
    /\ command' = IF count = 0 THEN item ELSE command
    /\ IF count = 1 /\ command.code \in {"write", "set", "clear"}
       THEN \E value \in Written(command.code, command.reg, item.byte) :
                reg' = [reg EXCEPT ![command.reg] = value]
       ELSE UNCHANGED reg
    /\ ERDPT' = IF count > 0 /\ command.code = "read_buffer"
                THEN NextAddress(ERDPT) ELSE ERDPT
    /\ IF count > 0 /\ command.code = "write_buffer"
       THEN mem' = [mem EXCEPT ![EWRPT] = item.byte] /\ EWRPT' = NextAddress(EWRPT)
       ELSE UNCHANGED <<mem, EWRPT>>

\* What the register of the operation under way becomes is noted.
Noted == seen' = IF pc \in {"start", "idle"} THEN seen ELSE seen \cup {reg'[op.reg]}

\* One byte each way; a chip that is not selected takes none.
Shift ==
    /\ tx # <<>>
    /\ tx' = Tail(tx)
    /\ \E answer \in (IF cs THEN Answers ELSE Byte) : rx' = Append(rx, answer)
    /\ IF cs THEN ChipTakes(Head(tx)) ELSE UNCHANGED <<count, command, reg, memVars>>
    /\ Noted
    /\ UNCHANGED <<driverVars, cs>>

ChipChanges(r) ==
    /\ \E value \in Byte : reg' = [reg EXCEPT ![r] = value]
    /\ Noted
    /\ UNCHANGED <<driverVars, tx, rx, cs, count, command, memVars>>

---------------------------------------------------------------------------

\* PA6 may be low before the first operation; the chip then waits for a command.
Init ==
    /\ pc = "start"
    /\ op = ReadBuffer(0) /\ n = 0 /\ data = <<>>
    /\ tx = <<>>
    /\ rx \in UNION {[1 .. len -> Byte] : len \in 0 .. MaxStale}
    /\ cs \in BOOLEAN
    /\ count = 0
    /\ command = Item
    /\ reg = [r \in Registers |-> {}]
    /\ mem = [a \in Addresses |-> {}]
    /\ ERDPT = 0 /\ EWRPT = 0
    /\ seen = {}

Next == Driver \/ Shift \/ (\E r \in Volatile : ChipChanges(r))

\* main goes on with the operation it is in, and SPI has a clock.
Fairness == WF_vars(spi_init \/ Put \/ Get \/ End) /\ WF_vars(Shift)

Spec == Init /\ [][Next]_vars /\ Fairness

---------------------------------------------------------------------------
(* What the driver above takes for granted *)

TypeOK ==
    /\ pc \in {"start", "idle", "put", "get", "end"}
    /\ op \in Operations
    /\ n \in 0 .. Len(op.puts) + 1
    /\ data \in Strings \cup {<<byte>> : byte \in Byte}
    /\ Len(tx) <= 1
    /\ rx \in Seq(Byte)
    /\ cs \in BOOLEAN
    /\ count \in 0 .. MaxLen + 3
    /\ reg \in [Registers -> Byte]
    /\ mem \in [Addresses -> Byte]
    /\ ERDPT \in Addresses /\ EWRPT \in Addresses

\* A read returns what the register held at some time during the read, and a
\* buffer read the bytes of the memory in order, whatever the FIFO held at start
\* and whatever the chip says in between.
ReadsTrue ==
    pc = "idle" =>
        /\ (op.code = "read" /\ seen # {}) => Len(data) = 1 /\ data[1] \in seen
        /\ op.code = "read_buffer" =>
               data = [k \in 1 .. Len(op.puts) |->
                          mem[(ERDPT - Len(op.puts) + k - 1) % MemSize]]

\* When a write is over it is in force: register or memory hold what was written.
WritesDone ==
    pc = "idle" =>
        /\ (op.reg \in EthRegisters \ Volatile \/ (op.reg \in MacRegisters /\ op.code = "write")) =>
               LET byte == op.puts[1]
               IN  /\ op.code = "write" => reg[op.reg] = byte
                   /\ op.code = "set" => byte \subseteq reg[op.reg]
                   /\ op.code = "clear" => byte \cap reg[op.reg] = {}
        /\ op.code = "write_buffer" =>
               \A k \in DOMAIN op.puts :
                   mem[(EWRPT - Len(op.puts) + k - 1) % MemSize] = op.puts[k]

\* Both kinds of SPI operations do what they are for.
TransfersTrue == ReadsTrue /\ WritesDone

\* Every operation ends: the driver never waits for a byte that does not come.
OperationsEnd == []<>(pc = "idle")
=============================================================================
