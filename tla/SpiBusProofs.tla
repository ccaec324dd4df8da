---------------------------- MODULE SpiBusProofs ----------------------------
(***************************************************************************)
(* Theorems about the SPI routines, for any registers, any size of the     *)
(* buffer memory, any length of a transfer and anything the receive FIFO   *)
(* holds at the start.  Driver and chip keep step: between two exchanges   *)
(* both FIFOs are empty and the chip has seen as many bytes as the driver  *)
(* has fetched.  Behind them, the theorems of RoutinesProofs as invariants *)
(* of the run, whose inputs are what those theorems ask for, and what the  *)
(* answers to a segment leave of ethBuffer.                                *)
(***************************************************************************)
EXTENDS MCRoutines, RoutinesProofs, SequenceTheorems, TLAPS

\* The address j places in front of another one.
Back(address, j) == (address - j) % MemSize

Waiting == pc \in {"start", "idle"}

\* How many bytes behind the command the chip has taken, and how many the driver
\* has fetched; all of them when the operation is over.
Shifted == IF Waiting THEN Len(op.puts) ELSE IF count = 0 THEN 0 ELSE count - 1
Fetched == IF Waiting THEN Len(op.puts) ELSE IF n = 0 THEN 0 ELSE n - 1

\* Driver, FIFOs and chip are in step.
InStep ==
    /\ pc = "start" => /\ op = ReadBuffer(0) /\ data = <<>>
                       /\ tx = <<>> /\ n = 0 /\ count = 0
    /\ pc = "idle" => tx = <<>> /\ rx = <<>> /\ count = 0
    /\ pc = "put" => tx = <<>> /\ rx = <<>> /\ count = n /\ n <= Len(op.puts) /\ cs
    /\ pc = "get" => /\ n <= Len(op.puts) /\ cs
                     /\ \/ tx = <<Item>> /\ rx = <<>> /\ count = n
                        \/ tx = <<>> /\ (\E b \in Byte : rx = <<b>>) /\ count = n + 1
    /\ pc = "end" => /\ tx = <<>> /\ rx = <<>> /\ cs
                     /\ n = Len(op.puts) + 1 /\ count = n

\* The chip knows which operation it is in, and seen follows the register.
Followed ==
    /\ count > 0 => command.code = op.code /\ command.reg = op.reg
    /\ ~Waiting => reg[op.reg] \in seen

\* A register is read: its value is the last byte of the operation.
ReadInv ==
    op.code = "read" =>
        /\ pc \in {"end", "idle"} => \E b \in seen : data = <<b>>
        /\ pc = "get" /\ n = Len(op.puts) /\ rx # <<>> => Head(rx) \in seen

\* Memory is read: what was fetched, and what waits in the FIFO.
ReadBufferInv ==
    op.code = "read_buffer" =>
        /\ data = [k \in 1 .. Fetched |-> mem[Back(ERDPT, Shifted - k + 1)]]
        /\ pc = "get" /\ n > 0 /\ rx # <<>> => Head(rx) = mem[Back(ERDPT, 1)]

\* A register is written: it is in force once the chip has taken the byte.
InForce ==
    (op.reg \in EthRegisters \ Volatile \/ (op.reg \in MacRegisters /\ op.code = "write")) =>
        /\ op.code = "write" => reg[op.reg] = op.puts[1]
        /\ op.code = "set" => op.puts[1] \subseteq reg[op.reg]
        /\ op.code = "clear" => op.puts[1] \cap reg[op.reg] = {}

WriteInv == op.code \in {"write", "set", "clear"} /\ Shifted > 0 => InForce

\* Memory is written: what the chip has taken is there.
WriteBufferInv ==
    op.code = "write_buffer" =>
        \A k \in 1 .. Shifted : mem[Back(EWRPT, Shifted - k + 1)] = op.puts[k]

\* The inductive invariant.
BusInv ==
    /\ TypeOK
    /\ InStep
    /\ Followed
    /\ ReadInv
    /\ ReadBufferInv
    /\ WriteInv
    /\ WriteBufferInv

---------------------------------------------------------------------------
(* Addresses and operations *)

\* What the constants are.
LEMMA Sizes ==
    /\ MemSize \in Nat \ {0} /\ MaxLen \in Nat /\ MaxLen <= MemSize
    /\ Addresses = 0 .. MemSize - 1
    /\ NoRegister \in Registers /\ Volatile \subseteq EthRegisters
    /\ EthRegisters \cap MacRegisters = {} /\ Registers = EthRegisters \cup MacRegisters
BY SpiAssumption DEF Addresses, NoRegister, Registers

\* The address some places back in the buffer memory.
LEMMA BackType ==
    ASSUME NEW a \in Addresses, NEW j \in Int
    PROVE  Back(a, j) \in Addresses
BY Sizes DEF Back

\* The address behind one of the buffer memory.
LEMMA NextType ==
    ASSUME NEW a \in Addresses
    PROVE  NextAddress(a) \in Addresses
BY Sizes DEF NextAddress

\* One address on and one place further back is the same address.
LEMMA BackStep ==
    ASSUME NEW a \in Addresses, NEW j \in 0 .. MemSize - 1
    PROVE  /\ Back(NextAddress(a), j + 1) = Back(a, j)
           /\ Back(a, 0) = a
           /\ j > 0 => Back(a, j) # a
<1>1. NextAddress(a) = IF a = MemSize - 1 THEN 0 ELSE a + 1
  BY Sizes DEF NextAddress
<1>2. Back(a, j) = IF j <= a THEN a - j ELSE a - j + MemSize
  BY Sizes DEF Back
<1>3. ASSUME NEW b \in Addresses, NEW k \in 1 .. MemSize
      PROVE  Back(b, k) = IF k <= b THEN b - k ELSE b - k + MemSize
  BY Sizes DEF Back
<1>4. NextAddress(a) \in Addresses /\ j + 1 \in 1 .. MemSize
  BY NextType, Sizes
<1>5. Back(NextAddress(a), j + 1) =
        IF j + 1 <= NextAddress(a) THEN NextAddress(a) - (j + 1)
                                   ELSE NextAddress(a) - (j + 1) + MemSize
  BY <1>3, <1>4
<1>6. Back(a, 0) = a
  BY Sizes DEF Back
<1>. QED
  BY <1>1, <1>2, <1>5, <1>6, Sizes

\* What an operation puts behind its command.
LEMMA OperationShape ==
    ASSUME NEW o \in Operations
    PROVE  /\ o.code \in {"read", "write", "set", "clear", "read_buffer", "write_buffer"}
           /\ o.reg \in Registers
           /\ Len(o.puts) \in 0 .. MaxLen + 2
           /\ o.puts \in [1 .. Len(o.puts) -> Byte]
           /\ o.code = "read" => Len(o.puts) = IF o.reg \in MacRegisters THEN 2 ELSE 1
           /\ o.code \in {"write", "set", "clear"} => Len(o.puts) = 1
           /\ o.code \in {"read_buffer", "write_buffer"} => Len(o.puts) \in 0 .. MaxLen
<1>1. commandEmpty \in Byte
  BY DEF commandEmpty, Byte
<1>2. CASE o \in {ReadOp(r) : r \in Registers}
  <2>1. PICK r \in Registers : o = ReadOp(r)
    BY <1>2
  <2>2. /\ o.code = "read" /\ o.reg = r
        /\ o.puts = IF r \in MacRegisters THEN <<commandEmpty, commandEmpty>>
                                          ELSE <<commandEmpty>>
    BY <2>1 DEF ReadOp
  <2>3. /\ Len(<<commandEmpty>>) = 1 /\ <<commandEmpty>> \in [1 .. 1 -> Byte]
        /\ Len(<<commandEmpty, commandEmpty>>) = 2
        /\ <<commandEmpty, commandEmpty>> \in [1 .. 2 -> Byte]
    BY <1>1
  <2>4. 1 \in 0 .. MaxLen + 2 /\ 2 \in 0 .. MaxLen + 2
    BY Sizes
  <2>. HIDE DEF commandEmpty
  <2>. QED
    BY <2>2, <2>3, <2>4
<1>3. CASE o \in {WriteOp(code, r, byte) : code \in {"write", "set", "clear"},
                                          r \in Registers, byte \in Byte}
  <2>1. PICK code \in {"write", "set", "clear"}, r \in Registers, byte \in Byte :
            o = WriteOp(code, r, byte)
    BY <1>3
  <2>2. o.code = code /\ o.reg = r /\ o.puts = <<byte>>
    BY <2>1 DEF WriteOp
  <2>3. Len(<<byte>>) = 1 /\ <<byte>> \in [1 .. 1 -> Byte] /\ 1 \in 0 .. MaxLen + 2
    BY Sizes
  <2>. QED
    BY <2>2, <2>3
<1>4. ASSUME NEW len \in 0 .. MaxLen, NEW puts \in [1 .. len -> Byte]
      PROVE  Len(puts) = len /\ len \in 0 .. MaxLen + 2
  BY Sizes
<1>5. CASE o \in {ReadBuffer(len) : len \in 0 .. MaxLen}
  <2>1. PICK len \in 0 .. MaxLen : o = ReadBuffer(len)
    BY <1>5
  <2>. DEFINE puts == [k \in 1 .. len |-> commandEmpty]
  <2>2. puts \in [1 .. len -> Byte] /\ o.puts = puts /\ o.code = "read_buffer"
        /\ o.reg \in Registers
    BY <1>1, <2>1, Sizes DEF ReadBuffer
  <2>. HIDE DEF puts
  <2>3. Len(puts) = len /\ len \in 0 .. MaxLen + 2
    BY <1>4, <2>2
  <2>. QED
    BY <2>2, <2>3
<1>6. CASE o \in {WriteBuffer(sent) : sent \in Strings}
  <2>1. PICK len \in 0 .. MaxLen : \E sent \in [1 .. len -> Byte] : o = WriteBuffer(sent)
    BY <1>6 DEF Strings
  <2>. PICK sent \in [1 .. len -> Byte] : o = WriteBuffer(sent)
    BY <2>1
  <2>2. Len(sent) = len /\ len \in 0 .. MaxLen + 2
    BY <1>4
  <2>. QED
    BY <2>1, <2>2, Sizes DEF WriteBuffer
<1>. QED
  BY <1>2, <1>3, <1>5, <1>6 DEF Operations

\* What TypeOK says of the driver's numbers.
LEMMA ModuloNumbers ==
    ASSUME TypeOK
    PROVE  /\ op \in Operations /\ op.reg \in Registers
           /\ Len(op.puts) \in Nat /\ n \in Nat /\ count \in Nat
           /\ Len(op.puts) <= MaxLen + 2
           /\ op.puts \in [1 .. Len(op.puts) -> Byte]
           /\ reg \in [Registers -> Byte] /\ mem \in [Addresses -> Byte]
           /\ ERDPT \in Addresses /\ EWRPT \in Addresses
<1>1. op \in Operations
  BY DEF TypeOK
<1>2. /\ op.reg \in Registers /\ Len(op.puts) \in 0 .. MaxLen + 2
      /\ op.puts \in [1 .. Len(op.puts) -> Byte]
  BY <1>1, OperationShape
<1>. QED
  BY <1>1, <1>2, Sizes DEF TypeOK

\* The addresses of a transfer that is over, as the properties write them.
LEMMA BackFrom ==
    ASSUME TypeOK, NEW k \in 1 .. Len(op.puts)
    PROVE  /\ Back(ERDPT, Len(op.puts) - k + 1) = (ERDPT - Len(op.puts) + k - 1) % MemSize
           /\ Back(EWRPT, Len(op.puts) - k + 1) = (EWRPT - Len(op.puts) + k - 1) % MemSize
<1>1. Len(op.puts) \in Nat /\ ERDPT \in Int /\ EWRPT \in Int
  BY ModuloNumbers, Sizes
<1>2. /\ ERDPT - (Len(op.puts) - k + 1) = ERDPT - Len(op.puts) + k - 1
      /\ EWRPT - (Len(op.puts) - k + 1) = EWRPT - Len(op.puts) + k - 1
  BY <1>1
<1>. QED
  BY <1>2 DEF Back

---------------------------------------------------------------------------
(* The steps of the driver *)

\* At the start the bus is idle.
LEMMA InitStep == Init => BusInv
<1>. SUFFICES ASSUME Init PROVE BusInv
  OBVIOUS
<1>. USE DEF Init
<1>1. op \in Operations /\ op.code = "read_buffer" /\ Len(op.puts) = 0
  <2>1. op = ReadBuffer(0) /\ 0 \in 0 .. MaxLen
    BY Sizes
  <2>2. op.code = "read_buffer" /\ op.puts = [k \in 1 .. 0 |-> commandEmpty]
    BY <2>1 DEF ReadBuffer
  <2>. QED
    BY <2>1, <2>2 DEF Operations
<1>2. rx \in Seq(Byte)
  BY Sizes
<1>3. data \in Strings
  <2>1. data \in [1 .. 0 -> Byte] /\ 0 \in 0 .. MaxLen
    BY Sizes
  <2>. QED
    BY <2>1 DEF Strings
<1>4. TypeOK
  BY <1>1, <1>2, <1>3, Sizes DEF TypeOK, Byte
<1>5. InStep /\ Followed
  BY DEF InStep, Followed, Waiting
<1>6. data = [k \in 1 .. Fetched |-> mem[Back(ERDPT, Shifted - k + 1)]]
  BY <1>1 DEF Fetched, Waiting
<1>. QED
  BY <1>1, <1>4, <1>5, <1>6 DEF BusInv, ReadInv, ReadBufferInv, WriteInv, WriteBufferInv

\* A step that leaves operation, memory and registers alone, and the positions in
\* the operation as well.
LEMMA SameData ==
    ASSUME BusInv, UNCHANGED <<op, reg, memVars>>,
           Shifted' = Shifted, Fetched' = Fetched
    PROVE  /\ WriteInv' /\ WriteBufferInv'
           /\ UNCHANGED data /\ pc' # "get" => ReadBufferInv'
<1>1. WriteInv' /\ WriteBufferInv'
  BY DEF BusInv, WriteInv, InForce, WriteBufferInv, memVars
<1>2. ASSUME UNCHANGED data, pc' # "get"
      PROVE  ReadBufferInv'
  BY <1>2 DEF BusInv, ReadBufferInv, memVars
<1>. QED
  BY <1>1, <1>2

\* spi_init releases chip select.
LEMMA SpiInitStep == ASSUME BusInv, spi_init PROVE BusInv'
<1>1. TypeOK' /\ InStep' /\ Followed'
  BY DEF BusInv, TypeOK, InStep, Followed, Waiting, spi_init, memVars
<1>2. Shifted' = Shifted /\ Fetched' = Fetched
  BY DEF Shifted, Fetched, Waiting, spi_init
<1>3. WriteInv' /\ WriteBufferInv' /\ ReadBufferInv'
  BY <1>2, SameData DEF spi_init
<1>4. ReadInv'
  BY DEF BusInv, InStep, ReadInv, ReadBuffer, spi_init
<1>. QED
  BY <1>1, <1>3, <1>4 DEF BusInv

\* An operation begins when no other is under way.
LEMMA BeginStep == ASSUME BusInv, NEW o \in Operations, Begin(o) PROVE BusInv'
<1>0. TypeOK /\ tx = <<>> /\ rx = <<>> /\ count = 0
  BY DEF BusInv, InStep, Begin
<1>1. o.reg \in Registers /\ Len(o.puts) \in Nat
  BY OperationShape, Sizes
<1>2. TypeOK'
  <2>1. data' \in Strings
    <3>1. data' \in [1 .. 0 -> Byte] /\ 0 \in 0 .. MaxLen
      BY Sizes DEF Begin
    <3>. QED
      BY <3>1 DEF Strings
  <2>. QED
    BY <1>0, <1>1, <2>1 DEF TypeOK, Begin, memVars
<1>3. InStep' /\ Followed'
  BY <1>0, <1>1 DEF InStep, Followed, Waiting, Begin
<1>4. Shifted' = 0 /\ Fetched' = 0
  BY <1>0 DEF Shifted, Fetched, Waiting, Begin
<1>5. data' = [k \in 1 .. Fetched' |-> mem'[Back(ERDPT', Shifted' - k + 1)]]
  BY <1>4 DEF Begin
<1>6. pc' = "put"
  BY DEF Begin
<1>. QED
  BY <1>2, <1>3, <1>4, <1>5, <1>6
  DEF BusInv, ReadInv, ReadBufferInv, WriteInv, WriteBufferInv

\* A byte enters the transmit FIFO.
LEMMA PutStep == ASSUME BusInv, Put PROVE BusInv'
<1>0. /\ TypeOK /\ tx = <<>> /\ rx = <<>> /\ count = n /\ n <= Len(op.puts) /\ cs
      /\ UNCHANGED <<op, n, data, rx, cs, count, command, reg, memVars, seen>>
      /\ pc = "put" /\ pc' = "get"
  BY DEF BusInv, InStep, Put
<1>1. tx' = <<Item>> /\ Item' = Item
  BY <1>0 DEF Put, Item
<1>2. TypeOK'
  BY <1>0, <1>1 DEF TypeOK, memVars
<1>3. InStep'
  BY <1>0, <1>1 DEF InStep
<1>4. Followed'
  BY <1>0 DEF BusInv, Followed, Waiting
<1>5. Shifted' = Shifted /\ Fetched' = Fetched
  BY <1>0 DEF Shifted, Fetched, Waiting
<1>6. WriteInv' /\ WriteBufferInv'
  BY <1>0, <1>5, SameData
<1>7. ReadInv'
  BY <1>0 DEF ReadInv
<1>8. ReadBufferInv'
  BY <1>0, <1>5 DEF BusInv, ReadBufferInv, memVars
<1>. QED
  BY <1>2, <1>3, <1>4, <1>6, <1>7, <1>8 DEF BusInv

\* A byte leaves the receive FIFO: the answer to the oldest byte not yet answered.
LEMMA GetStep == ASSUME BusInv, Get PROVE BusInv'
<1>0. /\ TypeOK /\ pc = "get" /\ n' = n + 1
      /\ pc' = IF n = Len(op.puts) THEN "end" ELSE "put"
      /\ UNCHANGED <<op, tx, cs, count, command, reg, memVars, seen>>
  BY DEF BusInv, Get
<1>1. /\ n \in Nat /\ Len(op.puts) \in Nat /\ n <= Len(op.puts) /\ cs
      /\ tx = <<>> /\ count = n + 1
  BY <1>0, ModuloNumbers DEF BusInv, InStep, Get
<1>2. PICK b \in Byte : rx = <<b>>
  BY <1>0 DEF BusInv, InStep, Get
<1>3. /\ rx' = <<>> /\ Head(rx) = b
      /\ n > 0 /\ op.code = "read" => data' = <<b>>
      /\ n > 0 /\ op.code = "read_buffer" => data' = Append(data, b)
      /\ n = 0 \/ op.code \notin {"read", "read_buffer"} => data' = data
  BY <1>1, <1>2 DEF Get
<1>4. InStep'
  BY <1>0, <1>1, <1>3 DEF InStep
<1>5. Followed'
  BY <1>0 DEF BusInv, Followed, Waiting
<1>6. /\ Shifted' = Shifted /\ Shifted = n /\ Fetched' = n
      /\ Fetched = IF n = 0 THEN 0 ELSE n - 1
  BY <1>0, <1>1 DEF Shifted, Fetched, Waiting
<1>7. WriteInv' /\ WriteBufferInv'
  BY <1>0, <1>6 DEF BusInv, WriteInv, InForce, WriteBufferInv, memVars
<1>8. ReadInv'
  <2>1. ASSUME op.code = "read", pc' = "end"
        PROVE  b \in seen' /\ data' = <<b>>
    <3>1. n = Len(op.puts) /\ n > 0
      BY <1>0, <1>1, <2>1, ModuloNumbers, OperationShape
    <3>2. b \in seen
      BY <1>0, <1>2, <1>3, <2>1, <3>1 DEF BusInv, ReadInv
    <3>. QED
      BY <1>0, <1>3, <2>1, <3>1, <3>2
  <2>. QED
    BY <1>0, <2>1 DEF ReadInv
<1>9. ReadBufferInv'
  <2>. SUFFICES ASSUME op.code = "read_buffer"
                PROVE  data' = [k \in 1 .. n |-> mem[Back(ERDPT, n - k + 1)]]
    BY <1>0, <1>6 DEF ReadBufferInv, memVars
  <2>1. data = [k \in 1 .. Fetched |-> mem[Back(ERDPT, n - k + 1)]]
    BY <1>6 DEF BusInv, ReadBufferInv
  <2>2. CASE n = 0
    BY <1>3, <1>6, <2>1, <2>2
  <2>3. CASE n > 0
    <3>1. Head(rx) = mem[Back(ERDPT, 1)]
      BY <1>0, <1>2, <2>3 DEF BusInv, ReadBufferInv
    <3>2. b = mem[Back(ERDPT, n - n + 1)]
      <4>1. n - n + 1 = 1
        BY <1>1
      <4>. QED
        BY <1>3, <3>1, <4>1
    <3>. DEFINE f(k) == mem[Back(ERDPT, n - k + 1)]
    <3>3. data = [k \in 1 .. n - 1 |-> f(k)] /\ b = f(n)
      BY <1>6, <2>1, <2>3, <3>2
    <3>. HIDE DEF f
    <3>4. Append([k \in 1 .. n - 1 |-> f(k)], f(n)) = [k \in 1 .. n |-> f(k)]
      BY <1>1, <2>3
    <3>5. data' = [k \in 1 .. n |-> f(k)]
      BY <1>3, <2>3, <3>3, <3>4
    <3>. QED
      BY <3>5 DEF f
  <2>. QED
    BY <1>1, <2>2, <2>3
<1>10. TypeOK'
  <2>1. n' \in 0 .. Len(op.puts) + 1
    BY <1>0, <1>1
  <2>2. rx' \in Seq(Byte)
    BY <1>3
  <2>3. data' \in Strings \cup {<<byte>> : byte \in Byte}
    <3>1. CASE op.code = "read_buffer"
      <4>1. n \in 0 .. MaxLen
        BY <1>0, <1>1, <3>1, ModuloNumbers, OperationShape, Sizes
      <4>2. data' = [k \in 1 .. n |-> mem[Back(ERDPT, n - k + 1)]]
        BY <1>0, <1>6, <1>9, <3>1 DEF ReadBufferInv, memVars
      <4>3. \A k \in 1 .. n : mem[Back(ERDPT, n - k + 1)] \in Byte
        <5>. SUFFICES ASSUME NEW k \in 1 .. n PROVE mem[Back(ERDPT, n - k + 1)] \in Byte
          OBVIOUS
        <5>1. Back(ERDPT, n - k + 1) \in Addresses
          BY <1>0, <1>1, ModuloNumbers, BackType
        <5>. QED
          BY <1>0, <5>1, ModuloNumbers
      <4>4. data' \in [1 .. n -> Byte]
        BY <4>2, <4>3
      <4>. QED
        BY <4>1, <4>4 DEF Strings
    <3>2. CASE op.code # "read_buffer"
      BY <1>0, <1>1, <1>3, <3>2 DEF TypeOK
    <3>. QED
      BY <3>1, <3>2
  <2>. QED
    BY <1>0, <2>1, <2>2, <2>3 DEF TypeOK, memVars
<1>. QED
  BY <1>4, <1>5, <1>7, <1>8, <1>9, <1>10 DEF BusInv

\* An operation is over, and with it the transfer.
LEMMA EndStep == ASSUME BusInv, End PROVE BusInv'
<1>0. /\ TypeOK /\ pc = "end" /\ pc' = "idle" /\ count' = 0 /\ cs' = FALSE
      /\ UNCHANGED <<op, n, data, tx, rx, command, reg, memVars, seen>>
      /\ tx = <<>> /\ rx = <<>> /\ n = Len(op.puts) + 1 /\ count = n
  BY DEF BusInv, InStep, End
<1>1. TypeOK'
  <2>1. count' \in 0 .. MaxLen + 3
    BY <1>0, Sizes
  <2>3. cs' \in BOOLEAN
    BY DEF End
  <2>2. UNCHANGED <<op, n, data, tx, rx, reg, mem, ERDPT, EWRPT>>
    BY <1>0 DEF memVars
  <2>. QED
    BY <1>0, <2>1, <2>2, <2>3 DEF TypeOK
<1>2. InStep' /\ Followed'
  BY <1>0 DEF InStep, Followed, Waiting
<1>3. Shifted' = Shifted /\ Fetched' = Fetched
  BY <1>0, ModuloNumbers DEF Shifted, Fetched, Waiting
<1>4. WriteInv' /\ WriteBufferInv' /\ ReadBufferInv'
  BY <1>0, <1>3, SameData
<1>5. ReadInv'
  BY <1>0 DEF BusInv, ReadInv
<1>. QED
  BY <1>1, <1>2, <1>4, <1>5 DEF BusInv

---------------------------------------------------------------------------
(* The steps of the chip *)

\* What a command leaves in a register.
LEMMA WrittenType ==
    ASSUME TypeOK, NEW r \in Registers, NEW byte \in Byte,
           NEW code \in {"write", "set", "clear"}, NEW value \in Written(code, r, byte)
    PROVE  /\ value \in Byte
           /\ code = "write" => value = byte
           /\ code = "set" /\ r \in EthRegisters => byte \subseteq value
           /\ code = "clear" /\ r \in EthRegisters => byte \cap value = {}
BY DEF Written, TypeOK, Byte

\* A shift happens in the middle of an exchange, with the item of this place.
LEMMA ShiftShape ==
    ASSUME BusInv, Shift
    PROVE  /\ TypeOK /\ pc = "get" /\ pc' = "get"
           /\ UNCHANGED <<op, n, data, cs>>
           /\ n \in Nat /\ n <= Len(op.puts) /\ count = n /\ count' = n + 1
           /\ tx' = <<>> /\ rx = <<>>
           /\ \E answer \in Answers : rx' = <<answer>>
           /\ ChipTakes(Item)
           /\ seen' = seen \cup {reg'[op.reg]}
           /\ command'.code = op.code /\ command'.reg = op.reg
           /\ n > 0 => command.code = op.code /\ command.reg = op.reg
<1>1. pc = "get" /\ tx = <<Item>> /\ rx = <<>> /\ count = n /\ n <= Len(op.puts) /\ cs
  BY DEF BusInv, InStep, Shift, TypeOK
<1>2. /\ TypeOK /\ n \in Nat /\ UNCHANGED <<pc, op, n, data, cs>>
  BY ModuloNumbers DEF BusInv, Shift, driverVars
<1>3. /\ tx' = <<>> /\ ChipTakes(Item) /\ \E answer \in Answers : rx' = <<answer>>
  BY <1>1 DEF Shift
<1>4. seen' = seen \cup {reg'[op.reg]}
  BY <1>1 DEF Shift, Noted
<1>5. n > 0 => command.code = op.code /\ command.reg = op.reg
  BY <1>1 DEF BusInv, Followed
<1>6. command'.code = op.code /\ command'.reg = op.reg /\ count' = n + 1
  BY <1>1, <1>2, <1>3, <1>5 DEF ChipTakes, Item
<1>. QED
  BY <1>1, <1>2, <1>3, <1>4, <1>5, <1>6

\* What the chip does with a byte behind the command.
LEMMA Taken ==
    ASSUME BusInv, Shift
    PROVE  /\ op.code \in {"write", "set", "clear"} /\ n = 1 =>
                 \E value \in Written(op.code, op.reg, op.puts[1]) :
                     reg' = [reg EXCEPT ![op.reg] = value]
           /\ ~(op.code \in {"write", "set", "clear"} /\ n = 1) => reg' = reg
           /\ ERDPT' = IF n > 0 /\ op.code = "read_buffer" THEN NextAddress(ERDPT)
                                                         ELSE ERDPT
           /\ n > 0 /\ op.code = "write_buffer" =>
                 mem' = [mem EXCEPT ![EWRPT] = op.puts[n]] /\ EWRPT' = NextAddress(EWRPT)
           /\ ~(n > 0 /\ op.code = "write_buffer") => UNCHANGED <<mem, EWRPT>>
<1>1. /\ ChipTakes(Item) /\ count = n /\ n \in Nat
      /\ n > 0 => command.code = op.code /\ command.reg = op.reg
  BY ShiftShape
<1>2. n > 0 => Item.byte = op.puts[n]
  BY <1>1 DEF Item
<1>3. n = 1 => n > 0
  BY <1>1
<1>. HIDE DEF Item
<1>. QED
  BY <1>1, <1>2, <1>3 DEF ChipTakes

\* The SSI exchanges a byte with the chip.
LEMMA ShiftStep == ASSUME BusInv, Shift PROVE BusInv'
<1>0. /\ TypeOK /\ pc = "get" /\ pc' = "get"
      /\ UNCHANGED <<op, n, data, cs>>
      /\ n \in Nat /\ n <= Len(op.puts) /\ count = n /\ count' = n + 1
      /\ tx' = <<>> /\ rx = <<>>
      /\ seen' = seen \cup {reg'[op.reg]}
      /\ command'.code = op.code /\ command'.reg = op.reg
      /\ n > 0 => command.code = op.code /\ command.reg = op.reg
  BY ShiftShape
<1>1. PICK answer \in Answers : rx' = <<answer>>
  BY ShiftShape
<1>n. /\ op \in Operations /\ op.reg \in Registers
      /\ Len(op.puts) \in Nat /\ Len(op.puts) <= MaxLen + 2
      /\ op.puts \in [1 .. Len(op.puts) -> Byte]
      /\ reg \in [Registers -> Byte] /\ mem \in [Addresses -> Byte]
      /\ ERDPT \in Addresses /\ EWRPT \in Addresses
  BY <1>0, ModuloNumbers
<1>2. /\ Shifted' = n /\ Shifted = IF n = 0 THEN 0 ELSE n - 1
      /\ Fetched' = Fetched /\ Fetched = IF n = 0 THEN 0 ELSE n - 1
  BY <1>0 DEF Shifted, Fetched, Waiting
<1>3. answer \in Byte /\ Head(rx') = answer
  <2>1. answer \in Byte
    BY <1>0, <1>1, <1>n, Sizes DEF Answers
  <2>. QED
    BY <1>1, <2>1
<1>4. n > 0 => op.puts[n] \in Byte
  BY <1>0, <1>n
<1>5. reg' \in [Registers -> Byte]
  <2>1. CASE op.code \in {"write", "set", "clear"} /\ n = 1
    <3>1. PICK value \in Written(op.code, op.reg, op.puts[1]) :
              reg' = [reg EXCEPT ![op.reg] = value]
      BY <2>1, Taken
    <3>2. value \in Byte
      BY <1>0, <1>4, <1>n, <2>1, WrittenType
    <3>. QED
      BY <1>n, <3>1, <3>2
  <2>. QED
    BY <1>n, <2>1, Taken
<1>6. mem' \in [Addresses -> Byte] /\ ERDPT' \in Addresses /\ EWRPT' \in Addresses
  <2>1. NextAddress(ERDPT) \in Addresses /\ NextAddress(EWRPT) \in Addresses
    BY <1>n, NextType
  <2>2. CASE n > 0 /\ op.code = "write_buffer"
    BY <1>4, <1>n, <2>1, <2>2, Taken
  <2>3. CASE ~(n > 0 /\ op.code = "write_buffer")
    BY <1>n, <2>1, <2>3, Taken
  <2>. QED
    BY <2>2, <2>3
<1>7. TypeOK'
  <2>1. count' \in 0 .. MaxLen + 3
    BY <1>0, <1>n, Sizes
  <2>2. rx' \in Seq(Byte) /\ Len(tx') <= 1
    BY <1>0, <1>1, <1>3
  <2>. QED
    BY <1>0, <1>5, <1>6, <2>1, <2>2 DEF TypeOK
<1>8. InStep'
  <2>1. pc' = "get" /\ n' \in Nat /\ n' <= Len(op'.puts) /\ count' = n' + 1
    BY <1>0
  <2>2. cs'
    BY DEF BusInv, InStep, Shift, TypeOK
  <2>3. tx' = <<>> /\ \E b \in Byte : rx' = <<b>>
    BY <1>0, <1>1, <1>3
  <2>. QED
    BY <2>1, <2>2, <2>3 DEF InStep
<1>9. Followed'
  BY <1>0 DEF Followed, Waiting
<1>10. ReadInv'
  <2>. SUFFICES ASSUME op.code = "read", n = Len(op.puts) PROVE answer \in seen'
    BY <1>0, <1>3 DEF ReadInv
  <2>1. /\ n = IF op.reg \in MacRegisters THEN 2 ELSE 1
        /\ op.reg \in EthRegisters \/ op.reg \in MacRegisters
    BY <1>n, OperationShape, Sizes
  <2>2. answer = reg[op.reg]
    BY <1>0, <1>1, <2>1, Sizes DEF Answers
  <2>3. reg[op.reg] \in seen
    BY <1>0 DEF BusInv, Followed, Waiting
  <2>. QED
    BY <1>0, <2>2, <2>3
<1>11. ReadBufferInv'
  <2>. SUFFICES ASSUME op.code = "read_buffer" PROVE ReadBufferInv'
    BY <1>0 DEF ReadBufferInv
  <2>1. Len(op.puts) <= MaxLen /\ mem' = mem
    BY <1>n, OperationShape, Sizes, Taken
  <2>2. data = [k \in 1 .. Fetched |-> mem[Back(ERDPT, Shifted - k + 1)]]
    BY DEF BusInv, ReadBufferInv
  <2>3. CASE n = 0
    <3>1. data' = [k \in 1 .. Fetched' |-> mem'[Back(ERDPT', Shifted' - k + 1)]]
      BY <1>0, <1>2, <2>2, <2>3
    <3>. QED
      BY <1>0, <2>3, <3>1 DEF ReadBufferInv
  <2>4. CASE n > 0
    <3>0. ERDPT' = NextAddress(ERDPT)
      BY <2>4, Taken
    <3>1. \A k \in 1 .. Fetched : Back(ERDPT', n - k + 1) = Back(ERDPT, Shifted - k + 1)
      <4>. SUFFICES ASSUME NEW k \in 1 .. Fetched
                    PROVE  Back(ERDPT', n - k + 1) = Back(ERDPT, Shifted - k + 1)
        OBVIOUS
      <4>. DEFINE j == Shifted - k + 1
      <4>1. j \in 0 .. MemSize - 1 /\ n - k + 1 = j + 1
        BY <1>0, <1>2, <1>n, <2>1, <2>4, Sizes
      <4>. HIDE DEF j
      <4>2. Back(NextAddress(ERDPT), j + 1) = Back(ERDPT, j)
        BY <1>n, <4>1, BackStep
      <4>. QED
        BY <3>0, <4>1, <4>2 DEF j
    <3>2. data' = [k \in 1 .. Fetched' |-> mem'[Back(ERDPT', Shifted' - k + 1)]]
      BY <1>0, <1>2, <2>1, <2>2, <3>1
    <3>3. answer = mem[ERDPT]
      BY <1>0, <1>1, <2>4 DEF Answers
    <3>4. Back(ERDPT', 1) = ERDPT
      <4>1. Back(NextAddress(ERDPT), 0 + 1) = Back(ERDPT, 0) /\ Back(ERDPT, 0) = ERDPT
        BY <1>n, BackStep, Sizes
      <4>. QED
        BY <3>0, <4>1
    <3>5. Head(rx') = mem'[Back(ERDPT', 1)]
      BY <1>3, <2>1, <3>3, <3>4
    <3>. QED
      BY <3>2, <3>5 DEF ReadBufferInv
  <2>. QED
    BY <1>0, <2>3, <2>4
<1>12. WriteInv'
  <2>. SUFFICES ASSUME op.code \in {"write", "set", "clear"}, n > 0 PROVE InForce'
    BY <1>0, <1>2 DEF WriteInv
  <2>0. Len(op.puts) = 1
    BY <1>n, OperationShape
  <2>1. n = 1
    BY <1>0, <2>0
  <2>2. PICK value \in Written(op.code, op.reg, op.puts[1]) :
            reg' = [reg EXCEPT ![op.reg] = value]
    BY <2>1, Taken
  <2>3. reg'[op.reg] = value /\ op.puts[1] \in Byte
    BY <1>4, <1>n, <2>1, <2>2
  <2>4. /\ op.code = "write" => value = op.puts[1]
        /\ op.code = "set" /\ op.reg \in EthRegisters => op.puts[1] \subseteq value
        /\ op.code = "clear" /\ op.reg \in EthRegisters => op.puts[1] \cap value = {}
    BY <1>0, <1>n, <2>3, WrittenType
  <2>. QED
    BY <1>0, <2>3, <2>4 DEF InForce
<1>13. WriteBufferInv'
  <2>. SUFFICES ASSUME op.code = "write_buffer", NEW k \in 1 .. n
                PROVE  mem'[Back(EWRPT', n - k + 1)] = op.puts[k]
    BY <1>0, <1>2 DEF WriteBufferInv
  <2>1. /\ n > 0 /\ n <= MemSize
        /\ mem' = [mem EXCEPT ![EWRPT] = op.puts[n]] /\ EWRPT' = NextAddress(EWRPT)
    BY <1>0, <1>n, OperationShape, Sizes, Taken
  <2>. DEFINE j == n - k
  <2>2. j \in 0 .. MemSize - 1 /\ n - k + 1 = j + 1
    <3>1. n \in Nat /\ MemSize \in Nat /\ n <= MemSize /\ k \in 1 .. n
      BY <1>0, <2>1, Sizes
    <3>. QED
      BY <3>1
  <2>3. /\ Back(EWRPT', n - k + 1) = Back(EWRPT, j)
        /\ Back(EWRPT, 0) = EWRPT
        /\ j > 0 => Back(EWRPT, j) # EWRPT
    <3>. HIDE DEF j
    <3>. QED
      BY <1>n, <2>1, <2>2, BackStep
  <2>4. CASE j = 0
    <3>1. k = n
      BY <1>0, <2>4
    <3>. QED
      BY <1>n, <2>1, <2>3, <2>4, <3>1
  <2>5. CASE j > 0
    <3>1. k \in 1 .. Shifted /\ Shifted - k + 1 = j
      BY <1>0, <1>2, <2>5
    <3>2. mem[Back(EWRPT, j)] = op.puts[k]
      BY <3>1 DEF BusInv, WriteBufferInv
    <3>. QED
      BY <1>n, <2>1, <2>3, <2>5, <3>2
  <2>. QED
    BY <2>2, <2>4, <2>5
<1>. QED
  BY <1>7, <1>8, <1>9, <1>10, <1>11, <1>12, <1>13 DEF BusInv

\* A register the chip changes on its own is none that a write is to be true of.
LEMMA ChipChangesStep ==
    ASSUME BusInv, NEW r \in Volatile, ChipChanges(r)
    PROVE  BusInv'
<1>0. /\ TypeOK /\ op \in Operations /\ op.reg \in Registers
      /\ UNCHANGED <<pc, op, n, data, tx, rx, cs, count, command, mem, ERDPT, EWRPT>>
      /\ r \in Registers
  BY ModuloNumbers, Sizes DEF BusInv, ChipChanges, driverVars, memVars
<1>1. PICK value \in Byte : reg' = [reg EXCEPT ![r] = value]
  BY DEF ChipChanges
<1>2. TypeOK'
  BY <1>0, <1>1 DEF TypeOK
<1>3. InStep'
  BY <1>0 DEF BusInv, InStep, Item
<1>4. seen \subseteq seen' /\ (~Waiting => reg'[op.reg] \in seen')
  BY DEF ChipChanges, Noted, Waiting
<1>5. Followed'
  BY <1>0, <1>4 DEF BusInv, Followed, Waiting
<1>6. ReadInv'
  BY <1>0, <1>4 DEF BusInv, ReadInv
<1>7. Shifted' = Shifted /\ Fetched' = Fetched
  BY <1>0 DEF Shifted, Fetched, Waiting
<1>8. ReadBufferInv' /\ WriteBufferInv'
  BY <1>0, <1>7 DEF BusInv, ReadBufferInv, WriteBufferInv
<1>9. WriteInv'
  <2>1. op.reg \in EthRegisters \ Volatile \/ op.reg \in MacRegisters =>
            reg'[op.reg] = reg[op.reg]
    BY <1>0, <1>1, Sizes DEF TypeOK
  <2>. QED
    BY <1>0, <1>7, <2>1 DEF BusInv, WriteInv, InForce
<1>. QED
  BY <1>2, <1>3, <1>5, <1>6, <1>8, <1>9 DEF BusInv

---------------------------------------------------------------------------
\* Whatever operations the driver does, however slow SPI is and whatever the chip
\* says in between, the two keep step.
THEOREM BusCorrect == Spec => []BusInv
<1>1. BusInv /\ [Next]_vars => BusInv'
  <2>. SUFFICES ASSUME BusInv, [Next]_vars PROVE BusInv'
    OBVIOUS
  <2>1. CASE Driver
    BY <2>1, SpiInitStep, BeginStep, PutStep, GetStep, EndStep DEF Driver
  <2>2. CASE Shift
    BY <2>2, ShiftStep
  <2>3. CASE \E r \in Volatile : ChipChanges(r)
    BY <2>3, ChipChangesStep
  <2>4. CASE UNCHANGED vars
    <3>1. UNCHANGED <<pc, op, n, data, tx, rx, cs, count, command, reg, mem, ERDPT,
                      EWRPT, seen>>
      BY <2>4 DEF vars, driverVars, memVars
    <3>2. TypeOK' /\ InStep' /\ Followed' /\ ReadInv'
      BY <3>1 DEF BusInv, TypeOK, InStep, Item, Followed, Waiting, ReadInv
    <3>3. Shifted' = Shifted /\ Fetched' = Fetched
      BY <3>1 DEF Shifted, Fetched, Waiting
    <3>4. ReadBufferInv' /\ WriteInv' /\ WriteBufferInv'
      BY <3>1, <3>3 DEF BusInv, ReadBufferInv, WriteInv, InForce, WriteBufferInv
    <3>. QED
      BY <3>2, <3>4 DEF BusInv
  <2>. QED
    BY <2>1, <2>2, <2>3, <2>4 DEF Next
<1>. QED
  BY <1>1, InitStep, PTL DEF Spec

\* Driver, FIFOs and chip keep their types.
THEOREM BusTypeCorrect == Spec => []TypeOK
BY BusCorrect, PTL DEF BusInv

\* A read returns what the register held while it ran, or the bytes of the memory
\* in order; a write is in force when it is over (ENC.c:38-110, SPI.c:37-40).
THEOREM TransfersAreTrue == Spec => []TransfersTrue
<1>1. BusInv => ReadsTrue
  <2>. SUFFICES ASSUME BusInv, pc = "idle" PROVE ReadsTrue
    BY DEF ReadsTrue
  <2>1. op.code = "read" => \E b \in seen : data = <<b>>
    BY DEF BusInv, ReadInv
  <2>2. op.code = "read_buffer" =>
           data = [k \in 1 .. Len(op.puts) |-> mem[(ERDPT - Len(op.puts) + k - 1) % MemSize]]
    <3>. SUFFICES ASSUME op.code = "read_buffer"
                  PROVE  data = [k \in 1 .. Len(op.puts) |->
                                    mem[(ERDPT - Len(op.puts) + k - 1) % MemSize]]
      OBVIOUS
    <3>1. data = [k \in 1 .. Len(op.puts) |-> mem[Back(ERDPT, Len(op.puts) - k + 1)]]
      BY DEF BusInv, ReadBufferInv, Fetched, Shifted, Waiting
    <3>2. \A k \in 1 .. Len(op.puts) :
             Back(ERDPT, Len(op.puts) - k + 1) = (ERDPT - Len(op.puts) + k - 1) % MemSize
      BY BackFrom DEF BusInv
    <3>. QED
      BY <3>1, <3>2
  <2>. QED
    BY <2>1, <2>2 DEF ReadsTrue
<1>2. BusInv => WritesDone
  <2>. SUFFICES ASSUME BusInv, pc = "idle" PROVE WritesDone
    BY DEF WritesDone
  <2>0. op \in Operations /\ op.puts \in [1 .. Len(op.puts) -> Byte] /\ Len(op.puts) \in Nat
    BY ModuloNumbers DEF BusInv
  <2>1. op.code \in {"write", "set", "clear"} => InForce
    <3>1. op.code \in {"write", "set", "clear"} => Shifted > 0
      <4>1. op.code \in {"write", "set", "clear"} => Len(op.puts) = 1
        BY <2>0, OperationShape
      <4>2. Shifted = Len(op.puts)
        BY DEF Shifted, Waiting
      <4>3. op.code \in {"write", "set", "clear"} => Shifted = 1
        BY <4>1, <4>2, Zenon
      <4>4. Shifted = 1 => Shifted > 0
        OBVIOUS
      <4>. QED
        BY <4>3, <4>4
    <3>. QED
      BY <3>1 DEF BusInv, WriteInv
  <2>2. op.code = "write_buffer" =>
           \A k \in DOMAIN op.puts :
               mem[(EWRPT - Len(op.puts) + k - 1) % MemSize] = op.puts[k]
    <3>. SUFFICES ASSUME op.code = "write_buffer", NEW k \in 1 .. Len(op.puts)
                  PROVE  mem[(EWRPT - Len(op.puts) + k - 1) % MemSize] = op.puts[k]
      BY <2>0
    <3>1. mem[Back(EWRPT, Len(op.puts) - k + 1)] = op.puts[k]
      BY DEF BusInv, WriteBufferInv, Shifted, Waiting
    <3>2. Back(EWRPT, Len(op.puts) - k + 1) = (EWRPT - Len(op.puts) + k - 1) % MemSize
      BY BackFrom DEF BusInv
    <3>. QED
      BY <3>1, <3>2
  <2>. QED
    BY <2>1, <2>2 DEF WritesDone, InForce
<1>. QED
  BY <1>1, <1>2, BusCorrect, PTL DEF TransfersTrue

---------------------------------------------------------------------------
(* The run: the routines above SPI on their inputs *)

\* MaxBytes and MaxOptions do not matter: what the inputs are made of does.
InputsRight ==
    /\ bytes \in Seq(Octets)
    /\ offer \in Seq(Option) /\ behind \in Octet /\ RightLengths(offer)

\* What a server may send, as Option has it.
LEMMA OfferedRight ==
    ASSUME NEW option \in OfferedOptions
    PROVE  /\ option \in Option
           /\ option.code \in Kept => Len(option.value) = 4
           /\ option.code = DHCPMSGTYPE => Len(option.value) = 1
<1>1. CASE option = [code |-> DHCPMSGTYPE, value |-> <<2>>]
  <2>1. <<2>> \in Seq(Octet) /\ Len(<<2>>) = 1 /\ Len(<<2>>) \in Octet
    BY DEF Octet
  <2>. QED
    BY <1>1, <2>1 DEF Option, Octet, Kept, DHCPMSGTYPE, END, NETMASK, ROUTERS, DNSSERVERS,
                      SERVERID, LEASETIME
<1>2. CASE option = [code |-> 12, value |-> <<54, 4>>]
  <2>1. <<54, 4>> \in Seq(Octet) /\ Len(<<54, 4>>) \in Octet
    BY DEF Octet
  <2>. QED
    BY <1>2, <2>1 DEF Option, Octet, Kept, DHCPMSGTYPE, END, NETMASK, ROUTERS, DNSSERVERS,
                      SERVERID, LEASETIME
<1>3. ASSUME NEW code \in {SERVERID, ROUTERS},
             NEW value \in {<<53, 1, 5, 255>>, <<3, 4, 1, 1>>},
             option = [code |-> code, value |-> value]
      PROVE  /\ option \in Option /\ Len(option.value) = 4 /\ option.code # DHCPMSGTYPE
  <2>1. value \in Seq(Octet) /\ Len(value) = 4 /\ Len(value) \in Octet
    <3>1. <<53, 1, 5, 255>> \in Seq(Octet) /\ <<3, 4, 1, 1>> \in Seq(Octet)
      BY DEF Octet
    <3>2. Len(<<53, 1, 5, 255>>) = 4 /\ Len(<<3, 4, 1, 1>>) = 4 /\ 4 \in Octet
      BY DEF Octet
    <3>. QED
      BY <3>1, <3>2, Zenon
  <2>2. code \in Octet /\ code # END /\ code # DHCPMSGTYPE
    BY DEF Octet, SERVERID, ROUTERS, END, DHCPMSGTYPE
  <2>. QED
    BY <1>3, <2>1, <2>2 DEF Option
<1>. QED
  BY <1>1, <1>2, <1>3 DEF OfferedOptions

\* They stay so: only Dismiss changes them.
LEMMA InputsStay == MCInit /\ [][MCNext]_mcVars => []InputsRight
<1>1. \A S : <<>> \in Seq(S) /\ Len(<<>>) = 0
  BY EmptySeq
<1>2. Inputs \subseteq Seq(Octets)
  <2>. SUFFICES ASSUME NEW len \in 0 .. MaxBytes, NEW input \in [1 .. len -> Octets]
                PROVE  input \in Seq(Octets)
    BY DEF Inputs, Octets
  <2>1. len \in Nat
    BY MaximaAssumption
  <2>. QED
    BY <2>1
<1>3. ASSUME NEW options \in Options
      PROVE  options \in Seq(Option) /\ RightLengths(options)
  <2>1. PICK len \in 0 .. MaxOptions : options \in [1 .. len -> OfferedOptions]
    BY DEF Options
  <2>2. len \in Nat
    BY MaximaAssumption
  <2>3. \A k \in 1 .. len : options[k] \in OfferedOptions
    BY <2>1
  <2>4. options \in [1 .. len -> Option]
    BY <2>1, <2>3, OfferedRight
  <2>5. options \in Seq(Option) /\ Len(options) = len
    BY <2>2, <2>4, FunctionIsSeq
  <2>. QED
    BY <2>3, <2>5, OfferedRight DEF RightLengths
<1>4. {0, 4, SERVERID} \subseteq Octet
  BY Codes
<1>5. RightLengths(<<>>)
  BY DEF RightLengths
<1>6. MCInit => InputsRight
  <2>. SUFFICES ASSUME MCInit
                PROVE  InputsRight
    OBVIOUS
  <2>1. CASE bytes \in Inputs /\ offer = <<>> /\ behind = 0
    BY <1>1, <1>2, <1>4, <1>5, <2>1 DEF InputsRight
  <2>2. CASE offer \in Options /\ behind \in {0, 4, SERVERID} /\ bytes = <<>>
    BY <1>1, <1>3, <1>4, <2>2 DEF InputsRight
  <2>3. CASE behind \in {0, 4, SERVERID} /\ bytes = <<>> /\ offer = <<>>
    BY <1>1, <1>4, <1>5, <2>3 DEF InputsRight
  <2>4. CASE bytes = <<>> /\ offer = <<>> /\ behind = 0
    BY <1>1, <1>4, <1>5, <2>4 DEF InputsRight
  <2>. QED
    BY <2>1, <2>2, <2>3, <2>4 DEF MCInit
<1>7. InputsRight /\ [MCNext]_mcVars => InputsRight'
  <2>. SUFFICES ASSUME InputsRight, [MCNext]_mcVars
                PROVE  InputsRight'
    OBVIOUS
  <2>1. CASE Dismiss
    BY <1>1, <1>4, <1>5, <2>1 DEF Dismiss, InputsRight
  <2>2. CASE Spi \/ UNCHANGED mcVars
    BY <2>2 DEF Spi, mcVars, inputs, InputsRight
  <2>. QED
    BY <2>1, <2>2 DEF MCNext
<1>. QED
  BY <1>6, <1>7, PTL

\* SPI is modelled the same in the run as by itself: the inputs do not disturb it.
THEOREM RunsSpi == MCFairSpec => Spec
<1>1. MCInit => Init
  BY DEF MCInit
<1>2. [MCNext]_mcVars => [Next]_vars
  BY DEF MCNext, Dismiss, Spi, mcVars
<1>. QED
  BY <1>1, <1>2, PTL DEF MCFairSpec, Spec

\* Whatever the bytes, their number and the carries, a receiver accepts what
\* ipChecksum and checksum put into the field (IP.c:13-37, TCP.c:370-394).
THEOREM ChecksumsAlwaysRight == MCFairSpec => []ChecksumsRight
<1>1. InputsRight => ChecksumsRight
  BY ChecksumsAccepted DEF InputsRight, ChecksumsRight
<1>. QED
  BY <1>1, InputsStay, PTL DEF MCFairSpec

\* The buffer behind the header is made of bytes.
LEMMA BufferType ==
    ASSUME InputsRight
    PROVE  /\ Buffer \in Seq(Octet)
           /\ Len(Encoded(offer)) <= Len(Buffer) /\ Len(Buffer) \in Nat
           /\ \E rest \in Seq(Octet) : Buffer = Encoded(offer) \o rest
<1>. DEFINE rest == [k \in 1 .. RequestLength |-> behind]
<1>1. rest \in Seq(Octet)
  <2>1. rest \in [1 .. RequestLength -> Octet] /\ RequestLength \in Nat
    BY DEF InputsRight, RequestLength
  <2>. HIDE DEF rest
  <2>. QED
    BY <2>1, FunctionIsSeq
<1>2. Buffer = Encoded(offer) \o rest
  BY Zenon DEF Buffer
<1>. HIDE DEF rest
<1>3. /\ Encoded(offer) \o rest \in Seq(Octet)
      /\ Len(Encoded(offer)) <= Len(Encoded(offer) \o rest)
  BY <1>1, OfferType DEF InputsRight
<1>. QED
  BY <1>1, <1>2, <1>3

\* From an offer that ends in END parse_opions takes the values the server sent,
\* whatever lies behind it (DHCP.c:75-118).
THEOREM OffersAlwaysParsed == MCFairSpec => []ParsedAsSent
<1>1. InputsRight => ParsedAsSent
  <2>. SUFFICES ASSUME InputsRight
                PROVE  ParsedAsSent
    OBVIOUS
  <2>1. PICK rest \in Seq(Octet) : Buffer = Encoded(offer) \o rest
    BY BufferType
  <2>2. \A code, none : Sent(code, none) = LastSent(offer, code, none)
    BY Zenon DEF Sent, LastSent
  <2>. DEFINE len == Len(Buffer)
  <2>3. len \in Nat /\ Len(Encoded(offer)) <= len /\ Buffer = InBuffer(offer, rest)
    BY <2>1, BufferType DEF InBuffer
  <2>. HIDE DEF len
  <2>4. offer \in Seq(Option) /\ RightLengths(offer)
    BY DEF InputsRight
  <2>. DEFINE kept == Before
  <2>. HIDE DEF kept
  <2>5. /\ \A code \in Kept :
              parse_opions(InBuffer(offer, rest), len, kept)[code] =
                  LastSent(offer, code, kept[code])
        /\ <<MessageType(InBuffer(offer, rest), len)>> = LastSent(offer, DHCPMSGTYPE, <<0>>)
    BY <2>3, <2>4, OffersParsed
  <2>. QED
    BY <2>2, <2>3, <2>5, Zenon DEF ParsedAsSent, len, kept
<1>. QED
  BY <1>1, InputsStay, PTL DEF MCFairSpec

\* The request is told as one for the address and the server of the offer, although
\* it has no END and runs on into what the offer left (DHCP.c:119-162).
THEOREM RequestsAlwaysNameOffer == MCFairSpec => []RequestNamesOffer
<1>1. InputsRight => RequestNamesOffer
  <2>. SUFFICES ASSUME InputsRight
                PROVE  RequestNamesOffer
    OBVIOUS
  <2>. DEFINE server_id == parse_opions(Buffer, Len(Buffer), Before)[SERVERID]
  <2>1. Buffer \in Seq(Octet)
    BY BufferType
  <2>2. server_id \in Address
    <3>1. \A code \in Kept : Before[code] \in Address
      BY Codes DEF Before, Address
    <3>2. SERVERID \in Kept
      BY DEF Kept
    <3>. QED
      BY <2>1, <3>1, <3>2, ParsedType
  <2>3. OfferedIP \in Address
    BY DEF OfferedIP, Address, Octet
  <2>. HIDE DEF server_id
  <2>. DEFINE own == dhcpRequest(Buffer, OfferedIP, server_id)
  <2>4. /\ Asked(own, DHCPMSGTYPE) = <<REQUEST>>
        /\ Asked(own, REQUESTEDIP) = OfferedIP
        /\ Asked(own, SERVERID) = server_id
    <3>1. own = dhcpRequest(Buffer, OfferedIP, server_id)
      OBVIOUS
    <3>. HIDE DEF own
    <3>. QED
      BY <2>1, <2>2, <2>3, <3>1, RequestUnderstood
  <2>. QED
    BY <2>4, Zenon DEF RequestNamesOffer, server_id
<1>. QED
  BY <1>1, InputsStay, PTL DEF MCFairSpec

---------------------------------------------------------------------------
(* Printing *)

\* The digits that are wanted are those that spell the number.
LEMMA DigitsOfSpells ==
    ASSUME NEW base \in 2 .. 16
    PROVE  \E f : /\ Spells(f, base)
                  /\ \A number \in Nat :
                        DigitsOf(number, base) = f[number] /\ f[number] \in Seq(HexDigits)
<1>. DEFINE D == Nat
            V == Seq(HexDigits)
            body(f) == [rest \in Nat |->
                           IF rest < base THEN <<Digit(rest)>>
                           ELSE Append(f[rest \div base], Digit(rest % base))]
            digits == CHOOSE f : f = body(f)
            measure == [rest \in D |-> rest]
            base0 == {rest \in D : rest < base}
            leaf == [rest \in D |-> <<Digit(rest)>>]
            next == [rest \in D |-> rest \div base]
            step == [rest \in D |-> [s \in V |-> Append(s, Digit(rest % base))]]
<1>1. base \in Nat /\ base >= 2 /\ base <= 16
  OBVIOUS
<1>2. ASSUME NEW rest \in D, ~ (rest < base)
      PROVE  rest \div base \in D /\ rest \div base < rest
  <2>1. rest \in Nat /\ rest # 0
    BY <1>1, <1>2
  <2>. DEFINE q == rest \div base
              r == rest % base
  <2>2. q \in Nat /\ r \in 0 .. base - 1 /\ rest = base * q + r
    BY <1>1, Division
  <2>. HIDE DEF q, r
  <2>3. q < rest
    BY <1>1, <2>1, <2>2
  <2>. QED
    BY <2>2, <2>3 DEF q
<1>3. ASSUME NEW rest \in D, NEW s \in V
      PROVE  Append(s, Digit(rest % base)) \in V
  <2>1. (rest % base) \in 0 .. 15
    BY <1>1
  <2>2. Digit(rest % base) \in HexDigits
    BY <2>1, DigitType
  <2>. QED
    BY <2>2
<1>4. ASSUME NEW rest \in D, rest < base
      PROVE  <<Digit(rest)>> \in V
  <2>1. rest \in 0 .. 15
    BY <1>1, <1>4
  <2>2. Digit(rest) \in HexDigits
    BY <2>1, DigitType
  <2>. QED
    BY <2>2
<1>5. Descends(D, V, measure, base0, leaf, next, step)
  <2>1. ASSUME NEW rest \in D
        PROVE  measure[rest] \in Nat /\ (rest \in base0 => leaf[rest] \in V)
    <3>1. leaf[rest] = <<Digit(rest)>> /\ measure[rest] \in Nat /\ (rest \in base0 => rest < base)
      OBVIOUS
    <3>. HIDE DEF leaf, base0, measure, D, V
    <3>. QED
      BY <1>4, <3>1
  <2>2. ASSUME NEW rest \in D, rest \notin base0
        PROVE  next[rest] \in D /\ measure[next[rest]] < measure[rest]
    <3>1. next[rest] = rest \div base /\ ~ (rest < base)
      BY <2>2
    <3>. HIDE DEF next
    <3>. QED
      BY <1>2, <3>1
  <2>3. ASSUME NEW rest \in D, NEW s \in V
        PROVE  step[rest][s] \in V
    <3>1. step[rest][s] = Append(s, Digit(rest % base))
      BY Zenon
    <3>. HIDE DEF step, D, V
    <3>. QED
      BY <1>3, <3>1
  <2>4. V # {}
    BY EmptySeq
  <2>. HIDE DEF D, V, measure, leaf, next, step, base0
  <2>. QED
    BY <2>1, <2>2, <2>3, <2>4 DEF Descends
<1>6. PICK f \in [D -> V] : Follows(f, D, base0, leaf, next, step)
  <2>. HIDE DEF D, V, measure, leaf, next, step, base0
  <2>. QED
    BY <1>5, Recursion
<1>7. ASSUME NEW rest \in D
      PROVE  f[rest] = IF rest < base THEN <<Digit(rest)>>
                       ELSE Append(f[rest \div base], Digit(rest % base))
  <2>1. f[rest] = IF rest \in base0 THEN leaf[rest] ELSE step[rest][f[next[rest]]]
    <3>. HIDE DEF D, V, leaf, next, step, base0
    <3>. QED
      BY <1>6 DEF Follows
  <2>2. CASE rest < base
    <3>1. leaf[rest] = <<Digit(rest)>> /\ rest \in base0
      BY <2>2
    <3>. HIDE DEF leaf, step, base0
    <3>. QED
      BY <2>1, <2>2, <3>1, Zenon
  <2>3. CASE ~ (rest < base)
    <3>1. next[rest] = rest \div base /\ rest \div base \in D /\ rest \notin base0
      BY <1>2, <2>3
    <3>2. f[rest \div base] \in V
      <4>. HIDE DEF D, V
      <4>. QED
        BY <1>6, <3>1
    <3>3. step[rest][f[rest \div base]] = Append(f[rest \div base], Digit(rest % base))
      BY <3>2, Zenon
    <3>4. f[rest] = step[rest][f[rest \div base]]
      <4>. HIDE DEF D, V, leaf, next, step, base0
      <4>. QED
        BY <2>1, <3>1
    <3>. HIDE DEF step
    <3>. QED
      BY <2>3, <3>3, <3>4, Zenon
  <2>. QED
    BY <2>2, <2>3
<1>8. f = body(f)
  <2>1. f = [rest \in D |-> f[rest]]
    <3>. HIDE DEF V
    <3>. QED
      BY <1>6
  <2>. QED
    BY <1>7, <2>1, Zenon
<1>9. digits = body(digits)
  <2>. HIDE DEF body
  <2>. QED
    BY <1>8
<1>10. \A number : DigitsOf(number, base) = digits[number]
  BY Zenon DEF DigitsOf
<1>. HIDE DEF digits
<1>11. Spells(digits, base)
  <2>1. \A rest \in Nat : digits[rest] = body(digits)[rest]
    <3>. HIDE DEF body
    <3>. QED
      BY <1>9
  <2>. QED
    BY <2>1, Zenon DEF Spells
<1>12. \A number \in Nat : digits[number] \in V
  <2>. DEFINE Wrong == {number \in Nat : digits[number] \notin V}
  <2>1. ASSUME Wrong # {}
        PROVE  FALSE
    <3>1. Wrong \subseteq Nat
      OBVIOUS
    <3>2. PICK number \in Wrong : \A other \in Wrong : number <= other
      <4>. HIDE DEF Wrong
      <4>. QED
        BY <2>1, <3>1, LeastNatural
    <3>3. number \in D /\ digits[number] \notin V
      BY <3>2
    <3>4. CASE number < base
      <4>1. digits[number] = <<Digit(number)>>
        BY <1>11, <3>3, <3>4, Zenon DEF Spells
      <4>. HIDE DEF V
      <4>. QED
        BY <1>4, <3>3, <3>4, <4>1
    <3>5. CASE ~ (number < base)
      <4>1. number \div base \in D /\ number \div base < number
        BY <1>2, <3>3, <3>5
      <4>2. number \in Nat /\ ~ (number <= number \div base)
        BY <3>3, <4>1
      <4>3. digits[number \div base] \in V
        BY <3>2, <4>1, <4>2
      <4>. HIDE DEF V
      <4>4. digits[number] = Append(digits[number \div base], Digit(number % base))
        BY <1>11, <3>3, <3>5, Zenon DEF Spells
      <4>. HIDE DEF D
      <4>. QED
        BY <1>3, <3>3, <4>3, <4>4
    <3>. QED
      BY <3>4, <3>5
  <2>. QED
    BY <2>1
<1>. QED
  BY <1>10, <1>11, <1>12

\* The places of three sequences that make one.
Parted(s, S, a, b, c) ==
    /\ s \in Seq(S) /\ Len(s) = Len(a) + Len(b) + Len(c)
    /\ \A i \in 1 .. Len(a) : s[i] = a[i]
    /\ \A i \in 1 .. Len(b) : s[Len(a) + i] = b[i]
    /\ \A i \in 1 .. Len(c) : s[Len(a) + Len(b) + i] = c[i]

\* One sequence behind another and a third behind both.
LEMMA ThreeParts ==
    ASSUME NEW S, NEW a \in Seq(S), NEW b \in Seq(S), NEW c \in Seq(S)
    PROVE  Parted((a \o b) \o c, S, a, b, c)
<1>. DEFINE ab == Then(a, b)
            s == Then(ab, c)
<1>1. ab \in Seq(S)
  BY DEF Then
<1>2. /\ Len(ab) = Len(a) + Len(b)
      /\ \A i \in 1 .. Len(a) + Len(b) : ab[i] = IF i <= Len(a) THEN a[i] ELSE b[i - Len(a)]
  BY ConcatProperties, Zenon DEF Then
<1>. HIDE DEF ab
<1>3. s \in Seq(S)
  BY <1>1 DEF Then
<1>4. /\ Len(s) = Len(ab) + Len(c)
      /\ \A i \in 1 .. Len(ab) + Len(c) : s[i] = IF i <= Len(ab) THEN ab[i] ELSE c[i - Len(ab)]
  BY <1>1, ConcatProperties, Zenon DEF Then
<1>. HIDE DEF s
<1>5. Len(a) \in Nat /\ Len(b) \in Nat /\ Len(c) \in Nat
  OBVIOUS
<1>6. ASSUME NEW i \in 1 .. Len(a)
      PROVE  s[i] = a[i]
  BY <1>2, <1>4, <1>5
<1>7. ASSUME NEW i \in 1 .. Len(b)
      PROVE  s[Len(a) + i] = b[i]
  BY <1>2, <1>4, <1>5
<1>8. ASSUME NEW i \in 1 .. Len(c)
      PROVE  s[Len(a) + Len(b) + i] = c[i]
  BY <1>2, <1>4, <1>5
<1>9. Len(s) = Len(a) + Len(b) + Len(c)
  BY <1>2, <1>4, <1>5
<1>10. Parted(s, S, a, b, c)
  BY <1>3, <1>6, <1>7, <1>8, <1>9, Zenon DEF Parted
<1>. QED
  BY <1>10, Zenon DEF s, ab, Then

\* The formats of the run are laid out like that.
LEMMA FormatLaidOut ==
    ASSUME NEW p, p.width \in Widths
    PROVE  Layout(Format(p), p.width, p.kind)
<1>. DEFINE S == HexDigits \cup {"\n", "%", p.kind}
            a == <<"\n", "%">>
            b == [k \in DOMAIN p.width |-> Digit(p.width[k])]
            c == <<p.kind, "%", "%", "a">>
            len == Len(p.width)
<1>1. /\ len \in 0 .. 2 /\ DOMAIN p.width = 1 .. len
      /\ \A k \in 1 .. len : p.width[k] \in 0 .. 15
  BY WidthCases
<1>2. b \in Seq(S) /\ Len(b) = len /\ \A k \in 1 .. len : b[k] = Digit(p.width[k])
  <2>1. \A k \in 1 .. len : Digit(p.width[k]) \in S
    BY <1>1, DigitType
  <2>2. b \in [1 .. len -> S] /\ len \in Nat
    <3>. HIDE DEF S
    <3>. QED
      BY <1>1, <2>1
  <2>3. \A k \in 1 .. len : b[k] = Digit(p.width[k])
    BY <1>1
  <2>. HIDE DEF b, S
  <2>. QED
    BY <2>2, <2>3, FunctionIsSeq
<1>3. "\n" \in S /\ "%" \in S /\ p.kind \in S /\ "a" \in S
  BY DEF HexDigits
<1>. HIDE DEF S
<1>4. a \in Seq(S) /\ Len(a) = 2 /\ a[1] = "\n" /\ a[2] = "%"
  BY <1>3
<1>5. c \in Seq(S) /\ Len(c) = 4 /\ c[1] = p.kind /\ c[2] = "%" /\ c[3] = "%" /\ c[4] = "a"
  BY <1>3
<1>6. Format(p) = (a \o b) \o c
  BY Zenon DEF Format
<1>. HIDE DEF a, b, c
<1>7. /\ Format(p) \in Seq(S) /\ Len(Format(p)) = 2 + len + 4
      /\ \A i \in 1 .. 2 : Format(p)[i] = a[i]
      /\ \A i \in 1 .. len : Format(p)[2 + i] = b[i]
      /\ \A i \in 1 .. 4 : Format(p)[2 + len + i] = c[i]
  <2>1. Parted(Format(p), S, a, b, c)
    BY <1>2, <1>4, <1>5, <1>6, ThreeParts, Zenon
  <2>2. /\ Format(p) \in Seq(S) /\ Len(Format(p)) = Len(a) + Len(b) + Len(c)
        /\ \A i \in 1 .. Len(a) : Format(p)[i] = a[i]
        /\ \A i \in 1 .. Len(b) : Format(p)[Len(a) + i] = b[i]
        /\ \A i \in 1 .. Len(c) : Format(p)[Len(a) + Len(b) + i] = c[i]
    BY <2>1 DEF Parted
  <2>. QED
    BY <1>2, <1>4, <1>5, <2>2
<1>8. /\ DOMAIN Format(p) = 1 .. len + 6
      /\ Format(p)[1] = a[1] /\ Format(p)[2] = a[2]
      /\ Format(p)[len + 3] = c[1] /\ Format(p)[len + 4] = c[2]
      /\ Format(p)[len + 5] = c[3] /\ Format(p)[len + 6] = c[4]
  <2>1. /\ 1 \in 1 .. 2 /\ 2 \in 1 .. 2
        /\ 1 \in 1 .. 4 /\ 2 \in 1 .. 4 /\ 3 \in 1 .. 4 /\ 4 \in 1 .. 4
        /\ 2 + len + 1 = len + 3 /\ 2 + len + 2 = len + 4 /\ 2 + len + 3 = len + 5
        /\ 2 + len + 4 = len + 6
    BY <1>1
  <2>2. DOMAIN Format(p) = 1 .. Len(Format(p))
    BY <1>7
  <2>. QED
    BY <1>7, <2>1, <2>2
<1>. QED
  BY <1>1, <1>2, <1>4, <1>5, <1>7, <1>8 DEF Layout

\* A repeated character is a sequence of it.
LEMMA TimesType ==
    ASSUME NEW char \in Chars, NEW number \in Nat
    PROVE  Times(char, number) \in Seq(Chars)
<1>. DEFINE s == [k \in 1 .. number |-> char]
<1>1. s \in [1 .. number -> Chars]
  OBVIOUS
<1>. HIDE DEF s
<1>2. s \in Seq(Chars)
  BY <1>1, FunctionIsSeq
<1>. QED
  BY <1>2 DEF s, Times

\* Whether it is printed with a sign, and the base.
Negative(p) == p.kind = "d" /\ p.arg >= Modulus \div 2
BaseOf(p) == IF p.kind = "x" THEN 16 ELSE 10
MagnitudeOf(p) == IF Negative(p) THEN Modulus - p.arg ELSE p.arg
DigitsFor(p) == DigitsOf(MagnitudeOf(p), BaseOf(p))

\* An argument that is a number.
IsNumber(p) == p.kind \in {"d", "u", "x"} /\ p.arg \in Values

\* What is printed is the number.
Prints(printed, digits, neg, width, fill) ==
    printed = PrintedNumber(digits, neg, width, fill)

\* A number is converted to its digits.
LEMMA NumberConverted ==
    ASSUME NEW p, IsNumber(p), NEW width \in 0 .. 15, NEW fill
    PROVE  /\ Prints(Conversion(p.kind, p.arg, width, fill), DigitsFor(p), Negative(p), width, fill)
           /\ DigitsFor(p) \in Seq(HexDigits)
<1>. DEFINE kind == p.kind
            arg == p.arg
            base == BaseOf(p)
            neg == Negative(p)
            value == IF neg THEN Modulus - arg ELSE arg
<1>1. Modulus \in Nat /\ Modulus >= 256 /\ arg \in Nat /\ arg < Modulus /\ Modulus \div 2 > 0
  BY ModulusAssumption DEF Values, IsNumber
<1>2. base \in 2 .. 16 /\ neg \in BOOLEAN
  BY DEF BaseOf, Negative
<1>3. value \in Values /\ value \in Nat /\ (neg => Wrap(-arg) = value)
  <2>1. CASE neg
    <3>1. value = Modulus - arg /\ value \in Values /\ value \in Nat
      <4>1. arg >= Modulus \div 2
        BY <2>1 DEF Negative
      <4>. QED
        BY <1>1, <2>1, <4>1 DEF Values
    <3>2. Wrap(-arg) = Modulus - arg
      <4>1. Modulus - arg \in 0 .. Modulus - 1 /\ -arg = (Modulus - arg) - Modulus
        BY <1>1, <3>1 DEF Values
      <4>2. (-arg) % Modulus = Modulus - arg
        BY <1>1, <4>1
      <4>. QED
        BY <4>2 DEF Wrap
    <3>. QED
      BY <3>1, <3>2
  <2>2. CASE ~neg
    BY <1>1, <2>2 DEF Values
  <2>. QED
    BY <2>1, <2>2
<1>4. PICK f : /\ Spells(f, base)
               /\ \A number \in Nat :
                     DigitsOf(number, base) = f[number] /\ f[number] \in Seq(HexDigits)
  <2>. HIDE DEF base
  <2>. QED
    BY <1>2, DigitsOfSpells
<1>5. Converted(value, base, neg, width, fill) = PrintedNumber(f[value], neg, width, fill)
  <2>. HIDE DEF value, base, neg
  <2>. QED
    BY <1>2, <1>3, <1>4, NumbersPrinted
<1>6. Conversion(kind, arg, width, fill) = Converted(value, base, neg, width, fill)
  <2>1. CASE kind = "d" /\ neg
    <3>1. arg >= Modulus \div 2 /\ base = 10
      BY <2>1 DEF Negative, BaseOf
    <3>2. Conversion("d", arg, width, fill) = Converted(Wrap(-arg), 10, TRUE, width, fill)
      BY <3>1 DEF Conversion
    <3>. QED
      BY <1>3, <2>1, <3>1, <3>2
  <2>2. CASE kind = "d" /\ ~neg
    <3>1. neg = FALSE /\ value = arg /\ base = 10 /\ ~ (arg >= Modulus \div 2)
      <4>1. ~neg
        BY <2>2 DEF Negative
      <4>. QED
        BY <2>2, <4>1 DEF BaseOf, Negative
    <3>2. Conversion("d", arg, width, fill) = Converted(arg, 10, FALSE, width, fill)
      BY <3>1 DEF Conversion
    <3>. HIDE DEF value, base, neg
    <3>. QED
      BY <2>2, <3>1, <3>2, Zenon
  <2>3. CASE kind = "u"
    <3>1. neg = FALSE /\ value = arg /\ base = 10
      <4>1. ~neg
        BY <2>3 DEF Negative
      <4>. QED
        BY <2>3, <4>1 DEF BaseOf
    <3>2. Conversion("u", arg, width, fill) = Converted(arg, 10, FALSE, width, fill)
      BY DEF Conversion
    <3>. HIDE DEF value, base, neg
    <3>. QED
      BY <2>3, <3>1, <3>2, Zenon
  <2>4. CASE kind = "x"
    <3>1. neg = FALSE /\ value = arg /\ base = 16
      <4>1. ~neg
        BY <2>4 DEF Negative
      <4>. QED
        BY <2>4, <4>1 DEF BaseOf
    <3>2. Conversion("x", arg, width, fill) = Converted(arg, 16, FALSE, width, fill)
      BY DEF Conversion
    <3>. HIDE DEF value, base, neg
    <3>. QED
      BY <2>4, <3>1, <3>2, Zenon
  <2>. QED
    BY <2>1, <2>2, <2>3, <2>4 DEF IsNumber
<1>7. f[value] = DigitsOf(value, base) /\ DigitsOf(value, base) \in Seq(HexDigits)
  <2>. HIDE DEF value, base
  <2>. QED
    BY <1>3, <1>4
<1>. QED
  BY <1>5, <1>6, <1>7, Zenon DEF Prints, DigitsFor, MagnitudeOf

\* One character behind another.
LEMMA TwoCharacters ==
    ASSUME NEW x \in Chars, NEW y \in Chars
    PROVE  <<x>> \o <<y>> = <<x, y>>
<1>. DEFINE a == <<x>>
            b == <<y>>
            c == <<x, y>>
            t == Then(a, b)
<1>1. /\ a \in Seq(Chars) /\ b \in Seq(Chars) /\ Len(a) = 1 /\ Len(b) = 1 /\ a[1] = x /\ b[1] = y
      /\ c \in Seq(Chars) /\ Len(c) = 2 /\ c[1] = x /\ c[2] = y
  OBVIOUS
<1>. HIDE DEF a, b, c
<1>2. t \in Seq(Chars)
  BY <1>1 DEF Then
<1>3. /\ Len(t) = Len(a) + Len(b)
      /\ \A i \in 1 .. Len(a) + Len(b) : t[i] = IF i <= Len(a) THEN a[i] ELSE b[i - Len(a)]
  BY <1>1, ConcatProperties, Zenon DEF Then
<1>. HIDE DEF t
<1>4. Len(t) = Len(c) /\ \A i \in 1 .. Len(t) : t[i] = c[i]
  BY <1>1, <1>3
<1>5. t = c
  BY <1>1, <1>2, <1>4, SeqEqual
<1>. QED
  BY <1>5, Zenon DEF t, a, b, c, Then

\* What UARTprintf puts around a conversion.
LEMMA Around ==
    ASSUME NEW s \in Seq(Chars)
    PROVE  ((<<"\r", "\n">> \o s) \o <<"%">>) \o <<"a">> = (<<"\r", "\n">> \o s) \o <<"%", "a">>
<1>1. "\r" \in Chars /\ "\n" \in Chars /\ "%" \in Chars /\ "a" \in Chars
  BY DEF Chars, HexDigits
<1>. DEFINE a == <<"\r", "\n">>
            b == <<"%">>
            c == <<"a">>
<1>2. a \in Seq(Chars) /\ b \in Seq(Chars) /\ c \in Seq(Chars) /\ b \o c = <<"%", "a">>
  <2>1. \A x, y \in Chars : <<x, y>> \in Seq(Chars) /\ <<x>> \in Seq(Chars)
    OBVIOUS
  <2>. QED
    BY <1>1, <2>1, TwoCharacters, Zenon
<1>. HIDE DEF a, b, c
<1>3. \A t, u, w \in Seq(Chars) : (t \o u) \o w = t \o (u \o w)
  OBVIOUS
<1>4. a \o s \in Seq(Chars)
  BY <1>2
<1>5. ((a \o s) \o b) \o c = (a \o s) \o (b \o c)
  BY <1>2, <1>3, <1>4, Zenon
<1>. QED
  BY <1>2, <1>5, Zenon DEF a, b, c

\* A printed number is made of characters, and is what is wanted.
LEMMA NumberWanted ==
    ASSUME NEW digits \in Seq(HexDigits), NEW neg \in BOOLEAN, NEW width \in 0 .. 15,
           NEW fill \in {"0", Blank}
    PROVE  /\ PrintedNumber(digits, neg, width, fill) \in Seq(Chars)
           /\ PrintedNumber(digits, neg, width, fill)
                 = LET filling == Padding(fill, width, Len(SignOf(neg) \o digits))
                   IN  IF fill = "0" THEN (SignOf(neg) \o filling) \o digits
                       ELSE (filling \o SignOf(neg)) \o digits
<1>. DEFINE sign == SignOf(neg)
            length == Len(sign) + Len(digits)
            filling == Padding(fill, width, length)
<1>1. sign \in Seq(Chars)
  <2>1. "-" \in Chars
    BY DEF Chars
  <2>2. \A x \in Chars : <<x>> \in Seq(Chars)
    OBVIOUS
  <2>3. <<>> \in Seq(Chars)
    BY EmptySeq
  <2>. QED
    BY <2>1, <2>2, <2>3, Zenon DEF SignOf
<1>2. digits \in Seq(Chars)
  <2>1. HexDigits \subseteq Chars
    BY DEF Chars
  <2>. QED
    BY <2>1
<1>. HIDE DEF sign
<1>3. Len(sign \o digits) = length
  BY <1>1, <1>2
<1>4. length \in Nat
  BY <1>1, <1>2
<1>5. filling \in Seq(Chars)
  <2>. DEFINE more == IF width > length THEN width - length ELSE 0
  <2>1. more \in Nat
    BY <1>4
  <2>2. fill \in Chars
    BY DEF Chars, HexDigits, Blank
  <2>. HIDE DEF more, length
  <2>3. Times(fill, more) \in Seq(Chars)
    BY <2>1, <2>2, TimesType
  <2>. QED
    BY <2>3, Zenon DEF Padding, more
<1>. HIDE DEF filling
<1>6. /\ (sign \o filling) \o digits \in Seq(Chars)
      /\ (filling \o sign) \o digits \in Seq(Chars)
  BY <1>1, <1>2, <1>5
<1>7. PrintedNumber(digits, neg, width, fill)
          = (IF fill = "0" THEN sign \o filling ELSE filling \o sign) \o digits
  BY Zenon DEF PrintedNumber, sign, filling, length
<1>8. PrintedNumber(digits, neg, width, fill)
          = IF fill = "0" THEN (sign \o filling) \o digits ELSE (filling \o sign) \o digits
  BY <1>7, Zenon
<1>. QED
  BY <1>3, <1>6, <1>8, Zenon DEF sign, filling

\* What is to be printed, one conversion with its argument.
Printable(p) ==
    /\ p.width \in Widths
    /\ \/ IsNumber(p)
       \/ p.kind = "s" /\ p.arg \in Seq(Chars)

\* A number between the line end and the letter is wanted like that.
LEMMA NumberMeant ==
    ASSUME NEW p, p.width \in Widths, IsNumber(p)
    PROVE  /\ Conversion(p.kind, p.arg, WidthOf(p.width), FillOf(p.width)) \in Seq(Chars)
           /\ Wanted(p) =
                 (<<"\r", "\n">> \o Conversion(p.kind, p.arg, WidthOf(p.width), FillOf(p.width)))
                     \o <<"%", "a">>
<1>. DEFINE neg == Negative(p)
            sign == SignOf(neg)
            base == BaseOf(p)
            value == MagnitudeOf(p)
            body == DigitsFor(p)
            width == WidthOf(p.width)
            fill == FillOf(p.width)
            length == Len(sign \o body)
            filling == Padding(fill, width, length)
            printed == IF fill = "0" THEN (sign \o filling) \o body ELSE (filling \o sign) \o body
<1>1. width \in 0 .. 15 /\ neg \in BOOLEAN
  BY WidthCases DEF Negative
<1>2. fill \in {"0", Blank}
  BY DEF FillOf
<1>3. /\ Conversion(p.kind, p.arg, width, fill) = PrintedNumber(body, neg, width, fill)
      /\ body \in Seq(HexDigits)
  <2>1. Prints(Conversion(p.kind, p.arg, width, fill), body, neg, width, fill)
    <3>. HIDE DEF width, fill
    <3>. QED
      BY <1>1, NumberConverted, Zenon
  <2>2. body \in Seq(HexDigits)
    BY <1>1, NumberConverted
  <2>. HIDE DEF neg, body, width, fill
  <2>. QED
    BY <2>1, <2>2, Zenon DEF Prints
<1>4. /\ PrintedNumber(body, neg, width, fill) = printed
      /\ PrintedNumber(body, neg, width, fill) \in Seq(Chars)
  <2>. HIDE DEF neg, body, width, fill
  <2>. QED
    BY <1>1, <1>2, <1>3, NumberWanted
<1>5. p.kind # "s"
  BY DEF IsNumber
<1>6. fill = "0" <=> p.width # <<>> /\ p.width[1] = 0
  BY DEF FillOf, Blank
<1>7. ~ (p.width # <<>> /\ p.width[1] = 0) => fill = " "
  BY Zenon DEF FillOf, Blank
<1>8. Wanted(p) =
          (<<"\r", "\n">>
              \o (IF p.width # <<>> /\ p.width[1] = 0
                  THEN (sign \o Padding("0", width, length)) \o body
                  ELSE (Padding(" ", width, length) \o sign) \o body))
              \o <<"%", "a">>
  BY <1>5, Zenon DEF Wanted, Padding, Negative, SignOf, BaseOf, WidthOf, MagnitudeOf, DigitsFor
<1>. HIDE DEF neg, sign, base, value, body, width, fill, length
<1>9. Wanted(p) = (<<"\r", "\n">> \o printed) \o <<"%", "a">>
  BY <1>6, <1>7, <1>8, Zenon
<1>. HIDE DEF printed
<1>10. Conversion(p.kind, p.arg, width, fill) = printed
  BY <1>3, <1>4, Zenon
<1>11. Conversion(p.kind, p.arg, width, fill) \in Seq(Chars)
  BY <1>3, <1>4, Zenon
<1>. QED
  BY <1>9, <1>10, <1>11, Zenon DEF width, fill

\* So is a text.
LEMMA TextMeant ==
    ASSUME NEW p, p.width \in Widths, p.kind = "s", p.arg \in Seq(Chars)
    PROVE  /\ Conversion(p.kind, p.arg, WidthOf(p.width), FillOf(p.width)) \in Seq(Chars)
           /\ Wanted(p) =
                 (<<"\r", "\n">> \o Conversion(p.kind, p.arg, WidthOf(p.width), FillOf(p.width)))
                     \o <<"%", "a">>
<1>. DEFINE width == WidthOf(p.width)
            fill == FillOf(p.width)
            length == Len(p.arg)
            body == UARTwrite(p.arg)
            more == IF width > length THEN width - length ELSE 0
<1>1. Conversion("s", p.arg, width, fill)
          = body \o IF width > length THEN Times(" ", width - length) ELSE <<>>
  BY Zenon DEF Conversion
<1>2. Conversion("s", p.arg, width, fill) = body \o Times(" ", more)
  <2>. HIDE DEF body, width, fill, length
  <2>. QED
    BY <1>1, TimesNone, Zenon
<1>3. Wanted(p) = (<<"\r", "\n">> \o (body \o Times(" ", more))) \o <<"%", "a">>
  BY Zenon DEF Wanted, WidthOf
<1>4. body \o Times(" ", more) \in Seq(Chars)
  <2>1. more \in Nat
    <3>1. width \in 0 .. 9 /\ length \in Nat
      BY WidthCases
    <3>. HIDE DEF width, length
    <3>. QED
      BY <3>1
  <2>2. Blank \in Chars
    BY Zenon DEF Chars, Blank
  <2>. HIDE DEF more
  <2>3. Times(Blank, more) \in Seq(Chars)
    BY <2>1, <2>2, TimesType
  <2>4. body \in Seq(Chars)
    BY Writes
  <2>. HIDE DEF body
  <2>5. body \o Times(Blank, more) \in Seq(Chars)
    BY <2>3, <2>4
  <2>. QED
    BY <2>5, Zenon DEF Blank
<1>. HIDE DEF body, more, width, fill
<1>. QED
  BY <1>2, <1>3, <1>4, Zenon DEF width, fill

\* Whatever the number, its sign and its width, and whatever the text, UARTprintf
\* prints it as printf of C does (uartstdio.c:1020-1230).
THEOREM AllPrinted ==
    ASSUME NEW p, Printable(p)
    PROVE  UARTvprintf(Format(p), <<p.arg>>) = Wanted(p)
<1>. DEFINE converted == Conversion(p.kind, p.arg, WidthOf(p.width), FillOf(p.width))
<1>1. p.width \in Widths /\ p.kind \in {"d", "s", "u", "x"}
  BY DEF Printable, IsNumber
<1>2. /\ converted \in Seq(Chars)
      /\ Wanted(p) = (<<"\r", "\n">> \o converted) \o <<"%", "a">>
  BY NumberMeant, TextMeant, Zenon DEF Printable
<1>3. UARTvprintf(Format(p), <<p.arg>>) = ((<<"\r", "\n">> \o converted) \o <<"%">>) \o <<"a">>
  <2>. DEFINE format == Format(p)
              width == p.width
              kind == p.kind
  <2>1. Layout(format, width, kind)
    BY <1>1, FormatLaidOut
  <2>. HIDE DEF format, width, kind
  <2>2. Surrounded(UARTvprintf(format, <<p.arg>>),
                   Conversion(kind, p.arg, WidthOf(width), FillOf(width)))
    <3>1. width \in Widths /\ kind \in {"d", "s", "u", "x"}
      BY <1>1 DEF width, kind
    <3>. QED
      BY <2>1, <3>1, FormatPrinted, Zenon
  <2>. QED
    BY <2>2, Zenon DEF format, width, kind, Surrounded
<1>. HIDE DEF converted
<1>. QED
  BY <1>2, <1>3, Around, Zenon

\* The run prints nothing else.
PrintRight == print.kind # "none" => Printable(print)

\* Only Dismiss changes what is printed.
LEMMA PrintStays == MCInit /\ [][MCNext]_mcVars => []PrintRight
<1>1. ASSUME NEW p \in Numbers
      PROVE  Printable(p)
  <2>1. p.kind \in {"d", "u", "x"} /\ p.width \in {<<>>, <<3>>, <<0, 3>>, <<5>>, <<0, 5>>}
        /\ p.arg \in 0 .. Modulus - 1
    BY DEF Numbers
  <2>2. p.width \in Widths
    <3>1. 3 \in 1 .. 9 /\ 5 \in 1 .. 9
      OBVIOUS
    <3>. QED
      BY <2>1, <3>1, Zenon DEF Widths
  <2>. QED
    BY <2>1, <2>2 DEF Printable, IsNumber, Values
<1>2. ASSUME NEW p \in Texts
      PROVE  Printable(p)
  <2>1. p.kind = "s" /\ p.width \in {<<>>, <<3>>}
    BY DEF Texts
  <2>2. PICK len \in 0 .. 3 : p.arg \in [1 .. len -> {"a", "\n"}]
    BY DEF Texts
  <2>3. p.width \in Widths
    <3>1. 3 \in 1 .. 9
      OBVIOUS
    <3>. QED
      BY <2>1, <3>1, Zenon DEF Widths
  <2>4. p.arg \in Seq(Chars)
    <3>1. "a" \in Chars /\ "\n" \in Chars
      BY DEF Chars, HexDigits
    <3>2. p.arg \in [1 .. len -> Chars] /\ len \in Nat
      BY <2>2, <3>1
    <3>. QED
      BY <3>2, FunctionIsSeq
  <2>. QED
    BY <2>1, <2>3, <2>4, Zenon DEF Printable
<1>3. NoPrint.kind = "none"
  BY DEF NoPrint
<1>4. MCInit => PrintRight
  BY <1>1, <1>2, <1>3 DEF MCInit, PrintRight
<1>5. PrintRight /\ [MCNext]_mcVars => PrintRight'
  <2>. SUFFICES ASSUME PrintRight, [MCNext]_mcVars
                PROVE  PrintRight'
    OBVIOUS
  <2>1. CASE Dismiss
    BY <1>3, <2>1 DEF Dismiss, PrintRight
  <2>2. CASE Spi \/ UNCHANGED mcVars
    BY <2>2 DEF Spi, mcVars, inputs, PrintRight
  <2>. QED
    BY <2>1, <2>2 DEF MCNext
<1>. QED
  BY <1>4, <1>5, PTL

\* A number is printed with the digits that read back as it, whatever overflows on
\* the way, and of a text no character is lost (uartstdio.c:1020-1230).
THEOREM PrintsAlwaysAsMeant == MCFairSpec => []PrintedAsMeant
<1>1. PrintRight => PrintedAsMeant
  BY AllPrinted DEF PrintRight, PrintedAsMeant
<1>. QED
  BY <1>1, PrintStays, PTL DEF MCFairSpec

---------------------------------------------------------------------------
(* The data of a segment and the answers written in front of it *)

\* A sequence of this length, whatever it is made of.
Sized(s, len) == len \in Nat /\ s = [k \in 1 .. len |-> s[k]]

\* Its length and its domain.
LEMMA SizedIs ==
    ASSUME NEW s, NEW len, Sized(s, len)
    PROVE  len \in Nat /\ DOMAIN s = 1 .. len /\ Len(s) = len /\ \E S : s \in Seq(S)
<1>1. len \in Nat /\ s = [k \in 1 .. len |-> s[k]]
  BY DEF Sized
<1>2. DOMAIN s = 1 .. len
  BY <1>1
<1>. DEFINE S == {s[k] : k \in 1 .. len}
<1>3. s \in [1 .. len -> S]
  BY <1>1
<1>. HIDE DEF S
<1>4. s \in Seq(S) /\ Len(s) = len
  BY <1>1, <1>3, FunctionIsSeq
<1>. QED
  BY <1>1, <1>2, <1>4

\* A sequence has its length.
LEMMA SeqSized ==
    ASSUME NEW S, NEW s \in Seq(S)
    PROVE  Sized(s, Len(s))
BY DEF Sized

\* One behind another: the elements are those of the first and then those of the second.
Adjoined(st, s, a, t, b) ==
    /\ Sized(st, a + b)
    /\ \A i \in 1 .. a : st[i] = s[i]
    /\ \A i \in 1 .. b : st[a + i] = t[i]

\* It is so for any two sequences.
LEMMA SizedJoin ==
    ASSUME NEW s, NEW a, Sized(s, a), NEW t, NEW b, Sized(t, b)
    PROVE  Adjoined(s \o t, s, a, t, b)
<1>. DEFINE S == {s[k] : k \in 1 .. a} \cup {t[k] : k \in 1 .. b}
            st == Then(s, t)
<1>1. a \in Nat /\ b \in Nat /\ DOMAIN s = 1 .. a /\ DOMAIN t = 1 .. b
  BY SizedIs
<1>2. s \in Seq(S) /\ Len(s) = a
  <2>1. s \in [1 .. a -> S]
    BY DEF Sized
  <2>. HIDE DEF S
  <2>. QED
    BY <1>1, <2>1, FunctionIsSeq
<1>3. t \in Seq(S) /\ Len(t) = b
  <2>1. t \in [1 .. b -> S]
    BY DEF Sized
  <2>. HIDE DEF S
  <2>. QED
    BY <1>1, <2>1, FunctionIsSeq
<1>. HIDE DEF S
<1>4. st \in Seq(S) /\ Len(st) = a + b
      /\ \A i \in 1 .. a + b : st[i] = IF i <= a THEN s[i] ELSE t[i - a]
  BY <1>2, <1>3, ConcatProperties, Zenon DEF Then
<1>. HIDE DEF st
<1>5. Sized(st, a + b)
  BY <1>4, SeqSized, Zenon
<1>6. ASSUME NEW i \in 1 .. a
      PROVE  st[i] = s[i]
  BY <1>1, <1>4
<1>7. ASSUME NEW i \in 1 .. b
      PROVE  st[a + i] = t[i]
  BY <1>1, <1>4
<1>8. Adjoined(st, s, a, t, b)
  BY <1>5, <1>6, <1>7, Zenon DEF Adjoined
<1>. QED
  BY <1>8, Zenon DEF st, Then

\* What is read of a buffer.
Copied(part, buffer, at, len) == Sized(part, len) /\ \A i \in 1 .. len : part[i] = buffer[at + i]

\* Read takes them from the buffer, as long as it does not go over its end.
LEMMA ReadIs ==
    ASSUME NEW buffer, NEW size, Sized(buffer, size), NEW at \in Nat, NEW len \in Nat,
           at + len <= size
    PROVE  Copied(Read(buffer, at, len), buffer, at, len)
<1>1. PICK S : size \in Nat /\ Len(buffer) = size /\ buffer \in Seq(S)
  BY SizedIs
<1>. DEFINE first == at + 1
            last == at + len
            part == SubSeq(buffer, first, last)
<1>2. first \in 1 .. Len(buffer) + 1 /\ last \in first - 1 .. Len(buffer)
      /\ last - first + 1 = len /\ \A i \in 1 .. len : first + i - 1 = at + i
  BY <1>1
<1>. HIDE DEF first, last
<1>3. /\ part \in Seq(S) /\ Len(part) = last - first + 1
      /\ \A i \in 1 .. last - first + 1 : part[i] = buffer[first + i - 1]
  BY <1>1, <1>2, SubSeqProperties
<1>4. Sized(part, len)
  BY <1>2, <1>3, SeqSized
<1>5. \A i \in 1 .. len : part[i] = buffer[at + i]
  BY <1>2, <1>3
<1>. HIDE DEF part
<1>6. Copied(part, buffer, at, len)
  BY <1>4, <1>5, Zenon DEF Copied
<1>. QED
  BY <1>6, Zenon DEF part, first, last, Read

\* Of the fields none goes further than this place.
InFront(at, header, values, last) ==
    \A f \in DOMAIN values :
        header[f] \in Nat /\ \E len : Sized(values[f], len) /\ at + header[f] + len <= last

\* Behind this place the buffer is as it was.
Keeps(after, buffer, size, last) ==
    Sized(after, size) /\ \A k \in last + 1 .. size : after[k] = buffer[k]

\* Then the stores leave alone what is behind it.
LEMMA FillKeeps ==
    ASSUME NEW buffer, NEW size, Sized(buffer, size), NEW at \in Nat, NEW last \in Nat,
           NEW header, NEW values, InFront(at, header, values, last)
    PROVE  Keeps(Fill(buffer, at, header, values), buffer, size, last)
<1>. DEFINE Stored(k) == {f \in DOMAIN values : k - at - header[f] \in DOMAIN values[f]}
            Value(k) == IF Stored(k) = {} THEN buffer[k]
                        ELSE LET f == CHOOSE f \in Stored(k) : TRUE
                             IN  values[f][k - at - header[f]]
            after == [k \in DOMAIN buffer |-> Value(k)]
<1>1. size \in Nat /\ DOMAIN buffer = 1 .. size
  BY SizedIs
<1>2. ASSUME NEW k \in last + 1 .. size
      PROVE  Stored(k) = {}
  <2>1. SUFFICES ASSUME NEW f \in DOMAIN values, k - at - header[f] \in DOMAIN values[f]
                 PROVE  FALSE
    OBVIOUS
  <2>2. PICK len : header[f] \in Nat /\ Sized(values[f], len) /\ at + header[f] + len <= last
    BY DEF InFront
  <2>3. len \in Nat /\ DOMAIN values[f] = 1 .. len
    BY <2>2, SizedIs
  <2>. QED
    BY <1>1, <2>1, <2>2, <2>3
<1>3. \A k \in last + 1 .. size : Value(k) = buffer[k]
  <2>. HIDE DEF Stored
  <2>. QED
    BY <1>2, Zenon
<1>4. Fill(buffer, at, header, values) = after
  BY Zenon DEF Fill
<1>. HIDE DEF Stored, Value
<1>5. Sized(after, size)
  BY <1>1 DEF Sized
<1>6. ASSUME NEW k \in last + 1 .. size
      PROVE  after[k] = buffer[k]
  <2>1. k \in DOMAIN buffer
    BY <1>1
  <2>. QED
    BY <1>3, <2>1
<1>. HIDE DEF after
<1>7. Keeps(after, buffer, size, last)
  BY <1>5, <1>6, Zenon DEF Keeps
<1>. QED
  BY <1>4, <1>7, Zenon

\* What leaves the buffer alone behind one place and then behind another.
LEMMA KeepsAgain ==
    ASSUME NEW buffer, NEW size, NEW after, NEW end,
           NEW first \in Nat, NEW last \in Nat, first <= last,
           Keeps(after, buffer, size, last), Keeps(end, after, size, first)
    PROVE  Keeps(end, buffer, size, last)
<1>1. size \in Nat
  BY DEF Keeps, Sized
<1>. QED
  BY <1>1 DEF Keeps

\* The lengths of what is stored in the fields.
LEMMA FieldsSized ==
    /\ \A x : Sized(<<x>>, 1)
    /\ \A x, y : Sized(<<x, y>>, 2)
    /\ \A number : Sized(Short(number), 2)
    /\ Sized(Zeros(2), 2)
    /\ Sized(<<>>, 0)
BY DEF Sized, Short, Zeros

\* Either checksum has two bytes, whatever it is the checksum of.
LEMMA ChecksSized ==
    ASSUME NEW part
    PROVE  Sized(Sums!checksum(part), 2) /\ Sized(Sums!ipChecksum(part), 2)
BY DEF Sized, Sums!checksum, Sums!ipChecksum

\* Addresses of the right length.
Addressed(my) == Sized(my.hwAddr, 6) /\ Sized(my.ipAddr, 4) /\ Sized(my.to, 6)

\* arpIpOut writes the Ethernet header.
LEMMA ArpIpOutKeeps ==
    ASSUME NEW buffer, NEW size, Sized(buffer, size), NEW at \in Nat, NEW my, Addressed(my),
           NEW last \in Nat, at + ETH_HEADER_LEN <= last
    PROVE  Keeps(arpIpOut(buffer, at, my), buffer, size, last)
<1>. DEFINE values == [type |-> Short(2048), srcAddr |-> my.hwAddr, desAddr |-> my.to]
<1>1. InFront(at, ethHeader, values, last)
  <2>. SUFFICES ASSUME NEW f \in DOMAIN values
                PROVE  ethHeader[f] \in Nat
                       /\ \E len : Sized(values[f], len) /\ at + ethHeader[f] + len <= last
    BY DEF InFront
  <2>1. CASE f = "type"
    <3>1. ethHeader[f] = 12 /\ Sized(values[f], 2)
      BY <2>1, FieldsSized DEF ethHeader
    <3>. HIDE DEF values
    <3>. QED
      BY <3>1 DEF ETH_HEADER_LEN
  <2>2. CASE f = "srcAddr"
    <3>1. ethHeader[f] = 6 /\ Sized(values[f], 6)
      BY <2>2 DEF ethHeader, Addressed
    <3>. HIDE DEF values
    <3>. QED
      BY <3>1 DEF ETH_HEADER_LEN
  <2>3. CASE f = "desAddr"
    <3>1. ethHeader[f] = 0 /\ Sized(values[f], 6)
      BY <2>3 DEF ethHeader, Addressed
    <3>. HIDE DEF values
    <3>. QED
      BY <3>1 DEF ETH_HEADER_LEN
  <2>. QED
    BY <2>1, <2>2, <2>3
<1>2. arpIpOut(buffer, at, my) = Fill(buffer, at, ethHeader, values)
  BY DEF arpIpOut
<1>. HIDE DEF values
<1>3. Keeps(Fill(buffer, at, ethHeader, values), buffer, size, last)
  BY <1>1, FillKeeps
<1>. QED
  BY <1>2, <1>3

\* The stores of ipSend in front of its data.
LEMMA IpSendKeeps ==
    ASSUME NEW buffer, NEW size, Sized(buffer, size), NEW my, Addressed(my),
           NEW dstIp, Sized(dstIp, 4), NEW protocol, NEW length,
           NEW ipData \in Nat, ipData >= ETH_HEADER_LEN + IP_HEADER_LEN
    PROVE  Keeps(ipSend(buffer, my, dstIp, protocol, length, ipData).buffer, buffer, size, ipData)
<1>. DEFINE ipPacket == ipData - IP_HEADER_LEN
            ethPacket == ipPacket - ETH_HEADER_LEN
            total == length + IP_HEADER_LEN
            values == [desIPAddr |-> dstIp, srcIPAddr |-> my.ipAddr, Protocol |-> <<protocol>>,
             Len |-> Short(total), verHdrLen |-> <<69>>, ToS |-> <<0>>,
             IDNumber |-> Zeros(2), Offset |-> Zeros(2), TTL |-> <<IP_TIME_TO_LIVE>>,
             Checksum |-> Zeros(2)]
            header == Fill(buffer, ipPacket, ipHeader, values)
            check == Sums!ipChecksum(Read(header, ipPacket, IP_HEADER_LEN))
            packet == Fill(header, ipPacket, ipHeader, [Checksum |-> check])
            frame == arpIpOut(packet, ethPacket, my)
<1>1. /\ ipPacket \in Nat /\ ethPacket \in Nat /\ ethPacket + ETH_HEADER_LEN <= ipData
      /\ ipPacket + 20 = ipData
  BY DEF ETH_HEADER_LEN, IP_HEADER_LEN
<1>. HIDE DEF ipPacket, ethPacket
<1>2. InFront(ipPacket, ipHeader, values, ipData)
  <2>. SUFFICES ASSUME NEW f \in DOMAIN values
                PROVE  ipHeader[f] \in Nat
                       /\ \E len : Sized(values[f], len) /\ ipPacket + ipHeader[f] + len <= ipData
    BY DEF InFront
  <2>. HIDE DEF total
  <2>1. f \in {"desIPAddr", "srcIPAddr"} \/ f \in {"Len", "IDNumber", "Offset", "Checksum"}
        \/ f \in {"Protocol", "verHdrLen", "ToS", "TTL"}
    OBVIOUS
  <2>2. CASE f \in {"desIPAddr", "srcIPAddr"}
    <3>1. ipHeader[f] \in {12, 16} /\ Sized(values[f], 4)
      BY <2>2 DEF ipHeader, Addressed
    <3>. HIDE DEF values
    <3>. QED
      BY <1>1, <3>1
  <2>3. CASE f \in {"Len", "IDNumber", "Offset", "Checksum"}
    <3>1. ipHeader[f] \in {2, 4, 6, 10} /\ Sized(values[f], 2)
      BY <2>3, FieldsSized DEF ipHeader
    <3>. HIDE DEF values
    <3>. QED
      BY <1>1, <3>1
  <2>4. CASE f \in {"Protocol", "verHdrLen", "ToS", "TTL"}
    <3>1. ipHeader[f] \in {0, 1, 8, 9} /\ Sized(values[f], 1)
      BY <2>4, FieldsSized DEF ipHeader
    <3>. HIDE DEF values
    <3>. QED
      BY <1>1, <3>1
  <2>. QED
    BY <2>1, <2>2, <2>3, <2>4
<1>. HIDE DEF values
<1>3. Keeps(header, buffer, size, ipData)
  BY <1>1, <1>2, FillKeeps
<1>. HIDE DEF header
<1>4. InFront(ipPacket, ipHeader, [Checksum |-> check], ipData)
  <2>1. Sized(check, 2)
    BY ChecksSized
  <2>. HIDE DEF check
  <2>. QED
    BY <1>1, <2>1 DEF InFront, ipHeader
<1>. HIDE DEF check
<1>5. Keeps(packet, header, size, ipData)
  BY <1>1, <1>3, <1>4, FillKeeps DEF Keeps
<1>. HIDE DEF packet
<1>6. Keeps(frame, packet, size, ipData)
  BY <1>1, <1>5, ArpIpOutKeeps DEF Keeps
<1>. HIDE DEF frame
<1>7. Keeps(frame, buffer, size, ipData)
  BY <1>3, <1>5, <1>6, KeepsAgain
<1>8. ipSend(buffer, my, dstIp, protocol, length, ipData).buffer = frame
  BY DEF ipSend, ethSendFrame, frame, packet, check, header, values, total, ethPacket, ipPacket
<1>. QED
  BY <1>7, <1>8

\* A session's fields of the right length.
Session(ses) ==
    /\ Sized(ses.srcPort, 2) /\ Sized(ses.desPort, 2) /\ Sized(ses.desIP, 4)
    /\ Sized(ses.SeqNumber, 4) /\ Sized(ses.AckNumber, 4)

\* TCPPackedSend writes nothing behind where the data begins, unless it is a SYN,
\* whose options go there: not with the pseudo header, not with the headers.
LEMMA TCPPackedSendKeeps ==
    ASSUME NEW buffer, NEW size, Sized(buffer, size), NEW my, Addressed(my),
           NEW ses, Session(ses), NEW flags, ~Has(flags, TCP_SYN_FLAG),
           NEW dataBuffer \in Nat,
           dataBuffer >= ETH_HEADER_LEN + IP_HEADER_LEN + TCP_HEADER_LEN
    PROVE  Keeps(TCPPackedSend(buffer, my, ses, flags, dataBuffer).buffer, buffer, size, dataBuffer)
<1>. DEFINE options == SynOptions(flags)
            len == TCP_HEADER_LEN + Len(options)
            at == dataBuffer - TCP_HEADER_LEN
            ipPacket == at - IP_HEADER_LEN
            values == [options |-> options, Srcport |-> ses.srcPort, DstPort |-> ses.desPort,
             SeqNumber |-> ses.SeqNumber, AckNumber |-> ses.AckNumber,
             Offset |-> <<len * 4>>, Flags |-> <<flags>>, Windown |-> Short(8192),
             Checksum |-> Zeros(2), Urgenpt |-> Zeros(2)]
            segment == Fill(buffer, at, tcpHeader, values)
            over == [srcIPAddr |-> my.ipAddr, desIPAddr |-> ses.desIP, Checksum |-> Short(len),
                     TTL |-> <<0>>, Protocol |-> <<IP_PROTO_TCP>>]
            pseudo == Fill(segment, ipPacket, ipHeader, over)
            check == Sums!checksum(Read(pseudo, at - IP_HEADER_LEN + ipHeader.TTL, len + 12))
            complete == Fill(pseudo, at, tcpHeader, [Checksum |-> check])
            sent == ipSend(complete, my, ses.desIP, IP_PROTO_TCP, len, at)
<1>1. /\ at \in Nat /\ at + 20 = dataBuffer /\ ipPacket \in Nat /\ ipPacket + 20 = at
      /\ at >= ETH_HEADER_LEN + IP_HEADER_LEN
  BY DEF ETH_HEADER_LEN, IP_HEADER_LEN, TCP_HEADER_LEN
<1>2. Sized(options, 0)
  BY FieldsSized, Zenon DEF SynOptions
<1>3. TCPPackedSend(buffer, my, ses, flags, dataBuffer).buffer = sent.buffer
  BY DEF TCPPackedSend, PseudoHeader
<1>. HIDE DEF options, len, at, ipPacket
<1>4. InFront(at, tcpHeader, values, dataBuffer)
  <2>. SUFFICES ASSUME NEW f \in DOMAIN values
                PROVE  tcpHeader[f] \in Nat
                       /\ \E length : /\ Sized(values[f], length)
                                      /\ at + tcpHeader[f] + length <= dataBuffer
    BY DEF InFront
  <2>1. f = "options" \/ f \in {"Srcport", "DstPort", "Windown", "Checksum", "Urgenpt"}
        \/ f \in {"SeqNumber", "AckNumber"} \/ f \in {"Offset", "Flags"}
    OBVIOUS
  <2>2. CASE f = "options"
    <3>1. tcpHeader[f] = 20 /\ Sized(values[f], 0)
      BY <1>2, <2>2 DEF tcpHeader
    <3>. HIDE DEF values
    <3>. QED
      BY <1>1, <3>1
  <2>3. CASE f \in {"Srcport", "DstPort", "Windown", "Checksum", "Urgenpt"}
    <3>1. tcpHeader[f] \in {0, 2, 14, 16, 18} /\ Sized(values[f], 2)
      BY <2>3, FieldsSized DEF tcpHeader, Session
    <3>. HIDE DEF values
    <3>. QED
      BY <1>1, <3>1
  <2>4. CASE f \in {"SeqNumber", "AckNumber"}
    <3>1. tcpHeader[f] \in {4, 8} /\ Sized(values[f], 4)
      BY <2>4 DEF tcpHeader, Session
    <3>. HIDE DEF values
    <3>. QED
      BY <1>1, <3>1
  <2>5. CASE f \in {"Offset", "Flags"}
    <3>1. tcpHeader[f] \in {12, 13} /\ Sized(values[f], 1)
      BY <2>5, FieldsSized DEF tcpHeader
    <3>. HIDE DEF values
    <3>. QED
      BY <1>1, <3>1
  <2>. QED
    BY <2>1, <2>2, <2>3, <2>4, <2>5
<1>. HIDE DEF values
<1>5. Keeps(segment, buffer, size, dataBuffer)
  BY <1>1, <1>4, FillKeeps
<1>. HIDE DEF segment
<1>6. InFront(ipPacket, ipHeader, over, at)
  <2>. SUFFICES ASSUME NEW f \in DOMAIN over
                PROVE  ipHeader[f] \in Nat
                       /\ \E length : /\ Sized(over[f], length)
                                      /\ ipPacket + ipHeader[f] + length <= at
    BY DEF InFront
  <2>1. f \in {"srcIPAddr", "desIPAddr"} \/ f = "Checksum" \/ f \in {"TTL", "Protocol"}
    OBVIOUS
  <2>2. CASE f \in {"srcIPAddr", "desIPAddr"}
    <3>1. ipHeader[f] \in {12, 16} /\ Sized(over[f], 4)
      BY <2>2 DEF ipHeader, Session, Addressed
    <3>. HIDE DEF over
    <3>. QED
      BY <1>1, <3>1
  <2>3. CASE f = "Checksum"
    <3>1. ipHeader[f] = 10 /\ Sized(over[f], 2)
      BY <2>3, FieldsSized DEF ipHeader
    <3>. HIDE DEF over
    <3>. QED
      BY <1>1, <3>1
  <2>4. CASE f \in {"TTL", "Protocol"}
    <3>1. ipHeader[f] \in {8, 9} /\ Sized(over[f], 1)
      BY <2>4, FieldsSized DEF ipHeader
    <3>. HIDE DEF over
    <3>. QED
      BY <1>1, <3>1
  <2>. QED
    BY <2>1, <2>2, <2>3, <2>4
<1>. HIDE DEF over
<1>7. Keeps(pseudo, segment, size, at)
  BY <1>1, <1>5, <1>6, FillKeeps DEF Keeps
<1>. HIDE DEF pseudo
<1>8. InFront(at, tcpHeader, [Checksum |-> check], dataBuffer)
  <2>1. Sized(check, 2)
    BY ChecksSized
  <2>. HIDE DEF check
  <2>. QED
    BY <1>1, <2>1 DEF InFront, tcpHeader
<1>. HIDE DEF check
<1>9. Keeps(complete, pseudo, size, dataBuffer)
  BY <1>1, <1>7, <1>8, FillKeeps DEF Keeps
<1>. HIDE DEF complete
<1>10. Keeps(sent.buffer, complete, size, at)
  BY <1>1, <1>9, IpSendKeeps DEF Keeps, Session
<1>. HIDE DEF sent
<1>11. Keeps(pseudo, buffer, size, dataBuffer)
  BY <1>1, <1>5, <1>7, KeepsAgain
<1>12. Keeps(complete, buffer, size, dataBuffer)
  BY <1>9, <1>11, KeepsAgain
<1>13. Keeps(sent.buffer, buffer, size, dataBuffer)
  BY <1>1, <1>10, <1>12, KeepsAgain
<1>. QED
  BY <1>3, <1>13

\* A sequence number further on has four bytes, too.
LEMMA PlusSized ==
    ASSUME NEW four, NEW more
    PROVE  Sized(Plus(four, more), 4)
<1>. DEFINE carry[k \in 1 .. 4] ==
                IF k = 4 THEN more ELSE (four[k + 1] + carry[k + 1]) \div 256
            sum == [k \in 1 .. 4 |-> (four[k] + carry[k]) % 256]
<1>1. Plus(four, more) = sum
  BY Zenon DEF Plus
<1>. HIDE DEF carry
<1>2. Sized(sum, 4)
  BY DEF Sized
<1>. QED
  BY <1>1, <1>2, Zenon

\* The buffer after the answers.
AfterAll(answers, buffer) == IF answers = <<>> THEN buffer ELSE answers[Len(answers)].buffer

\* Whatever TCPProcess answers to a segment that is no SYN, the data stays.
LEMMA TCPRepliesKeep ==
    ASSUME NEW buffer, NEW size, Sized(buffer, size), NEW my, Addressed(my),
           NEW tcpData \in Nat, tcpData = Segment(buffer).tcpData, tcpData <= size,
           tcpData >= ETH_HEADER_LEN + IP_HEADER_LEN + TCP_HEADER_LEN,
           buffer[Inner + tcpHeader.Flags + 1] # TCP_SYN_FLAG
    PROVE  Keeps(AfterAll(TCPReplies(buffer, my), buffer), buffer, size, tcpData)
<1>. DEFINE Field(field, len) == Read(buffer, Inner + tcpHeader[field], len)
            flags == Field("Flags", 1)[1]
            dataLen == Segment(buffer).dataLen
            srcPort == Short(60000)
            desPort == Field("Srcport", 2)
            desIP == Read(buffer, Packet + ipHeader.srcIPAddr, 4)
            seq == Field("SeqNumber", 4)
            ack == Field("AckNumber", 4)
            Ses(more) == [srcPort |-> srcPort, desPort |-> desPort, desIP |-> desIP,
                          SeqNumber |-> ack, AckNumber |-> Plus(seq, more)]
            Reply(in, more, reply) == TCPPackedSend(in, my, Ses(more), reply, tcpData)
            first == Reply(buffer, dataLen + 1, TCP_ACK_FLAG)
            second == Reply(first.buffer, dataLen + 1, TCP_FIN_FLAG + TCP_ACK_FLAG)
            pushed == Reply(buffer, dataLen, TCP_ACK_FLAG)
<1>1. /\ size \in Nat /\ size >= 54 /\ Inner = 34 /\ Packet = 14
      /\ tcpHeader["Flags"] = 13 /\ tcpHeader["Srcport"] = 0 /\ tcpHeader["SeqNumber"] = 4
      /\ tcpHeader["AckNumber"] = 8 /\ ipHeader.srcIPAddr = 12
  BY SizedIs DEF ETH_HEADER_LEN, IP_HEADER_LEN, TCP_HEADER_LEN, Inner, Packet, tcpHeader, ipHeader
<1>2. ASSUME NEW at \in 0 .. 48, NEW len \in 0 .. 6
      PROVE  Copied(Read(buffer, at, len), buffer, at, len)
  <2>1. at \in Nat /\ len \in Nat /\ at + len <= size
    BY <1>1
  <2>. QED
    BY <2>1, ReadIs
<1>3. flags # TCP_SYN_FLAG
  <2>1. Copied(Field("Flags", 1), buffer, 47, 1)
    BY <1>1, <1>2
  <2>2. flags = buffer[48]
    <3>. HIDE DEF Field
    <3>. QED
      BY <2>1 DEF Copied
  <2>. HIDE DEF flags
  <2>. QED
    BY <1>1, <2>2
<1>4. Sized(desPort, 2) /\ Sized(desIP, 4) /\ Sized(ack, 4) /\ Sized(srcPort, 2)
  <2>1. Copied(desPort, buffer, 34, 2) /\ Copied(desIP, buffer, 26, 4) /\ Copied(ack, buffer, 42, 4)
    BY <1>1, <1>2
  <2>. HIDE DEF desPort, desIP, ack, srcPort
  <2>2. Sized(srcPort, 2)
    BY FieldsSized DEF srcPort
  <2>. QED
    BY <2>1, <2>2, Zenon DEF Copied
<1>5. TCPReplies(buffer, my) \in {<<>>, <<pushed>>, <<first, second>>}
  <2>. DEFINE syn == [srcPort |-> srcPort, desPort |-> desPort, desIP |-> desIP,
                      SeqNumber |-> seq, AckNumber |-> Plus(seq, 1)]
              opened == TCPPackedSend(buffer, my, syn, TCP_SYN_FLAG + TCP_ACK_FLAG, tcpData)
  <2>1. TCPReplies(buffer, my) =
          IF flags = TCP_SYN_FLAG THEN <<opened>>
          ELSE IF Has(flags, TCP_FIN_FLAG) THEN <<first, second>>
          ELSE IF Has(flags, TCP_PSH_FLAG) THEN <<pushed>> ELSE <<>>
    BY DEF TCPReplies
  <2>. HIDE DEF first, second, pushed, opened, flags
  <2>. QED
    BY <1>3, <2>1
<1>. HIDE DEF flags, dataLen, srcPort, desPort, desIP, seq, ack
<1>6. ASSUME NEW more
      PROVE  Session(Ses(more))
  BY <1>4, PlusSized DEF Session
<1>. HIDE DEF Ses
<1>7. ~Has(TCP_ACK_FLAG, TCP_SYN_FLAG) /\ ~Has(TCP_FIN_FLAG + TCP_ACK_FLAG, TCP_SYN_FLAG)
  BY DEF Has, TCP_ACK_FLAG, TCP_FIN_FLAG, TCP_SYN_FLAG
<1>8. Keeps(first.buffer, buffer, size, tcpData) /\ Keeps(pushed.buffer, buffer, size, tcpData)
  BY <1>6, <1>7, TCPPackedSendKeeps
<1>. HIDE DEF first
<1>9. Keeps(second.buffer, first.buffer, size, tcpData)
  <2>1. Sized(first.buffer, size)
    BY <1>8 DEF Keeps
  <2>. QED
    BY <1>6, <1>7, <2>1, TCPPackedSendKeeps
<1>. HIDE DEF second, pushed
<1>10. Keeps(second.buffer, buffer, size, tcpData)
  BY <1>8, <1>9, KeepsAgain
<1>11. Keeps(buffer, buffer, size, tcpData)
  BY DEF Keeps
<1>12. /\ AfterAll(<<>>, buffer) = buffer
       /\ AfterAll(<<pushed>>, buffer) = pushed.buffer
       /\ AfterAll(<<first, second>>, buffer) = second.buffer
  BY DEF AfterAll
<1>. QED
  BY <1>5, <1>8, <1>10, <1>11, <1>12

\* A segment as the RFC lays it out, with o bytes of options and p of data.
SegmentLaid(segment, flags, payload, o, p) ==
    /\ Sized(segment, 20 + o + p)
    /\ segment[13] = (20 + o) * 4 /\ segment[14] = flags
    /\ \A i \in 1 .. p : segment[20 + o + i] = payload[i]

\* Tcp lays it out like that, whatever the addresses, the numbers and the flags.
LEMMA TcpLaidOut ==
    ASSUME NEW src, NEW des, NEW ports, Sized(ports, 4), NEW seq, Sized(seq, 4),
           NEW ack, Sized(ack, 4), NEW flags, NEW options, NEW o, Sized(options, o),
           NEW payload, NEW p, Sized(payload, p)
    PROVE  SegmentLaid(Tcp(src, des, ports, seq, ack, flags, options, payload),
                       flags, payload, o, p)
<1>. DEFINE fixed == <<(20 + Len(options)) * 4, flags, 32, 0>>
            urgent == <<0, 0>>
            h1 == ports \o seq
            h2 == h1 \o ack
            h3 == h2 \o fixed
            Header(check) == ((h3 \o check) \o urgent) \o options
            length == Len(Header(urgent) \o payload)
            pseudo == src \o des \o <<0, 6>> \o Short(length)
            check == Sums!checksum(pseudo \o Header(urgent) \o payload)
            h4 == h3 \o check
            h5 == h4 \o urgent
            h6 == h5 \o options
            segment == h6 \o payload
<1>1. Tcp(src, des, ports, seq, ack, flags, options, payload) = segment
  BY Zenon DEF Tcp
<1>2. Sized(check, 2) /\ Sized(fixed, 4) /\ Sized(urgent, 2)
  <2>1. Sized(check, 2)
    BY ChecksSized
  <2>. HIDE DEF check
  <2>2. Sized(fixed, 4) /\ Sized(urgent, 2)
    BY DEF Sized
  <2>. QED
    BY <2>1, <2>2
<1>3. fixed[1] = (20 + o) * 4 /\ fixed[2] = flags /\ o \in Nat /\ p \in Nat
  BY SizedIs
<1>. HIDE DEF check, fixed, urgent
<1>4. Adjoined(h1, ports, 4, seq, 4)
  BY SizedJoin
<1>. HIDE DEF h1
<1>5. Adjoined(h2, h1, 8, ack, 4)
  <2>1. Sized(h1, 8)
    BY <1>4 DEF Adjoined
  <2>. QED
    BY <2>1, SizedJoin
<1>. HIDE DEF h2
<1>6. Adjoined(h3, h2, 12, fixed, 4)
  <2>1. Sized(h2, 12)
    BY <1>5 DEF Adjoined
  <2>. QED
    BY <1>2, <2>1, SizedJoin
<1>. HIDE DEF h3
<1>7. Adjoined(h4, h3, 16, check, 2)
  <2>1. Sized(h3, 16)
    BY <1>6 DEF Adjoined
  <2>. QED
    BY <1>2, <2>1, SizedJoin
<1>. HIDE DEF h4
<1>8. Adjoined(h5, h4, 18, urgent, 2)
  <2>1. Sized(h4, 18)
    BY <1>7 DEF Adjoined
  <2>. QED
    BY <1>2, <2>1, SizedJoin
<1>. HIDE DEF h5
<1>9. Adjoined(h6, h5, 20, options, o)
  <2>1. Sized(h5, 20)
    BY <1>8 DEF Adjoined
  <2>. QED
    BY <2>1, SizedJoin
<1>. HIDE DEF h6
<1>10. Adjoined(segment, h6, 20 + o, payload, p)
  <2>1. Sized(h6, 20 + o)
    BY <1>9 DEF Adjoined
  <2>. QED
    BY <2>1, SizedJoin
<1>. HIDE DEF segment
<1>11. /\ Sized(segment, 20 + o + p) /\ \A i \in 1 .. p : segment[20 + o + i] = payload[i]
       /\ \A i \in 1 .. 20 + o : segment[i] = h6[i]
  BY <1>10, Zenon DEF Adjoined
<1>12. ASSUME NEW i \in 13 .. 14
       PROVE  segment[i] = fixed[i - 12]
  <2>1. segment[i] = h6[i]
    BY <1>3, <1>11
  <2>2. h6[i] = h5[i] /\ h5[i] = h4[i] /\ h4[i] = h3[i]
    BY <1>7, <1>8, <1>9 DEF Adjoined
  <2>3. h3[i] = fixed[i - 12]
    <3>. DEFINE j == i - 12
    <3>1. j \in 1 .. 4 /\ i = 12 + j
      OBVIOUS
    <3>. HIDE DEF j
    <3>2. h3[12 + j] = fixed[j]
      BY <1>6, <3>1 DEF Adjoined
    <3>. QED
      BY <3>1, <3>2 DEF j
  <2>. QED
    BY <2>1, <2>2, <2>3
<1>13. segment[13] = fixed[1] /\ segment[14] = fixed[2]
  BY <1>12
<1>14. SegmentLaid(segment, flags, payload, o, p)
  BY <1>3, <1>11, <1>13 DEF SegmentLaid
<1>. QED
  BY <1>1, <1>14, Zenon

\* A packet as the RFC lays it out, with p bytes behind its header.
PacketLaid(packet, payload, p) ==
    /\ Sized(packet, 20 + p)
    /\ packet[1] = 69
    /\ packet[3] = Short(20 + p)[1] /\ packet[4] = Short(20 + p)[2]
    /\ \A i \in 1 .. p : packet[20 + i] = payload[i]

\* Ipv4 lays it out like that.
LEMMA Ipv4LaidOut ==
    ASSUME NEW protocol, NEW ttl, NEW src, Sized(src, 4), NEW des, Sized(des, 4),
           NEW payload, NEW p, Sized(payload, p)
    PROVE  PacketLaid(Ipv4(protocol, ttl, src, des, payload), payload, p)
<1>. DEFINE version == <<69, 0>>
            length == Short(20 + Len(payload))
            fixed == <<0, 0, 0, 0, ttl, protocol>>
            h1 == version \o length
            h2 == h1 \o fixed
            Header(check) == ((h2 \o check) \o src) \o des
            check == Sums!checksum(Header(<<0, 0>>))
            h3 == h2 \o check
            h4 == h3 \o src
            h5 == h4 \o des
            packet == h5 \o payload
<1>1. Ipv4(protocol, ttl, src, des, payload) = packet
  BY Zenon DEF Ipv4
<1>2. Sized(version, 2) /\ Sized(length, 2) /\ Sized(fixed, 6) /\ Sized(check, 2)
  <2>1. Sized(check, 2)
    BY ChecksSized
  <2>. HIDE DEF check
  <2>2. Sized(version, 2) /\ Sized(fixed, 6)
    BY DEF Sized
  <2>3. Sized(length, 2)
    BY FieldsSized, Zenon
  <2>. QED
    BY <2>1, <2>2, <2>3
<1>3. version[1] = 69 /\ length = Short(20 + p) /\ p \in Nat
  BY SizedIs
<1>. HIDE DEF check, version, length, fixed
<1>4. Adjoined(h1, version, 2, length, 2)
  BY <1>2, SizedJoin
<1>. HIDE DEF h1
<1>5. Adjoined(h2, h1, 4, fixed, 6)
  <2>1. Sized(h1, 4)
    BY <1>4 DEF Adjoined
  <2>. QED
    BY <1>2, <2>1, SizedJoin
<1>. HIDE DEF h2
<1>6. Adjoined(h3, h2, 10, check, 2)
  <2>1. Sized(h2, 10)
    BY <1>5 DEF Adjoined
  <2>. QED
    BY <1>2, <2>1, SizedJoin
<1>. HIDE DEF h3
<1>7. Adjoined(h4, h3, 12, src, 4)
  <2>1. Sized(h3, 12)
    BY <1>6 DEF Adjoined
  <2>. QED
    BY <2>1, SizedJoin
<1>. HIDE DEF h4
<1>8. Adjoined(h5, h4, 16, des, 4)
  <2>1. Sized(h4, 16)
    BY <1>7 DEF Adjoined
  <2>. QED
    BY <2>1, SizedJoin
<1>. HIDE DEF h5
<1>9. Adjoined(packet, h5, 20, payload, p)
  <2>1. Sized(h5, 20)
    BY <1>8 DEF Adjoined
  <2>. QED
    BY <2>1, SizedJoin
<1>. HIDE DEF packet
<1>10. /\ Sized(packet, 20 + p) /\ \A i \in 1 .. p : packet[20 + i] = payload[i]
       /\ \A i \in 1 .. 20 : packet[i] = h5[i]
  BY <1>9, Zenon DEF Adjoined
<1>11. ASSUME NEW i \in 1 .. 4
       PROVE  packet[i] = h1[i]
  <2>1. packet[i] = h5[i]
    BY <1>10
  <2>. QED
    BY <2>1, <1>5, <1>6, <1>7, <1>8 DEF Adjoined
<1>12. h1[1] = version[1] /\ h1[2 + 1] = length[1] /\ h1[2 + 2] = length[2]
  BY <1>4 DEF Adjoined
<1>13. packet[1] = version[1] /\ packet[3] = length[1] /\ packet[4] = length[2]
  BY <1>11, <1>12
<1>14. PacketLaid(packet, payload, p)
  BY <1>3, <1>10, <1>13 DEF PacketLaid
<1>. QED
  BY <1>1, <1>14, Zenon

\* A frame as the standard lays it out.
LEMMA EthernetLaidOut ==
    ASSUME NEW des, Sized(des, 6), NEW src, Sized(src, 6), NEW type,
           NEW payload, NEW p, Sized(payload, p)
    PROVE  LET frame == Ethernet(des, src, type, payload)
           IN  Sized(frame, 14 + p) /\ \A i \in 1 .. p : frame[14 + i] = payload[i]
<1>. DEFINE h1 == des \o src
            h2 == h1 \o Short(type)
            frame == h2 \o payload
<1>1. Ethernet(des, src, type, payload) = frame
  BY Zenon DEF Ethernet
<1>2. Sized(h1, 12)
  <2>1. Adjoined(h1, des, 6, src, 6)
    BY SizedJoin
  <2>. HIDE DEF h1
  <2>. QED
    BY <2>1 DEF Adjoined
<1>. HIDE DEF h1
<1>3. Sized(h2, 14)
  <2>1. Adjoined(h2, h1, 12, Short(type), 2)
    BY <1>2, FieldsSized, SizedJoin
  <2>. HIDE DEF h2
  <2>. QED
    BY <2>1 DEF Adjoined
<1>. HIDE DEF h2
<1>4. Adjoined(frame, h2, 14, payload, p)
  BY <1>3, SizedJoin
<1>. HIDE DEF frame
<1>5. Sized(frame, 14 + p) /\ \A i \in 1 .. p : frame[14 + i] = payload[i]
  BY <1>4, Zenon DEF Adjoined
<1>. QED
  BY <1>1, <1>5

\* A segment TCPProcess gets for an established session: as many options as
\* its header can have, any data that fits into the buffer with the 0 behind it.
SegmentOf(q, o, p) ==
    /\ q.kind \in {"data", "push", "fin"}
    /\ Sized(q.seq, 4)
    /\ Sized(q.options, o) /\ o <= 40 /\ o % 4 = 0
    /\ Sized(q.payload, p)
    /\ 55 + o + p <= BufferSize

\* Its frame in the buffer, with a 0 behind it.
SegmentIn(buffer, q, o, p) ==
    /\ Sized(buffer, BufferSize)
    /\ buffer[15] = 69
    /\ buffer[17] = Short(40 + o + p)[1] /\ buffer[18] = Short(40 + o + p)[2]
    /\ buffer[47] = (20 + o) * 4 /\ buffer[48] = FlagsOf(q.kind)
    /\ \A i \in 1 .. p : buffer[54 + o + i] = q.payload[i]
    /\ buffer[55 + o + p] = 0

\* Received has it like that.
LEMMA SegmentReceived ==
    ASSUME NEW q, NEW o \in Nat, NEW p \in Nat, SegmentOf(q, o, p)
    PROVE  SegmentIn(Received(q), q, o, p)
<1>. DEFINE payload == q.payload
            ports == ClientPort \o Short(60000)
            flags == FlagsOf(q.kind)
            segment == Tcp(Client.ipAddr, Board.ipAddr, ports, q.seq, Ack, flags,
                           q.options, payload)
            packet == Ipv4(IP_PROTO_TCP, 64, Client.ipAddr, Board.ipAddr, segment)
            frame == Ethernet(Board.hwAddr, Client.hwAddr, 2048, packet)
            buffer == Received(q)
<1>1. FrameOf(q) = frame
  <2>1. DataOf(q) = payload
    BY DEF DataOf, SegmentOf
  <2>2. CASE q.kind = "data"
    BY <2>1, <2>2 DEF FrameOf
  <2>3. CASE q.kind = "push"
    BY <2>1, <2>3 DEF FrameOf
  <2>4. CASE q.kind = "fin"
    BY <2>1, <2>4 DEF FrameOf
  <2>. QED
    BY <2>2, <2>3, <2>4 DEF SegmentOf
<1>2. /\ Sized(Client.ipAddr, 4) /\ Sized(Board.ipAddr, 4) /\ Sized(Client.hwAddr, 6)
      /\ Sized(Board.hwAddr, 6) /\ Sized(Ack, 4) /\ Sized(ClientPort, 2)
  BY DEF Sized, Client, Board, Ack, ClientPort
<1>3. Sized(ports, 4)
  <2>1. Adjoined(ports, ClientPort, 2, Short(60000), 2)
    BY <1>2, FieldsSized, SizedJoin
  <2>. HIDE DEF ports
  <2>. QED
    BY <2>1 DEF Adjoined
<1>. HIDE DEF ports, flags
<1>4. Sized(q.seq, 4) /\ Sized(q.options, o) /\ Sized(payload, p) /\ 55 + o + p <= 320
  BY DEF SegmentOf, BufferSize
<1>5. /\ Sized(segment, 20 + o + p)
      /\ segment[13] = (20 + o) * 4 /\ segment[14] = flags
      /\ \A i \in 1 .. p : segment[20 + o + i] = payload[i]
  <2>. HIDE DEF payload
  <2>1. SegmentLaid(segment, flags, payload, o, p)
    BY <1>2, <1>3, <1>4, TcpLaidOut, Zenon
  <2>. HIDE DEF segment
  <2>. QED
    BY <2>1 DEF SegmentLaid
<1>. HIDE DEF segment
<1>6. /\ Sized(packet, 20 + (20 + o + p)) /\ packet[1] = 69
      /\ packet[3] = Short(20 + (20 + o + p))[1] /\ packet[4] = Short(20 + (20 + o + p))[2]
      /\ \A i \in 1 .. 20 + o + p : packet[20 + i] = segment[i]
  <2>. DEFINE length == 20 + o + p
  <2>. HIDE DEF length
  <2>1. Sized(segment, length)
    BY <1>5, Zenon DEF length
  <2>2. PacketLaid(packet, segment, length)
    BY <1>2, <2>1, Ipv4LaidOut, Zenon
  <2>. HIDE DEF packet
  <2>. QED
    BY <2>2 DEF PacketLaid, length
<1>. HIDE DEF packet
<1>7. /\ Sized(frame, 14 + (20 + (20 + o + p)))
      /\ \A i \in 1 .. 20 + (20 + o + p) : frame[14 + i] = packet[i]
  BY <1>2, <1>6, EthernetLaidOut
<1>. HIDE DEF frame
<1>8. DOMAIN frame = 1 .. 54 + o + p /\ Len(frame) = 54 + o + p
  <2>1. 14 + (20 + (20 + o + p)) = 54 + o + p
    OBVIOUS
  <2>. QED
    BY <1>7, <2>1, SizedIs
<1>9. ASSUME NEW k \in 1 .. 320
      PROVE  buffer[k] = IF k <= 54 + o + p THEN frame[k]
                         ELSE IF k <= Max({60, 54 + o + p}) + 1 THEN 0 ELSE behind
  <2>1. k \in DOMAIN frame <=> k <= 54 + o + p
    BY <1>8
  <2>2. q.kind # "discover"
    BY DEF SegmentOf
  <2>. HIDE DEF payload
  <2>. QED
    BY <1>1, <1>8, <2>1, <2>2 DEF Received, BufferSize, MinFrame
<1>10. Sized(buffer, BufferSize)
  BY DEF Sized, Received, BufferSize
<1>. HIDE DEF buffer
<1>11. ASSUME NEW i \in 1 .. 40 + o + p
       PROVE  buffer[14 + i] = packet[i]
  <2>. DEFINE k == 14 + i
  <2>1. k \in 1 .. 320 /\ k <= 54 + o + p
    BY <1>4
  <2>. HIDE DEF k
  <2>2. buffer[k] = frame[k]
    BY <1>9, <2>1
  <2>3. i \in 1 .. 20 + (20 + o + p)
    OBVIOUS
  <2>4. frame[14 + i] = packet[i]
    BY <1>7, <2>3
  <2>. QED
    BY <2>2, <2>4 DEF k
<1>12. ASSUME NEW i \in 1 .. 20 + o + p
       PROVE  buffer[34 + i] = segment[i]
  <2>. DEFINE j == 20 + i
  <2>1. j \in 1 .. 40 + o + p /\ 14 + j = 34 + i
    OBVIOUS
  <2>2. packet[j] = segment[i]
    BY <1>6
  <2>. HIDE DEF j
  <2>3. buffer[14 + j] = packet[j]
    BY <1>11, <2>1
  <2>. QED
    BY <2>1, <2>2, <2>3
<1>13. buffer[15] = 69 /\ buffer[17] = Short(40 + o + p)[1] /\ buffer[18] = Short(40 + o + p)[2]
  <2>1. buffer[14 + 1] = packet[1] /\ buffer[14 + 3] = packet[3] /\ buffer[14 + 4] = packet[4]
    BY <1>11
  <2>2. 20 + (20 + o + p) = 40 + o + p
    OBVIOUS
  <2>. QED
    BY <1>6, <2>1, <2>2
<1>14. buffer[47] = (20 + o) * 4 /\ buffer[48] = flags
  <2>1. buffer[34 + 13] = segment[13] /\ buffer[34 + 14] = segment[14]
    BY <1>12
  <2>. QED
    BY <1>5, <2>1
<1>15. ASSUME NEW i \in 1 .. p
       PROVE  buffer[54 + o + i] = payload[i]
  <2>. DEFINE j == 20 + o + i
  <2>1. j \in 1 .. 20 + o + p /\ 34 + j = 54 + o + i
    OBVIOUS
  <2>2. segment[j] = payload[i]
    BY <1>5
  <2>. HIDE DEF j
  <2>3. buffer[34 + j] = segment[j]
    BY <1>12, <2>1
  <2>. QED
    BY <2>1, <2>2, <2>3
<1>16. buffer[55 + o + p] = 0
  <2>. DEFINE lengths == {60, 54 + o + p}
              k == 55 + o + p
  <2>1. Max(lengths) \in Nat /\ Max(lengths) >= 54 + o + p
    <3>1. CASE 60 >= 54 + o + p
      <4>1. Max(lengths) = 60
        <5>1. lengths \subseteq Nat /\ 60 \in lengths /\ \A x \in lengths : 60 >= x
          BY <3>1
        <5>. QED
          BY <5>1, MaxIs
      <4>. QED
        BY <3>1, <4>1
    <3>2. CASE 60 < 54 + o + p
      <4>. DEFINE long == 54 + o + p
      <4>1. Max(lengths) = long
        <5>1. lengths \subseteq Nat /\ long \in lengths /\ \A x \in lengths : long >= x
          BY <3>2
        <5>. QED
          BY <5>1, MaxIs
      <4>. QED
        BY <4>1
    <3>. QED
      BY <3>1, <3>2
  <2>2. k \in 1 .. 320 /\ ~(k <= 54 + o + p)
    BY <1>4
  <2>3. buffer[k] = IF k <= Max(lengths) + 1 THEN 0 ELSE behind
    BY <1>9, <2>2
  <2>. HIDE DEF lengths
  <2>. QED
    BY <2>1, <2>3
<1>. QED
  BY <1>10, <1>13, <1>14, <1>15, <1>16 DEF SegmentIn, buffer, flags, payload

\* A number is the one its two bytes make.
LEMMA ShortIs ==
    ASSUME NEW number \in Nat
    PROVE  Short(number)[1] * 256 + Short(number)[2] = number
<1>1. Short(number)[1] = number \div 256 /\ Short(number)[2] = number % 256
  BY DEF Short
<1>2. (number \div 256) * 256 + (number % 256) = number
  OBVIOUS
<1>. QED
  BY <1>1, <1>2

\* TCPProcess finds the data behind the options.
LEMMA SegmentFound ==
    ASSUME NEW buffer, NEW q, NEW o \in Nat, NEW p \in Nat,
           SegmentOf(q, o, p), SegmentIn(buffer, q, o, p)
    PROVE  Segment(buffer).tcpData = 54 + o /\ Segment(buffer).dataLen = p
<1>. DEFINE ipHeaderLen == (buffer[Packet + 1] % 16) * 4
            tcpHeaderLen == (buffer[Inner + tcpHeader.Offset + 1] \div 16) * 4
            length == Read(buffer, Packet + ipHeader.Len, 2)
<1>1. /\ Packet = 14 /\ Inner = 34 /\ tcpHeader.Offset = 12 /\ ipHeader.Len = 2
      /\ BufferSize = 320
  BY DEF Packet, Inner, tcpHeader, ipHeader, ETH_HEADER_LEN, IP_HEADER_LEN, BufferSize
<1>2. ipHeaderLen = 20
  <2>1. buffer[Packet + 1] = 69
    BY <1>1 DEF SegmentIn
  <2>. QED
    BY <2>1
<1>3. tcpHeaderLen = 20 + o
  <2>1. buffer[Inner + tcpHeader.Offset + 1] = (20 + o) * 4
    BY <1>1 DEF SegmentIn
  <2>2. o % 4 = 0
    BY DEF SegmentOf
  <2>3. (((20 + o) * 4) \div 16) * 4 = 20 + o
    BY <2>2
  <2>. QED
    BY <2>1, <2>3
<1>4. Number(length) = 40 + o + p
  <2>1. Copied(Read(buffer, 16, 2), buffer, 16, 2)
    <3>1. Sized(buffer, 320)
      BY <1>1 DEF SegmentIn
    <3>. QED
      BY <3>1, ReadIs
  <2>2. length = Read(buffer, 16, 2)
    BY <1>1
  <2>. HIDE DEF length
  <2>3. length[1] = buffer[17] /\ length[2] = buffer[18]
    BY <2>1, <2>2 DEF Copied
  <2>4. length[1] = Short(40 + o + p)[1] /\ length[2] = Short(40 + o + p)[2]
    BY <2>3 DEF SegmentIn
  <2>. DEFINE total == 40 + o + p
  <2>5. total \in Nat
    OBVIOUS
  <2>. HIDE DEF total
  <2>6. Short(total)[1] * 256 + Short(total)[2] = total
    BY <2>5, ShortIs
  <2>. QED
    BY <2>4, <2>6 DEF Number, total
<1>5. /\ Segment(buffer).tcpData = Packet + ipHeaderLen + tcpHeaderLen
      /\ Segment(buffer).dataLen = Number(length) - ipHeaderLen - tcpHeaderLen
  BY DEF Segment
<1>. HIDE DEF ipHeaderLen, tcpHeaderLen, length
<1>. QED
  BY <1>1, <1>2, <1>3, <1>4, <1>5

\* What PayloadKept says of one segment.
DataKept(q) ==
    LET answers == Replies(q)
        buffer == IF answers = <<>> THEN Received(q) ELSE answers[Len(answers)].buffer
        segment == Segment(Received(q))
    IN  Read(buffer, segment.tcpData, segment.dataLen + 1) = q.payload \o <<0>>

\* The data of a segment of an established session is still in ethBuffer after the
\* answers, with a 0 behind it, whatever its options and as much data as fits
\* (TCP.c:100-167, 222-228, 380-385): neither the headers nor the pseudo header of an answer, nor the
\* two segments that answer a FIN, reach it.
THEOREM DataOutlivesAnswers ==
    ASSUME NEW q, NEW o \in Nat, NEW p \in Nat, SegmentOf(q, o, p)
    PROVE  DataKept(q)
<1>. DEFINE before == Received(q)
            after == AfterAll(TCPReplies(before, Board), before)
            tcpData == 54 + o
            length == p + 1
            kept == q.payload \o <<0>>
            found == Read(after, tcpData, length)
<1>1. SegmentIn(before, q, o, p)
  BY SegmentReceived
<1>2. Segment(before).tcpData = tcpData /\ Segment(before).dataLen + 1 = length
  BY <1>1, SegmentFound
<1>3. Replies(q) = TCPReplies(before, Board)
  <2>1. CASE q.kind = "data"
    BY <2>1 DEF Replies
  <2>2. CASE q.kind = "push"
    BY <2>2 DEF Replies
  <2>3. CASE q.kind = "fin"
    BY <2>3 DEF Replies
  <2>. QED
    BY <2>1, <2>2, <2>3 DEF SegmentOf
<1>4. DataKept(q) <=> found = kept
  BY <1>2, <1>3, Zenon DEF DataKept, AfterAll
<1>. HIDE DEF before
<1>5. BufferSize = 320 /\ 55 + o + p <= 320 /\ Sized(before, 320)
  BY <1>1 DEF BufferSize, SegmentOf, SegmentIn
<1>6. Keeps(after, before, 320, tcpData)
  <2>1. before[Inner + tcpHeader.Flags + 1] # TCP_SYN_FLAG
    <3>1. Inner = 34 /\ tcpHeader.Flags = 13
      BY DEF Inner, tcpHeader, ETH_HEADER_LEN, IP_HEADER_LEN
    <3>2. before[48] = FlagsOf(q.kind)
      BY <1>1 DEF SegmentIn
    <3>3. FlagsOf(q.kind) # TCP_SYN_FLAG
      BY DEF FlagsOf, SegmentOf, TCP_SYN_FLAG, TCP_ACK_FLAG, TCP_PSH_FLAG, TCP_FIN_FLAG
    <3>. QED
      BY <3>1, <3>2, <3>3
  <2>2. Addressed(Board)
    BY DEF Addressed, Sized, Board, Client
  <2>3. /\ tcpData \in Nat /\ tcpData <= 320
        /\ tcpData >= ETH_HEADER_LEN + IP_HEADER_LEN + TCP_HEADER_LEN
    BY <1>5 DEF ETH_HEADER_LEN, IP_HEADER_LEN, TCP_HEADER_LEN
  <2>. HIDE DEF tcpData
  <2>. QED
    BY <1>2, <1>5, <2>1, <2>2, <2>3, TCPRepliesKeep
<1>. HIDE DEF after
<1>7. Copied(found, after, tcpData, length)
  <2>1. Sized(after, 320)
    BY <1>6 DEF Keeps
  <2>2. tcpData \in Nat /\ length \in Nat /\ tcpData + length <= 320
    BY <1>5
  <2>. HIDE DEF tcpData, length
  <2>. QED
    BY <2>1, <2>2, ReadIs
<1>8. Adjoined(kept, q.payload, p, <<0>>, 1)
  BY FieldsSized, SizedJoin DEF SegmentOf
<1>. HIDE DEF found, kept
<1>9. Sized(found, length) /\ Sized(kept, length)
  BY <1>7, <1>8 DEF Copied, Adjoined
<1>10. ASSUME NEW i \in 1 .. length
       PROVE  found[i] = kept[i]
  <2>1. found[i] = after[54 + o + i]
    BY <1>7 DEF Copied
  <2>2. after[54 + o + i] = before[54 + o + i]
    <3>1. 54 + o + i \in 54 + o + 1 .. 320
      BY <1>5
    <3>. QED
      BY <1>6, <3>1 DEF Keeps
  <2>3. CASE i <= p
    <3>1. i \in 1 .. p
      BY <2>3
    <3>2. kept[i] = q.payload[i]
      BY <1>8, <3>1 DEF Adjoined
    <3>3. before[54 + o + i] = q.payload[i]
      BY <1>1, <3>1 DEF SegmentIn
    <3>. QED
      BY <2>1, <2>2, <3>2, <3>3
  <2>4. CASE i = p + 1
    <3>1. kept[p + 1] = 0
      BY <1>8 DEF Adjoined
    <3>2. before[55 + o + p] = 0 /\ 54 + o + i = 55 + o + p
      BY <1>1, <2>4 DEF SegmentIn
    <3>. QED
      BY <2>1, <2>2, <2>4, <3>1, <3>2
  <2>. QED
    BY <2>3, <2>4
<1>11. found = kept
  <2>1. found = [k \in 1 .. length |-> found[k]] /\ kept = [k \in 1 .. length |-> kept[k]]
    BY <1>9 DEF Sized
  <2>2. [k \in 1 .. length |-> found[k]] = [k \in 1 .. length |-> kept[k]]
    BY <1>10
  <2>. QED
    BY <2>1, <2>2, Zenon
<1>. QED
  BY <1>4, <1>11

\* The requests of the run.
RequestRight == request \in Requests \cup {Nothing}

\* Only Dismiss changes the request.
LEMMA RequestStays == MCInit /\ [][MCNext]_mcVars => []RequestRight
<1>1. MCInit => RequestRight
  BY DEF MCInit, RequestRight
<1>2. RequestRight /\ [MCNext]_mcVars => RequestRight'
  <2>. SUFFICES ASSUME RequestRight, [MCNext]_mcVars
                PROVE  RequestRight'
    OBVIOUS
  <2>1. CASE Dismiss
    BY <2>1 DEF Dismiss, RequestRight
  <2>2. CASE Spi \/ UNCHANGED mcVars
    BY <2>2 DEF Spi, mcVars, inputs, RequestRight
  <2>. QED
    BY <2>1, <2>2 DEF MCNext
<1>. QED
  BY <1>1, <1>2, PTL

\* Its segments are such segments.
LEMMA RequestsAreSegments ==
    ASSUME NEW q \in Requests, q.kind \in {"data", "push", "fin"}
    PROVE  \E o \in Nat, p \in Nat : SegmentOf(q, o, p)
<1>1. Sized(q.seq, 4)
  <2>1. q.seq = <<0, 0, 255, 254>> \/ q.seq = <<255, 255, 255, 255>>
    BY DEF Requests
  <2>2. Sized(<<0, 0, 255, 254>>, 4) /\ Sized(<<255, 255, 255, 255>>, 4)
    BY DEF Sized
  <2>3. CASE q.seq = <<0, 0, 255, 254>>
    BY <2>2, <2>3
  <2>4. CASE q.seq = <<255, 255, 255, 255>>
    BY <2>2, <2>4
  <2>. QED
    BY <2>1, <2>3, <2>4
<1>2. Sized(q.options, 0) \/ Sized(q.options, 4) \/ Sized(q.options, 20)
  <2>1. q.options = <<>> \/ q.options = <<1, 1, 1, 1>> \/ q.options = [k \in 1 .. 20 |-> 1]
    BY DEF Requests
  <2>2. CASE q.options = <<>>
    BY <2>2, FieldsSized
  <2>3. CASE q.options = <<1, 1, 1, 1>>
    <3>1. Sized(<<1, 1, 1, 1>>, 4)
      BY DEF Sized
    <3>. QED
      BY <2>3, <3>1
  <2>4. CASE q.options = [k \in 1 .. 20 |-> 1]
    <3>1. Sized([k \in 1 .. 20 |-> 1], 20)
      BY DEF Sized
    <3>. QED
      BY <2>4, <3>1
  <2>. QED
    BY <2>1, <2>2, <2>3, <2>4
<1>3. Sized(q.payload, 0) \/ Sized(q.payload, 1) \/ Sized(q.payload, 7)
  <2>1. q.payload = <<>> \/ q.payload = <<66>> \/ q.payload = <<67, 68, 69, 70, 71, 72, 73>>
    BY DEF Requests
  <2>2. CASE q.payload = <<>>
    BY <2>2, FieldsSized
  <2>3. CASE q.payload = <<66>>
    BY <2>3, FieldsSized
  <2>4. CASE q.payload = <<67, 68, 69, 70, 71, 72, 73>>
    <3>1. Sized(<<67, 68, 69, 70, 71, 72, 73>>, 7)
      BY DEF Sized
    <3>. QED
      BY <2>4, <3>1
  <2>. QED
    BY <2>1, <2>2, <2>3, <2>4
<1>4. PICK o \in {0, 4, 20}, p \in {0, 1, 7} : Sized(q.options, o) /\ Sized(q.payload, p)
  BY <1>2, <1>3
<1>5. o \in Nat /\ p \in Nat /\ o <= 40 /\ o % 4 = 0 /\ 55 + o + p <= BufferSize
  BY DEF BufferSize
<1>. QED
  BY <1>1, <1>4, <1>5 DEF SegmentOf

\* The data of a segment, which TCPProcess prints after the answers are sent, is
\* still in ethBuffer, found behind options of any length, with a 0 behind it
\* (TCP.c:100-167, 222-228, 380-385).
THEOREM PayloadAlwaysKept == MCFairSpec => []PayloadKept
<1>1. RequestRight => PayloadKept
  <2>. SUFFICES ASSUME RequestRight, request.kind \in {"data", "push", "fin"}
                PROVE  DataKept(request)
    BY Zenon DEF PayloadKept, DataKept
  <2>1. request \in Requests
    BY DEF RequestRight, Nothing
  <2>. QED
    BY <2>1, RequestsAreSegments, DataOutlivesAnswers
<1>. QED
  BY <1>1, RequestStays, PTL DEF MCFairSpec
=============================================================================
