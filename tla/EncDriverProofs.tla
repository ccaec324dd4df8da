--------------------------- MODULE EncDriverProofs ---------------------------
(***************************************************************************)
(* Theorems about EncDriver, for a receive ring of any size and frames of  *)
(* any sizes.  The frames that are still to be read lie one after the      *)
(* other from the address in front of which ERXRDPT stops the chip, so     *)
(* what the chip may store cannot reach them.                              *)
(***************************************************************************)
EXTENDS EncDriver, SequenceTheorems, TLAPS

\* How far an address is from base, going up the ring.
PosFrom(base, address) ==
    IF address >= base THEN address - base ELSE address - base + RingSize

EndFrom(base, frame) == PosFrom(base, frame.start) + frame.size

\* The bytes from base on that the frames from the first on occupy.
Used(base, first, frames) ==
    IF first <= Len(frames) THEN EndFrom(base, frames[Len(frames)]) ELSE 0

\* The frames from the first on lie one behind the other from base on, without
\* passing base again, and the next one will be stored behind the last.
Chained(base, first, frames, next) ==
    /\ first <= Len(frames) => frames[first].start = base
    /\ \A i, j \in first .. Len(frames) :
         i < j => EndFrom(base, frames[i]) <= PosFrom(base, frames[j].start)
    /\ \A i \in first .. Len(frames) - 1 :
         PosFrom(base, frames[i + 1].start) = EndFrom(base, frames[i])
    /\ next = RingPlus(base, Used(base, first, frames))

\* The oldest frame still to be read.
First == IF pc = "decrement" THEN 2 ELSE 1

\* Where the memory begins that ERXRDPT protects.  OUTSIDE was written for 0.
Base == IF ERXRDPT \in {0, OUTSIDE} THEN 0 ELSE ERXRDPT + 1

\* What fits into the ring behind Base.
Capacity ==
    IF ERXRDPT = OUTSIDE THEN RingSize
    ELSE IF ERXRDPT = 0 THEN RingSize - 1
    ELSE RingSize - 2

\* The frames and the pointers of the chip and the driver belong together.
RingInv ==
    /\ Base \in EvenAddresses
    /\ ERXRDPT # RXSTOP_INIT
    /\ Used(Base, First, ring) <= Capacity
    /\ Chained(Base, First, ring, ERXWRPT)
    /\ gNextPacketPtr =
           IF pc \in {"copy", "release"} THEN RingPlus(ring[1].start, ring[1].size) ELSE Base

\* What the start-up leaves behind, step by step.
StartInv ==
    /\ pc = "reset" => Enc28j60Bank = 0 /\ gNextPacketPtr = 0 /\ copied = "none"
    /\ pc \in {"configure", "phy", "enable"} =>
           ~rxen /\ ring = <<>> /\ copied = "none" /\ ~escaped
    /\ pc \in {"phy", "enable"} => ERXRDPT = 0

\* A frame is being read only if there is one; what is read is whole.
ReadInv ==
    /\ pc \in {"header", "copy", "release", "decrement"} => ring # <<>>
    /\ pc = "copy" /\ ~escaped => copied = "header"

\* Once the chip has stored over a frame through ERXRDPT = OUTSIDE nothing is
\* left to say about the ring.
ReceptionInv ==
    /\ ReadInv
    /\ FramesIntact
    /\ pc \notin {"reset", "configure"} /\ ~escaped => RingInv

\* The inductive invariant.
EncInv ==
    /\ TypeOK
    /\ BankInSync
    /\ TransmitBufferFree
    /\ StartInv
    /\ ReceptionInv

---------------------------------------------------------------------------
(* Addresses *)

\* Going up the ring from an address wraps once at most.
LEMMA RingStep ==
    ASSUME NEW a \in Addresses, NEW n \in 0 .. RingSize
    PROVE  /\ RingPlus(a, n) = IF a + n < RingSize THEN a + n ELSE a + n - RingSize
           /\ RingPlus(a, n) \in Addresses
BY RingAssumption DEF RingPlus, RingSize, Addresses

\* Frames begin at even addresses and have even sizes, so they end at even ones.
LEMMA EvenStep ==
    ASSUME NEW a \in EvenAddresses, NEW n \in 0 .. RingSize, n % 2 = 0
    PROVE  RingPlus(a, n) \in EvenAddresses
<1>1. RingPlus(a, n) \in Addresses /\ RingPlus(a, n) \in {a + n, a + n - RingSize}
  BY RingStep DEF EvenAddresses
<1>2. (a + n) % 2 = 0 /\ (a + n - RingSize) % 2 = 0
  BY RingAssumption DEF EvenAddresses, Addresses, RingSize
<1>. QED
  BY <1>1, <1>2 DEF EvenAddresses

\* A frame is even in size and smaller than the ring.
LEMMA Sizes ==
    ASSUME NEW size \in FrameSizes
    PROVE  size \in 2 .. RingSize - 2 /\ size % 2 = 0 /\ size \in 0 .. RingSize
BY RingAssumption DEF RingSize

\* The ring is not empty.
LEMMA Ring == RingSize \in Nat /\ RingSize >= 2 /\ Addresses = 0 .. RingSize - 1
BY RingAssumption DEF RingSize, Addresses

\* The fields of a frame.
LEMMA FrameFields ==
    ASSUME NEW frame \in Frame
    PROVE  /\ frame.start \in Addresses
           /\ frame.size \in 2 .. RingSize - 2
           /\ frame.size % 2 = 0
           /\ frame.intact \in BOOLEAN
BY Sizes DEF Frame

\* PosFrom undoes RingPlus, and going up the ring it grows until base is passed.
LEMMA PositionAdvances ==
    ASSUME NEW base \in Addresses, NEW a \in Addresses, NEW n \in 0 .. RingSize,
           PosFrom(base, a) + n < RingSize
    PROVE  PosFrom(base, RingPlus(a, n)) = PosFrom(base, a) + n
<1>1. RingPlus(a, n) = IF a + n < RingSize THEN a + n ELSE a + n - RingSize
  BY RingStep
<1>2. /\ RingSize = RXSTOP_INIT + 1 /\ RXSTOP_INIT \in Nat
      /\ base \in 0 .. RXSTOP_INIT /\ a \in 0 .. RXSTOP_INIT /\ n \in Nat
  BY RingAssumption DEF Addresses, RingSize
<1>. QED
  BY <1>1, <1>2 DEF PosFrom

\* No step up the ring stays in place.
LEMMA BaseItself == ASSUME NEW a \in Addresses PROVE RingPlus(a, 0) = a
<1>1. 0 \in 0 .. RingSize /\ a + 0 = a /\ a < RingSize
  BY Ring
<1>. QED
  BY <1>1, RingStep

\* n addresses up from base is position n, counted from base.
LEMMA PositionOfStep ==
    ASSUME NEW base \in Addresses, NEW n \in 0 .. RingSize - 1
    PROVE  PosFrom(base, RingPlus(base, n)) = n
<1>1. /\ PosFrom(base, base) = 0
      /\ n \in 0 .. RingSize /\ n < RingSize /\ 0 + n = n
  BY RingAssumption DEF PosFrom, Addresses, RingSize
<1>. QED
  BY <1>1, PositionAdvances

\* When base moves up the ring, every position behind it comes nearer.
LEMMA BaseMoves ==
    ASSUME NEW base \in Addresses, NEW a \in Addresses, NEW n \in 0 .. RingSize,
           n <= PosFrom(base, a)
    PROVE  PosFrom(RingPlus(base, n), a) = PosFrom(base, a) - n
<1>1. RingPlus(base, n) = IF base + n < RingSize THEN base + n ELSE base + n - RingSize
  BY RingStep
<1>2. /\ RingSize = RXSTOP_INIT + 1 /\ RXSTOP_INIT \in Nat
      /\ base \in 0 .. RXSTOP_INIT /\ a \in 0 .. RXSTOP_INIT /\ n \in Nat
  BY RingAssumption DEF Addresses, RingSize
<1>. QED
  BY <1>1, <1>2 DEF PosFrom

\* A position is smaller than the ring, and leads back to its address.
LEMMA PositionRange ==
    ASSUME NEW base \in Addresses, NEW a \in Addresses
    PROVE  /\ PosFrom(base, a) \in 0 .. RingSize - 1
           /\ RingPlus(base, PosFrom(base, a)) = a
BY RingStep, RingAssumption DEF PosFrom, Addresses, RingSize

---------------------------------------------------------------------------
(* Chains of frames *)

\* Every frame of a chain ends before what the chain occupies ends.
LEMMA WithinUsed ==
    ASSUME NEW base \in Addresses, NEW first \in 1 .. 2, NEW frames \in Seq(Frame),
           NEW next, Chained(base, first, frames, next),
           NEW k \in first .. Len(frames)
    PROVE  /\ EndFrom(base, frames[k]) <= Used(base, first, frames)
           /\ PosFrom(base, frames[k].start) \in 0 .. RingSize - 1
           /\ frames[k].size \in 2 .. RingSize - 2
<1>1. Len(frames) \in Nat /\ k \in 1 .. Len(frames) /\ Len(frames) \in first .. Len(frames)
  OBVIOUS
<1>2. \A i \in {k, Len(frames)} :
        /\ frames[i].start \in Addresses
        /\ PosFrom(base, frames[i].start) \in 0 .. RingSize - 1
        /\ frames[i].size \in 2 .. RingSize - 2
  <2>1. \A i \in {k, Len(frames)} : frames[i] \in Frame
    BY <1>1
  <2>. QED
    BY <2>1, FrameFields, PositionRange
<1>3. CASE k = Len(frames)
  BY <1>1, <1>2, <1>3, Ring DEF Used, EndFrom
<1>4. CASE k < Len(frames)
  <2>1. EndFrom(base, frames[k]) <= PosFrom(base, frames[Len(frames)].start)
    BY <1>1, <1>4 DEF Chained
  <2>2. PICK start, size \in Int :
            /\ start = PosFrom(base, frames[Len(frames)].start)
            /\ size = frames[Len(frames)].size /\ size >= 2
    BY <1>2, Ring
  <2>3. Used(base, first, frames) = start + size
    BY <1>1, <2>2 DEF Used, EndFrom
  <2>4. EndFrom(base, frames[k]) \in Int
    BY <1>2, Ring DEF EndFrom
  <2>5. EndFrom(base, frames[k]) <= start + size
    BY <2>1, <2>2, <2>4
  <2>. QED
    BY <1>2, <2>3, <2>5
<1>. QED
  BY <1>1, <1>3, <1>4

\* What is stored behind the chain, as long as it does not pass base, touches
\* none of its frames.
LEMMA StoredApart ==
    ASSUME NEW base \in Addresses, NEW first \in 1 .. 2, NEW frames \in Seq(Frame),
           NEW next, Chained(base, first, frames, next),
           NEW size \in FrameSizes, Used(base, first, frames) + size <= RingSize,
           NEW k \in first .. Len(frames)
    PROVE  Span(frames[k].start, frames[k].size) \cap Span(next, size) = {}
<1>. DEFINE start == frames[k].start
            bytes == frames[k].size
            used == Used(base, first, frames)
<1>1. start \in Addresses
  <2>1. frames[k] \in Frame
    OBVIOUS
  <2>. QED
    BY <2>1, FrameFields
<1>2. /\ PosFrom(base, start) + bytes <= used
      /\ PosFrom(base, start) \in 0 .. RingSize - 1
      /\ bytes \in 2 .. RingSize - 2
  BY WithinUsed DEF EndFrom
<1>3. size \in 2 .. RingSize - 2 /\ used + size <= RingSize
  BY Sizes
<1>4. used \in 0 .. RingSize - 1
  <2>1. /\ Len(frames) \in first .. Len(frames)
        /\ used = PosFrom(base, frames[Len(frames)].start) + frames[Len(frames)].size
    BY DEF Used, EndFrom
  <2>2. used \in Int
    <3>1. /\ PosFrom(base, frames[Len(frames)].start) \in 0 .. RingSize - 1
          /\ frames[Len(frames)].size \in 2 .. RingSize - 2
      BY <2>1, WithinUsed
    <3>. QED
      BY <2>1, <3>1, Ring
  <2>. QED
    BY <1>2, <1>3, <2>2, Ring
<1>5. next \in Addresses /\ PosFrom(base, next) = used
  <2>1. next = RingPlus(base, used)
    BY DEF Chained
  <2>2. used \in 0 .. RingSize
    BY <1>4, Ring
  <2>. QED
    BY <1>4, <2>1, <2>2, PositionOfStep, RingStep
<1>6. SUFFICES ASSUME NEW i \in 0 .. bytes - 1, NEW j \in 0 .. size - 1,
                      RingPlus(start, i) = RingPlus(next, j)
               PROVE  FALSE
  BY DEF Span
<1>. HIDE DEF start, bytes, used
<1>7. PosFrom(base, RingPlus(start, i)) = PosFrom(base, start) + i
  <2>1. PosFrom(base, start) + i < RingSize /\ i \in 0 .. RingSize
    BY <1>2, <1>3, <1>4, Ring
  <2>. QED
    BY <1>1, <2>1, PositionAdvances
<1>8. PosFrom(base, RingPlus(next, j)) = used + j
  <2>1. used + j < RingSize /\ j \in 0 .. RingSize
    BY <1>3, <1>4, Ring
  <2>. QED
    BY <1>5, <2>1, PositionAdvances
<1>. QED
  BY <1>2, <1>3, <1>4, <1>6, <1>7, <1>8, Ring

\* Storing a frame behind the chain makes the chain longer by it, whatever it
\* does to the bytes of the others.
LEMMA StoreChain ==
    ASSUME NEW base \in Addresses, NEW first \in 1 .. 2,
           NEW frames \in Seq(Frame), NEW longer \in Seq(Frame),
           NEW next, Chained(base, first, frames, next),
           first <= Len(frames) + 1, Len(longer) = Len(frames) + 1,
           \A k \in 1 .. Len(frames) :
               longer[k].start = frames[k].start /\ longer[k].size = frames[k].size,
           longer[Len(longer)].start = next,
           Used(base, first, frames) \in Nat,
           Used(base, first, frames) + longer[Len(longer)].size <= RingSize
    PROVE  /\ Used(base, first, longer) = Used(base, first, frames) + longer[Len(longer)].size
           /\ Chained(base, first, longer, RingPlus(next, longer[Len(longer)].size))
<1>. DEFINE n == Len(frames)
            used == Used(base, first, frames)
            bytes == longer[n + 1].size
<1>1. /\ n \in Nat /\ Len(longer) = n + 1
      /\ bytes \in 2 .. RingSize - 2
  <2>1. longer[n + 1] \in Frame
    OBVIOUS
  <2>. QED
    BY <2>1, FrameFields
<1>2. used \in 0 .. RingSize - 1 /\ used + bytes <= RingSize
  BY <1>1, Ring
<1>3. next = RingPlus(base, used) /\ PosFrom(base, next) = used /\ next \in Addresses
  <2>1. next = RingPlus(base, used)
    BY DEF Chained
  <2>2. used \in 0 .. RingSize
    BY <1>2, Ring
  <2>. QED
    BY <1>2, <2>1, <2>2, PositionOfStep, RingStep
<1>4. EndFrom(base, longer[n + 1]) = used + bytes
  BY <1>1, <1>3 DEF EndFrom
<1>5. Used(base, first, longer) = used + bytes
  BY <1>1, <1>4 DEF Used
<1>6. \A k \in first .. n : /\ longer[k].start = frames[k].start
                            /\ EndFrom(base, longer[k]) = EndFrom(base, frames[k])
  BY <1>1 DEF EndFrom
<1>7. longer[first].start = base
  <2>1. CASE first <= n
    BY <1>1, <2>1 DEF Chained
  <2>2. CASE first = n + 1
    <3>1. used = 0
      BY <1>1, <2>2 DEF Used
    <3>. QED
      BY <1>1, <1>3, <2>2, <3>1, BaseItself
  <2>. QED
    BY <1>1, <2>1, <2>2
<1>8. \A i, j \in first .. n + 1 :
        i < j => EndFrom(base, longer[i]) <= PosFrom(base, longer[j].start)
  <2>. SUFFICES ASSUME NEW i \in first .. n + 1, NEW j \in first .. n + 1, i < j
                PROVE  EndFrom(base, longer[i]) <= PosFrom(base, longer[j].start)
    OBVIOUS
  <2>1. CASE j \in first .. n
    <3>1. i \in first .. n
      BY <1>1, <2>1
    <3>. QED
      BY <1>6, <2>1, <3>1 DEF Chained
  <2>2. CASE j = n + 1
    <3>1. i \in first .. n
      BY <1>1, <2>2
    <3>. QED
      BY <1>1, <1>3, <1>6, <2>2, <3>1, WithinUsed
  <2>. QED
    BY <1>1, <2>1, <2>2
<1>9. \A i \in first .. n :
        PosFrom(base, longer[i + 1].start) = EndFrom(base, longer[i])
  <2>. SUFFICES ASSUME NEW i \in first .. n
                PROVE  PosFrom(base, longer[i + 1].start) = EndFrom(base, longer[i])
    OBVIOUS
  <2>1. CASE i < n
    <3>1. i \in first .. n - 1 /\ i + 1 \in first .. n
      BY <1>1, <2>1
    <3>. QED
      BY <1>6, <3>1 DEF Chained
  <2>2. CASE i = n
    <3>1. used = EndFrom(base, frames[n])
      BY <1>1, <2>2 DEF Used
    <3>. QED
      BY <1>1, <1>3, <1>6, <2>2, <3>1
  <2>. QED
    BY <1>1, <2>1, <2>2
<1>10. RingPlus(next, bytes) = RingPlus(base, used + bytes)
  <2>1. used \in 0 .. RingSize /\ bytes \in 0 .. RingSize /\ used + bytes \in 0 .. RingSize
    BY <1>1, <1>2, Ring
  <2>. HIDE DEF used, bytes
  <2>2. /\ next = IF base + used < RingSize THEN base + used ELSE base + used - RingSize
        /\ RingPlus(next, bytes) =
               IF next + bytes < RingSize THEN next + bytes ELSE next + bytes - RingSize
        /\ RingPlus(base, used + bytes) =
               IF base + (used + bytes) < RingSize THEN base + (used + bytes)
               ELSE base + (used + bytes) - RingSize
    BY <1>3, <2>1, RingStep
  <2>. QED
    BY <1>2, <2>1, <2>2, Ring
<1>. QED
  <2>1. \A i \in first .. Len(longer) - 1 :
          PosFrom(base, longer[i + 1].start) = EndFrom(base, longer[i])
    BY <1>1, <1>9
  <2>. QED
    BY <1>1, <1>5, <1>7, <1>8, <2>1, <1>10 DEF Chained

\* Releasing the first frame of a chain: the chain begins with the second, or
\* where the next frame will be stored.
LEMMA ReleaseChain ==
    ASSUME NEW base \in Addresses, NEW frames \in Seq(Frame), frames # <<>>,
           NEW next, Chained(base, 1, frames, next),
           Used(base, 1, frames) <= RingSize,
           NEW released, released = RingPlus(frames[1].start, frames[1].size)
    PROVE  /\ released \in Addresses
           /\ Used(released, 2, frames) = Used(base, 1, frames) - frames[1].size
           /\ Chained(released, 2, frames, next)
<1>. DEFINE n == Len(frames)
            used == Used(base, 1, frames)
            bytes == frames[1].size
            end(k) == EndFrom(base, frames[k])
            pos(k) == PosFrom(base, frames[k].start)
<1>1. n \in Nat /\ n >= 1 /\ \A k \in 1 .. n : frames[k] \in Frame
  OBVIOUS
<1>2. /\ frames[1].start = base /\ released = RingPlus(base, bytes)
      /\ bytes \in 2 .. RingSize - 2
  BY <1>1, FrameFields DEF Chained
<1>3. /\ released \in Addresses
      /\ released = IF base + bytes < RingSize THEN base + bytes ELSE base + bytes - RingSize
  <2>1. bytes \in 0 .. RingSize
    BY <1>2, Ring
  <2>. QED
    BY <1>2, <2>1, RingStep
<1>4. \A k \in 1 .. n : /\ end(k) = pos(k) + frames[k].size
                        /\ pos(k) \in 0 .. RingSize - 1
                        /\ end(k) <= used
                        /\ frames[k].start \in Addresses
                        /\ frames[k].size \in 2 .. RingSize - 2
  BY <1>1, WithinUsed, FrameFields DEF EndFrom
<1>5. used = end(n) /\ end(1) = bytes
  <2>1. PosFrom(base, base) = 0
    BY Ring DEF PosFrom
  <2>. QED
    BY <1>1, <1>2, <2>1 DEF Used, EndFrom
<1>6. \A k \in 2 .. n : /\ PosFrom(released, frames[k].start) = pos(k) - bytes
                        /\ EndFrom(released, frames[k]) = end(k) - bytes
  <2>. SUFFICES ASSUME NEW k \in 2 .. n
                PROVE  /\ PosFrom(released, frames[k].start) = pos(k) - bytes
                       /\ EndFrom(released, frames[k]) = end(k) - bytes
    OBVIOUS
  <2>1. bytes <= pos(k)
    <3>1. 1 \in 1 .. n /\ k \in 1 .. n /\ 1 < k
      BY <1>1
    <3>. QED
      BY <1>5, <3>1 DEF Chained
  <2>2. PosFrom(released, frames[k].start) = pos(k) - bytes
    <3>1. frames[k].start \in Addresses
      BY <1>1, <1>4
    <3>2. bytes \in 0 .. RingSize
      BY <1>2, Ring
    <3>. QED
      BY <1>2, <2>1, <3>1, <3>2, BaseMoves
  <2>. QED
    BY <1>1, <1>2, <1>4, <2>2, Ring DEF EndFrom
<1>7. Used(released, 2, frames) = used - bytes
  <2>1. CASE n = 1
    BY <1>1, <1>2, <1>5, <2>1, Ring DEF Used
  <2>2. CASE n # 1
    <3>1. n >= 2 /\ n \in 2 .. n
      <4>1. n \in Nat /\ n >= 1 /\ n # 1
        BY <1>1, <2>2
      <4>. HIDE DEF n
      <4>. QED
        BY <4>1
    <3>2. Used(released, 2, frames) = EndFrom(released, frames[n])
      BY <3>1 DEF Used
    <3>3. EndFrom(released, frames[n]) = end(n) - bytes
      BY <1>6, <3>1
    <3>. QED
      BY <1>5, <3>2, <3>3
  <2>. QED
    BY <2>1, <2>2
<1>8. 2 <= n => frames[2].start = released
  <2>. SUFFICES ASSUME 2 <= n PROVE frames[2].start = released
    OBVIOUS
  <2>1. frames[2].start \in Addresses /\ pos(2) = bytes
    <3>1. 1 \in 1 .. n - 1 /\ 2 \in 1 .. n
      BY <1>1
    <3>. QED
      BY <1>4, <1>5, <3>1 DEF Chained
  <2>. QED
    BY <1>2, <2>1, PositionRange
<1>9. next = RingPlus(released, used - bytes)
  <2>1. next = RingPlus(base, used)
    BY DEF Chained
  <2>2. /\ used \in 0 .. RingSize /\ bytes <= used
        /\ bytes \in 0 .. RingSize /\ used - bytes \in 0 .. RingSize
    <3>1. used \in Int /\ bytes <= used
      <4>1. /\ 1 \in 1 .. n /\ n \in 1 .. n
            /\ end(n) = pos(n) + frames[n].size
            /\ pos(n) \in 0 .. RingSize - 1
            /\ frames[n].size \in 2 .. RingSize - 2
            /\ end(1) <= used
        BY <1>1, <1>4
      <4>. QED
        BY <1>5, <4>1, Ring
    <3>. QED
      BY <1>2, <3>1, Ring
  <2>. HIDE DEF used, bytes
  <2>3. /\ RingPlus(base, used) =
               IF base + used < RingSize THEN base + used ELSE base + used - RingSize
        /\ RingPlus(released, used - bytes) =
               IF released + (used - bytes) < RingSize THEN released + (used - bytes)
               ELSE released + (used - bytes) - RingSize
    BY <1>3, <2>2, RingStep
  <2>. QED
    BY <1>2, <1>3, <2>1, <2>2, <2>3, Ring
<1>10. /\ \A i, j \in 2 .. n :
             i < j => EndFrom(released, frames[i]) <= PosFrom(released, frames[j].start)
       /\ \A i \in 2 .. n - 1 :
             PosFrom(released, frames[i + 1].start) = EndFrom(released, frames[i])
  <2>1. ASSUME NEW i \in 2 .. n, NEW j \in 2 .. n, i < j
        PROVE  EndFrom(released, frames[i]) <= PosFrom(released, frames[j].start)
    <3>1. i \in 1 .. n /\ j \in 1 .. n /\ end(i) <= pos(j)
      BY <1>1, <2>1 DEF Chained
    <3>2. /\ end(i) = pos(i) + frames[i].size
          /\ pos(i) \in 0 .. RingSize - 1 /\ pos(j) \in 0 .. RingSize - 1
          /\ frames[i].size \in 2 .. RingSize - 2
      BY <1>4, <3>1
    <3>3. end(i) - bytes <= pos(j) - bytes
      BY <1>2, <3>1, <3>2, Ring
    <3>. QED
      BY <1>6, <3>3
  <2>2. ASSUME NEW i \in 2 .. n - 1
        PROVE  PosFrom(released, frames[i + 1].start) = EndFrom(released, frames[i])
    <3>1. /\ i \in 1 .. n - 1 /\ i \in 2 .. n /\ i + 1 \in 2 .. n
      BY <1>1
    <3>2. pos(i + 1) = end(i)
      BY <3>1 DEF Chained
    <3>. QED
      BY <1>6, <3>1, <3>2
  <2>. QED
    BY <2>1, <2>2
<1>. QED
  BY <1>3, <1>7, <1>8, <1>9, <1>10 DEF Chained

\* EPKTCNT goes down: the frames move up by one place.
LEMMA DecrementChain ==
    ASSUME NEW base \in Addresses, NEW frames \in Seq(Frame), frames # <<>>,
           NEW next, Chained(base, 2, frames, next)
    PROVE  /\ Tail(frames) \in Seq(Frame) /\ Len(Tail(frames)) = Len(frames) - 1
           /\ \A k \in 1 .. Len(frames) - 1 : Tail(frames)[k] = frames[k + 1]
           /\ Used(base, 1, Tail(frames)) = Used(base, 2, frames)
           /\ Chained(base, 1, Tail(frames), next)
<1>1. /\ Tail(frames) \in Seq(Frame)
      /\ Len(frames) \in Nat /\ Len(frames) >= 1
      /\ Len(Tail(frames)) = Len(frames) - 1
      /\ \A k \in 1 .. Len(frames) - 1 : Tail(frames)[k] = frames[k + 1]
  BY HeadTailProperties
<1>2. Used(base, 1, Tail(frames)) = Used(base, 2, frames)
  BY <1>1 DEF Used
<1>3. \A i, j \in 1 .. Len(frames) - 1 :
        i < j => EndFrom(base, Tail(frames)[i]) <= PosFrom(base, Tail(frames)[j].start)
  <2>. SUFFICES ASSUME NEW i \in 1 .. Len(frames) - 1, NEW j \in 1 .. Len(frames) - 1, i < j
                PROVE  EndFrom(base, frames[i + 1]) <= PosFrom(base, frames[j + 1].start)
    BY <1>1
  <2>1. i + 1 \in 2 .. Len(frames) /\ j + 1 \in 2 .. Len(frames) /\ i + 1 < j + 1
    BY <1>1
  <2>. QED
    BY <2>1 DEF Chained
<1>4. \A i \in 1 .. Len(frames) - 2 :
        PosFrom(base, Tail(frames)[i + 1].start) = EndFrom(base, Tail(frames)[i])
  <2>. SUFFICES ASSUME NEW i \in 1 .. Len(frames) - 2
                PROVE  PosFrom(base, frames[(i + 1) + 1].start) = EndFrom(base, frames[i + 1])
    BY <1>1
  <2>1. i + 1 \in 2 .. Len(frames) - 1
    BY <1>1
  <2>. QED
    BY <2>1 DEF Chained
<1>5. 1 <= Len(Tail(frames)) => Tail(frames)[1].start = base
  BY <1>1 DEF Chained
<1>. QED
  <2>1. Len(Tail(frames)) - 1 = Len(frames) - 2
    BY <1>1
  <2>. QED
    BY <1>1, <1>2, <1>3, <1>4, <1>5, <2>1 DEF Chained

---------------------------------------------------------------------------
(* Types, banks and transmissions *)

\* An address of the ring is one of the chip's memory, and the chip's 13 bits are
\* enough for it; those of -1 are OUTSIDE.
LEMMA ChipAddress ==
    /\ Addresses \subseteq Memory /\ Addresses \subseteq Pointers
    /\ OUTSIDE \in Memory /\ OUTSIDE \notin Addresses
    /\ \A a \in Addresses : a % MemorySize = a
    /\ (0 - 1) % MemorySize = OUTSIDE
    /\ \A x \in Int : x % MemorySize \in Memory
BY RingAssumption DEF Addresses, Memory, Pointers, OUTSIDE, RingSize

\* As long as the chip has not stored over a frame, the header that is read is
\* the oldest frame's.
LEMMA HeaderFound ==
    ASSUME EncInv, pc = "header", ~escaped
    PROVE  HeaderIsGood
<1>1. ring # <<>> /\ Len(ring) \in Nat /\ 1 <= Len(ring)
  BY DEF EncInv, ReceptionInv, ReadInv, TypeOK
<1>2. ring[1].intact
  BY <1>1 DEF EncInv, ReceptionInv, FramesIntact, Unread
<1>3. ring[1].start = Base /\ gNextPacketPtr = Base /\ Base \in Addresses
  BY <1>1 DEF EncInv, ReceptionInv, RingInv, First, Chained, EvenAddresses
<1>. QED
  BY <1>2, <1>3, ChipAddress DEF HeaderIsGood

\* From an address of the ring, ERXRDPT moves to the one in front of it, and from
\* 0 outside.
LEMMA ReleasedInRing ==
    ASSUME gNextPacketPtr \in EvenAddresses
    PROVE  /\ ReleasedUpTo = IF gNextPacketPtr = 0 THEN OUTSIDE ELSE gNextPacketPtr - 1
           /\ ReleasedUpTo \in Addresses \cup {OUTSIDE}
<1>1. /\ gNextPacketPtr \in 0 .. RXSTOP_INIT /\ RXSTOP_INIT \in Nat
      /\ ReleasedUpTo = (gNextPacketPtr - 1) % MemorySize
  BY RingAssumption DEF EvenAddresses, Addresses, ReleasedUpTo
<1>2. CASE gNextPacketPtr = 0
  BY <1>1, <1>2, ChipAddress
<1>3. CASE gNextPacketPtr # 0
  <2>1. gNextPacketPtr - 1 \in Addresses
    BY <1>1, <1>3 DEF Addresses
  <2>. QED
    BY <1>1, <1>3, <2>1, ChipAddress
<1>. QED
  BY <1>2, <1>3

\* Every step keeps the types.
LEMMA TypeStep == ASSUME EncInv, [Next]_vars PROVE TypeOK'
<1>. USE RingAssumption DEF EncInv, ReceptionInv, TypeOK, EPKTCNT, Banks, SetBank, rxVars, txVars, bankVars
<1>1. /\ 0 \in EvenAddresses /\ 0 \in Addresses /\ 0 \in Memory /\ 0 \in Pointers
      /\ 0 \in 0 .. 3 /\ 0 \in Nat /\ 0 <= MaxCount
  BY ChipAddress DEF EvenAddresses, Addresses
<1>2. CASE SoftReset
  <2>1. ring' \in Seq(Frame) /\ Len(ring') = 0
    BY <1>2, EmptySeq DEF SoftReset
  <2>. QED
    BY <1>1, <1>2, <2>1, ChipAddress DEF SoftReset, StartInv
<1>3. CASE Configure
  BY <1>1, <1>3 DEF Configure
<1>4. CASE WaitPhy \/ EnableReception \/ GetMac \/ Poll
  <2>1. CASE WaitPhy
    BY <2>1 DEF WaitPhy
  <2>2. CASE EnableReception
    BY <2>2 DEF EnableReception
  <2>3. CASE GetMac
    BY <2>3 DEF GetMac
  <2>4. CASE Poll
    BY <2>4 DEF Poll
  <2>. QED
    BY <1>4, <2>1, <2>2, <2>3, <2>4
<1>5. CASE ReadHeader
  <2>1. CASE HeaderIsGood
    <3>1. ring[1] \in Frame
      BY <1>5 DEF ReadHeader, ReadInv
    <3>2. ring[1].size \in 0 .. RingSize /\ ring[1].size % 2 = 0 /\ ring[1].start \in Addresses
      BY <3>1, FrameFields, Ring
    <3>3. gNextPacketPtr' = RingPlus(ring[1].start, ring[1].size)
      BY <1>5, <2>1 DEF ReadHeader
    <3>4. gNextPacketPtr' \in Pointers
      BY <3>2, <3>3, RingStep, ChipAddress
    <3>5. ~escaped => gNextPacketPtr' \in EvenAddresses
      <4>1. ~escaped => ring[1].start \in EvenAddresses
        <5>1. pc = "header" /\ ring # <<>> /\ Len(ring) \in Nat /\ 1 <= Len(ring)
          BY <1>5 DEF ReadHeader, ReadInv
        <5>. QED
          BY <5>1 DEF RingInv, First, Chained
      <4>. QED
        BY <3>2, <3>3, <4>1, EvenStep
    <3>. QED
      BY <1>5, <2>1, <3>4, <3>5 DEF ReadHeader
  <2>2. CASE ~HeaderIsGood
    <3>1. escaped
      BY <1>5, <2>2, HeaderFound DEF ReadHeader
    <3>. QED
      BY <1>5, <2>2, <3>1 DEF ReadHeader
  <2>. QED
    BY <2>1, <2>2
<1>6. CASE CopyFrame
  BY <1>6 DEF CopyFrame
<1>7. CASE Release
  <2>1. gNextPacketPtr - 1 \in Int /\ RXSTOP_INIT \in Addresses
    BY DEF Pointers, Addresses
  <2>2. ReleasedUpTo \in Memory
    BY <2>1, ChipAddress DEF ReleasedUpTo
  <2>3. ~escaped => ReleasedUpTo \in Addresses \cup {OUTSIDE}
    BY ReleasedInRing
  <2>. QED
    BY <1>7, <2>2, <2>3 DEF Release
<1>8. CASE Decrement
  <2>1. ring # <<>>
    BY <1>8 DEF Decrement, ReadInv
  <2>2. Tail(ring) \in Seq(Frame) /\ Len(Tail(ring)) = Len(ring) - 1 /\ Len(ring) \in Nat
    BY <2>1, HeadTailProperties
  <2>. QED
    BY <1>8, <2>2 DEF Decrement, EPKTCNT
<1>9. CASE DhcpService \/ Processed \/ BeginSend
  BY <1>9 DEF DhcpService, Processed, BeginSend
<1>10. CASE TestBusy \/ CheckError \/ ResetTransmit \/ Transmit
  <2>1. CASE TestBusy
    BY <2>1 DEF TestBusy
  <2>2. CASE CheckError
    BY <2>2 DEF CheckError
  <2>3. CASE ResetTransmit
    BY <2>3 DEF ResetTransmit
  <2>4. CASE Transmit
    BY <2>4 DEF Transmit
  <2>. QED
    BY <1>10, <2>1, <2>2, <2>3, <2>4
<1>11. CASE Restart \/ ChipTransmit \/ ChipPhy
  <2>1. CASE Restart
    BY <1>1, <2>1 DEF Restart
  <2>2. CASE ChipTransmit
    <3>1. tx' \in {"idle", "sending", "hung"} /\ TXERIF' \in BOOLEAN
      BY <2>2 DEF ChipTransmit
    <3>2. UNCHANGED <<pc, answers, rxen, rxVars, BUSY, bankVars>>
      BY <2>2 DEF ChipTransmit
    <3>. QED
      BY <3>1, <3>2
  <2>3. CASE ChipPhy
    <3>1. BUSY' \in BOOLEAN
      BY <2>3 DEF ChipPhy
    <3>2. UNCHANGED <<pc, answers, rxen, rxVars, tx, TXERIF, bankVars>>
      BY <2>3 DEF ChipPhy
    <3>. QED
      BY <3>1, <3>2
  <2>. QED
    BY <1>11, <2>1, <2>2, <2>3
<1>12. ASSUME NEW size \in FrameSizes, ChipReceive(size) PROVE TypeOK'
  <2>. DEFINE stored == Span(ERXWRPT, size)
              damaged == [k \in DOMAIN ring |-> Damaged(ring[k], stored)]
              new == [start |-> ERXWRPT, size |-> size, intact |-> TRUE]
  <2>1. damaged \in Seq(Frame) /\ Len(damaged) = Len(ring)
    <3>1. DOMAIN ring = 1 .. Len(ring) /\ Len(ring) \in Nat
      OBVIOUS
    <3>2. ASSUME NEW k \in 1 .. Len(ring) PROVE Damaged(ring[k], stored) \in Frame
      <4>1. ring[k] \in Frame
        OBVIOUS
      <4>. QED
        BY <4>1 DEF Damaged, Frame
    <3>. QED
      BY <3>1, <3>2
  <2>2. new \in Frame
    BY DEF Frame, EvenAddresses
  <2>3. ring' = Append(damaged, new)
    BY <1>12 DEF ChipReceive
  <2>4. ring' \in Seq(Frame) /\ EPKTCNT' <= MaxCount
    <3>1. ring' \in Seq(Frame) /\ Len(ring') = Len(ring) + 1
      BY <2>1, <2>2, <2>3, AppendProperties
    <3>. QED
      BY <1>12, <3>1 DEF ChipReceive, EPKTCNT
  <2>5. ERXWRPT' \in EvenAddresses
    BY <1>12, Sizes, EvenStep DEF ChipReceive
  <2>. QED
    BY <1>12, <2>4, <2>5 DEF ChipReceive
<1>13. CASE UNCHANGED vars
  BY <1>13 DEF vars, EPKTCNT
<1>. QED
  BY <1>2, <1>3, <1>4, <1>5, <1>6, <1>7, <1>8, <1>9, <1>10, <1>11, <1>12, <1>13
     DEF Next, Driver

\* SetBank keeps the cached bank and the chip's the same, a restart makes the
\* cache 0, and the soft reset that follows the chip's bank.
LEMMA BankStep == ASSUME EncInv, [Next]_vars PROVE BankInSync' /\ StartInv'
<1>. USE DEF EncInv, TypeOK, BankInSync, StartInv, SetBank, rxVars, txVars, bankVars
<1>1. CASE SoftReset
  BY <1>1 DEF SoftReset
<1>2. CASE Configure
  BY <1>2 DEF Configure
<1>3. CASE WaitPhy
  BY <1>3 DEF WaitPhy
<1>4. CASE EnableReception
  BY <1>4 DEF EnableReception
<1>5. CASE GetMac
  BY <1>5 DEF GetMac
<1>6. CASE Poll
  BY <1>6 DEF Poll
<1>7. CASE ReadHeader
  BY <1>7 DEF ReadHeader
<1>8. CASE CopyFrame
  BY <1>8 DEF CopyFrame
<1>9. CASE Release
  BY <1>9 DEF Release
<1>10. CASE Decrement
  BY <1>10 DEF Decrement
<1>11. CASE DhcpService
  BY <1>11 DEF DhcpService
<1>12. CASE Processed
  BY <1>12 DEF Processed
<1>13. CASE BeginSend
  BY <1>13 DEF BeginSend
<1>14. CASE TestBusy
  BY <1>14 DEF TestBusy
<1>15. CASE CheckError
  BY <1>15 DEF CheckError
<1>16. CASE ResetTransmit
  BY <1>16 DEF ResetTransmit
<1>17. CASE Transmit
  BY <1>17 DEF Transmit
<1>18. CASE Restart
  BY <1>18 DEF Restart
<1>19. CASE ChipTransmit
  BY <1>19 DEF ChipTransmit
<1>20. CASE ChipPhy
  BY <1>20 DEF ChipPhy
<1>21. ASSUME NEW size \in FrameSizes, ChipReceive(size) PROVE BankInSync' /\ StartInv'
  BY <1>21 DEF ChipReceive
<1>22. CASE UNCHANGED vars
  BY <1>22 DEF vars
<1>. QED
  BY <1>1, <1>2, <1>3, <1>4, <1>5, <1>6, <1>7, <1>8, <1>9, <1>10, <1>11, <1>12, <1>13, <1>14, <1>15, <1>16, <1>17, <1>18, <1>19, <1>20, <1>21, <1>22
     DEF Next, Driver

\* Only the driver starts a transmission, and it comes to load when TXRTS is clear.
LEMMA SendStep == ASSUME EncInv, [Next]_vars PROVE TransmitBufferFree'
<1>. USE DEF EncInv, TypeOK, TransmitBufferFree, rxVars, txVars, bankVars
<1>1. CASE SoftReset
  BY <1>1 DEF SoftReset
<1>2. CASE Configure
  BY <1>2 DEF Configure
<1>3. CASE WaitPhy
  BY <1>3 DEF WaitPhy
<1>4. CASE EnableReception
  BY <1>4 DEF EnableReception
<1>5. CASE GetMac
  BY <1>5 DEF GetMac
<1>6. CASE Poll
  BY <1>6 DEF Poll
<1>7. CASE ReadHeader
  BY <1>7 DEF ReadHeader
<1>8. CASE CopyFrame
  BY <1>8 DEF CopyFrame
<1>9. CASE Release
  BY <1>9 DEF Release
<1>10. CASE Decrement
  BY <1>10 DEF Decrement
<1>11. CASE DhcpService
  BY <1>11 DEF DhcpService
<1>12. CASE Processed
  BY <1>12 DEF Processed
<1>13. CASE BeginSend
  BY <1>13 DEF BeginSend
<1>14. CASE TestBusy
  BY <1>14 DEF TestBusy
<1>15. CASE CheckError
  BY <1>15 DEF CheckError
<1>16. CASE ResetTransmit
  BY <1>16 DEF ResetTransmit
<1>17. CASE Transmit
  BY <1>17 DEF Transmit
<1>18. CASE Restart
  BY <1>18 DEF Restart
<1>19. CASE ChipTransmit
  BY <1>19 DEF ChipTransmit
<1>20. CASE ChipPhy
  BY <1>20 DEF ChipPhy
<1>21. ASSUME NEW size \in FrameSizes, ChipReceive(size) PROVE TransmitBufferFree'
  BY <1>21 DEF ChipReceive
<1>22. CASE UNCHANGED vars
  BY <1>22 DEF vars
<1>. QED
  BY <1>1, <1>2, <1>3, <1>4, <1>5, <1>6, <1>7, <1>8, <1>9, <1>10, <1>11, <1>12, <1>13, <1>14, <1>15, <1>16, <1>17, <1>18, <1>19, <1>20, <1>21, <1>22
     DEF Next, Driver

---------------------------------------------------------------------------
(* Reception *)

\* Steps that leave the ring and its pointers alone.
LEMMA QuietStep ==
    ASSUME EncInv,
           UNCHANGED <<gNextPacketPtr, ERXWRPT, ERXRDPT, ring, escaped>>,
           copied' \in {copied, "none"},
           \/ pc' = pc /\ copied' = copied
           \/ /\ pc \notin {"reset", "configure", "copy", "release", "decrement"}
              /\ pc' \notin {"reset", "configure", "copy", "release", "decrement"}
              /\ pc' = "header" => ring # <<>>
    PROVE  ReceptionInv'
<1>. USE DEF EncInv, ReceptionInv
<1>1. ReadInv'
  BY DEF ReadInv
<1>2. Unread' = Unread
  BY DEF Unread
<1>3. FramesIntact'
  BY <1>2 DEF FramesIntact
<1>4. ASSUME (pc \notin {"reset", "configure"} /\ ~escaped)' PROVE RingInv'
  <2>1. RingInv /\ First' = First /\ Base' = Base /\ Capacity' = Capacity
    BY <1>4 DEF First, Base, Capacity
  <2>2. /\ Base' \in EvenAddresses /\ (ERXRDPT # RXSTOP_INIT)'
        /\ Used(Base', First', ring') <= Capacity'
    BY <2>1 DEF RingInv
  <2>3. Chained(Base', First', ring', ERXWRPT')
    BY <2>1 DEF RingInv
  <2>4. gNextPacketPtr' = IF pc' \in {"copy", "release"}
                          THEN RingPlus(ring'[1].start, ring'[1].size) ELSE Base'
    BY <2>1 DEF RingInv
  <2>. QED
    BY <2>2, <2>3, <2>4 DEF RingInv
<1>. QED
  BY <1>1, <1>3, <1>4

\* The start-up leaves an empty ring.
LEMMA StartStep ==
    ASSUME EncInv, SoftReset \/ Configure \/ Restart
    PROVE  ReceptionInv'
<1>. USE DEF EncInv, ReceptionInv, StartInv, FramesIntact, ReadInv, Unread
<1>1. CASE SoftReset
  BY <1>1 DEF SoftReset
<1>2. CASE Restart
  BY <1>2 DEF Restart
<1>3. CASE Configure
  <2>1. /\ pc' = "phy" /\ gNextPacketPtr' = 0 /\ ERXWRPT' = 0 /\ ERXRDPT' = 0
        /\ ring' = <<>> /\ ~escaped' /\ copied' = "none"
    BY <1>3 DEF Configure
  <2>2. Base' = 0 /\ First' = 1 /\ Len(ring') = 0 /\ Capacity' \in Nat
    BY <2>1, RingAssumption DEF Base, First, Capacity, RingSize
  <2>3. 0 \in EvenAddresses /\ 0 \in Addresses /\ RXSTOP_INIT # 0
    BY RingAssumption DEF EvenAddresses, Addresses
  <2>4. Used(0, 1, ring') = 0
    BY <2>2 DEF Used
  <2>5. Chained(0, 1, ring', 0)
    BY <2>2, <2>3, <2>4, BaseItself DEF Chained
  <2>6. RingInv'
    BY <2>1, <2>2, <2>3, <2>4, <2>5 DEF RingInv
  <2>. QED
    BY <2>1, <2>6
<1>. QED
  BY <1>1, <1>2, <1>3

\* The oldest frame's header is read where the frame lies.
LEMMA ReadHeaderStep == ASSUME EncInv, ReadHeader PROVE ReceptionInv'
<1>. USE DEF EncInv, ReceptionInv
<1>1. /\ pc = "header" /\ pc' = "copy" /\ ring # <<>>
      /\ UNCHANGED <<ERXWRPT, ERXRDPT, ring, escaped>>
      /\ HeaderIsGood => /\ gNextPacketPtr' = RingPlus(ring[1].start, ring[1].size)
                         /\ copied' = "header"
  BY DEF ReadHeader, ReadInv, HeaderIsGood
<1>3. ASSUME ~escaped PROVE HeaderIsGood
  BY <1>1, <1>3, HeaderFound
<1>4. ReadInv'
  BY <1>1, <1>3 DEF ReadInv
<1>5. FramesIntact'
  <2>1. Unread' = Unread
    BY <1>1 DEF Unread
  <2>. QED
    BY <1>1, <1>3, <2>1 DEF FramesIntact
<1>6. ASSUME ~escaped' PROVE RingInv'
  <2>1. RingInv /\ First' = First /\ Base' = Base /\ Capacity' = Capacity
    BY <1>1, <1>6 DEF First, Base, Capacity
  <2>2. gNextPacketPtr' = RingPlus(ring'[1].start, ring'[1].size)
    BY <1>1, <1>3, <1>6
  <2>3. Chained(Base', First', ring', ERXWRPT')
    BY <1>1, <2>1 DEF RingInv
  <2>. QED
    BY <1>1, <2>1, <2>2, <2>3 DEF RingInv
<1>. QED
  BY <1>4, <1>5, <1>6

\* It is copied whole.
LEMMA CopyFrameStep == ASSUME EncInv, CopyFrame PROVE ReceptionInv'
<1>. USE DEF EncInv, ReceptionInv
<1>1. /\ pc = "copy" /\ pc' = "release" /\ ring # <<>>
      /\ UNCHANGED <<gNextPacketPtr, ERXWRPT, ERXRDPT, ring, escaped>>
  BY DEF CopyFrame, ReadInv
<1>2. Len(ring) \in Nat /\ 1 <= Len(ring)
  BY <1>1 DEF TypeOK
<1>3. ReadInv'
  BY <1>1 DEF ReadInv
<1>4. FramesIntact'
  <2>1. Unread' = Unread /\ 1 \in Unread
    BY <1>1, <1>2 DEF Unread
  <2>2. ASSUME ~escaped PROVE copied' = "frame"
    <3>1. copied = "header" /\ ring[1].intact
      BY <1>1, <2>1, <2>2 DEF FramesIntact, ReadInv
    <3>. QED
      BY <3>1 DEF CopyFrame
  <2>. QED
    BY <1>1, <2>1, <2>2 DEF FramesIntact
<1>5. ASSUME ~escaped' PROVE RingInv'
  <2>1. RingInv /\ First' = First /\ Base' = Base /\ Capacity' = Capacity
    BY <1>1, <1>5 DEF First, Base, Capacity
  <2>2. gNextPacketPtr' = RingPlus(ring'[1].start, ring'[1].size)
    BY <1>1, <2>1 DEF RingInv
  <2>3. Chained(Base', First', ring', ERXWRPT')
    BY <1>1, <2>1 DEF RingInv
  <2>. QED
    BY <1>1, <2>1, <2>2, <2>3 DEF RingInv
<1>. QED
  BY <1>3, <1>4, <1>5

\* ERXRDPT moves in front of the next frame, whether the address there is 0 or
\* not: the oldest frame is released and no other.
LEMMA ReleaseStep == ASSUME EncInv, Release PROVE ReceptionInv'
<1>. USE DEF EncInv, ReceptionInv
<1>1. /\ pc = "release" /\ pc' = "decrement" /\ ring # <<>>
      /\ ERXRDPT' = ReleasedUpTo
      /\ UNCHANGED <<gNextPacketPtr, ERXWRPT, ring, copied, escaped>>
  BY DEF Release, ReadInv
<1>2. ring \in Seq(Frame) /\ Len(ring) \in Nat /\ 1 <= Len(ring)
  BY <1>1 DEF TypeOK
<1>3. ReadInv'
  BY <1>1 DEF ReadInv
<1>4. FramesIntact'
  BY <1>1 DEF FramesIntact, Unread
<1>5. ASSUME ~escaped' PROVE RingInv'
  <2>1. /\ RingInv /\ First = 1 /\ First' = 2
        /\ gNextPacketPtr = RingPlus(ring[1].start, ring[1].size)
    BY <1>1, <1>5 DEF RingInv, First
  <2>2. ring[1].start = Base /\ ring[1].size \in 2 .. RingSize - 2 /\ ring[1].size % 2 = 0
    <3>1. ring[1] \in Frame
      BY <1>2
    <3>. QED
      BY <1>2, <2>1, <3>1, FrameFields DEF RingInv, Chained
  <2>3. gNextPacketPtr \in EvenAddresses
    <3>1. ring[1].size \in 0 .. RingSize
      BY <2>2, Ring
    <3>. QED
      BY <2>1, <2>2, <3>1, EvenStep DEF RingInv
  <2>4. Base \in Addresses
    BY <2>1 DEF RingInv, EvenAddresses
  <2>5. Capacity \in Int /\ Capacity <= RingSize
    BY Ring DEF Capacity
  <2>6. Used(Base, 1, ring) \in Int
    <3>1. Len(ring) \in 1 .. Len(ring) /\ Chained(Base, 1, ring, ERXWRPT)
      BY <1>2, <2>1 DEF RingInv
    <3>2. /\ PosFrom(Base, ring[Len(ring)].start) \in 0 .. RingSize - 1
          /\ ring[Len(ring)].size \in 2 .. RingSize - 2
      BY <1>2, <2>4, <3>1, WithinUsed
    <3>. QED
      BY <1>2, <3>2, Ring DEF Used, EndFrom
  <2>7. Used(Base, 1, ring) <= RingSize
    <3>1. Used(Base, 1, ring) <= Capacity
      BY <2>1 DEF RingInv
    <3>. QED
      BY <2>5, <2>6, <3>1, Ring
  <2>8. /\ Used(gNextPacketPtr, 2, ring) = Used(Base, 1, ring) - ring[1].size
        /\ Chained(gNextPacketPtr, 2, ring, ERXWRPT)
    <3>1. Chained(Base, 1, ring, ERXWRPT)
      BY <2>1 DEF RingInv
    <3>. QED
      BY <1>1, <1>2, <2>1, <2>4, <2>7, <3>1, ReleaseChain
  <2>9. /\ Base' = gNextPacketPtr
        /\ ERXRDPT' # RXSTOP_INIT
        /\ Capacity' \in {RingSize, RingSize - 2}
    <3>1. ERXRDPT' = IF gNextPacketPtr = 0 THEN OUTSIDE ELSE gNextPacketPtr - 1
      BY <1>1, <2>3, ReleasedInRing
    <3>2. gNextPacketPtr \in 0 .. RXSTOP_INIT /\ gNextPacketPtr % 2 = 0 /\ RXSTOP_INIT \in Nat
      BY <2>3, RingAssumption DEF EvenAddresses, Addresses
    <3>3. OUTSIDE \in Nat /\ OUTSIDE > RXSTOP_INIT
      BY RingAssumption DEF OUTSIDE, RingSize
    <3>. QED
      BY <3>1, <3>2, <3>3, RingAssumption DEF Base, Capacity
  <2>10. Used(gNextPacketPtr, 2, ring) <= Capacity'
    BY <2>2, <2>6, <2>7, <2>8, <2>9, Ring
  <2>11. gNextPacketPtr' = Base'
    BY <1>1, <2>9
  <2>. QED
    BY <1>1, <2>1, <2>3, <2>8, <2>9, <2>10, <2>11 DEF RingInv
<1>. QED
  BY <1>3, <1>4, <1>5

\* EPKTCNT goes down by the frame that is released.
LEMMA DecrementStep == ASSUME EncInv, Decrement PROVE ReceptionInv'
<1>. USE DEF EncInv, ReceptionInv
<1>1. /\ pc = "decrement" /\ pc' \in {"poll", "process"} /\ ring # <<>>
      /\ ring' = Tail(ring)
      /\ UNCHANGED <<gNextPacketPtr, ERXWRPT, ERXRDPT, copied, escaped>>
  BY DEF Decrement, ReadInv
<1>2. /\ ring \in Seq(Frame) /\ Len(ring) \in Nat /\ 1 <= Len(ring)
  BY <1>1 DEF TypeOK
<1>3. /\ Tail(ring) \in Seq(Frame) /\ Len(Tail(ring)) = Len(ring) - 1
      /\ \A k \in 1 .. Len(ring) - 1 : Tail(ring)[k] = ring[k + 1]
  BY <1>1, <1>2, HeadTailProperties
<1>4. ReadInv'
  BY <1>1 DEF ReadInv
<1>5. FramesIntact'
  <2>. SUFFICES ASSUME ~escaped', NEW k \in DOMAIN ring'
                PROVE  copied # "garbage" /\ ring'[k].intact
    BY <1>1 DEF FramesIntact, Unread
  <2>1. k \in 1 .. Len(ring) - 1
    BY <1>1, <1>2, <1>3
  <2>2. k + 1 \in DOMAIN ring /\ k + 1 # 1
    BY <1>2, <2>1
  <2>3. k + 1 \in Unread
    BY <1>1, <2>2 DEF Unread
  <2>. QED
    BY <1>1, <1>3, <2>1, <2>3 DEF FramesIntact
<1>6. ASSUME ~escaped' PROVE RingInv'
  <2>1. RingInv /\ First = 2 /\ First' = 1 /\ Base' = Base /\ Capacity' = Capacity
    BY <1>1, <1>6 DEF First, Base, Capacity
  <2>2. Base \in Addresses
    BY <2>1 DEF RingInv, EvenAddresses
  <2>3. /\ Used(Base, 1, Tail(ring)) = Used(Base, 2, ring)
        /\ Chained(Base, 1, Tail(ring), ERXWRPT)
    <3>1. Chained(Base, 2, ring, ERXWRPT)
      BY <2>1 DEF RingInv
    <3>. QED
      BY <1>1, <1>2, <2>2, <3>1, DecrementChain
  <2>. QED
    BY <1>1, <2>1, <2>3 DEF RingInv
<1>. QED
  BY <1>4, <1>5, <1>6

\* How much is stored, from the chip's own condition: the new frame ends before
\* Base comes again, or the chip could not stop and the history shows it.
LEMMA StoredFits ==
    ASSUME EncInv, NEW size \in FrameSizes, ChipReceive(size),
           RingInv, pc # "reset", ~escaped'
    PROVE  /\ Used(Base, First, ring) \in Nat
           /\ Used(Base, First, ring) + size <= Capacity
<1>. USE DEF EncInv, ReceptionInv
<1>. DEFINE used == Used(Base, First, ring)
            n == Len(ring)
<1>1. /\ ~escaped /\ size <= Room
      /\ ERXRDPT \notin Addresses =>
           \A k \in Unread : Damaged(ring[k], Span(ERXWRPT, size)) = ring[k]
  BY DEF ChipReceive
<1>2. /\ ring \in Seq(Frame) /\ n \in Nat /\ First \in 1 .. 2
      /\ Base \in Addresses /\ size \in 2 .. RingSize - 2 /\ size \in Int
  BY Sizes DEF TypeOK, First, RingInv, EvenAddresses
<1>3. used \in Nat
  <2>1. CASE First <= n
    <3>1. n \in First .. n /\ Chained(Base, First, ring, ERXWRPT)
      BY <1>2, <2>1 DEF RingInv
    <3>2. /\ PosFrom(Base, ring[n].start) \in 0 .. RingSize - 1
          /\ ring[n].size \in 2 .. RingSize - 2
      BY <1>2, <3>1, WithinUsed
    <3>. QED
      BY <2>1, <3>2, Ring DEF Used, EndFrom
  <2>2. CASE ~(First <= n)
    BY <2>2 DEF Used
  <2>. QED
    BY <2>1, <2>2
<1>4. used <= Capacity /\ ERXWRPT = RingPlus(Base, used)
  BY DEF RingInv, Chained
<1>5. /\ Capacity \in Nat /\ Capacity <= RingSize
      /\ used \in 0 .. RingSize
      /\ ERXWRPT = IF Base + used < RingSize THEN Base + used ELSE Base + used - RingSize
  <2>1. Capacity \in Nat /\ Capacity <= RingSize
    BY Ring DEF Capacity
  <2>2. used \in 0 .. RingSize
    BY <1>3, <1>4, <2>1, Ring
  <2>. QED
    BY <1>2, <1>4, <2>1, <2>2, RingStep
<1>. SUFFICES used + size <= Capacity
  BY <1>3
<1>. HIDE DEF used
<1>6. CASE ERXRDPT = OUTSIDE
  <2>1. Base = 0 /\ Capacity = RingSize /\ ERXRDPT \notin Addresses
    BY <1>6, ChipAddress DEF Base, Capacity
  <2>2. CASE First <= n
    <3>1. ring[First].start = 0 /\ First \in Unread /\ ring[First].intact
      BY <1>1, <1>2, <2>1, <2>2 DEF RingInv, Chained, First, Unread, FramesIntact
    <3>2. ring[First] \in Frame /\ ring[First].size \in 2 .. RingSize - 2
      BY <1>2, <2>2, FrameFields
    <3>3. Span(0, ring[First].size) \cap Span(ERXWRPT, size) = {}
      <4>1. Damaged(ring[First], Span(ERXWRPT, size)).intact
        BY <1>1, <2>1, <3>1
      <4>. QED
        BY <3>1, <3>2, <4>1 DEF Damaged, Frame
    <3>4. 0 \in Span(0, ring[First].size)
      <4>1. RingPlus(0, 0) = 0 /\ 0 \in 0 .. ring[First].size - 1
        BY <2>1, <1>2, <3>2, BaseItself, Ring
      <4>. QED
        BY <4>1 DEF Span
    <3>5. ASSUME used + size > RingSize PROVE FALSE
      <4>1. CASE used = RingSize
        <5>1. ERXWRPT = 0 /\ RingPlus(0, 0) = 0 /\ 0 \in 0 .. size - 1
          BY <1>2, <1>5, <2>1, <4>1, BaseItself, Ring
        <5>. QED
          BY <3>3, <3>4, <5>1 DEF Span
      <4>2. CASE used < RingSize
        <5>1. /\ ERXWRPT = used /\ ERXWRPT \in Addresses
              /\ RingSize - used \in 0 .. RingSize
              /\ RingSize - used \in 0 .. size - 1
          BY <1>2, <1>3, <1>5, <2>1, <3>5, <4>2, Ring
        <5>2. RingPlus(ERXWRPT, RingSize - used) = 0
          BY <1>3, <5>1, RingStep, Ring
        <5>. QED
          BY <3>3, <3>4, <5>1, <5>2 DEF Span
      <4>. QED
        BY <1>3, <1>5, <4>1, <4>2, Ring
    <3>. QED
      BY <1>2, <1>3, <2>1, <3>5, Ring
  <2>3. CASE ~(First <= n)
    <3>1. used = 0
      BY <2>3 DEF Used, used
    <3>. QED
      BY <1>2, <1>3, <2>1, <3>1, Ring
  <2>. QED
    BY <2>2, <2>3
<1>7. CASE ERXRDPT = 0
  <2>1. Base = 0 /\ Capacity = RingSize - 1 /\ ERXRDPT \in Addresses
    <3>1. 0 \in Addresses /\ 0 # OUTSIDE
      BY ChipAddress, Ring
    <3>. QED
      BY <1>7, <3>1 DEF Base, Capacity
  <2>2. ERXWRPT = used /\ used < RingSize
    BY <1>3, <1>4, <1>5, <2>1, Ring
  <2>3. CASE used = 0
    BY <1>2, <2>1, <2>3, Ring
  <2>4. CASE used # 0
    <3>1. Room = (0 - used - 1) % RingSize
      BY <1>7, <2>1, <2>2, <2>4 DEF Room
    <3>2. (0 - used - 1) % RingSize = RingSize - used - 1
      BY <1>3, <2>2, Ring
    <3>. QED
      BY <1>1, <1>2, <1>3, <2>1, <3>1, <3>2, Ring
  <2>. QED
    BY <1>3, <2>3, <2>4
<1>8. CASE ERXRDPT \notin {0, OUTSIDE}
  <2>1. /\ Base = ERXRDPT + 1 /\ Capacity = RingSize - 2
        /\ ERXRDPT \in Addresses
    BY <1>1, <1>8 DEF Base, Capacity, TypeOK
  <2>2. /\ used <= RingSize - 2 /\ ERXRDPT \in 0 .. RingSize - 1
    BY <1>4, <2>1, Ring
  <2>3. ERXWRPT # ERXRDPT
    BY <1>2, <1>3, <1>5, <2>1, <2>2, Ring
  <2>4. Room = (ERXRDPT - ERXWRPT - 1) % RingSize
    BY <2>1, <2>3 DEF Room
  <2>5. (ERXRDPT - ERXWRPT - 1) % RingSize = RingSize - 2 - used
    <3>1. ERXRDPT - ERXWRPT - 1 \in {(0 - 2) - used, RingSize - 2 - used}
      BY <1>2, <1>3, <1>5, <2>1, <2>2, Ring
    <3>2. ((0 - 2) - used) % RingSize = RingSize - 2 - used
      BY <1>3, <2>2, Ring
    <3>3. (RingSize - 2 - used) % RingSize = RingSize - 2 - used
      BY <1>3, <2>2, Ring
    <3>. QED
      BY <3>1, <3>2, <3>3
  <2>. QED
    BY <1>1, <1>2, <1>3, <2>1, <2>4, <2>5, Ring
<1>. QED
  BY <1>6, <1>7, <1>8

\* A frame arrives: it goes behind the others and touches none that is still to
\* be read.
LEMMA StoreStep ==
    ASSUME EncInv, TypeOK', NEW size \in FrameSizes, ChipReceive(size)
    PROVE  ReceptionInv'
<1>. USE DEF EncInv, ReceptionInv
<1>. DEFINE stored == Span(ERXWRPT, size)
            n == Len(ring)
<1>1. /\ ring \in Seq(Frame) /\ n \in Nat /\ DOMAIN ring = 1 .. n
      /\ ring' \in Seq(Frame) /\ pc' = pc /\ rxen
      /\ UNCHANGED <<gNextPacketPtr, ERXRDPT, copied>>
      /\ ERXWRPT' = RingPlus(ERXWRPT, size)
      /\ ~escaped' => ~escaped
  BY DEF TypeOK, ChipReceive
<1>2. /\ Len(ring') = n + 1 /\ DOMAIN ring' = 1 .. n + 1
      /\ ring'[n + 1] = [start |-> ERXWRPT, size |-> size, intact |-> TRUE]
      /\ \A k \in 1 .. n : /\ ring'[k].start = ring[k].start
                           /\ ring'[k].size = ring[k].size
                           /\ ring'[k] = Damaged(ring[k], stored)
  <2>. DEFINE damaged == [k \in DOMAIN ring |-> Damaged(ring[k], stored)]
              new == [start |-> ERXWRPT, size |-> size, intact |-> TRUE]
  <2>1. ring' = Append(damaged, new)
    BY DEF ChipReceive
  <2>2. damaged \in Seq(Frame) /\ Len(damaged) = n
    <3>1. ASSUME NEW k \in 1 .. n PROVE Damaged(ring[k], stored) \in Frame
      <4>1. ring[k] \in Frame
        BY <1>1
      <4>. QED
        BY <4>1 DEF Damaged, Frame
    <3>. QED
      BY <1>1, <3>1
  <2>3. new \in Frame
    BY DEF Frame, TypeOK, EvenAddresses
  <2>4. /\ Len(ring') = n + 1 /\ ring'[n + 1] = new
        /\ \A k \in 1 .. n : ring'[k] = damaged[k]
    BY <2>1, <2>2, <2>3, AppendProperties
  <2>5. ASSUME NEW k \in 1 .. n
        PROVE  /\ ring'[k].start = ring[k].start
               /\ ring'[k].size = ring[k].size
               /\ ring'[k] = Damaged(ring[k], stored)
    <3>1. ring'[k] = Damaged(ring[k], stored) /\ ring[k] \in Frame
      BY <1>1, <2>4
    <3>. QED
      BY <3>1 DEF Damaged, Frame
  <2>. QED
    BY <1>1, <2>4, <2>5
<1>3. ReadInv'
  <2>1. ring' # <<>>
    BY <1>1, <1>2
  <2>. QED
    BY <1>1, <2>1 DEF ReadInv
<1>4. pc \notin {"reset", "configure"} \/ pc = "reset"
  BY <1>1 DEF StartInv
<1>5. CASE pc = "reset"
  BY <1>1, <1>3, <1>5 DEF FramesIntact, Unread
<1>6. CASE pc \notin {"reset", "configure"} /\ escaped'
  BY <1>3, <1>6 DEF FramesIntact
<1>7. CASE pc \notin {"reset", "configure"} /\ ~escaped'
  <2>1. /\ RingInv /\ First \in 1 .. 2 /\ First <= n + 1
        /\ First' = First /\ Base' = Base /\ Capacity' = Capacity
        /\ Base \in Addresses /\ Capacity \in Nat /\ Capacity <= RingSize
    <3>1. RingInv /\ First \in 1 .. 2 /\ First' = First /\ Base' = Base /\ Capacity' = Capacity
      BY <1>1, <1>7 DEF First, Base, Capacity
    <3>2. First <= n + 1
      <4>1. pc = "decrement" => n # 0
        BY <1>1 DEF ReadInv
      <4>. QED
        BY <1>1, <4>1 DEF First
    <3>3. Base \in Addresses /\ Capacity \in Nat /\ Capacity <= RingSize
      BY <3>1, Ring DEF RingInv, EvenAddresses, Capacity
    <3>. QED
      BY <3>1, <3>2, <3>3
  <2>2. /\ Used(Base, First, ring) \in Nat
        /\ Used(Base, First, ring) + size <= Capacity
    BY <1>7, <2>1, StoredFits
  <2>3. Used(Base, First, ring) + size <= RingSize
    BY <2>1, <2>2, Sizes, Ring
  <2>4. Chained(Base, First, ring, ERXWRPT)
    BY <2>1 DEF RingInv
  <2>5. /\ Used(Base, First, ring') = Used(Base, First, ring) + size
        /\ Chained(Base, First, ring', ERXWRPT')
    BY <1>1, <1>2, <2>1, <2>2, <2>3, <2>4, StoreChain
  <2>6. \A k \in First .. n : ring'[k] = ring[k]
    <3>. SUFFICES ASSUME NEW k \in First .. n PROVE ring'[k] = ring[k]
      OBVIOUS
    <3>1. k \in 1 .. n /\ ring[k] \in Frame
      BY <1>1, <2>1
    <3>2. Span(ring[k].start, ring[k].size) \cap stored = {}
      BY <1>1, <2>1, <2>3, <2>4, StoredApart
    <3>. QED
      BY <1>2, <3>1, <3>2 DEF Damaged, Frame
  <2>7. FramesIntact'
    <3>. SUFFICES ASSUME NEW k \in Unread' PROVE ring'[k].intact
      BY <1>1, <1>7 DEF FramesIntact
    <3>1. k \in First .. n + 1
      BY <1>1, <1>2, <2>1 DEF Unread, First
    <3>2. CASE k = n + 1
      BY <1>2, <3>2
    <3>3. CASE k \in First .. n
      <4>1. k \in Unread
        BY <1>1, <1>7, <2>1, <3>3 DEF Unread, First
      <4>. QED
        BY <1>1, <1>7, <2>6, <3>3, <4>1 DEF FramesIntact
    <3>. QED
      BY <1>1, <2>1, <3>1, <3>2, <3>3
  <2>8. gNextPacketPtr' = IF pc' \in {"copy", "release"}
                          THEN RingPlus(ring'[1].start, ring'[1].size) ELSE Base'
    <3>1. pc \in {"copy", "release"} => 1 \in 1 .. n
      BY <1>1 DEF ReadInv
    <3>. QED
      BY <1>1, <1>2, <2>1, <3>1 DEF RingInv
  <2>9. RingInv'
    BY <1>1, <2>1, <2>2, <2>5, <2>8 DEF RingInv
  <2>. QED
    BY <1>3, <2>7, <2>9
<1>. QED
  BY <1>4, <1>5, <1>6, <1>7

\* What is in the ring between the two read pointers is known.
LEMMA ReceptionStep == ASSUME EncInv, TypeOK', [Next]_vars PROVE ReceptionInv'
<1>. USE DEF rxVars, txVars, bankVars
<1>1. CASE WaitPhy
  BY <1>1, QuietStep DEF WaitPhy
<1>2. CASE EnableReception
  BY <1>2, QuietStep DEF EnableReception
<1>3. CASE GetMac
  BY <1>3, QuietStep DEF GetMac
<1>4. CASE Poll
  <2>1. pc' = "header" => ring # <<>>
    BY <1>4 DEF Poll, EPKTCNT
  <2>. QED
    BY <1>4, <2>1, QuietStep DEF Poll
<1>5. CASE DhcpService
  BY <1>5, QuietStep DEF DhcpService
<1>6. CASE Processed
  BY <1>6, QuietStep DEF Processed
<1>7. CASE BeginSend
  BY <1>7, QuietStep DEF BeginSend
<1>8. CASE TestBusy
  BY <1>8, QuietStep DEF TestBusy
<1>9. CASE CheckError
  BY <1>9, QuietStep DEF CheckError
<1>10. CASE ResetTransmit
  BY <1>10, QuietStep DEF ResetTransmit
<1>11. CASE Transmit
  BY <1>11, QuietStep DEF Transmit
<1>12. CASE ChipTransmit
  BY <1>12, QuietStep DEF ChipTransmit
<1>13. CASE ChipPhy
  BY <1>13, QuietStep DEF ChipPhy
<1>14. CASE SoftReset \/ Configure \/ Restart
  BY <1>14, StartStep
<1>15. CASE ReadHeader
  BY <1>15, ReadHeaderStep
<1>16. CASE CopyFrame
  BY <1>16, CopyFrameStep
<1>17. CASE Release
  BY <1>17, ReleaseStep
<1>18. CASE Decrement
  BY <1>18, DecrementStep
<1>19. ASSUME NEW size \in FrameSizes, ChipReceive(size) PROVE ReceptionInv'
  BY <1>19, StoreStep
<1>20. CASE UNCHANGED vars
  BY <1>20, QuietStep DEF vars
<1>. QED
  BY <1>1, <1>2, <1>3, <1>4, <1>5, <1>6, <1>7, <1>8, <1>9, <1>10, <1>11, <1>12, <1>13, <1>14, <1>15, <1>16, <1>17, <1>18, <1>19, <1>20
     DEF Next, Driver

---------------------------------------------------------------------------
(* The theorems *)

\* At the start the ring is empty.
LEMMA InitInv == ASSUME Init PROVE EncInv
<1>. USE RingAssumption DEF Init
<1>1. 0 \in EvenAddresses /\ 0 \in Addresses /\ Len(ring) = 0 /\ ring \in Seq(Frame)
  BY EmptySeq DEF EvenAddresses, Addresses
<1>2. TypeOK
  <2>1. EPKTCNT = 0 /\ 0 <= MaxCount /\ 0 \in 0 .. MaxAnswers /\ 0 \in 0 .. 3
    BY <1>1 DEF EPKTCNT
  <2>. QED
    BY <1>1, <2>1, ChipAddress DEF TypeOK, Banks
<1>3. StartInv /\ BankInSync /\ TransmitBufferFree
  BY DEF StartInv, BankInSync, TransmitBufferFree
<1>4. ReceptionInv
  BY DEF ReceptionInv, ReadInv, FramesIntact, Unread
<1>. QED
  BY <1>2, <1>3, <1>4 DEF EncInv

\* The inductive invariant holds in every reachable state.
THEOREM EncInvariant == Spec => []EncInv
<1>1. Init => EncInv
  BY InitInv
<1>2. EncInv /\ [Next]_vars => EncInv'
  <2>. SUFFICES ASSUME EncInv, [Next]_vars PROVE EncInv'
    OBVIOUS
  <2>1. TypeOK'
    BY TypeStep
  <2>. QED
    BY <2>1, BankStep, SendStep, ReceptionStep DEF EncInv
<1>. QED
  BY <1>1, <1>2, PTL DEF Spec

\* Until the chip stores over a frame that was not read, gNextPacketPtr is an even
\* address of the ring and ERXRDPT one of the ring or what -1 makes of it; after
\* that they are any numbers of 16 and 13 bits.  No frame is taken out of an empty
\* ring.
THEOREM EncTypeCorrect == Spec => []TypeOK
BY EncInvariant, PTL DEF EncInv

\* SetBank's cache is never wrong after the soft reset, whatever order the
\* functions of ENC.c are called in and whenever the processor restarts.
THEOREM BankCacheCorrect == Spec => []BankInSync
BY EncInvariant, PTL DEF EncInv

\* enc28j60PacketSend writes to the transmit buffer only when the chip has done
\* with what is in it: sent it, given it up or been reset.
THEOREM TransmitBufferNotOverwritten == Spec => []TransmitBufferFree
BY EncInvariant, PTL DEF EncInv

\* enc28j60PacketReceive hands up only whole frames, and what is in the ring
\* stays whole until it is read, unless the chip stored over it after -1 was
\* written to ERXRDPT.
THEOREM NoFrameSpoilt == Spec => []FramesIntact
BY EncInvariant, PTL DEF EncInv, ReceptionInv

\* gNextPacketPtr is where the chip put the next frame, or will put it.
THEOREM PointerCorrect == Spec => []PointerInSync
<1>1. EncInv => PointerInSync
  <2>. SUFFICES ASSUME EncInv, pc \in {"poll", "header", "process"}, ~escaped
                PROVE  gNextPacketPtr = IF ring = <<>> THEN ERXWRPT ELSE ring[1].start
    BY DEF PointerInSync
  <2>1. RingInv /\ First = 1 /\ gNextPacketPtr = Base /\ Base \in Addresses
        /\ ring \in Seq(Frame)
    BY DEF EncInv, ReceptionInv, RingInv, First, EvenAddresses, TypeOK
  <2>2. Chained(Base, 1, ring, ERXWRPT)
    BY <2>1 DEF RingInv
  <2>3. CASE ring = <<>>
    <3>1. Used(Base, 1, ring) = 0
      BY <2>3 DEF Used
    <3>. QED
      BY <2>1, <2>2, <2>3, <3>1, BaseItself DEF Chained
  <2>4. CASE ring # <<>>
    <3>1. 1 <= Len(ring)
      BY <2>1, <2>4
    <3>. QED
      BY <2>1, <2>2, <2>4, <3>1 DEF Chained
  <2>. QED
    BY <2>3, <2>4
<1>. QED
  BY <1>1, EncInvariant, PTL

\* When all frames are read the chip has room for the largest frame again, at
\* whatever place of the ring it is: no memory is lost for ever.
THEOREM RingGivenBack == Spec => []RingReclaimed
<1>1. EncInv => RingReclaimed
  <2>. SUFFICES ASSUME EncInv, pc = "poll", ring = <<>>, ~escaped
                PROVE  Room >= RingSize - 2
    BY DEF RingReclaimed
  <2>1. /\ RingInv /\ First = 1 /\ Base \in Addresses
        /\ ERXRDPT \in Addresses \cup {OUTSIDE}
    BY DEF EncInv, ReceptionInv, RingInv, First, EvenAddresses, TypeOK
  <2>2. ERXWRPT = Base
    <3>1. Used(Base, 1, ring) = 0
      BY DEF Used
    <3>. QED
      BY <2>1, <3>1, BaseItself DEF RingInv, Chained
  <2>3. CASE ERXRDPT = OUTSIDE
    BY <2>2, <2>3, ChipAddress, Ring DEF Room, Base
  <2>4. CASE ERXRDPT = 0
    BY <2>2, <2>4, Ring DEF Room, Base
  <2>5. CASE ERXRDPT \notin {0, OUTSIDE}
    <3>1. ERXRDPT \in 0 .. RingSize - 1 /\ ERXWRPT = ERXRDPT + 1
      BY <2>1, <2>2, <2>5, Ring DEF Base
    <3>2. Room = (0 - 2) % RingSize
      <4>1. ERXRDPT # ERXWRPT /\ ERXRDPT - ERXWRPT - 1 = 0 - 2
        BY <3>1, Ring
      <4>. QED
        BY <2>1, <2>5, <4>1 DEF Room
    <3>3. (0 - 2) % RingSize = RingSize - 2
      BY Ring
    <3>. QED
      BY <3>2, <3>3, Ring
  <2>. QED
    BY <2>3, <2>4, <2>5
<1>. QED
  BY <1>1, EncInvariant, PTL
=============================================================================
