----------------------------- MODULE EncDriver -----------------------------
(***************************************************************************)
(* The ENC28J60 driver of ENC/ENC.c against the Ethernet chip.  The driver *)
(* is the only thread that talks to the chip; the chip stores frames into  *)
(* its receive ring and finishes transmissions between any two register    *)
(* accesses of the driver.  pc is the place of the driver in its           *)
(* functions; one step is one group of accesses the chip cannot tell apart.*)
(*                                                                         *)
(* The ring is 0 .. RXSTOP_INIT, frames lie at even addresses, each with   *)
(* the header the chip writes in front of it (address of the next frame,   *)
(* length, status).  Frames are abstracted to where they lie and whether   *)
(* their bytes are still those that were received.                         *)
(***************************************************************************)
EXTENDS Integers, Sequences

CONSTANTS
    RXSTOP_INIT,  \* last address of the receive ring (0x19FF)
    MemorySize,   \* bytes of the chip's memory, addressed with 13 bits (0x2000)
    PointerSize,  \* values of gNextPacketPtr, a uint16_t (0x10000)
    FrameSizes,   \* sizes of frames in the ring, header included, made even
    MaxAnswers,   \* frames sent while one is processed, at most (two, for a FIN)
    MaxCount      \* where EPKTCNT stops counting and the chip discards (255)

RingSize == RXSTOP_INIT + 1
Addresses == 0 .. RXSTOP_INIT
EvenAddresses == {x \in Addresses : x % 2 = 0}
Memory == 0 .. MemorySize - 1
OUTSIDE == MemorySize - 1   \* what the chip makes of -1: no ring address
Pointers == 0 .. PointerSize - 1
Banks == 0 .. 3

ASSUME RingAssumption ==
    /\ RXSTOP_INIT \in Nat
    /\ RXSTOP_INIT % 2 = 1
    /\ {MemorySize, PointerSize} \subseteq Nat
    /\ MemorySize > RingSize
    /\ PointerSize >= RingSize
    /\ MaxCount \in Nat \ {0}
    /\ MaxAnswers \in Nat \ {0}
    /\ FrameSizes \subseteq {n \in 2 .. RingSize - 2 : n % 2 = 0}

VARIABLES
    pc,              \* where the driver is
    gNextPacketPtr,  \* the driver's idea of where the next frame starts
    Enc28j60Bank,    \* the driver's idea of the selected register bank
    bank,            \* the chip: selected bank (ECON1.BSEL)
    rxen,            \* the chip: reception enabled (ECON1.RXEN)
    ERXWRPT,         \* the chip: where the next frame will be stored
    ERXRDPT,         \* the chip: the address its storing must not reach
    ring,            \* the chip: frames stored and not yet released, in order
    tx,              \* the chip: "idle", "sending", "hung" (ECON1.TXRTS is
                     \* set in the last two)
    BUSY,            \* the chip: a PHY register is being written (MISTAT.BUSY)
    TXERIF,          \* the chip: transmit error flag, set until cleared
    answers,         \* frames sent since processing began
    copied,          \* history: what is read and in ethBuffer: "none", the
                     \* "header" or all of the oldest "frame", or "garbage"
    escaped          \* history: the chip stored over a frame with ERXRDPT
                     \* outside the ring

rxVars == <<gNextPacketPtr, ERXWRPT, ERXRDPT, ring, copied, escaped>>
txVars == <<tx, TXERIF, BUSY>>
bankVars == <<Enc28j60Bank, bank>>
vars == <<pc, answers, rxen, rxVars, txVars, bankVars>>

Frame == [start : Addresses, size : FrameSizes, intact : BOOLEAN]

EPKTCNT == Len(ring)

\* The frames still to be read: between Release and Decrement the memory of
\* the oldest is free already, and the soft reset drops them all.
Unread == {k \in DOMAIN ring : pc # "reset" /\ (pc = "decrement" => k # 1)}

---------------------------------------------------------------------------
(* The chip, as its data sheet describes what the driver relies on *)

RingPlus(address, n) == (address + n) % RingSize

\* The addresses of n bytes from address on.
Span(address, n) == {RingPlus(address, k) : k \in 0 .. n - 1}

\* Storing stops in front of ERXRDPT; there is no such place outside the ring.
Room ==
    IF ERXRDPT = ERXWRPT THEN RingSize - 1
    ELSE IF ERXRDPT \in Addresses THEN (ERXRDPT - ERXWRPT - 1) % RingSize
    ELSE RingSize

Damaged(frame, addresses) ==
    [frame EXCEPT !.intact =
        @ /\ Span(frame.start, frame.size) \cap addresses = {}]

\* A frame that passes the filters arrives and is stored if there is room.
ChipReceive(size) ==
    LET stored == Span(ERXWRPT, size)
    IN  /\ rxen
        /\ EPKTCNT < MaxCount
        /\ size <= Room
        /\ ring' = Append([k \in DOMAIN ring |-> Damaged(ring[k], stored)],
                          [start |-> ERXWRPT, size |-> size, intact |-> TRUE])
        /\ ERXWRPT' = RingPlus(ERXWRPT, size)
        /\ escaped' = (escaped \/ /\ ERXRDPT \notin Addresses
                                  /\ \E k \in Unread :
                                       Damaged(ring[k], stored) # ring[k])
        /\ UNCHANGED <<pc, answers, rxen, gNextPacketPtr, ERXRDPT, copied, txVars, bankVars>>

\* A transmission ends well, or fails and sets TXERIF; a failed one may leave
\* TXRTS set (errata point 12).
ChipTransmit ==
    /\ tx = "sending"
    /\ \/ tx' = "idle" /\ UNCHANGED TXERIF
       \/ tx' \in {"idle", "hung"} /\ TXERIF' = TRUE
    /\ UNCHANGED <<pc, answers, rxen, rxVars, BUSY, bankVars>>

\* The write to the PHY, which runs at its own pace, ends.
ChipPhy ==
    /\ BUSY
    /\ BUSY' = FALSE
    /\ UNCHANGED <<pc, answers, rxen, rxVars, tx, TXERIF, bankVars>>

---------------------------------------------------------------------------
(* Register access *)

\* The bank bits are set and never cleared.
WrongSetBank(b) ==
    /\ Enc28j60Bank' = b
    /\ bank' = IF b > bank THEN b ELSE bank

\* enc28j60SetBank: clears both bank bits and sets those of the new bank,
\* unless the driver takes the bank for selected.
SetBank(b) ==
    /\ Enc28j60Bank' = b
    /\ bank' = IF b # Enc28j60Bank THEN b ELSE bank

---------------------------------------------------------------------------
(* enc28j60Init *)

\* The processor restarts, the chip does not: its memory is zeroed.
Restart ==
    /\ pc' = "reset"
    /\ gNextPacketPtr' = 0
    /\ Enc28j60Bank' = 0
    /\ copied' = "none"
    /\ UNCHANGED <<answers, rxen, ERXWRPT, ERXRDPT, ring, escaped, txVars, bank>>

\* The soft reset of the chip; what it leaves in ERXRDPT is overwritten before
\* reception is enabled.
SoftReset ==
    /\ pc = "reset"
    /\ pc' = "configure"
    /\ bank' = 0
    /\ rxen' = FALSE
    /\ ring' = <<>>
    /\ ERXWRPT' = 0
    /\ ERXRDPT' \in Addresses
    /\ tx' = "idle"
    /\ TXERIF' = FALSE
    /\ BUSY' = FALSE
    /\ escaped' = FALSE
    /\ UNCHANGED <<gNextPacketPtr, Enc28j60Bank, copied, answers>>

\* Ring, filters, MAC and PHY are set up bank after bank, ending in bank 2 with
\* MIWRH, which starts the write to the PHY; writing ERXST sets ERXWRPT, too.
Configure ==
    /\ pc = "configure"
    /\ pc' = "phy"
    /\ gNextPacketPtr' = 0
    /\ ERXWRPT' = 0
    /\ ERXRDPT' = 0
    /\ BUSY' = TRUE
    /\ SetBank(2)
    /\ UNCHANGED <<rxen, ring, copied, escaped, answers, tx, TXERIF>>

\* enc28j60PhyWrite waits for the PHY, without a timeout; MISTAT is in bank 3,
\* and at its address in another bank is some other register.
WaitPhy ==
    /\ pc = "phy"
    /\ SetBank(3)
    /\ \E busy \in IF bank' = 3 THEN {BUSY} ELSE BOOLEAN :
           pc' = IF busy THEN "phy" ELSE "enable"
    /\ UNCHANGED <<answers, rxen, rxVars, txVars>>

EnableReception ==
    /\ pc = "enable"
    /\ pc' = "getmac"
    /\ rxen' = TRUE
    /\ SetBank(0)
    /\ UNCHANGED <<answers, rxVars, txVars>>

\* dhcpInit reads the MAC address back, from bank 3, while frames come in.
GetMac ==
    /\ pc = "getmac"
    /\ pc' = "poll"
    /\ SetBank(3)
    /\ UNCHANGED <<answers, rxen, rxVars, txVars>>

---------------------------------------------------------------------------
(* enc28j60PacketReceive *)

\* EPKTCNT is in bank 1.
Poll ==
    /\ pc = "poll"
    /\ pc' = IF EPKTCNT = 0 THEN "poll" ELSE "header"
    /\ SetBank(1)
    /\ UNCHANGED <<answers, rxen, rxVars, txVars>>

\* One frame too far.
WrongReadHeader ==
    /\ pc = "header"
    /\ pc' = "copy"
    /\ gNextPacketPtr' = RingPlus(gNextPacketPtr, ring[1].size + 2)
    /\ copied' = "header"
    /\ SetBank(0)
    /\ UNCHANGED <<answers, rxen, ERXWRPT, ERXRDPT, ring, escaped, txVars>>

\* The length taken for the distance to the next frame: odd addresses.
WrongNextPointer ==
    /\ pc = "header"
    /\ pc' = "copy"
    /\ gNextPacketPtr' = RingPlus(gNextPacketPtr, ring[1].size - 1)
    /\ copied' = "header"
    /\ SetBank(0)
    /\ UNCHANGED <<answers, rxen, ERXWRPT, ERXRDPT, ring, escaped, txVars>>

\* The frame is released as soon as its header is read.
WrongEarlyRelease ==
    /\ pc = "header"
    /\ pc' = "copy"
    /\ gNextPacketPtr' = RingPlus(gNextPacketPtr, ring[1].size)
    /\ ERXRDPT' = IF gNextPacketPtr' = 0 THEN RXSTOP_INIT ELSE gNextPacketPtr' - 1
    /\ copied' = "header"
    /\ SetBank(0)
    /\ UNCHANGED <<answers, rxen, ERXWRPT, ring, escaped, txVars>>

\* The header the chip reads at gNextPacketPtr is the oldest frame's, unless that
\* is not where it lies or it was stored over.
HeaderIsGood == ring[1].start = gNextPacketPtr % MemorySize /\ ring[1].intact

\* ERDPT (bank 0) is set and the header read through it: two bytes of anything
\* if there is no header there.
ReadHeader ==
    /\ pc = "header"
    /\ pc' = "copy"
    /\ IF HeaderIsGood
       THEN gNextPacketPtr' = RingPlus(ring[1].start, ring[1].size)
            /\ copied' = "header"
       ELSE gNextPacketPtr' \in Pointers /\ copied' = "garbage"
    /\ SetBank(0)
    /\ UNCHANGED <<answers, rxen, ERXWRPT, ERXRDPT, ring, escaped, txVars>>

\* enc28j60ReadBuffer: the frame is copied as it is now; a wrong status, read
\* with a wrong header, copies nothing.
CopyFrame ==
    /\ pc = "copy"
    /\ pc' = "release"
    /\ \/ copied = "header" /\ copied' = IF ring[1].intact THEN "frame" ELSE "garbage"
       \/ copied = "garbage" /\ copied' \in {"none", "garbage"}
    /\ UNCHANGED <<answers, rxen, gNextPacketPtr, ERXWRPT, ERXRDPT, ring, escaped, txVars, bankVars>>

\* ERXRDPT goes to the odd address in front of the next frame.  The comparison
\* is meant for gNextPacketPtr = 0, but it is one of ints: -1 > RXSTOP_INIT is
\* false, and -1 is written, of which the chip keeps as many bits as it has.
ReleasedUpTo ==
    IF gNextPacketPtr - 1 > RXSTOP_INIT THEN RXSTOP_INIT
    ELSE (gNextPacketPtr - 1) % MemorySize

\* ERXRDPT is never moved back.
WrongRelease ==
    /\ pc = "release"
    /\ pc' = "decrement"
    /\ ERXRDPT' = IF gNextPacketPtr > ERXRDPT THEN ReleasedUpTo ELSE ERXRDPT
    /\ SetBank(0)
    /\ UNCHANGED <<answers, rxen, gNextPacketPtr, ERXWRPT, ring, copied, escaped, txVars>>

Release ==
    /\ pc = "release"
    /\ pc' = "decrement"
    /\ ERXRDPT' = ReleasedUpTo
    /\ SetBank(0)
    /\ UNCHANGED <<answers, rxen, gNextPacketPtr, ERXWRPT, ring, copied, escaped, txVars>>

\* ECON2.PKTDEC, then the frame is processed, if one was copied.
Decrement ==
    /\ pc = "decrement"
    /\ pc' = IF copied = "none" THEN "poll" ELSE "process"
    /\ ring' = Tail(ring)
    /\ answers' = 0
    /\ UNCHANGED <<rxen, gNextPacketPtr, ERXWRPT, ERXRDPT, copied, escaped, txVars, bankVars>>

---------------------------------------------------------------------------
(* enc28j60PacketSend, called while a frame is processed or by dhcpService *)

\* dhcpDiscover reads the MAC address for its message.
DhcpService ==
    /\ pc = "poll"
    /\ pc' = "process"
    /\ answers' = MaxAnswers - 1
    /\ SetBank(3)
    /\ UNCHANGED <<rxen, rxVars, txVars>>

\* No (further) frame is sent; main goes round.
Processed ==
    /\ pc = "process"
    /\ pc' = "poll"
    /\ copied' = "none"
    /\ UNCHANGED <<answers, rxen, gNextPacketPtr, ERXWRPT, ERXRDPT, ring, escaped, txVars, bankVars>>

BeginSend ==
    /\ pc = "process"
    /\ answers < MaxAnswers
    /\ pc' = "send"
    /\ answers' = answers + 1
    /\ UNCHANGED <<rxen, rxVars, txVars, bankVars>>

\* While ECON1.TXRTS is set ...
TestBusy ==
    /\ pc = "send"
    /\ pc' = IF tx = "idle" THEN "load" ELSE "busy"
    /\ UNCHANGED <<answers, rxen, rxVars, txVars, bankVars>>

\* Mutant: an if in place of the while, which lets a good transmission pass.
WrongLoop ==
    /\ pc = "busy"
    /\ pc' = IF TXERIF THEN "pulse" ELSE "load"
    /\ SetBank(0)
    /\ UNCHANGED <<answers, rxen, rxVars, txVars>>

\* The error flag is looked at the wrong way round.
WrongCheckError ==
    /\ pc = "busy"
    /\ pc' = IF TXERIF THEN "send" ELSE "pulse"
    /\ SetBank(0)
    /\ UNCHANGED <<answers, rxen, rxVars, txVars>>

\* ... look at EIR.TXERIF ...
CheckError ==
    /\ pc = "busy"
    /\ pc' = IF TXERIF THEN "pulse" ELSE "send"
    /\ SetBank(0)
    /\ UNCHANGED <<answers, rxen, rxVars, txVars>>

\* ... and if it is set, reset the transmit logic.  Nothing clears TXERIF.
ResetTransmit ==
    /\ pc = "pulse"
    /\ pc' = "send"
    /\ tx' = "idle"
    /\ UNCHANGED <<answers, rxen, rxVars, TXERIF, BUSY, bankVars>>

\* The frame is written to the transmit buffer and TXRTS set.
Transmit ==
    /\ pc = "load"
    /\ pc' = "process"
    /\ tx' = "sending"
    /\ SetBank(0)
    /\ UNCHANGED <<answers, rxen, rxVars, TXERIF, BUSY>>

---------------------------------------------------------------------------

\* Power-up: the chip in any bank, everything else idle.
Init ==
    /\ pc = "reset"
    /\ gNextPacketPtr = 0
    /\ Enc28j60Bank = 0
    /\ bank \in Banks
    /\ rxen = FALSE
    /\ ERXWRPT = 0
    /\ ERXRDPT \in Addresses
    /\ ring = <<>>
    /\ tx = "idle"
    /\ TXERIF = FALSE
    /\ BUSY = FALSE
    /\ answers = 0
    /\ copied = "none"
    /\ escaped = FALSE

Driver ==
    \/ SoftReset \/ Configure \/ WaitPhy \/ EnableReception \/ GetMac
    \/ Poll \/ ReadHeader \/ CopyFrame \/ Release \/ Decrement
    \/ DhcpService \/ Processed
    \/ BeginSend \/ TestBusy \/ CheckError \/ ResetTransmit \/ Transmit

Next ==
    \/ Driver
    \/ Restart
    \/ ChipTransmit \/ ChipPhy
    \/ \E size \in FrameSizes : ChipReceive(size)

Spec == Init /\ [][Next]_vars

\* main never stops, and the chip ends every transmission and PHY write.
FairSpec ==
    Spec /\ WF_vars(Driver) /\ WF_vars(ChipTransmit) /\ WF_vars(ChipPhy)

---------------------------------------------------------------------------
(* What the driver promises *)

\* The variables have their types, and until the chip has stored over a frame
\* the driver's pointer is even and inside the ring, as ENC.c:452 has it: what
\* is read from a header that was stored over may be anything.
TypeOK ==
    /\ pc \in {"reset", "configure", "phy", "enable", "getmac", "poll", "header", "copy",
              "release", "decrement", "process", "send", "busy", "pulse", "load"}
    /\ answers \in 0 .. MaxAnswers
    /\ gNextPacketPtr \in Pointers /\ (escaped \/ gNextPacketPtr \in EvenAddresses)
    /\ Enc28j60Bank \in Banks /\ bank \in Banks
    /\ ERXWRPT \in EvenAddresses
    /\ ERXRDPT \in Memory /\ (escaped \/ ERXRDPT \in Addresses \cup {OUTSIDE})
    /\ ring \in Seq(Frame) /\ EPKTCNT <= MaxCount
    /\ tx \in {"idle", "sending", "hung"}
    /\ copied \in {"none", "header", "frame", "garbage"}
    /\ rxen \in BOOLEAN /\ TXERIF \in BOOLEAN /\ BUSY \in BOOLEAN
    /\ escaped \in BOOLEAN

\* The cached bank is the chip's, from the soft reset on and over every
\* restart: no register of a wrong bank is ever read or written.
BankInSync == pc # "reset" => bank = Enc28j60Bank

\* Between two frames the driver's pointer is where the oldest frame starts,
\* or where the next one will, whatever arrived in the meantime.
PointerInSync ==
    (pc \in {"poll", "header", "process"} /\ ~escaped) =>
        gNextPacketPtr = IF ring = <<>> THEN ERXWRPT ELSE ring[1].start

\* A frame is neither lost nor spoilt between its arrival and its copy, unless
\* the chip stored over it while ERXRDPT was outside the ring.
FramesIntact ==
    ~escaped => copied # "garbage" /\ \A k \in Unread : ring[k].intact

\* Releasing gives the whole ring back: when all frames are processed there is
\* room for any frame again.
RingReclaimed ==
    (pc = "poll" /\ ring = <<>> /\ ~escaped) => Room >= RingSize - 2

\* The transmit buffer is not written before the chip has done with the frame
\* that is in it, however that ended.
TransmitBufferFree == pc = "load" => tx = "idle"

\* Unless the processor keeps restarting, main returns to its loop however
\* transmissions end: no wait for the chip lasts for ever.
MainKeepsPolling == <>[][~Restart]_vars => []<>(pc = "poll")

\* ENC.c:449-450 says that moving ERXRDPT frees the memory just read: no frame
\* that is still to be read is ever stored over.
OnlyReadMemoryFreed == \A k \in Unread : ring[k].intact

\* ENC.c:368 says of the reset, "Reset the transmit logic problem. See Rev. B4
\* Silicon Errata point 12": a transmission that has no problem is not reset.  It
\* is, when an earlier one failed (README, section 7).
OnlyProblemsReset == [][ResetTransmit => tx # "sending"]_vars
=============================================================================
