--------------------------- MODULE TcpStreamProofs ---------------------------
(***************************************************************************)
(* Theorems about one connection end to end, for any length of the stream, *)
(* any initial number, any cut into segments and any number of them in     *)
(* flight, duplicated, reordered or lost: what a session has acknowledged  *)
(* is the number of a position in front of which everything was printed.   *)
(***************************************************************************)
EXTENDS TcpStream, TcpSessionsProofs

\* The positions in front of m.
Before(m) == {p \in Positions : p < m}

\* Acknowledging number means that everything in front of position m was shown.
Earned(number, m, positions) == number = Number(m) /\ Before(m) \subseteq positions

\* What the client has sent and may be under way, or arrive again.
DataSegments == {DataSegment(k, n) : k \in Positions, n \in 1 .. MaxLen}
AckSegments ==
    {ClientSegment({"ACK"}, Number(a), Number(b), 0) : a \in 0 .. Total + 1, b \in {0, 1}}
WholeData == {seg \in DataSegments :
                 \E k \in Positions : seg.seq = Number(k) /\ k + seg.len <= Total}
ClientSegments == {SynSegment, FinSegment} \cup WholeData \cup AckSegments

ReplyFlags == {{"SYN", "ACK"}, {"ACK"}, {"FIN", "ACK"}}

ClientInv ==
    /\ cstate \in {"syn_sent", "established", "fin_sent", "done"}
    /\ nxt \in 0 .. Total /\ una \in 0 .. nxt
    /\ cstate \in {"fin_sent", "done"} => nxt = Total
    /\ toServer \subseteq ClientSegments
    /\ toClient \subseteq Reply
    /\ \A reply \in toClient : reply.flags \in ReplyFlags
    /\ shown \subseteq Positions

\* A live session expects the byte at a position all before which is shown.
SessionsEarned ==
    \A i \in InState(Live) :
        \E m \in 0 .. Total : Earned(tcpSessionTable[i].AckNumber, m, shown)

\* So does an acknowledgement under way, however old it is.
RepliesEarned ==
    \A reply \in toClient :
        reply.flags # {"SYN", "ACK"} =>
            \E m \in 0 .. Total + 1 : Earned(reply.ack, m, shown)

\* A patient client's FIN is sent when nothing is left to show.
FinIsLast ==
    FinSegment \in toServer => shown = Positions

\* The inductive invariant.
StreamInv ==
    /\ TypeOK
    /\ ClientInv
    /\ SessionsEarned
    /\ PrintedInOrder
    /\ Patient => RepliesEarned /\ FinIsLast /\ AcknowledgedWasPrinted

---------------------------------------------------------------------------
(* Numbers and positions *)

\* What the constants are.
LEMMA Stream ==
    /\ SeqMod \in Nat \ {0, 1} /\ ISN \in 0 .. SeqMod - 1
    /\ Total \in Nat \ {0} /\ Total + 3 <= SeqMod
    /\ MaxLen \in Nat /\ MaxLen < MSS /\ MSS \in Nat
    /\ Positions = 0 .. Total - 1
BY SizesAssumption, StreamAssumption DEF SeqNumbers, Positions

\* A sum that is less than twice the modulus wraps at most once.
LEMMA PlusValue ==
    ASSUME NEW a \in Nat, NEW k \in Nat, a + k <= 2 * SeqMod - 1
    PROVE  Plus(a, k) = IF a + k < SeqMod THEN a + k ELSE a + k - SeqMod
BY SizesAssumption DEF Plus

\* A number wraps at most once within the stream.
LEMMA NumberValue ==
    ASSUME NEW k \in 0 .. Total + 1
    PROVE  /\ Number(k) = IF ISN + k + 1 < SeqMod THEN ISN + k + 1
                                                 ELSE ISN + k + 1 - SeqMod
           /\ Number(k) \in SeqNumbers
<1>1. /\ ISN \in Nat /\ k + 1 \in Nat /\ ISN + (k + 1) <= 2 * SeqMod - 1
      /\ ISN + (k + 1) = ISN + k + 1
  BY Stream
<1>2. Plus(ISN, k + 1) = IF ISN + (k + 1) < SeqMod THEN ISN + (k + 1)
                                                  ELSE ISN + (k + 1) - SeqMod
  BY <1>1, PlusValue
<1>. QED
  BY <1>1, <1>2, Stream DEF SeqNumbers, Number

\* Positions of the stream have numbers of their own.
LEMMA NumberInjective ==
    ASSUME NEW j \in 0 .. Total + 1, NEW k \in 0 .. Total + 1, Number(j) = Number(k)
    PROVE  j = k
BY NumberValue, Stream

\* n bytes behind position k comes position k + n.
LEMMA NumberPlus ==
    ASSUME NEW k \in 0 .. Total + 1, NEW n \in Nat, k + n <= Total + 1
    PROVE  Plus(Number(k), n) = Number(k + n)
<1>. DEFINE a == Number(k)
            b == Number(k + n)
<1>1. /\ a = IF ISN + k + 1 < SeqMod THEN ISN + k + 1 ELSE ISN + k + 1 - SeqMod
      /\ k + n \in 0 .. Total + 1
  BY NumberValue
<1>2. b = IF ISN + k + n + 1 < SeqMod THEN ISN + k + n + 1 ELSE ISN + k + n + 1 - SeqMod
  BY <1>1, NumberValue, Stream
<1>. HIDE DEF a, b
<1>3. a + n \in 0 .. 2 * SeqMod - 1 /\ b = IF a + n < SeqMod THEN a + n ELSE a + n - SeqMod
  BY <1>1, <1>2, Stream
<1>4. a \in Nat /\ Plus(a, n) = IF a + n < SeqMod THEN a + n ELSE a + n - SeqMod
  BY <1>1, <1>3, PlusValue, Stream
<1>. QED
  BY <1>3, <1>4 DEF a, b

\* The positions whose bytes a data segment carries.
LEMMA BytesOfSegment ==
    ASSUME NEW k \in Positions, NEW len \in Nat, k + len <= Total
    PROVE  {p \in Positions : Number(p) \in Bytes(Number(k), len)} = k .. k + len - 1
<1>1. Bytes(Number(k), len) = {Number(k + j) : j \in 0 .. len - 1}
  <2>1. \A j \in 0 .. len - 1 : Plus(Number(k), j) = Number(k + j)
    BY NumberPlus, Stream
  <2>. QED
    BY <2>1 DEF Bytes
<1>2. ASSUME NEW p \in Positions, NEW j \in 0 .. len - 1, Number(p) = Number(k + j)
      PROVE  p = k + j
  <2>1. p \in 0 .. Total + 1 /\ k + j \in 0 .. Total + 1
    BY Stream
  <2>. QED
    BY <1>2, <2>1, NumberInjective
<1>3. ASSUME NEW p \in k .. k + len - 1
      PROVE  p \in Positions /\ p - k \in 0 .. len - 1 /\ p = k + (p - k)
  BY Stream
<1>4. \A p \in Positions : Number(p) \in Bytes(Number(k), len) => p \in k .. k + len - 1
  <2>. SUFFICES ASSUME NEW p \in Positions, NEW j \in 0 .. len - 1, Number(p) = Number(k + j)
                PROVE  p \in k .. k + len - 1
    BY <1>1
  <2>1. p = k + j
    BY <1>2
  <2>. QED
    BY <2>1, Stream
<1>5. \A p \in k .. k + len - 1 : p \in Positions /\ Number(p) \in Bytes(Number(k), len)
  BY <1>1, <1>3
<1>. QED
  BY <1>4, <1>5

\* Where a segment at k stands to a session that expects position m, by the
\* comparisons of TCPProcess.
LEMMA Comparison ==
    ASSUME NEW k \in Positions, NEW m \in 0 .. Total, NEW len \in Nat, k + len <= Total
    PROVE  LET overlap == Number(m) - Number(k)
           IN  /\ Number(k) = Number(m) => k = m
               /\ Number(k) < Number(m) /\ overlap < len =>
                     /\ k <= m /\ overlap = m - k
               /\ Number(k) < Number(m) /\ overlap >= len =>
                     \/ k + len <= m
                     \/ \A j \in k .. Total : ~(Number(j) > ISN)
<1>1. /\ k \in 0 .. Total + 1 /\ m \in 0 .. Total + 1
      /\ \A j \in k .. Total : j \in 0 .. Total + 1
  BY Stream
<1>2. /\ Number(k) = IF ISN + k + 1 < SeqMod THEN ISN + k + 1 ELSE ISN + k + 1 - SeqMod
      /\ Number(m) = IF ISN + m + 1 < SeqMod THEN ISN + m + 1 ELSE ISN + m + 1 - SeqMod
  BY <1>1, NumberValue
<1>3. ASSUME ISN + k + 1 >= SeqMod, NEW j \in k .. Total
      PROVE  ~(Number(j) > ISN)
  <2>1. Number(j) = IF ISN + j + 1 < SeqMod THEN ISN + j + 1 ELSE ISN + j + 1 - SeqMod
    BY <1>1, NumberValue
  <2>. QED
    BY <1>3, <2>1, Stream
<1>4. \/ ISN + k + 1 >= SeqMod
      \/ Number(k) < Number(m) /\ Number(m) - Number(k) >= len => k + len <= m
  BY <1>2, Stream
<1>. QED
  BY <1>2, <1>3, <1>4, Stream

---------------------------------------------------------------------------
(* The firmware takes a segment *)

\* A segment of the client is empty, its FIN, or some bytes of the stream.
LEMMA SegmentShape ==
    ASSUME NEW seg \in ClientSegments
    PROVE  /\ seg \in Segment /\ seg.remote = client
           /\ ~seg.opts /\ Arrived(seg) = seg.len
           /\ seg.seq \in SeqNumbers /\ seg.len \in Nat
           /\ seg.flags = {"SYN"} => seg.seq = ISN
           /\ "FIN" \in seg.flags => seg = FinSegment
           /\ \/ seg.len = 0
              \/ \E k \in Positions : seg.seq = Number(k) /\ k + seg.len <= Total
<1>1. \A k \in 0 .. Total + 1 : Number(k) \in SeqNumbers
  BY NumberValue
<1>2. /\ 0 \in SeqNumbers /\ ISN \in SeqNumbers /\ Total \in 0 .. Total + 1
      /\ 0 \in 0 .. Total + 1 /\ 1 \in 0 .. Total + 1
      /\ 0 \in 0 .. MaxLen /\ 1 .. MaxLen \subseteq 0 .. MaxLen
      /\ Positions \subseteq 0 .. Total + 1
  BY Stream DEF SeqNumbers
<1>3. ASSUME NEW flags \in SUBSET Flag, NEW seq \in SeqNumbers, NEW ack \in SeqNumbers,
             NEW len \in 0 .. MaxLen, seg = ClientSegment(flags, seq, ack, len)
      PROVE  /\ seg \in Segment /\ seg.remote = client
             /\ ~seg.opts /\ Arrived(seg) = seg.len
             /\ seg.flags = flags /\ seg.seq = seq /\ seg.len = len
  <2>1. seg \in Segment /\ seg.len = len /\ ~seg.opts
    BY <1>3, StreamAssumption DEF ClientSegment, Segment
  <2>2. Arrived(seg) = seg.len
    BY <2>1, Stream DEF Arrived, FrameLen
  <2>. QED
    BY <1>3, <2>1, <2>2 DEF ClientSegment
<1>4. CASE seg = SynSegment
  BY <1>2, <1>3, <1>4 DEF SynSegment, Flag
<1>5. CASE seg = FinSegment
  <2>1. Number(Total) \in SeqNumbers /\ Number(0) \in SeqNumbers
    BY <1>1, <1>2
  <2>. QED
    BY <1>2, <1>3, <1>5, <2>1 DEF FinSegment, Flag
<1>6. CASE seg \in WholeData
  <2>1. PICK k \in Positions, n \in 1 .. MaxLen : seg = DataSegment(k, n)
    BY <1>6 DEF WholeData, DataSegments
  <2>2. Number(k) \in SeqNumbers /\ Number(0) \in SeqNumbers /\ n \in 0 .. MaxLen
    BY <1>1, <1>2
  <2>3. \E l \in Positions : seg.seq = Number(l) /\ l + seg.len <= Total
    BY <1>6 DEF WholeData
  <2>4. /\ seg \in Segment /\ seg.remote = client
        /\ ~seg.opts /\ Arrived(seg) = seg.len
        /\ seg.flags = {"PSH", "ACK"} /\ seg.seq = Number(k) /\ seg.len = n
    BY <1>3, <2>1, <2>2 DEF DataSegment, Flag
  <2>5. "FIN" \notin seg.flags /\ seg.flags # {"SYN"}
    BY <2>4
  <2>6. seg.seq \in SeqNumbers /\ seg.len \in Nat
    BY <2>2, <2>4, Stream
  <2>. QED
    BY <2>3, <2>4, <2>5, <2>6
<1>7. CASE seg \in AckSegments
  <2>1. PICK a \in 0 .. Total + 1, b \in {0, 1} :
            seg = ClientSegment({"ACK"}, Number(a), Number(b), 0)
    BY <1>7 DEF AckSegments
  <2>2. Number(a) \in SeqNumbers /\ Number(b) \in SeqNumbers
    BY <1>1, <1>2
  <2>. QED
    BY <1>2, <1>3, <2>1, <2>2 DEF Flag
<1>. QED
  BY <1>4, <1>5, <1>6, <1>7 DEF ClientSegments

\* What is shown once the bytes of a segment are printed.
ShownWith(bytes) == shown \cup {k \in Positions : Number(k) \in bytes}

InOrder(positions) == \A k \in positions : Number(k) > ISN => 0 .. k \subseteq positions

\* A session that expects position m takes n bytes of a segment, prints them all,
\* and expects a position again in front of which everything is shown.
LEMMA Advance ==
    ASSUME shown \subseteq Positions, InOrder(shown),
           NEW m \in 0 .. Total, Before(m) \subseteq shown,
           NEW seg \in ClientSegments, NEW n \in Int,
           \/ seg.seq = Number(m) /\ n = seg.len
           \/ /\ seg.seq < Number(m) /\ Number(m) - seg.seq < seg.len
              /\ n = seg.len - (Number(m) - seg.seq)
           \/ seg.seq < Number(m) /\ Number(m) - seg.seq >= seg.len /\ n = 0
    PROVE  LET after == ShownWith(Bytes(seg.seq, Arrived(seg)))
           IN  /\ InOrder(after)
               /\ \E k \in 0 .. Total : Earned(Plus(Number(m), n), k, after)
<1>. DEFINE after == ShownWith(Bytes(seg.seq, Arrived(seg)))
<1>1. /\ seg.seq \in SeqNumbers /\ seg.len \in Nat /\ Arrived(seg) = seg.len
      /\ Number(m) \in SeqNumbers /\ Number(m) \in Int /\ seg.seq \in Int
  BY SegmentShape, NumberValue, Stream DEF SeqNumbers
<1>2. CASE seg.len = 0
  <2>1. n = 0
    BY <1>1, <1>2
  <2>2. after = shown
    BY <1>1, <1>2, PlusZero DEF ShownWith
  <2>3. Plus(Number(m), n) = Number(m)
    BY <1>1, <2>1, PlusZero
  <2>. QED
    BY <2>2, <2>3 DEF Earned
<1>3. CASE \E k \in Positions : seg.seq = Number(k) /\ k + seg.len <= Total
  <2>. DEFINE len == seg.len
  <2>1. PICK k \in Positions : seg.seq = Number(k) /\ k + len <= Total
    BY <1>3
  <2>2. after = shown \cup (k .. k + len - 1)
    BY <1>1, <2>1, BytesOfSegment DEF ShownWith
  <2>. HIDE DEF after, len
  <2>3. Total \in Nat /\ len \in Nat /\ k \in 0 .. Total - 1 /\ m \in 0 .. Total /\ shown \subseteq 0 .. Total - 1
    BY <1>1, Stream DEF len
  <2>4. CASE k <= m /\ (\/ n = len /\ k = m
                        \/ n = len - (m - k) /\ m - k < len)
    <3>1. m + n = k + len /\ n \in Nat /\ m + n \in 0 .. Total /\ k + len <= Total + 1
      BY <2>1, <2>3, <2>4
    <3>2. Plus(Number(m), n) = Number(k + len)
      <4>1. m \in 0 .. Total + 1 /\ m + n <= Total + 1
        BY <2>3, <3>1
      <4>2. Plus(Number(m), n) = Number(m + n)
        BY <3>1, <4>1, NumberPlus
      <4>. QED
        BY <3>1, <4>2
    <3>3. Before(m) = 0 .. m - 1
      BY <2>3, Stream DEF Before
    <3>4. 0 .. k + len - 1 \subseteq after
      BY <2>2, <2>3, <2>4, <3>3
    <3>5. Earned(Number(k + len), k + len, after)
      BY <2>3, <3>4, Stream DEF Earned, Before
    <3>6. InOrder(after)
      <4>. SUFFICES ASSUME NEW j \in after, Number(j) > ISN
                    PROVE  0 .. j \subseteq after
        BY DEF InOrder
      <4>1. CASE j \in shown
        BY <2>2, <4>1 DEF InOrder
      <4>2. CASE j \in k .. k + len - 1
        BY <2>3, <3>4, <4>2
      <4>. QED
        BY <2>2, <4>1, <4>2
    <3>. QED
      BY <2>1, <3>1, <3>2, <3>5, <3>6 DEF after
  <2>5. CASE n = 0 /\ (\/ k + len <= m
                       \/ \A j \in k .. Total : ~(Number(j) > ISN))
    <3>1. Plus(Number(m), n) = Number(m)
      BY <1>1, <2>5, PlusZero
    <3>2. Earned(Number(m), m, after)
      BY <2>2 DEF Earned
    <3>3. InOrder(after)
      <4>. SUFFICES ASSUME NEW j \in after, Number(j) > ISN
                    PROVE  0 .. j \subseteq after
        BY DEF InOrder
      <4>1. CASE j \in shown
        BY <2>2, <4>1 DEF InOrder
      <4>2. CASE j \in k .. k + len - 1
        <5>1. j \in k .. Total
          BY <2>1, <2>3, <4>2
        <5>2. k + len <= m
          BY <2>5, <5>1
        <5>3. 0 .. j \subseteq Before(m)
          BY <2>1, <2>3, <4>2, <5>2, Stream DEF Before
        <5>. QED
          BY <2>2, <5>3
      <4>. QED
        BY <2>2, <4>1, <4>2
    <3>. QED
      BY <3>1, <3>2, <3>3 DEF after
  <2>6. /\ Number(k) = Number(m) => k = m
        /\ Number(k) < Number(m) /\ Number(m) - Number(k) < len =>
              k <= m /\ Number(m) - Number(k) = m - k
        /\ Number(k) < Number(m) /\ Number(m) - Number(k) >= len =>
              \/ k + len <= m
              \/ \A j \in k .. Total : ~(Number(j) > ISN)
    BY <2>1, <2>3, Comparison
  <2>7. \/ Number(k) = Number(m) /\ n = len
        \/ /\ Number(k) < Number(m) /\ Number(m) - Number(k) < len
           /\ n = len - (Number(m) - Number(k))
        \/ Number(k) < Number(m) /\ Number(m) - Number(k) >= len /\ n = 0
    BY <2>1 DEF len
  <2>8. CASE Number(k) = Number(m) /\ n = len
    BY <2>3, <2>4, <2>6, <2>8
  <2>9. CASE /\ Number(k) < Number(m) /\ Number(m) - Number(k) < len
             /\ n = len - (Number(m) - Number(k))
    BY <2>4, <2>6, <2>9
  <2>10. CASE Number(k) < Number(m) /\ Number(m) - Number(k) >= len /\ n = 0
    BY <2>5, <2>6, <2>10
  <2>. QED
    BY <2>7, <2>8, <2>9, <2>10
<1>. QED
  BY <1>2, <1>3, SegmentShape

\* What is earned stays earned.
LEMMA EarnedMore ==
    ASSUME NEW number, NEW m, NEW positions, NEW more,
           Earned(number, m, positions), positions \subseteq more
    PROVE  Earned(number, m, more)
BY DEF Earned

\* One branch of TCPProcess for a session that expects what it may expect.
LEMMA HandleEarns ==
    ASSUME TypeOK, shown \subseteq Positions, InOrder(shown),
           NEW seg \in ClientSegments, seg = FinSegment => ~Patient \/ shown = Positions,
           NEW i \in Sessions, NEW s \in Session,
           s.sesState \in Live => \E m \in 0 .. Total : Earned(s.AckNumber, m, shown),
           Handle(seg, i, s)
    PROVE  LET after == ShownWith(printed')
               new == tcpSessionTable'[i]
           IN  /\ InOrder(after)
               /\ new.sesState \in Live =>
                     \E m \in 0 .. Total : Earned(new.AckNumber, m, after)
               /\ \A k \in DOMAIN sent' :
                     /\ sent'[k].flags \in ReplyFlags
                     /\ Patient /\ sent'[k].flags # {"SYN", "ACK"} =>
                           \E m \in 0 .. Total + 1 : Earned(sent'[k].ack, m, after)
<1>. DEFINE after == ShownWith(printed')
            new == tcpSessionTable'[i]
<1>1. \A r : Store(i, r) => new = r
  BY DEF Store, TypeOK
<1>2. shown \subseteq after
  BY DEF ShownWith
<1>3. printed' = {} => after = shown
  BY DEF ShownWith
<1>4. CASE Reset(seg, i, s)
  BY <1>1, <1>3, <1>4 DEF Reset, Quiet, Session, Live
<1>5. CASE ListenSyn(seg, i, s)
  <2>. DEFINE opened == [s EXCEPT !.sesState = "SYN_RECEIVED", !.SeqNumber = seg.seq,
                                  !.AckNumber = Plus(seg.seq, 1)]
  <2>1. /\ new = AfterSend(opened, {"SYN", "ACK"}) /\ printed' = {}
        /\ sent' = <<Packed(opened, {"SYN", "ACK"})>>
    BY <1>1, <1>5 DEF ListenSyn
  <2>2. opened.AckNumber = Number(0)
    <3>1. seg.seq = ISN
      BY <1>5, SegmentShape DEF ListenSyn
    <3>. QED
      BY <3>1 DEF Number, Session
  <2>3. new.AckNumber = Number(0)
    BY <2>1, <2>2 DEF AfterSend, Session
  <2>4. Earned(new.AckNumber, 0, after) /\ 0 \in 0 .. Total
    BY <2>3, Stream DEF Earned, Before
  <2>5. sent'[1].flags = {"SYN", "ACK"} /\ DOMAIN sent' = {1}
    BY <2>1 DEF Packed
  <2>. QED
    BY <1>3, <2>1, <2>4, <2>5 DEF ReplyFlags
<1>6. CASE SynReceivedAck(seg, i, s) \/ Ignored(seg, i, s)
  <2>1. /\ new.sesState \in Live => s.sesState \in Live
        /\ new.AckNumber = s.AckNumber
        /\ sent' = <<>> /\ printed' = {}
    BY <1>1, <1>6 DEF SynReceivedAck, Ignored, Quiet, Session, Live
  <2>. QED
    BY <1>3, <2>1
<1>7. CASE EstablishedFin(seg, i, s)
  <2>. DEFINE last == [s EXCEPT !.AckNumber = Plus(seg.seq, seg.len + 1)]
  <2>1. /\ new.sesState = "CLOSED" /\ printed' = {}
        /\ sent' = <<Packed(last, {"ACK"}), Packed(last, {"FIN", "ACK"})>>
        /\ seg = FinSegment
    BY <1>1, <1>7, SegmentShape DEF EstablishedFin, AfterSend, Session
  <2>2. last.AckNumber = Number(Total + 1)
    <3>1. seg.seq = Number(Total) /\ seg.len + 1 = 1
      BY <2>1 DEF FinSegment, ClientSegment
    <3>2. Plus(Number(Total), 1) = Number(Total + 1)
      BY NumberPlus, Stream
    <3>. QED
      BY <3>1, <3>2 DEF Session
  <2>3. Patient => Earned(Number(Total + 1), Total + 1, after)
    BY <1>2, <2>1 DEF Earned, Before
  <2>4. /\ DOMAIN sent' = {1, 2}
        /\ sent'[1].flags = {"ACK"} /\ sent'[2].flags = {"FIN", "ACK"}
        /\ sent'[1].ack = Number(Total + 1) /\ sent'[2].ack = Number(Total + 1)
    BY <2>1, <2>2 DEF Packed
  <2>5. Total + 1 \in 0 .. Total + 1
    BY Stream
  <2>. QED
    BY <1>3, <2>1, <2>3, <2>4, <2>5 DEF Live, ReplyFlags
<1>8. ASSUME IsData(seg, s), NEW n \in Int, NEW acks \in Nat,
             Deliver(seg, i, Synced(seg, s), n, acks),
             \/ seg.seq = s.AckNumber /\ n = seg.len
             \/ /\ seg.seq < s.AckNumber /\ s.AckNumber - seg.seq < seg.len
                /\ n = seg.len - (s.AckNumber - seg.seq)
             \/ seg.seq < s.AckNumber /\ s.AckNumber - seg.seq >= seg.len /\ n = 0
      PROVE  /\ InOrder(after)
             /\ \E m \in 0 .. Total : Earned(new.AckNumber, m, after)
             /\ \A k \in DOMAIN sent' : /\ sent'[k].flags = {"ACK"}
                                       /\ sent'[k].ack = new.AckNumber
  <2>1. PICK m \in 0 .. Total : Earned(s.AckNumber, m, shown)
    BY <1>8 DEF IsData, Live
  <2>2. s.AckNumber = Number(m) /\ Before(m) \subseteq shown
    BY <2>1 DEF Earned
  <2>. DEFINE next == [Synced(seg, s) EXCEPT !.AckNumber = Plus(@, n)]
  <2>3. /\ new = next /\ next.AckNumber = Plus(Number(m), n)
        /\ printed' = Bytes(seg.seq, Arrived(seg))
        /\ sent' = [k \in 1 .. acks |-> Packed(next, {"ACK"})]
    <3>1. seg \in Segment
      BY SegmentShape
    <3>2. Synced(seg, s) \in Session /\ Synced(seg, s).AckNumber = Number(m)
      BY <2>2, <3>1, SyncedType
    <3>. QED
      BY <1>1, <1>8, <3>2 DEF Deliver, Session
  <2>. HIDE DEF next
  <2>4. /\ InOrder(after)
        /\ \E k \in 0 .. Total : Earned(Plus(Number(m), n), k, after)
    BY <1>8, <2>2, <2>3, Advance
  <2>5. \A k \in DOMAIN sent' : sent'[k].flags = {"ACK"} /\ sent'[k].ack = next.AckNumber
    BY <2>3 DEF Packed
  <2>. QED
    BY <2>3, <2>4, <2>5
<1>9. CASE InOrderData(seg, i, s) \/ OverlappingData(seg, i, s) \/ RedundantData(seg, i, s)
  <2>1. /\ InOrder(after)
        /\ \E m \in 0 .. Total : Earned(new.AckNumber, m, after)
        /\ \A k \in DOMAIN sent' : /\ sent'[k].flags = {"ACK"}
                                  /\ sent'[k].ack = new.AckNumber
    <3>0. seg.len \in Int /\ seg.seq \in Int /\ s.AckNumber \in Int
      BY SegmentShape, Stream DEF Session, SeqNumbers
    <3>1. CASE InOrderData(seg, i, s)
      <4>1. Pushed(seg) \in Nat
        BY DEF Pushed
      <4>. QED
        BY <1>8, <3>0, <3>1, <4>1 DEF InOrderData
    <3>2. CASE OverlappingData(seg, i, s)
      <4>1. Pushed(seg) \in Nat /\ seg.len - (s.AckNumber - seg.seq) \in Int
        BY <3>0 DEF Pushed
      <4>. QED
        BY <1>8, <3>2, <4>1 DEF OverlappingData
    <3>3. CASE RedundantData(seg, i, s)
      <4>1. PICK acks \in {1, 2} : Deliver(seg, i, Synced(seg, s), 0, acks)
        BY <3>3 DEF RedundantData
      <4>. QED
        BY <1>8, <3>3, <4>1 DEF RedundantData
    <3>. QED
      BY <1>9, <3>1, <3>2, <3>3
  <2>2. \A m \in 0 .. Total : m \in 0 .. Total + 1
    BY Stream
  <2>. QED
    BY <2>1, <2>2 DEF ReplyFlags
<1>10. CASE GapData(seg, i, s)
  <2>1. PICK m \in 0 .. Total : Earned(s.AckNumber, m, shown)
    BY <1>10 DEF GapData, IsData, Live
  <2>2. /\ new.AckNumber = s.AckNumber /\ printed' = {}
        /\ DOMAIN sent' = {1}
        /\ sent'[1].flags = {"ACK"} /\ sent'[1].ack = s.AckNumber
    <3>1. Synced(seg, s).AckNumber = s.AckNumber
      BY SegmentShape, SyncedType
    <3>. QED
      BY <1>1, <1>10, <3>1 DEF GapData, Packed
  <2>3. m \in 0 .. Total + 1
    BY <2>1, Stream
  <2>. QED
    BY <1>3, <2>1, <2>2, <2>3 DEF ReplyFlags
<1>. QED
  BY <1>4, <1>5, <1>6, <1>7, <1>9, <1>10 DEF Handle

---------------------------------------------------------------------------
(* The steps of the connection *)

\* The segments of the client, by the position they are of.
LEMMA SegmentsOfClient ==
    /\ SynSegment \in ClientSegments /\ FinSegment \in ClientSegments
    /\ \A k \in Positions, n \in 1 .. MaxLen :
           k + n <= Total => DataSegment(k, n) \in ClientSegments
    /\ \A a \in 0 .. Total + 1, b \in {0, 1} :
           ClientSegment({"ACK"}, Number(a), Number(b), 0) \in ClientSegments
<1>1. ASSUME NEW k \in Positions, NEW n \in 1 .. MaxLen, k + n <= Total
      PROVE  DataSegment(k, n) \in WholeData
  <2>1. DataSegment(k, n).seq = Number(k) /\ DataSegment(k, n).len = n
    BY DEF DataSegment, ClientSegment
  <2>. QED
    BY <1>1, <2>1 DEF WholeData, DataSegments
<1>. QED
  BY <1>1 DEF ClientSegments, AckSegments

\* Only data and acknowledgements are no FIN.
LEMMA FinDiffers ==
    /\ FinSegment # SynSegment
    /\ \A k \in Positions, n \in 1 .. MaxLen : FinSegment # DataSegment(k, n)
    /\ \A a, b : FinSegment # ClientSegment({"ACK"}, a, b, 0)
<1>1. FinSegment.flags = {"FIN", "ACK"}
  BY DEF FinSegment, ClientSegment
<1>2. SynSegment.flags = {"SYN"}
  BY DEF SynSegment, ClientSegment
<1>3. \A k \in Positions, n \in 1 .. MaxLen : DataSegment(k, n).flags = {"PSH", "ACK"}
  BY DEF DataSegment, ClientSegment
<1>4. \A a, b : ClientSegment({"ACK"}, a, b, 0).flags = {"ACK"}
  BY DEF ClientSegment
<1>5. "FIN" \notin {"SYN"} /\ "FIN" \notin {"PSH", "ACK"} /\ "FIN" \notin {"ACK"}
  OBVIOUS
<1>. QED
  BY <1>1, <1>2, <1>3, <1>4, <1>5

\* A step of the client or the network that leaves the firmware alone.
LEMMA OutsideStep ==
    ASSUME StreamInv, UNCHANGED <<vars, shown>>,
           cstate' \in {"syn_sent", "established", "fin_sent", "done"},
           nxt' \in 0 .. Total, una' \in 0 .. nxt',
           cstate' \in {"fin_sent", "done"} => nxt' = Total,
           toServer' \subseteq ClientSegments, toClient' \subseteq toClient,
           Patient => /\ AcknowledgedWasPrinted'
                      /\ FinSegment \in toServer' => shown = Positions
    PROVE  StreamInv'
<1>1. TypeOK' /\ SessionsEarned' /\ PrintedInOrder'
  BY DEF StreamInv, vars, TypeOK, SessionsEarned, PrintedInOrder, InState
<1>2. ClientInv'
  BY DEF StreamInv, ClientInv
<1>3. Patient => RepliesEarned' /\ FinIsLast'
  BY DEF StreamInv, RepliesEarned, FinIsLast
<1>. QED
  BY <1>1, <1>2, <1>3 DEF StreamInv

\* The client connects.
LEMMA ConnectStep == ASSUME StreamInv, Connect PROVE StreamInv'
<1>1. toServer' \subseteq ClientSegments
  BY SegmentsOfClient DEF Connect, Send, StreamInv, ClientInv
<1>2. FinSegment \in toServer' => FinSegment \in toServer
  BY FinDiffers DEF Connect, Send
<1>. QED
  BY <1>1, <1>2, OutsideStep
  DEF StreamInv, ClientInv, FinIsLast, AcknowledgedWasPrinted, Connect, clientVars

\* The client sends data, for the first time or again.
LEMMA SendDataStep ==
    ASSUME StreamInv, NEW k \in Positions, NEW n \in 1 .. MaxLen, SendData(k, n)
    PROVE  StreamInv'
<1>1. toServer' \subseteq ClientSegments
  BY SegmentsOfClient DEF SendData, Send, StreamInv, ClientInv
<1>2. FinSegment \in toServer' => FinSegment \in toServer
  BY FinDiffers DEF SendData, Send
<1>3. nxt' \in 0 .. Total /\ una' \in 0 .. nxt'
  BY Stream DEF SendData, StreamInv, ClientInv
<1>. QED
  BY <1>1, <1>2, <1>3, OutsideStep
  DEF StreamInv, ClientInv, FinIsLast, AcknowledgedWasPrinted, SendData

\* The client has nothing more to send.
LEMMA FinishStep == ASSUME StreamInv, Finish PROVE StreamInv'
<1>1. toServer' \subseteq ClientSegments
  BY SegmentsOfClient DEF Finish, Send, StreamInv, ClientInv
<1>2. Patient => shown = Positions
  BY DEF Finish, StreamInv, AcknowledgedWasPrinted, ClientInv, Positions
<1>3. nxt' = Total
  BY Stream DEF Finish, StreamInv, ClientInv
<1>. QED
  BY <1>1, <1>2, <1>3, OutsideStep
  DEF StreamInv, ClientInv, AcknowledgedWasPrinted, Finish

\* The network loses a segment.
LEMMA LoseStep == ASSUME StreamInv, Lose PROVE StreamInv'
<1>1. toServer' \subseteq toServer /\ toClient' \subseteq toClient
  BY DEF Lose
<1>. QED
  BY <1>1, OutsideStep
  DEF StreamInv, ClientInv, FinIsLast, AcknowledgedWasPrinted, Lose, clientVars

\* An acknowledgement that was earned moves una only over what was shown.
LEMMA AckIsEarned ==
    ASSUME StreamInv, Patient, NEW reply \in toClient, reply.flags # {"SYN", "ACK"}
    PROVE  /\ \A k \in Acknowledged(reply) : 0 .. k - 1 \subseteq shown
           /\ reply.ack = Number(Total + 1) => shown = Positions
<1>1. PICK m \in 0 .. Total + 1 : Earned(reply.ack, m, shown)
  BY DEF StreamInv, RepliesEarned
<1>2. /\ una \in Nat /\ nxt \in 0 .. Total /\ shown \subseteq Positions
      /\ Before(m) \subseteq shown /\ reply.ack = Number(m)
  BY <1>1 DEF Earned, StreamInv, ClientInv
<1>3. ASSUME NEW k \in 0 .. Total + 1, reply.ack = Number(k)
      PROVE  Before(k) \subseteq shown
  BY <1>2, <1>3, NumberInjective
<1>4. Before(Total + 1) = Positions /\ Before(Total) = Positions
  BY Stream DEF Before
<1>5. Total + 1 \in 0 .. Total + 1
  BY Stream
<1>6. ASSUME NEW k \in Acknowledged(reply)
      PROVE  0 .. k - 1 \subseteq shown
  <2>1. k \in 0 .. Total + 1 /\ k \in 0 .. Total
    BY <1>2, Stream DEF Acknowledged
  <2>2. Before(k) \subseteq shown
    BY <1>3, <1>4, <1>5, <2>1 DEF Acknowledged
  <2>3. 0 .. k - 1 = Before(k)
    BY <2>1, Stream DEF Before
  <2>. QED
    BY <2>2, <2>3
<1>. QED
  BY <1>2, <1>3, <1>4, <1>5, <1>6

\* The bare acknowledgement the client sends.
LEMMA AckSent ==
    ASSUME cstate' \in {"syn_sent", "established", "fin_sent", "done"},
           nxt' \in 0 .. Total
    PROVE  AckSegment' \in ClientSegments /\ AckSegment' # FinSegment
<1>. DEFINE a == IF cstate' \in {"fin_sent", "done"} THEN Total + 1 ELSE nxt'
            b == IF cstate' = "done" THEN 1 ELSE 0
<1>1. a \in 0 .. Total + 1 /\ b \in {0, 1}
  BY Stream
<1>2. AckSegment' = ClientSegment({"ACK"}, Number(a), Number(b), 0)
  BY DEF AckSegment
<1>. HIDE DEF a, b
<1>. QED
  BY <1>1, <1>2, SegmentsOfClient, FinDiffers

\* The client receives a reply.
LEMMA ClientStep ==
    ASSUME StreamInv, NEW reply \in toClient, NEW keep \in BOOLEAN,
           ClientReceive(reply, keep)
    PROVE  StreamInv'
<1>1. UNCHANGED <<vars, shown>> /\ toClient' \subseteq toClient
  BY DEF ClientReceive
<1>2. /\ cstate \in {"syn_sent", "established", "fin_sent", "done"}
      /\ nxt \in 0 .. Total /\ una \in 0 .. nxt /\ toServer \subseteq ClientSegments
      /\ cstate \in {"fin_sent", "done"} => nxt = Total
      /\ Patient => /\ AcknowledgedWasPrinted
                    /\ FinSegment \in toServer => shown = Positions
  BY DEF StreamInv, ClientInv, FinIsLast
<1>3. CASE OnSynAck(reply)
  <2>1. /\ cstate' \in {"syn_sent", "established", "fin_sent", "done"}
        /\ UNCHANGED <<una, nxt>>
        /\ cstate' \in {"fin_sent", "done"} => nxt' = Total
    BY <1>2, <1>3 DEF OnSynAck
  <2>2. toServer' = toServer \cup {AckSegment'} /\ AckSegment' \in ClientSegments
        /\ AckSegment' # FinSegment
    BY <1>2, <1>3, <2>1, AckSent DEF OnSynAck
  <2>. QED
    BY <1>1, <1>2, <2>1, <2>2, OutsideStep DEF AcknowledgedWasPrinted
<1>4. CASE OnAck(reply)
  <2>1. una' \in 0 .. nxt
    BY <1>2, <1>4, Stream DEF OnAck, Acknowledged
  <2>2. Patient => AcknowledgedWasPrinted'
    <3>1. reply.flags # {"SYN", "ACK"}
      BY <1>4 DEF OnAck
    <3>2. Patient => 0 .. una' - 1 \subseteq shown
      BY <1>2, <1>4, <3>1, AckIsEarned DEF OnAck, AcknowledgedWasPrinted
    <3>. QED
      BY <1>1, <3>2 DEF AcknowledgedWasPrinted
  <2>. QED
    BY <1>1, <1>2, <1>4, <2>1, <2>2, OutsideStep DEF OnAck
<1>5. CASE OnFin(reply)
  <2>1. /\ cstate' \in {"syn_sent", "established", "fin_sent", "done"}
        /\ UNCHANGED nxt
        /\ una' \in 0 .. nxt'
        /\ cstate' \in {"fin_sent", "done"} => nxt' = Total
        /\ una' = una \/ (una' = Total /\ reply.ack = Number(Total + 1))
    <3>1. CASE cstate = "fin_sent" /\ reply.ack = Number(Total + 1)
      BY <1>2, <1>5, <3>1, Stream DEF OnFin
    <3>2. CASE ~(cstate = "fin_sent" /\ reply.ack = Number(Total + 1))
      BY <1>2, <1>5, <3>2 DEF OnFin
    <3>. QED
      BY <3>1, <3>2
  <2>2. toServer' = toServer \cup {AckSegment'} /\ AckSegment' \in ClientSegments
        /\ AckSegment' # FinSegment
    BY <1>2, <1>5, <2>1, AckSent DEF OnFin
  <2>3. Patient => AcknowledgedWasPrinted'
    <3>1. reply.flags # {"SYN", "ACK"}
      BY <1>5 DEF OnFin
    <3>2. Patient /\ una' = Total /\ reply.ack = Number(Total + 1) => AcknowledgedWasPrinted'
      BY <1>1, <3>1, AckIsEarned DEF AcknowledgedWasPrinted, Positions
    <3>. QED
      BY <1>1, <1>2, <2>1, <3>2 DEF AcknowledgedWasPrinted
  <2>. QED
    BY <1>1, <1>2, <2>1, <2>2, <2>3, OutsideStep
<1>. QED
  BY <1>3, <1>4, <1>5 DEF ClientReceive

\* The server receives a segment.
LEMMA ServerStep ==
    ASSUME StreamInv, NEW seg \in toServer, NEW keep \in BOOLEAN,
           ServerReceive(seg, keep)
    PROVE  StreamInv'
<1>1. PICK i \in Sessions : Selected(seg, i) /\ Handle(seg, i, Entry(seg, i))
  BY DEF ServerReceive, TCPProcess
<1>. DEFINE s == Entry(seg, i)
            new == tcpSessionTable'[i]
<1>2. /\ TypeOK /\ seg \in ClientSegments /\ seg \in Segment /\ seg.remote \in Remotes
      /\ s \in Session /\ s.remote \in Remotes
  <2>1. TypeOK /\ seg \in ClientSegments
    BY DEF StreamInv, ClientInv
  <2>2. seg \in Segment
    BY <2>1, SegmentShape
  <2>. QED
    BY <2>1, <2>2, EntryType DEF Segment
<1>3. TypeOK'
  BY <1>1, <1>2, HandleType
<1>4. s.sesState \in Live => \E m \in 0 .. Total : Earned(s.AckNumber, m, shown)
  <2>1. tcpSessionTable[i] \in Session
    BY <1>2 DEF TypeOK
  <2>2. s.sesState \in Live =>
           s.sesState = tcpSessionTable[i].sesState /\ s.AckNumber = tcpSessionTable[i].AckNumber
    BY <2>1 DEF Entry, NewSession, Session, Live
  <2>. QED
    BY <2>2 DEF StreamInv, SessionsEarned, InState
<1>5. shown \subseteq Positions /\ InOrder(shown)
  BY DEF StreamInv, ClientInv, PrintedInOrder, InOrder
<1>6. seg = FinSegment => ~Patient \/ shown = Positions
  BY DEF StreamInv, FinIsLast
<1>7. shown' = ShownWith(printed') /\ shown \subseteq shown'
  BY DEF ServerReceive, ShownWith
<1>8. /\ InOrder(shown')
      /\ new.sesState \in Live =>
            \E m \in 0 .. Total : Earned(new.AckNumber, m, shown')
      /\ \A k \in DOMAIN sent' :
            /\ sent'[k].flags \in ReplyFlags
            /\ Patient /\ sent'[k].flags # {"SYN", "ACK"} =>
                  \E m \in 0 .. Total + 1 : Earned(sent'[k].ack, m, shown')
  <2>1. Handle(seg, i, s)
    BY <1>1
  <2>. HIDE DEF s
  <2>. QED
    BY <1>2, <1>4, <1>5, <1>6, <1>7, <2>1, HandleEarns
<1>9. \A j \in Sessions \ {i} : tcpSessionTable'[j] = tcpSessionTable[j]
  <2>1. PICK r : Store(i, r)
    BY <1>1 DEF Handle, Reset, ListenSyn, SynReceivedAck, Ignored, EstablishedFin,
       InOrderData, OverlappingData, RedundantData, GapData, Deliver
  <2>. QED
    BY <1>2, <2>1 DEF Store, TypeOK
<1>10. toClient' = toClient \cup {sent'[k] : k \in DOMAIN sent'}
  BY DEF ServerReceive
<1>11. ClientInv'
  <2>1. \A k \in DOMAIN sent' : sent'[k] \in Reply
    BY <1>3 DEF TypeOK
  <2>2. /\ UNCHANGED <<cstate, una, nxt>> /\ toServer' \subseteq toServer
        /\ shown' \subseteq Positions
    BY <1>5, <1>7 DEF ServerReceive, clientVars, ShownWith
  <2>3. /\ toClient' \subseteq Reply
        /\ \A reply \in toClient' : reply.flags \in ReplyFlags
    BY <1>8, <1>10, <2>1 DEF StreamInv, ClientInv
  <2>. QED
    BY <2>2, <2>3 DEF StreamInv, ClientInv
<1>12. SessionsEarned'
  <2>. SUFFICES ASSUME NEW j \in Sessions, tcpSessionTable'[j].sesState \in Live
                PROVE  \E m \in 0 .. Total :
                          Earned(tcpSessionTable'[j].AckNumber, m, shown')
    BY DEF SessionsEarned, InState
  <2>1. CASE j = i
    BY <1>8, <2>1
  <2>2. CASE j # i
    <3>1. PICK m \in 0 .. Total : Earned(tcpSessionTable[j].AckNumber, m, shown)
      BY <1>9, <2>2 DEF StreamInv, SessionsEarned, InState
    <3>. QED
      BY <1>7, <1>9, <2>2, <3>1, EarnedMore
  <2>. QED
    BY <2>1, <2>2
<1>13. PrintedInOrder'
  BY <1>8 DEF InOrder, PrintedInOrder
<1>14. ASSUME Patient
       PROVE  RepliesEarned' /\ FinIsLast' /\ AcknowledgedWasPrinted'
  <2>1. ASSUME NEW reply \in toClient', reply.flags # {"SYN", "ACK"}
        PROVE  \E m \in 0 .. Total + 1 : Earned(reply.ack, m, shown')
    <3>1. CASE reply \in toClient
      <4>1. PICK m \in 0 .. Total + 1 : Earned(reply.ack, m, shown)
        BY <1>14, <2>1, <3>1 DEF StreamInv, RepliesEarned
      <4>. QED
        BY <1>7, <4>1, EarnedMore
    <3>2. CASE \E k \in DOMAIN sent' : reply = sent'[k]
      BY <1>8, <1>14, <2>1, <3>2
    <3>. QED
      BY <1>10, <2>1, <3>1, <3>2
  <2>2. FinIsLast'
    <3>1. toServer' \subseteq toServer /\ shown' \subseteq Positions
      BY <1>5, <1>7 DEF ServerReceive, ShownWith
    <3>. QED
      BY <1>7, <1>14, <3>1 DEF StreamInv, FinIsLast
  <2>3. AcknowledgedWasPrinted'
    BY <1>7, <1>14 DEF StreamInv, AcknowledgedWasPrinted, ServerReceive, clientVars
  <2>. QED
    BY <2>1, <2>2, <2>3 DEF RepliesEarned
<1>. QED
  BY <1>3, <1>11, <1>12, <1>13, <1>14 DEF StreamInv

\* Whatever the network does to the segments of a stream, its invariant holds.
THEOREM StreamCorrect == StreamSpec => []StreamInv
<1>1. StreamInit => StreamInv
  <2>. SUFFICES ASSUME StreamInit PROVE StreamInv
    OBVIOUS
  <2>. USE DEF StreamInit
  <2>1. TypeOK
    BY SizesAssumption DEF Init, TypeOK, Session, States, SeqNumbers
  <2>2. InState(Live) = {}
    BY DEF Init, InState, Live
  <2>3. ClientInv
    BY Stream DEF ClientInv
  <2>4. AcknowledgedWasPrinted /\ PrintedInOrder /\ RepliesEarned /\ FinIsLast
    BY DEF AcknowledgedWasPrinted, PrintedInOrder, RepliesEarned, FinIsLast
  <2>. QED
    BY <2>1, <2>2, <2>3, <2>4 DEF StreamInv, SessionsEarned
<1>2. StreamInv /\ [StreamNext]_streamVars => StreamInv'
  <2>. SUFFICES ASSUME StreamInv, [StreamNext]_streamVars PROVE StreamInv'
    OBVIOUS
  <2>0. Duplicating \in BOOLEAN
    BY StreamAssumption
  <2>1. CASE Connect
    BY <2>1, ConnectStep
  <2>2. CASE \E k \in Positions, n \in 1 .. MaxLen : SendData(k, n)
    BY <2>2, SendDataStep
  <2>3. CASE Finish
    BY <2>3, FinishStep
  <2>4. CASE \E seg \in toServer, keep \in {FALSE, Duplicating} : ServerReceive(seg, keep)
    BY <2>0, <2>4, ServerStep
  <2>5. CASE \E reply \in toClient, keep \in {FALSE, Duplicating} :
                 ClientReceive(reply, keep)
    BY <2>0, <2>5, ClientStep
  <2>6. CASE Lose
    BY <2>6, LoseStep
  <2>7. CASE UNCHANGED streamVars
    <3>1. /\ UNCHANGED <<vars, shown>> /\ UNCHANGED <<cstate, una, nxt, toServer, toClient>>
      BY <2>7 DEF streamVars, clientVars
    <3>. QED
      BY <3>1, OutsideStep DEF StreamInv, ClientInv, FinIsLast, AcknowledgedWasPrinted
  <2>. QED
    BY <2>1, <2>2, <2>3, <2>4, <2>5, <2>6, <2>7 DEF StreamNext
<1>. QED
  BY <1>1, <1>2, PTL DEF StreamSpec

\* Bytes come out on the console in the order of the stream until the sequence
\* numbers wrap, whether or not the client waits with its FIN (TCP.c:343-385).
THEOREM StreamPrintedInOrder == StreamSpec => []PrintedInOrder
BY StreamCorrect, PTL DEF StreamInv

\* What a client that waits with its FIN has an acknowledgement for was printed:
\* the acknowledgement of a FIN is the only one that TCPProcess does not earn
\* (TCP.c:306-318).
THEOREM StreamAcknowledgedWasPrinted ==
    Patient /\ StreamSpec => []AcknowledgedWasPrinted
<1>. SUFFICES ASSUME Patient PROVE StreamSpec => []AcknowledgedWasPrinted
  OBVIOUS
<1>1. StreamInv => AcknowledgedWasPrinted
  BY DEF StreamInv
<1>. QED
  BY <1>1, StreamCorrect, PTL
=============================================================================
