------------------------- MODULE JitterBufferProofs -------------------------
(***************************************************************************)
(* What JitterBuffer guarantees for every ring capacity, sequence space,   *)
(* stream and clock.  The inductive invariant is JitterInv below.          *)
(***************************************************************************)
EXTENDS JitterBuffer, FiniteSetTheorems, TLAPS

\* Quotient and remainder, the form the other lemmas compute with.
LEMMA DivMod ==
  ASSUME NEW a \in Int, NEW m \in Nat \ {0}
  PROVE  /\ a % m \in 0 .. (m - 1)
         /\ a \div m \in Int
         /\ a = m * (a \div m) + (a % m)
  OBVIOUS

LEMMA ModUnique ==
  ASSUME NEW a \in Int, NEW m \in Nat \ {0}, NEW q \in Int,
         NEW r \in 0 .. (m - 1), a = m * q + r
  PROVE  a % m = r
  OBVIOUS

\* A multiple of c strictly between -c and c is zero.
LEMMA SmallMultiple ==
  ASSUME NEW c \in Nat \ {0}, NEW x \in Int, -c < c * x, c * x < c
  PROVE  x = 0
  OBVIOUS
-----------------------------------------------------------------------------
(* Sequence numbers. *)

LEMMA HalfProperties == Half \in Nat \ {0} /\ SeqMod = 2 * Half
  BY SeqModAssumption, DivMod DEF Half

LEMMA SeqAddType ==
  ASSUME NEW s \in Int, NEW k \in Int
  PROVE  SeqAdd(s, k) \in SeqNum
  BY SeqModAssumption, DivMod DEF SeqAdd, SeqNum

LEMMA SeqAddZero == ASSUME NEW s \in SeqNum PROVE SeqAdd(s, 0) = s
<1>1. /\ s + 0 \in Int /\ SeqMod \in Nat \ {0} /\ s \in 0 .. (SeqMod - 1)
      /\ s + 0 = SeqMod * 0 + s /\ 0 \in Int
  BY SeqModAssumption DEF SeqNum
<1>2. (s + 0) % SeqMod = s  BY <1>1, ModUnique
<1> QED BY <1>2 DEF SeqAdd

\* The signed difference is the one representative in -Half .. Half-1.
LEMMA SeqDeltaType ==
  ASSUME NEW a \in Int, NEW b \in Int
  PROVE  /\ SeqDelta(a, b) \in (0 - Half) .. (Half - 1)
         /\ \E k \in Int : a - b = SeqMod * k + SeqDelta(a, b)
<1> DEFINE d == (a - b) % SeqMod
           q == (a - b) \div SeqMod
<1>1. d \in 0 .. (SeqMod - 1) /\ q \in Int /\ a - b = SeqMod * q + d
  <2>1. a - b \in Int /\ SeqMod \in Nat \ {0}  BY SeqModAssumption
  <2> QED BY <2>1, DivMod
<1> HIDE DEF d, q
<1>2. CASE d < Half
  <2>1. SeqDelta(a, b) = d  BY <1>2 DEF SeqDelta, d
  <2> QED BY <2>1, <1>1, <1>2, HalfProperties
<1>3. CASE ~(d < Half)
  <2>1. SeqDelta(a, b) = d - SeqMod  BY <1>3 DEF SeqDelta, d
  <2>2. a - b = SeqMod * (q + 1) + (d - SeqMod)
    BY <1>1, SeqModAssumption
  <2> QED BY <2>1, <2>2, <1>1, <1>3, HalfProperties
<1> QED BY <1>2, <1>3

\* A number in that range that differs from a - b by a multiple of SeqMod is it.
LEMMA SeqDeltaUnique ==
  ASSUME NEW a \in Int, NEW b \in Int, NEW k \in Int,
         NEW p \in (0 - Half) .. (Half - 1), a - b = SeqMod * k + p
  PROVE  SeqDelta(a, b) = p
<1> DEFINE d == a - b
           r == SeqMod + p
           j == k - 1
<1>1. d \in Int /\ SeqMod \in Nat \ {0} /\ d = SeqMod * k + p
  BY SeqModAssumption
<1>2. CASE p >= 0
  <2>1. p \in 0 .. (SeqMod - 1)  BY <1>2, SeqModAssumption, HalfProperties
  <2> HIDE DEF d
  <2>2. d % SeqMod = p  BY <1>1, <2>1, ModUnique
  <2> QED BY <2>2, <1>2, HalfProperties DEF SeqDelta, d
<1>3. CASE p < 0
  <2>1. r \in 0 .. (SeqMod - 1) /\ j \in Int
    BY <1>3, SeqModAssumption, HalfProperties
  <2>2. d = SeqMod * j + r  BY <1>1, SeqModAssumption, HalfProperties
  <2> HIDE DEF d, r, j
  <2>3. d % SeqMod = r  BY <1>1, <2>1, <2>2, ModUnique
  <2> QED BY <2>1, <2>3, <1>3, SeqModAssumption, HalfProperties DEF SeqDelta, d, r
<1> QED BY <1>2, <1>3

LEMMA SeqDeltaSelf == ASSUME NEW a \in Int PROVE SeqDelta(a, a) = 0
<1>1. a - a = SeqMod * 0 + 0  BY SeqModAssumption
<1>2. 0 \in Int /\ 0 \in (0 - Half) .. (Half - 1)  BY HalfProperties
<1> QED BY <1>1, <1>2, SeqDeltaUnique

\* Stepping k places from s is k places away, if k is less than half the space.
LEMMA SeqDeltaOfAdd ==
  ASSUME NEW s \in Int, NEW k \in 0 .. (Half - 1)
  PROVE  SeqDelta(SeqAdd(s, k), s) = k
<1> DEFINE x == (s + k) % SeqMod
           q == (s + k) \div SeqMod
<1>1. s + k = SeqMod * q + x /\ x \in Int /\ q \in Int
  <2>1. s + k \in Int /\ SeqMod \in Nat \ {0}
    BY SeqModAssumption, HalfProperties
  <2>2. x \in 0 .. (SeqMod - 1) /\ q \in Int /\ s + k = SeqMod * q + x
    BY <2>1, DivMod
  <2> QED BY <2>1, <2>2
<1> HIDE DEF x, q
<1>2. x - s = SeqMod * (0 - q) + k  BY <1>1, SeqModAssumption, HalfProperties
<1>3. 0 - q \in Int /\ k \in (0 - Half) .. (Half - 1)  BY <1>1, HalfProperties
<1>4. SeqDelta(x, s) = k  BY <1>1, <1>2, <1>3, SeqDeltaUnique
<1> QED BY <1>4 DEF SeqAdd, x

\* ... and the only sequence number that far away.
LEMMA SeqDeltaInverse ==
  ASSUME NEW a \in SeqNum, NEW s \in Int
  PROVE  a = SeqAdd(s, SeqDelta(a, s))
<1> DEFINE p == SeqDelta(a, s)
<1>1. PICK k \in Int : a - s = SeqMod * k + p  BY SeqDeltaType DEF SeqNum
<1>2. p \in Int  BY SeqDeltaType, HalfProperties DEF SeqNum
<1> HIDE DEF p
<1>3. s + p = SeqMod * (0 - k) + a  BY <1>1, <1>2, SeqModAssumption DEF SeqNum
<1>4. /\ s + p \in Int /\ 0 - k \in Int
      /\ SeqMod \in Nat \ {0} /\ a \in 0 .. (SeqMod - 1)
  BY <1>2, SeqModAssumption DEF SeqNum
<1>5. (s + p) % SeqMod = a  BY <1>3, <1>4, ModUnique
<1> QED BY <1>5 DEF SeqAdd, p

\* Two packets of one stream, less than half the space apart, are exactly as far
\* apart as their sequence numbers say.
LEMMA SeqDeltaOfStream ==
  ASSUME NEW s \in Int, NEW m \in Int, NEW n \in Int,
         m - n \in (0 - Half) .. (Half - 1)
  PROVE  SeqDelta(SeqAdd(s, m), SeqAdd(s, n)) = m - n
<1> DEFINE x == (s + m) % SeqMod
           y == (s + n) % SeqMod
           p == (s + m) \div SeqMod
           q == (s + n) \div SeqMod
<1>1. /\ s + m = SeqMod * p + x /\ x \in Int /\ p \in Int
      /\ s + n = SeqMod * q + y /\ y \in Int /\ q \in Int
  <2>1. s + m \in Int /\ s + n \in Int /\ SeqMod \in Nat \ {0}
    BY SeqModAssumption
  <2>2. x \in 0 .. (SeqMod - 1) /\ p \in Int /\ s + m = SeqMod * p + x
    BY <2>1, DivMod
  <2>3. y \in 0 .. (SeqMod - 1) /\ q \in Int /\ s + n = SeqMod * q + y
    BY <2>1, DivMod
  <2> QED BY <2>1, <2>2, <2>3
<1> HIDE DEF x, y, p, q
<1>2. x - y = SeqMod * (q - p) + (m - n)  BY <1>1, SeqModAssumption
<1>3. q - p \in Int /\ m - n \in Int  BY <1>1
<1>4. SeqDelta(x, y) = m - n  BY <1>1, <1>2, <1>3, SeqDeltaUnique
<1> QED BY <1>4 DEF SeqAdd, x, y

\* Of any two packets of one stream, a sequence number that is not behind the other
\* is as far ahead of it as the packets are apart, counted in the sequence space.
LEMMA SeqDeltaAhead ==
  ASSUME NEW s \in Int, NEW m \in Int, NEW n \in Int,
         SeqDelta(SeqAdd(s, m), SeqAdd(s, n)) >= 0
  PROVE  (m - n) % SeqMod = SeqDelta(SeqAdd(s, m), SeqAdd(s, n))
<1> DEFINE x == (s + m) % SeqMod
           y == (s + n) % SeqMod
           p == (s + m) \div SeqMod
           q == (s + n) \div SeqMod
           d == SeqDelta(x, y)
           e == m - n
<1>1. /\ s + m = SeqMod * p + x /\ x \in Int /\ p \in Int
      /\ s + n = SeqMod * q + y /\ y \in Int /\ q \in Int
  <2>1. s + m \in Int /\ s + n \in Int /\ SeqMod \in Nat \ {0}
    BY SeqModAssumption
  <2>2. x \in 0 .. (SeqMod - 1) /\ p \in Int /\ s + m = SeqMod * p + x
    BY <2>1, DivMod
  <2>3. y \in 0 .. (SeqMod - 1) /\ q \in Int /\ s + n = SeqMod * q + y
    BY <2>1, DivMod
  <2> QED BY <2>1, <2>2, <2>3
<1>2. d >= 0  BY DEF SeqAdd
<1> HIDE DEF x, y, p, q
<1>3. d \in (0 - Half) .. (Half - 1) /\ \E k \in Int : x - y = SeqMod * k + d
  BY <1>1, SeqDeltaType
<1> HIDE DEF d
<1>4. PICK k \in Int : x - y = SeqMod * k + d  BY <1>3
<1>5. d \in 0 .. (SeqMod - 1)  BY <1>2, <1>3, HalfProperties
<1>6. e = SeqMod * (p - q + k) + d  BY <1>1, <1>4, <1>5, SeqModAssumption
<1>7. e \in Int /\ p - q + k \in Int /\ SeqMod \in Nat \ {0}
  BY <1>1, SeqModAssumption
<1> HIDE DEF e
<1>8. e % SeqMod = d  BY <1>5, <1>6, <1>7, ModUnique
<1> QED BY <1>8 DEF d, e, x, y, SeqAdd

\* Two sequence numbers in the same slot of a ring of c slots, where c divides
\* the space, that are less than c places apart seen from s, are the same.
LEMMA SameSlotSameSeq ==
  ASSUME NEW a \in SeqNum, NEW b \in SeqNum, NEW s \in SeqNum,
         NEW c \in Nat \ {0}, SeqMod % c = 0, a % c = b % c,
         SeqDelta(a, s) - SeqDelta(b, s) < c,
         SeqDelta(b, s) - SeqDelta(a, s) < c
  PROVE  a = b
<1> DEFINE da == SeqDelta(a, s)
           db == SeqDelta(b, s)
           K == SeqMod \div c
           u == a \div c
           v == b \div c
           r == a % c
<1>1. PICK i \in Int : a - s = SeqMod * i + da  BY SeqDeltaType DEF SeqNum
<1>2. PICK j \in Int : b - s = SeqMod * j + db  BY SeqDeltaType DEF SeqNum
<1>3. da \in Int /\ db \in Int  BY SeqDeltaType, HalfProperties DEF SeqNum
<1>4. SeqMod = c * K /\ K \in Int
  BY SeqModAssumption, DivMod
<1>5. a = c * u + r /\ b = c * v + r /\ u \in Int /\ v \in Int /\ r \in Int
  <2>1. a \in Int /\ b \in Int  BY DEF SeqNum
  <2>2. r \in 0 .. (c - 1) /\ u \in Int /\ a = c * u + r  BY <2>1, DivMod
  <2>3. b % c \in 0 .. (c - 1) /\ v \in Int /\ b = c * v + (b % c)
    BY <2>1, DivMod
  <2> QED BY <2>2, <2>3
<1>6. -c < da - db /\ da - db < c  BY <1>3
<1> HIDE DEF da, db, K, u, v, r
<1>7. da - db = c * (u - v - K * (i - j))
  <2>1. da - db = (a - b) - SeqMod * (i - j)
    BY <1>1, <1>2, <1>3, SeqModAssumption DEF SeqNum
  <2>2. a - b = c * (u - v)  BY <1>5
  <2>3. SeqMod * (i - j) = c * (K * (i - j))  BY <1>4
  <2>4. K * (i - j) \in Int  BY <1>4
  <2> QED BY <2>1, <2>2, <2>3, <2>4, <1>5
<1>8. u - v - K * (i - j) = 0
  <2>1. u - v - K * (i - j) \in Int  BY <1>4, <1>5
  <2> QED BY <2>1, <1>6, <1>7, SmallMultiple
<1>9. da = db  BY <1>7, <1>8, <1>3
<1> QED BY <1>9, SeqDeltaInverse DEF da, db, SeqNum
-----------------------------------------------------------------------------
(* The operators keep their types. *)

LEMMA SeqOfType == ASSUME NEW n \in Indices PROVE SeqOf(n) \in SeqNum
<1>1. StartSeq \in Int /\ n \in Int
  BY StreamAssumption DEF Indices, SeqNum
<1> QED BY <1>1, SeqAddType DEF SeqOf

LEMMA SlotOfType == ASSUME NEW seq \in SeqNum PROVE SlotOf(seq) \in SlotNumbers
<1>1. seq \in Int /\ Capacity \in Nat \ {0}
  BY CapacityAssumption DEF SeqNum
<1>2. seq % Capacity \in 0 .. (Capacity - 1)  BY <1>1, DivMod
<1> QED BY <1>2 DEF SlotOf, SlotNumbers

LEMMA FrameIndexType ==
  ASSUME TypeOK, NEW n \in Indices
  PROVE  /\ BaseFor(SeqOf(n)) \in SeqNum
         /\ FrameIndex(SeqOf(n)) \in (0 - Half) .. (Half - 1)
         /\ ~started => FrameIndex(SeqOf(n)) = 0
<1>1. SeqOf(n) \in SeqNum  BY SeqOfType
<1>2. BaseFor(SeqOf(n)) \in SeqNum  BY <1>1 DEF BaseFor, TypeOK
<1>3. SeqOf(n) \in Int /\ BaseFor(SeqOf(n)) \in Int
  BY <1>1, <1>2 DEF SeqNum
<1>4. FrameIndex(SeqOf(n)) \in (0 - Half) .. (Half - 1)
  BY <1>3, SeqDeltaType DEF FrameIndex
<1>5. ASSUME ~started PROVE FrameIndex(SeqOf(n)) = 0
  <2>1. BaseFor(SeqOf(n)) = SeqOf(n)  BY <1>5 DEF BaseFor
  <2> QED BY <2>1, <1>3, SeqDeltaSelf DEF FrameIndex
<1> QED BY <1>2, <1>4, <1>5

LEMMA CursorSeqType ==
  ASSUME TypeOK PROVE CursorSeq \in SeqNum /\ SlotOf(CursorSeq) \in SlotNumbers
<1>1. base_sequence \in Int /\ frames_played \in Int
  BY HalfProperties DEF TypeOK, SeqNum
<1>2. CursorSeq \in SeqNum  BY <1>1, SeqAddType DEF CursorSeq
<1> QED BY <1>2, SlotOfType

\* try_pull_due_frame produces nothing past the frontier, ended or not.
LEMMA PullBeforeFrontier ==
  ASSUME NEW now \in Times, TypeOK, TryPull(now)
  PROVE  started /\ frames_played <= highest_frame_index_seen
<1>1. frames_played \in Int /\ highest_frame_index_seen \in Int
  BY HalfProperties DEF TypeOK
<1> QED BY <1>1 DEF TryPull, Finished, Drained, Due, BeforeFrontier
-----------------------------------------------------------------------------
(* Types. *)

LEMMA TypeInit == JitterInit => TypeOK
<1> SUFFICES ASSUME JitterInit PROVE TypeOK
  OBVIOUS
<1>1. 0 \in SeqNum /\ 0 \in Indices /\ 0 \in 0 .. (ClockMod - 1)
  BY SeqModAssumption, StreamAssumption, TimingAssumption DEF SeqNum, Indices
<1>2. 0 \in 0 .. Half /\ -1 \in -1 .. (Half - 1) /\ 0 \in 0 .. MaxConcealments
  BY HalfProperties, PlcAssumption
<1>3. slots \in [SlotNumbers -> Packets \cup {NoPacket}] /\ latencies = {}
  BY DEF JitterInit
<1>4. counts \in [Counters -> Nat]  BY DEF JitterInit
<1> QED BY <1>1, <1>2, <1>3, <1>4, TimingAssumption DEF JitterInit, TypeOK

LEMMA TypePush ==
  ASSUME TypeOK, NEW n \in Indices, NEW t \in Times, Push(n, t)
  PROVE  TypeOK'
<1> DEFINE seq == SeqOf(n)
<1>1. seq \in SeqNum /\ SlotOf(seq) \in SlotNumbers  BY SeqOfType, SlotOfType
<1>2. BaseFor(seq) \in SeqNum /\ FrameIndex(seq) \in (0 - Half) .. (Half - 1)
  BY FrameIndexType
<1>3. PICK counters : Witness(n, t, counters)
  BY DEF Push, PushLate, PushDuplicate, PushStore
<1>4. slots' \in [SlotNumbers -> Packets \cup {NoPacket}]
  <2>1. [seq |-> seq, frame |-> n, arrival |-> t] \in Packets
    BY <1>1, TimingAssumption DEF Packets
  <2> QED BY <2>1, <1>1 DEF Push, PushLate, PushDuplicate, PushStore, TypeOK
<1>5. counts' \in [Counters -> Nat]
  BY <1>3 DEF Witness, Tally, TypeOK
<1>6. /\ started' \in BOOLEAN /\ base_sequence' \in SeqNum /\ origin' \in Indices
      /\ first_arrival' \in 0 .. (ClockMod - 1) /\ target_depth' \in TargetDepths
  BY <1>2, <1>3, TimingAssumption DEF Witness, UpdateJitterEstimate, TypeOK
<1>7. highest_sequence_seen' \in SeqNum /\ highest_frame_index_seen' \in -1 .. (Half - 1)
  BY <1>1, <1>2, <1>3, HalfProperties DEF Witness, TypeOK
<1>8. UNCHANGED <<playout, stream_ended>>  BY <1>3 DEF Witness
<1> QED BY <1>4, <1>5, <1>6, <1>7, <1>8 DEF TypeOK, playout

LEMMA TypePull ==
  ASSUME TypeOK, NEW now \in Times, TryPull(now)
  PROVE  TypeOK'
<1>1. frames_played' \in 0 .. Half
  BY PullBeforeFrontier, HalfProperties DEF TypeOK, TryPull
<1>2. UNCHANGED <<started, base_sequence, first_arrival, highest_sequence_seen,
                  highest_frame_index_seen, target_depth, origin, stream_ended>>
  BY DEF TryPull
<1>3. CASE PlayReal(now)
  <2>1. CursorSlot \in Packets /\ SlotOf(CursorSeq) \in SlotNumbers
    BY <1>3, CursorSeqType DEF PlayReal, HasFrame, CursorSlot, TypeOK
  <2>2. /\ CursorSlot.frame \in Indices
        /\ Latency(now, CursorSlot) \in 0 .. (ClockMod - 1)
    <3>1. now - CursorSlot.arrival \in Int /\ ClockMod \in Nat \ {0}
      BY <2>1, TimingAssumption DEF Packets
    <3>2. (now - CursorSlot.arrival) % ClockMod \in 0 .. (ClockMod - 1)
      BY <3>1, DivMod
    <3> QED BY <2>1, <3>2 DEF Packets, Latency
  <2>3. /\ slots' \in [SlotNumbers -> Packets \cup {NoPacket}]
        /\ latencies' \subseteq 0 .. (ClockMod - 1)
        /\ counts' = counts
    BY <1>3, <2>2 DEF PlayReal, TypeOK
  <2>4. /\ out' \in [frame : Indices \cup {Silence}, fade : 0 .. MaxConcealments]
        /\ consecutive_concealments' \in 0 .. MaxConcealments
        /\ have_last_real_frame' \in BOOLEAN /\ last_real_frame' \in Indices
    BY <1>3, <2>2, PlcAssumption DEF PlayReal, Decoded
  <2> QED BY <1>1, <1>2, <2>3, <2>4 DEF TypeOK
<1>4. CASE Conceal
  <2>1. /\ counts' \in [Counters -> Nat]
        /\ UNCHANGED <<slots, latencies, have_last_real_frame, last_real_frame>>
    BY <1>4 DEF Conceal, Tally, TypeOK
  <2>2. /\ out' \in [frame : Indices \cup {Silence}, fade : 0 .. MaxConcealments]
        /\ consecutive_concealments' \in 0 .. MaxConcealments
    BY <1>4, PlcAssumption DEF Conceal, FadeExhausted, NextFade, TypeOK
  <2> QED BY <1>1, <1>2, <2>1, <2>2 DEF TypeOK
<1> QED BY <1>3, <1>4 DEF TryPull

LEMMA TypeStep == TypeOK /\ [Next]_jbuf => TypeOK'
<1> SUFFICES ASSUME TypeOK, [Next]_jbuf PROVE TypeOK'
  OBVIOUS
<1>1. ASSUME NEW n \in Indices, NEW t \in Times, Push(n, t) PROVE TypeOK'
  BY <1>1, TypePush
<1>2. ASSUME NEW t \in Times, TryPull(t) PROVE TypeOK'
  BY <1>2, TypePull
<1>3. CASE MarkStreamEnded
  BY <1>3 DEF MarkStreamEnded, TypeOK, window, playout
<1>4. CASE UNCHANGED jbuf
  BY <1>4 DEF TypeOK, jbuf, window, playout
<1> QED BY <1>1, <1>2, <1>3, <1>4 DEF Next

\* Every variable keeps its type: in particular positions stay in the signed
\* half of the sequence space and no counter goes negative.
THEOREM TypeCorrect == Spec => []TypeOK
  BY TypeInit, TypeStep, PTL DEF Spec
-----------------------------------------------------------------------------
(* The inductive invariant. *)

\* Nothing has happened before the first packet; after it there is a frontier.
Fresh ==
  ~started => /\ \A i \in SlotNumbers : slots[i] = NoPacket
              /\ frames_played = 0 /\ highest_frame_index_seen = -1
              /\ \A f \in Counters : counts[f] = 0
Begun == started => highest_frame_index_seen >= 0

\* The packet that started playout waits for it.
FirstHeld == frames_played = 0 => counts["lost"] = 0 /\ (started => HasFrame)

JitterInv ==
  /\ TypeOK
  /\ Fresh /\ Begun /\ FirstHeld
  /\ SlotsInWindow /\ NeverPastFrontier /\ FirstFrameIsReal /\ PacketsAccounted

LEMMA OccupiedFinite == IsFiniteSet(Occupied) /\ Cardinality(Occupied) \in Nat
<1>1. IsFiniteSet(SlotNumbers)
  BY CapacityAssumption, FS_Interval DEF SlotNumbers
<1>2. Occupied \in SUBSET SlotNumbers  BY DEF Occupied
<1> QED BY <1>1, <1>2, FS_Subset, FS_CardinalityType

\* A slot is empty whenever push is about to fill it.
LEMMA StoreIntoEmptySlot ==
  ASSUME JitterInv, NEW n \in Indices, NEW t \in Times, PushStore(n, t)
  PROVE  slots[SlotOf(SeqOf(n))] = NoPacket
<1> DEFINE seq == SeqOf(n)
           i == SlotOf(seq)
           old == slots[i].seq
<1>1. seq \in SeqNum /\ i \in SlotNumbers  BY SeqOfType, SlotOfType
<1>2. CASE ~started  BY <1>1, <1>2 DEF JitterInv, Fresh
<1>3. CASE started
  <2> SUFFICES ASSUME slots[i] # NoPacket PROVE FALSE
    OBVIOUS
  <2>1. slots[i] \in Packets /\ i \in Occupied
    BY <1>1 DEF JitterInv, TypeOK, Occupied
  <2>2. old \in SeqNum /\ base_sequence \in SeqNum
    BY <2>1 DEF Packets, JitterInv, TypeOK
  <2>3. /\ SlotOf(old) = i
        /\ Position(old) \in frames_played .. (frames_played + Capacity - 1)
    BY <2>1 DEF JitterInv, SlotsInWindow
  <2>4. /\ FrameIndex(seq) = Position(seq)
        /\ FrameIndex(seq) \in (0 - Half) .. (Half - 1)
    BY <1>1, <1>3, FrameIndexType DEF FrameIndex, BaseFor, Position, JitterInv
  <2>5. Position(seq) \in frames_played .. (frames_played + Capacity - 1)
    <3>1. ~AlreadyPlayed(Position(seq)) /\ ~TooFarAhead(Position(seq))
      BY <2>4 DEF PushStore
    <3>2. frames_played \in Nat /\ Capacity \in Nat /\ Half \in Nat
      BY CapacityAssumption, HalfProperties DEF JitterInv, TypeOK
    <3>3. Position(seq) \in Int  BY <2>4, <3>2
    <3> HIDE DEF seq
    <3> QED BY <3>1, <3>2, <3>3 DEF AlreadyPlayed, TooFarAhead
  <2>6. frames_played \in Nat /\ Capacity \in Nat \ {0} /\ SeqMod % Capacity = 0
    BY CapacityAssumption DEF JitterInv, TypeOK
  <2>7. /\ SeqDelta(seq, base_sequence) - SeqDelta(old, base_sequence) < Capacity
        /\ SeqDelta(old, base_sequence) - SeqDelta(seq, base_sequence) < Capacity
    <3> HIDE DEF seq, old
    <3> QED BY <2>3, <2>5, <2>6 DEF Position
  <2>8. seq % Capacity = old % Capacity  BY <2>3 DEF SlotOf
  <2>9. seq = old
    <3> HIDE DEF seq, old
    <3> QED BY <1>1, <2>2, <2>6, <2>7, <2>8, SameSlotSameSeq
  <2> QED BY <2>9 DEF PushStore, IsDuplicate
<1> QED BY <1>2, <1>3 DEF JitterInv, TypeOK

\* Only the slot of the cursor can hold the packet of the cursor's position.
LEMMA CursorHolder ==
  ASSUME JitterInv, NEW i \in Occupied, Position(slots[i].seq) = frames_played
  PROVE  i = SlotOf(CursorSeq) /\ HasFrame
<1>1. slots[i] \in Packets /\ i \in SlotNumbers
  BY DEF Occupied, JitterInv, TypeOK
<1>2. slots[i].seq \in SeqNum /\ base_sequence \in Int
  BY <1>1 DEF Packets, JitterInv, TypeOK, SeqNum
<1>3. slots[i].seq = CursorSeq
  BY <1>2, SeqDeltaInverse DEF Position, CursorSeq
<1>4. i = SlotOf(CursorSeq)  BY <1>3 DEF JitterInv, SlotsInWindow
<1> QED BY <1>3, <1>4 DEF HasFrame, CursorSlot, Occupied
-----------------------------------------------------------------------------
(* push preserves it. *)

\* What every push does besides its slot.
LEMMA PushEffect ==
  ASSUME JitterInv, NEW n \in Indices, NEW t \in Times, Push(n, t)
  PROVE  /\ started' /\ base_sequence' = BaseFor(SeqOf(n))
         /\ frames_played' = frames_played
         /\ have_last_real_frame' = have_last_real_frame
         /\ counts["lost"]' = counts["lost"]
         /\ highest_frame_index_seen' >= highest_frame_index_seen
         /\ highest_frame_index_seen' >= 0
<1>1. PICK counters : Witness(n, t, counters) /\ "lost" \notin counters
  BY DEF Push, PushLate, PushDuplicate, PushStore
<1>2. counts["lost"]' = counts["lost"]
  BY <1>1 DEF Witness, Tally, Counters
<1>3. /\ FrameIndex(SeqOf(n)) \in Int /\ highest_frame_index_seen \in Int
      /\ ~started => FrameIndex(SeqOf(n)) = 0
  BY FrameIndexType, HalfProperties DEF JitterInv, TypeOK
<1>4. /\ highest_frame_index_seen' >= highest_frame_index_seen
      /\ highest_frame_index_seen' >= 0
  BY <1>1, <1>3 DEF Witness, JitterInv, Fresh, Begun
<1> QED BY <1>1, <1>2, <1>4 DEF Witness, playout

LEMMA FirstPushStores ==
  ASSUME JitterInv, NEW n \in Indices, NEW t \in Times, Push(n, t), ~started
  PROVE  PushStore(n, t)
<1>1. FrameIndex(SeqOf(n)) = 0 /\ frames_played = 0
  BY FrameIndexType DEF JitterInv, Fresh
<1>2. ~AlreadyPlayed(0) /\ ~TooFarAhead(0)
  BY <1>1, CapacityAssumption DEF AlreadyPlayed, TooFarAhead
<1>3. ~IsDuplicate(SeqOf(n))
  BY SeqOfType, SlotOfType DEF IsDuplicate, JitterInv, Fresh
<1> QED BY <1>1, <1>2, <1>3 DEF Push, PushLate, PushDuplicate

\* push leaves the slots alone, or fills one empty slot with a packet that
\* belongs there and is inside the window.
LEMMA PushSlots ==
  ASSUME JitterInv, NEW n \in Indices, NEW t \in Times, Push(n, t)
  PROVE  \/ started /\ slots' = slots /\ ~PushStore(n, t)
         \/ /\ PushStore(n, t)
            /\ slots[SlotOf(SeqOf(n))] = NoPacket
            /\ slots' = [slots EXCEPT ![SlotOf(SeqOf(n))] =
                           [seq |-> SeqOf(n), frame |-> n, arrival |-> t]]
            /\ FrameIndex(SeqOf(n)) \in frames_played .. (frames_played + Capacity - 1)
<1>1. CASE PushStore(n, t)
  <2>1. ~AlreadyPlayed(FrameIndex(SeqOf(n))) /\ ~TooFarAhead(FrameIndex(SeqOf(n)))
    BY <1>1 DEF PushStore
  <2>2. frames_played \in Int /\ Capacity \in Int /\ FrameIndex(SeqOf(n)) \in Int
    BY CapacityAssumption, FrameIndexType, HalfProperties DEF JitterInv, TypeOK
  <2>3. FrameIndex(SeqOf(n)) \in frames_played .. (frames_played + Capacity - 1)
    BY <2>1, <2>2 DEF AlreadyPlayed, TooFarAhead
  <2> QED BY <1>1, <2>3, StoreIntoEmptySlot DEF PushStore
<1>2. CASE ~PushStore(n, t)
  BY <1>2, FirstPushStores DEF Push, PushLate, PushDuplicate, JitterInv, TypeOK
<1> QED BY <1>1, <1>2

\* The packet push stores, and the slots around it.
LEMMA StoredPacket ==
  ASSUME JitterInv, NEW n \in Indices, NEW t \in Times, PushStore(n, t),
         NEW i \in SlotNumbers
  PROVE  /\ [seq |-> SeqOf(n), frame |-> n, arrival |-> t] \in Packets
         /\ slots'[i] = IF i = SlotOf(SeqOf(n))
                        THEN [seq |-> SeqOf(n), frame |-> n, arrival |-> t]
                        ELSE slots[i]
<1>1. [seq |-> SeqOf(n), frame |-> n, arrival |-> t] \in Packets
  BY SeqOfType, TimingAssumption DEF Packets
<1>2. slots \in [SlotNumbers -> Packets \cup {NoPacket}]  BY DEF JitterInv, TypeOK
<1> QED BY <1>1, <1>2 DEF PushStore

LEMMA PushKeepsFirstHeld ==
  ASSUME JitterInv, NEW n \in Indices, NEW t \in Times, Push(n, t)
  PROVE  FirstHeld'
<1> SUFFICES ASSUME frames_played = 0 PROVE counts["lost"]' = 0 /\ HasFrame'
  BY PushEffect DEF FirstHeld
<1>1. counts["lost"]' = 0  BY PushEffect DEF JitterInv, FirstHeld
<1>2. frames_played' = 0  BY PushEffect
<1>3. CASE ~started
  <2>1. PushStore(n, t) /\ base_sequence' = SeqOf(n)
    BY <1>3, FirstPushStores, PushEffect DEF BaseFor
  <2>2. SeqOf(n) \in SeqNum /\ SlotOf(SeqOf(n)) \in SlotNumbers
    BY SeqOfType, SlotOfType
  <2>3. CursorSeq' = SeqOf(n)
    BY <1>2, <2>1, <2>2, SeqAddZero DEF CursorSeq
  <2>4. slots'[SlotOf(SeqOf(n))] = [seq |-> SeqOf(n), frame |-> n, arrival |-> t]
    BY <2>1, <2>2, StoredPacket
  <2>5. [seq |-> SeqOf(n), frame |-> n, arrival |-> t] # NoPacket
    BY <2>1, <2>2, StoredPacket, MarkersAssumption
  <2>6. CursorSlot' = slots'[SlotOf(SeqOf(n))]
    BY <2>3 DEF CursorSlot, SlotOf
  <2> QED BY <1>1, <2>3, <2>4, <2>5, <2>6 DEF HasFrame
<1>4. CASE started
  <2>1. HasFrame  BY <1>4 DEF JitterInv, FirstHeld
  <2>2. CursorSeq' = CursorSeq
    BY <1>2, <1>4, PushEffect DEF CursorSeq, BaseFor
  <2>3. SlotOf(CursorSeq) \in SlotNumbers  BY CursorSeqType DEF JitterInv
  <2>4. slots'[SlotOf(CursorSeq)] = slots[SlotOf(CursorSeq)]
    BY <2>1, <2>3, PushSlots, StoredPacket DEF HasFrame, CursorSlot
  <2>5. CursorSlot' = CursorSlot  BY <2>2, <2>4 DEF CursorSlot, SlotOf
  <2> QED BY <1>1, <2>1, <2>2, <2>5 DEF HasFrame
<1> QED BY <1>1, <1>3, <1>4 DEF JitterInv, TypeOK

LEMMA PushKeepsWindow ==
  ASSUME JitterInv, NEW n \in Indices, NEW t \in Times, Push(n, t)
  PROVE  SlotsInWindow'
<1> SUFFICES ASSUME NEW i \in Occupied'
             PROVE  /\ SlotOf(slots'[i].seq) = i
                    /\ SeqDelta(slots'[i].seq, base_sequence')
                         \in frames_played .. (frames_played + Capacity - 1)
  BY PushEffect DEF SlotsInWindow, Position, SlotOf
<1>1. i \in SlotNumbers /\ slots'[i] # NoPacket  BY DEF Occupied
<1>2. base_sequence' = BaseFor(SeqOf(n))  BY PushEffect
<1>3. CASE started /\ slots'[i] = slots[i]
  <2>1. i \in Occupied  BY <1>1, <1>3 DEF Occupied
  <2> QED BY <1>2, <1>3, <2>1 DEF JitterInv, SlotsInWindow, Position, BaseFor
<1>4. CASE /\ slots'[i] = [seq |-> SeqOf(n), frame |-> n, arrival |-> t]
           /\ i = SlotOf(SeqOf(n)) /\ PushStore(n, t)
  <2>1. SeqDelta(SeqOf(n), base_sequence') \in frames_played .. (frames_played + Capacity - 1)
    BY <1>2, <1>4, PushSlots DEF FrameIndex
  <2> QED BY <1>4, <2>1
<1>5. \/ started /\ slots'[i] = slots[i]
      \/ /\ slots'[i] = [seq |-> SeqOf(n), frame |-> n, arrival |-> t]
         /\ i = SlotOf(SeqOf(n)) /\ PushStore(n, t)
  <2>1. ~started => slots[i] = NoPacket  BY <1>1 DEF JitterInv, Fresh
  <2> QED BY <1>1, <2>1, PushSlots, StoredPacket DEF JitterInv, TypeOK
<1> QED BY <1>3, <1>4, <1>5

LEMMA PushKeepsAccounts ==
  ASSUME JitterInv, NEW n \in Indices, NEW t \in Times, Push(n, t)
  PROVE  PacketsAccounted'
<1>1. Cardinality(Occupied) \in Nat /\ counts \in [Counters -> Nat] /\ frames_played \in Int
  BY OccupiedFinite DEF JitterInv, TypeOK
<1>2. frames_played' = frames_played  BY PushEffect
<1>3. CASE PushStore(n, t)
  <2> DEFINE i == SlotOf(SeqOf(n))
  <2>1. i \in SlotNumbers /\ slots[i] = NoPacket
    BY <1>3, SeqOfType, SlotOfType, StoreIntoEmptySlot
  <2>2. i \notin Occupied  BY <2>1 DEF Occupied
  <2>3. Occupied' = Occupied \cup {i}
    <3>1. [seq |-> SeqOf(n), frame |-> n, arrival |-> t] # NoPacket
      BY <1>3, <2>1, StoredPacket, MarkersAssumption
    <3>2. \A j \in SlotNumbers : slots'[j] # NoPacket <=> j = i \/ slots[j] # NoPacket
      BY <1>3, <3>1, StoredPacket
    <3> QED BY <2>1, <3>2 DEF Occupied
  <2>4. Cardinality(Occupied') = Cardinality(Occupied) + 1
    BY <2>2, <2>3, OccupiedFinite, FS_AddElement
  <2>5. /\ counts["received"]' = counts["received"] + 1
        /\ \A f \in {"late_dropped", "duplicate", "lost"} : counts[f]' = counts[f]
    BY <1>3 DEF PushStore, Witness, Tally, Counters
  <2>6. Cardinality(Occupied)' = Cardinality(Occupied) + 1  BY <2>4
  <2> QED BY <1>1, <1>2, <2>5, <2>6 DEF JitterInv, PacketsAccounted, Counters
<1>4. ASSUME PushLate(n, t) \/ PushDuplicate(n, t) PROVE PacketsAccounted'
  <2>1. Cardinality(Occupied)' = Cardinality(Occupied)
    BY <1>4 DEF PushLate, PushDuplicate, Occupied
  <2>2. /\ counts["received"]' = counts["received"] + 1
        /\ counts["late_dropped"]' + counts["duplicate"]' =
             counts["late_dropped"] + counts["duplicate"] + 1
        /\ counts["lost"]' = counts["lost"]
    BY <1>1, <1>4 DEF PushLate, PushDuplicate, Witness, Tally, Counters
  <2>3. counts' \in [Counters -> Nat]
    BY TypePush DEF JitterInv, TypeOK
  <2> QED BY <1>1, <1>2, <2>1, <2>2, <2>3 DEF JitterInv, PacketsAccounted, Counters
<1> QED BY <1>3, <1>4 DEF Push

LEMMA PushKeepsInv ==
  ASSUME JitterInv, NEW n \in Indices, NEW t \in Times, Push(n, t)
  PROVE  JitterInv'
<1>1. TypeOK'  BY TypePush DEF JitterInv
<1>2. Fresh' /\ Begun'  BY PushEffect DEF Fresh, Begun
<1>3. NeverPastFrontier'
  <2>1. frames_played \in Int /\ highest_frame_index_seen \in Int
        /\ highest_frame_index_seen' \in Int
    BY <1>1, HalfProperties DEF JitterInv, TypeOK
  <2> QED BY <2>1, PushEffect DEF JitterInv, NeverPastFrontier
<1>4. FirstFrameIsReal'  BY PushEffect DEF JitterInv, FirstFrameIsReal
<1> QED BY <1>1, <1>2, <1>3, <1>4, PushKeepsFirstHeld, PushKeepsWindow,
           PushKeepsAccounts DEF JitterInv
-----------------------------------------------------------------------------
(* try_pull_due_frame preserves it. *)

\* What every pull does besides its slot and its frame.
LEMMA PullEffect ==
  ASSUME JitterInv, NEW now \in Times, TryPull(now)
  PROVE  /\ started /\ frames_played <= highest_frame_index_seen
         /\ frames_played' = frames_played + 1
         /\ UNCHANGED <<started, base_sequence, highest_frame_index_seen, stream_ended>>
         /\ (PlayReal(now) /\ HasFrame) \/ (Conceal /\ ~HasFrame)
  BY PullBeforeFrontier DEF JitterInv, TryPull, PlayReal, Conceal

\* A pull changes no slot but the cursor's, which it leaves empty when it held
\* the cursor's packet.
LEMMA PullSlots ==
  ASSUME JitterInv, NEW now \in Times, TryPull(now), NEW i \in SlotNumbers
  PROVE  slots'[i] = IF PlayReal(now) /\ i = SlotOf(CursorSeq) THEN NoPacket ELSE slots[i]
<1>1. slots \in [SlotNumbers -> Packets \cup {NoPacket}]  BY DEF JitterInv, TypeOK
<1>2. CASE PlayReal(now)  BY <1>1, <1>2 DEF PlayReal
<1>3. CASE Conceal /\ ~HasFrame  BY <1>1, <1>3 DEF Conceal, PlayReal
<1> QED BY <1>2, <1>3, PullEffect

LEMMA PullKeepsWindow ==
  ASSUME JitterInv, NEW now \in Times, TryPull(now)
  PROVE  SlotsInWindow'
<1> SUFFICES ASSUME NEW i \in Occupied'
             PROVE  /\ SlotOf(slots'[i].seq) = i
                    /\ SeqDelta(slots'[i].seq, base_sequence)
                         \in (frames_played + 1) .. (frames_played + 1 + Capacity - 1)
  BY PullEffect DEF SlotsInWindow, Position, SlotOf
<1>1. i \in SlotNumbers /\ slots'[i] # NoPacket  BY DEF Occupied
<1>2. slots'[i] = slots[i] /\ i \in Occupied
  BY <1>1, PullSlots DEF Occupied
<1>3. /\ SlotOf(slots[i].seq) = i
      /\ Position(slots[i].seq) \in frames_played .. (frames_played + Capacity - 1)
  BY <1>2 DEF JitterInv, SlotsInWindow
<1>4. Position(slots[i].seq) # frames_played
  <2> SUFFICES ASSUME Position(slots[i].seq) = frames_played PROVE FALSE
    OBVIOUS
  <2>1. i = SlotOf(CursorSeq) /\ HasFrame  BY <1>2, CursorHolder
  <2> QED BY <1>1, <2>1, PullSlots, PullEffect
<1>5. frames_played \in Int /\ Capacity \in Int
  BY CapacityAssumption DEF JitterInv, TypeOK
<1> DEFINE p == Position(slots[i].seq)
<1>6. p \in (frames_played + 1) .. (frames_played + 1 + Capacity - 1)
  <2>1. p \in frames_played .. (frames_played + Capacity - 1) /\ p # frames_played
    BY <1>3, <1>4
  <2> HIDE DEF p
  <2> QED BY <2>1, <1>5
<1> QED BY <1>2, <1>3, <1>6 DEF Position

LEMMA PullKeepsAccounts ==
  ASSUME JitterInv, NEW now \in Times, TryPull(now)
  PROVE  PacketsAccounted'
<1>1. /\ Cardinality(Occupied) \in Nat /\ counts \in [Counters -> Nat]
      /\ frames_played \in Int
  BY OccupiedFinite DEF JitterInv, TypeOK
<1>2. frames_played' = frames_played + 1  BY PullEffect
<1>3. CASE PlayReal(now) /\ HasFrame
  <2> DEFINE i == SlotOf(CursorSeq)
  <2>1. i \in SlotNumbers /\ i \in Occupied
    BY <1>3, CursorSeqType DEF JitterInv, HasFrame, CursorSlot, Occupied
  <2>2. Occupied' = Occupied \ {i}
    <3>1. \A j \in SlotNumbers : slots'[j] # NoPacket <=> slots[j] # NoPacket /\ j # i
      BY <1>3, PullSlots
    <3> QED BY <2>1, <3>1 DEF Occupied
  <2>3. Cardinality(Occupied)' = Cardinality(Occupied) - 1
    BY <2>1, <2>2, OccupiedFinite, FS_RemoveElement
  <2>4. counts' = counts  BY <1>3 DEF PlayReal
  <2> QED BY <1>1, <1>2, <2>3, <2>4 DEF JitterInv, PacketsAccounted, Counters
<1>4. CASE Conceal /\ ~HasFrame
  <2>1. Cardinality(Occupied)' = Cardinality(Occupied)
    BY <1>4 DEF Conceal, Occupied
  <2>2. /\ counts["lost"]' = counts["lost"] + 1
        /\ \A f \in {"received", "late_dropped", "duplicate"} : counts[f]' = counts[f]
    BY <1>4 DEF Conceal, Tally, Counters
  <2> QED BY <1>1, <1>2, <2>1, <2>2 DEF JitterInv, PacketsAccounted, Counters
<1> QED BY <1>3, <1>4, PullEffect

LEMMA PullKeepsFirstReal ==
  ASSUME JitterInv, NEW now \in Times, TryPull(now)
  PROVE  FirstFrameIsReal'
<1>1. /\ counts \in [Counters -> Nat] /\ frames_played \in Nat
      /\ frames_played' = frames_played + 1 /\ started
  BY PullEffect DEF JitterInv, TypeOK
<1>2. CASE PlayReal(now) /\ HasFrame
  <2>1. have_last_real_frame' /\ counts' = counts  BY <1>2 DEF PlayReal
  <2>2. counts["lost"] <= frames_played
    <3>1. counts["lost"] \in Nat  BY <1>1 DEF Counters
    <3> QED BY <1>1, <3>1 DEF JitterInv, FirstHeld, FirstFrameIsReal
  <2>3. counts["lost"] \in Nat  BY <1>1 DEF Counters
  <2> QED BY <1>1, <2>1, <2>2, <2>3 DEF FirstFrameIsReal
<1>3. CASE Conceal /\ ~HasFrame
  <2>1. frames_played > 0  BY <1>1, <1>3 DEF JitterInv, FirstHeld
  <2>2. have_last_real_frame /\ counts["lost"] < frames_played
    BY <2>1 DEF JitterInv, FirstFrameIsReal
  <2>3. counts["lost"]' = counts["lost"] + 1 /\ have_last_real_frame' = have_last_real_frame
    BY <1>3 DEF Conceal, Tally, Counters
  <2>4. counts["lost"] \in Nat  BY <1>1 DEF Counters
  <2> QED BY <1>1, <2>2, <2>3, <2>4 DEF FirstFrameIsReal
<1> QED BY <1>2, <1>3, PullEffect

LEMMA PullKeepsInv ==
  ASSUME JitterInv, NEW now \in Times, TryPull(now)
  PROVE  JitterInv'
<1>1. TypeOK'  BY TypePull DEF JitterInv
<1>2. Fresh' /\ Begun'  BY PullEffect DEF JitterInv, Fresh, Begun
<1>3. frames_played \in Nat /\ highest_frame_index_seen \in Int
  BY HalfProperties DEF JitterInv, TypeOK
<1>4. FirstHeld'
  <2>1. frames_played' # 0  BY <1>3, PullEffect
  <2> QED BY <2>1 DEF FirstHeld
<1>5. NeverPastFrontier'  BY <1>3, PullEffect DEF NeverPastFrontier
<1> QED BY <1>1, <1>2, <1>4, <1>5, PullKeepsWindow, PullKeepsAccounts,
           PullKeepsFirstReal DEF JitterInv
-----------------------------------------------------------------------------
LEMMA InvInit == JitterInit => JitterInv
<1> SUFFICES ASSUME JitterInit PROVE JitterInv
  OBVIOUS
<1>1. \A i \in SlotNumbers : slots[i] = NoPacket  BY DEF JitterInit
<1>2. Occupied = {}  BY <1>1 DEF Occupied
<1>3. \A f \in Counters : counts[f] = 0  BY DEF JitterInit
<1>4. ~started /\ frames_played = 0 /\ highest_frame_index_seen = -1
  BY DEF JitterInit
<1>5. PacketsAccounted
  BY <1>2, <1>3, <1>4, FS_EmptySet DEF PacketsAccounted, Counters
<1>6. Fresh /\ Begun  BY <1>1, <1>3, <1>4 DEF Fresh, Begun
<1>7. FirstHeld  BY <1>3, <1>4 DEF FirstHeld, Counters
<1>8. SlotsInWindow  BY <1>2 DEF SlotsInWindow
<1>9. NeverPastFrontier /\ FirstFrameIsReal
  BY <1>4 DEF NeverPastFrontier, FirstFrameIsReal
<1> QED BY TypeInit, <1>5, <1>6, <1>7, <1>8, <1>9 DEF JitterInv

LEMMA InvStep == JitterInv /\ [Next]_jbuf => JitterInv'
<1> SUFFICES ASSUME JitterInv, [Next]_jbuf PROVE JitterInv'
  OBVIOUS
<1>1. ASSUME NEW n \in Indices, NEW t \in Times, Push(n, t) PROVE JitterInv'
  BY <1>1, PushKeepsInv
<1>2. ASSUME NEW t \in Times, TryPull(t) PROVE JitterInv'
  BY <1>2, PullKeepsInv
<1>3. ASSUME MarkStreamEnded \/ UNCHANGED jbuf PROVE JitterInv'
  <2>1. UNCHANGED <<window, playout, counts>>
    BY <1>3 DEF MarkStreamEnded, jbuf
  <2>2. TypeOK'  BY <1>3, TypeStep DEF JitterInv, Next
  <2>3. Fresh' /\ Begun' /\ FirstHeld'
    BY <2>1 DEF JitterInv, Fresh, Begun, FirstHeld, HasFrame, CursorSlot, CursorSeq,
                SlotOf, window, playout
  <2>4. /\ SlotsInWindow' /\ NeverPastFrontier' /\ FirstFrameIsReal' /\ PacketsAccounted'
    BY <2>1 DEF JitterInv, SlotsInWindow, NeverPastFrontier, FirstFrameIsReal,
                PacketsAccounted, Occupied, Position, SlotOf, window, playout
  <2> QED BY <2>2, <2>3, <2>4 DEF JitterInv
<1> QED BY <1>1, <1>2, <1>3 DEF Next

LEMMA Invariance == Spec => []JitterInv
  BY InvInit, InvStep, PTL DEF Spec

\* push never overwrites a packet still to be played and no slot keeps one the
\* cursor has passed, for every capacity that divides the sequence space and
\* across its wrap.
THEOREM WindowCorrect == Spec => []SlotsInWindow
<1>1. JitterInv => SlotsInWindow  BY DEF JitterInv
<1> QED BY <1>1, Invariance, PTL

\* Each packet counted as received has exactly one fate.
THEOREM AccountingCorrect == Spec => []PacketsAccounted
<1>1. JitterInv => PacketsAccounted  BY DEF JitterInv
<1> QED BY <1>1, Invariance, PTL

\* Playout stays within what some packet has proven to exist.
THEOREM FrontierCorrect == Spec => []NeverPastFrontier
<1>1. JitterInv => NeverPastFrontier  BY DEF JitterInv
<1> QED BY <1>1, Invariance, PTL

\* Playout starts with a real frame: conceal() always has one to repeat.
THEOREM FirstFrameCorrect == Spec => []FirstFrameIsReal
<1>1. JitterInv => FirstFrameIsReal  BY DEF JitterInv
<1> QED BY <1>1, Invariance, PTL
-----------------------------------------------------------------------------
(* While the stream is shorter than half the sequence space, the ring of slots *)
(* and the wrapping 16-bit arithmetic implement the window of stream indices   *)
(* in PlayoutWindow, whatever the capacity.                                    *)

\* What the sequence numbers stand for: the base names the first packet pushed,
\* and each held packet carries the sequence number of its audio.
Contents ==
  /\ started => base_sequence = SeqOf(origin)
  /\ \A i \in Occupied : slots[i].seq = SeqOf(slots[i].frame)

\* The frame last produced is the last real one, faded, unless fading is over.
FadeTracked ==
  FadeExhausted \/ out = [frame |-> last_real_frame, fade |-> consecutive_concealments]

held == {slots[i].frame : i \in Occupied}

\* The distance between two packets of the stream is the distance of their names.
LEMMA IndexDistance ==
  ASSUME LastIndex < Half, NEW m \in Indices, NEW n \in Indices
  PROVE  SeqDelta(SeqOf(m), SeqOf(n)) = m - n
<1>1. /\ StartSeq \in Int /\ m \in Int /\ n \in Int
      /\ m - n \in (0 - Half) .. (Half - 1)
  BY StreamAssumption, HalfProperties DEF Indices, SeqNum
<1> QED BY <1>1, SeqDeltaOfStream DEF SeqOf

LEMMA SameSeqSameIndex ==
  ASSUME LastIndex < Half, NEW m \in Indices, NEW n \in Indices, SeqOf(m) = SeqOf(n)
  PROVE  m = n
<1>1. SeqDelta(SeqOf(m), SeqOf(n)) = m - n /\ SeqDelta(SeqOf(n), SeqOf(n)) = n - n
  BY IndexDistance
<1> QED BY <1>1 DEF Indices

\* A held packet's position is its distance from the first packet.
LEMMA HeldPosition ==
  ASSUME LastIndex < Half, JitterInv, Contents, NEW i \in Occupied
  PROVE  /\ slots[i].frame \in Indices
         /\ Position(slots[i].seq) = slots[i].frame - origin
<1>1. slots[i] \in Packets /\ i \in SlotNumbers
  BY DEF Occupied, JitterInv, TypeOK
<1>2. slots[i].frame \in Indices /\ origin \in Indices
  BY <1>1 DEF Packets, JitterInv, TypeOK
<1>3. started  BY <1>1 DEF JitterInv, Fresh, Occupied
<1> QED BY <1>2, <1>3, IndexDistance DEF Contents, Position

\* The cursor's packet is held exactly when the index at the cursor is.
LEMMA CursorHeld ==
  ASSUME LastIndex < Half, JitterInv, Contents, started,
         frames_played <= highest_frame_index_seen
  PROVE  /\ HasFrame => /\ SlotOf(CursorSeq) \in Occupied
                        /\ CursorSlot.frame = origin + frames_played
         /\ (origin + frames_played) \in held => HasFrame
<1>1. /\ frames_played \in 0 .. (Half - 1) /\ origin \in Int
      /\ base_sequence \in Int
  BY HalfProperties, StreamAssumption DEF JitterInv, TypeOK, Indices, SeqNum
<1>2. ASSUME HasFrame
      PROVE  SlotOf(CursorSeq) \in Occupied /\ CursorSlot.frame = origin + frames_played
  <2>1. SlotOf(CursorSeq) \in Occupied
    BY <1>2, CursorSeqType DEF HasFrame, CursorSlot, Occupied, JitterInv
  <2>2. CursorSlot.frame \in Indices /\ Position(CursorSeq) = CursorSlot.frame - origin
    BY <1>2, <2>1, HeldPosition DEF HasFrame, CursorSlot
  <2>3. Position(CursorSeq) = frames_played
    BY <1>1, SeqDeltaOfAdd DEF Position, CursorSeq
  <2> QED BY <1>1, <2>1, <2>2, <2>3 DEF Indices
<1>3. ASSUME (origin + frames_played) \in held PROVE HasFrame
  <2>1. PICK i \in Occupied : slots[i].frame = origin + frames_played
    BY <1>3 DEF held
  <2>2. Position(slots[i].seq) = frames_played
    BY <1>1, <2>1, HeldPosition
  <2> QED BY <2>2, CursorHolder
<1> QED BY <1>2, <1>3
-----------------------------------------------------------------------------
(* Contents and FadeTracked are invariant. *)

LEMMA ContentsInit == JitterInit => Contents /\ FadeTracked
  BY DEF JitterInit, Contents, FadeTracked, Occupied, FadeExhausted

LEMMA PushKeepsContents ==
  ASSUME JitterInv, Contents, NEW n \in Indices, NEW t \in Times, Push(n, t)
  PROVE  Contents'
<1>1. base_sequence' = SeqOf(origin')
  <2>1. base_sequence' = BaseFor(SeqOf(n))  BY PushEffect
  <2>2. origin' = IF started THEN origin ELSE n
    BY DEF Push, PushLate, PushDuplicate, PushStore, Witness
  <2> QED BY <2>1, <2>2 DEF BaseFor, Contents
<1>2. ASSUME NEW i \in Occupied' PROVE slots'[i].seq = SeqOf(slots'[i].frame)
  <2>1. i \in SlotNumbers /\ slots'[i] # NoPacket  BY DEF Occupied
  <2>2. CASE slots'[i] = slots[i]
    BY <2>1, <2>2 DEF Contents, Occupied
  <2>3. CASE slots'[i] = [seq |-> SeqOf(n), frame |-> n, arrival |-> t]
    BY <2>3
  <2> QED BY <2>1, <2>2, <2>3, PushSlots, StoredPacket
<1> QED BY <1>1, <1>2 DEF Contents, SeqOf

LEMMA PullKeepsContents ==
  ASSUME JitterInv, Contents, NEW now \in Times, TryPull(now)
  PROVE  Contents'
<1>1. ASSUME NEW i \in Occupied' PROVE slots'[i].seq = SeqOf(slots'[i].frame)
  <2>1. i \in SlotNumbers /\ slots'[i] # NoPacket  BY DEF Occupied
  <2>2. slots'[i] = slots[i]  BY <2>1, PullSlots
  <2> QED BY <2>1, <2>2 DEF Contents, Occupied
<1>2. UNCHANGED <<started, base_sequence, origin>>  BY DEF TryPull
<1> QED BY <1>1, <1>2 DEF Contents, SeqOf

LEMMA ContentsStep == JitterInv /\ Contents /\ [Next]_jbuf => Contents'
<1> SUFFICES ASSUME JitterInv, Contents, [Next]_jbuf PROVE Contents'
  OBVIOUS
<1>1. ASSUME MarkStreamEnded \/ UNCHANGED jbuf PROVE Contents'
  BY <1>1 DEF MarkStreamEnded, jbuf, window, Contents, Occupied, SeqOf
<1> QED BY <1>1, PushKeepsContents, PullKeepsContents DEF Next

LEMMA ContentsInvariance == Spec => []Contents
  BY Invariance, ContentsInit, ContentsStep, PTL DEF Spec

\* Of a stream of any length: at the horizon nothing is stored or produced, and a
\* packet that names a position behind the first one's is never stored.
THEOREM HorizonCorrect == Spec => SilentBeyondHorizon
<1>1. ASSUME JitterInv, Contents, Contents', [Next]_jbuf, frames_played = Half
      PROVE  UNCHANGED <<frames_played, out, slots>>
  <2>1. ASSUME NEW n \in Indices, NEW t \in Times, Push(n, t)
        PROVE  UNCHANGED <<frames_played, out, slots>>
    <3>1. started  BY <1>1, HalfProperties DEF JitterInv, Fresh
    <3>2. FrameIndex(SeqOf(n)) \in (0 - Half) .. (Half - 1)
      BY <1>1, FrameIndexType DEF JitterInv
    <3>3. AlreadyPlayed(FrameIndex(SeqOf(n)))
      BY <1>1, <3>2, HalfProperties DEF AlreadyPlayed
    <3> QED BY <2>1, <3>3 DEF Push, PushLate, PushDuplicate, PushStore, Witness, playout
  <2>2. ASSUME NEW t \in Times, TryPull(t) PROVE FALSE
    <3>1. frames_played <= highest_frame_index_seen  BY <1>1, <2>2, PullEffect
    <3>2. highest_frame_index_seen \in -1 .. (Half - 1)  BY <1>1 DEF JitterInv, TypeOK
    <3> QED BY <1>1, <3>1, <3>2, HalfProperties
  <2>3. ASSUME MarkStreamEnded \/ UNCHANGED jbuf
        PROVE  UNCHANGED <<frames_played, out, slots>>
    BY <2>3 DEF MarkStreamEnded, jbuf, window, playout
  <2> QED BY <1>1, <2>1, <2>2, <2>3 DEF Next
<1>2. ASSUME JitterInv, Contents, Contents', [Next]_jbuf,
             NEW i \in SlotNumbers, slots'[i] # slots[i], slots'[i] # NoPacket
      PROVE  (slots'[i].frame - origin') % SeqMod < Half
  <2>1. ASSUME NEW n \in Indices, NEW t \in Times, Push(n, t)
        PROVE  (slots'[i].frame - origin') % SeqMod < Half
    <3>1. PushStore(n, t)  BY <1>2, <2>1, PushSlots
    <3>2. slots'[i] = [seq |-> SeqOf(n), frame |-> n, arrival |-> t]
      BY <1>2, <3>1, StoredPacket
    <3> DEFINE d == SeqDelta(SeqOf(n), SeqOf(origin'))
    <3>3. /\ base_sequence' = SeqOf(origin') /\ base_sequence' = BaseFor(SeqOf(n))
          /\ origin' \in Indices
      BY <1>2, <2>1, PushEffect, PushKeepsInv DEF Contents, JitterInv, TypeOK, SeqOf
    <3>4. d \in (0 - Half) .. (Half - 1)
      BY <1>2, <3>3, FrameIndexType DEF JitterInv, FrameIndex
    <3>5. d >= 0
      <4>1. ~AlreadyPlayed(d)  BY <3>1, <3>3 DEF PushStore, FrameIndex
      <4>2. frames_played \in Nat  BY <1>2, HalfProperties DEF JitterInv, TypeOK
      <4>3. d \in Int  BY <3>4, HalfProperties
      <4> HIDE DEF d
      <4> QED BY <4>1, <4>2, <4>3 DEF AlreadyPlayed
    <3>6. StartSeq \in Int /\ n \in Int /\ origin' \in Int
      BY <3>3, StreamAssumption DEF Indices, SeqNum
    <3>7. (n - origin') % SeqMod = d
      BY <3>5, <3>6, SeqDeltaAhead DEF SeqOf
    <3>8. d < Half
      <4> HIDE DEF d
      <4> QED BY <3>4, HalfProperties
    <3> QED BY <3>2, <3>7, <3>8
  <2>2. ASSUME NEW t \in Times, TryPull(t) PROVE FALSE
    BY <1>2, <2>2, PullSlots
  <2>3. ASSUME MarkStreamEnded \/ UNCHANGED jbuf PROVE FALSE
    BY <1>2, <2>3 DEF MarkStreamEnded, jbuf, window
  <2> QED BY <1>2, <2>1, <2>2, <2>3 DEF Next
<1>3. JitterInv /\ Contents /\ Contents' /\ [Next]_jbuf
      => [/\ frames_played = Half => UNCHANGED <<frames_played, out, slots>>
          /\ \A i \in SlotNumbers :
               slots'[i] # slots[i] /\ slots'[i] # NoPacket =>
                 (slots'[i].frame - origin') % SeqMod < Half]_jbuf
  BY <1>1, <1>2
<1> QED BY <1>3, Invariance, ContentsInvariance, PTL DEF Spec, SilentBeyondHorizon

LEMMA FadeStep == JitterInv /\ FadeTracked /\ [Next]_jbuf => FadeTracked'
<1> SUFFICES ASSUME JitterInv, FadeTracked, [Next]_jbuf PROVE FadeTracked'
  OBVIOUS
<1>1. ASSUME UNCHANGED playout PROVE FadeTracked'
  BY <1>1 DEF playout, FadeTracked, FadeExhausted
<1>2. ASSUME NEW n \in Indices, NEW t \in Times, Push(n, t) PROVE UNCHANGED playout
  BY <1>2 DEF Push, PushLate, PushDuplicate, PushStore, Witness
<1>3. ASSUME NEW t \in Times, TryPull(t) PROVE FadeTracked'
  <2>1. CASE PlayReal(t)
    BY <2>1 DEF PlayReal, Decoded, FadeTracked
  <2>2. CASE Conceal
    BY <2>2 DEF Conceal, FadeTracked, FadeExhausted
  <2> QED BY <1>3, <2>1, <2>2 DEF TryPull
<1>4. ASSUME MarkStreamEnded \/ UNCHANGED jbuf PROVE UNCHANGED playout
  BY <1>4 DEF MarkStreamEnded, jbuf
<1> QED BY <1>1, <1>2, <1>3, <1>4 DEF Next

\* A loss is heard as the frame it interrupted getting quieter, then silence.
THEOREM FadeCorrect == Spec => ConcealmentFades
<1>1. /\ JitterInv /\ FadeTracked /\ [Next]_jbuf
      => [counts["lost"]' > counts["lost"] =>
            \/ out'.frame = Silence
            \/ out'.frame = out.frame /\ out'.fade = out.fade + 1]_jbuf
  <2> SUFFICES ASSUME JitterInv, FadeTracked, [Next]_jbuf, counts["lost"]' > counts["lost"]
               PROVE  \/ out'.frame = Silence
                      \/ out'.frame = out.frame /\ out'.fade = out.fade + 1
    OBVIOUS
  <2>1. counts["lost"] \in Nat /\ counts["lost"]' # counts["lost"]
    BY DEF JitterInv, TypeOK, Counters
  <2>2. PICK t \in Times : TryPull(t)
    BY <2>1, PushEffect DEF Next, MarkStreamEnded, jbuf
  <2>3. Conceal  BY <2>1, <2>2, PullEffect DEF PlayReal
  <2> QED BY <2>3 DEF Conceal, FadeTracked, NextFade
<1>2. Spec => [](JitterInv /\ FadeTracked)
  BY Invariance, ContentsInit, FadeStep, PTL DEF Spec
<1> QED BY <1>1, <1>2, PTL DEF Spec, ConcealmentFades
-----------------------------------------------------------------------------
(* Each step of the buffer is a step of the window, or a stutter. *)

LEMMA HeldUnchanged == ASSUME UNCHANGED slots PROVE held' = held
  BY DEF held, Occupied

LEMMA PushImplements ==
  ASSUME LastIndex < Half, JitterInv, Contents, NEW n \in Indices, NEW t \in Times,
         Push(n, t)
  PROVE  Abstract!FirstArrival(n) \/ Abstract!Arrival(n)
<1> DEFINE seq == SeqOf(n)
           i == SlotOf(seq)
<1>1. /\ UNCHANGED <<playout, stream_ended>>
      /\ started' = TRUE
      /\ origin' = IF started THEN origin ELSE n
      /\ highest_frame_index_seen' =
           IF FrameIndex(seq) > highest_frame_index_seen
           THEN FrameIndex(seq) ELSE highest_frame_index_seen
  BY DEF Push, PushLate, PushDuplicate, PushStore, Witness
<1>2. /\ n \in Int /\ origin \in Int /\ frames_played \in Int /\ Capacity \in Int
      /\ highest_frame_index_seen \in Int
  BY CapacityAssumption, HalfProperties, StreamAssumption DEF JitterInv, TypeOK, Indices
<1>3. seq \in SeqNum /\ i \in SlotNumbers  BY SeqOfType, SlotOfType
<1>4. ASSUME PushStore(n, t)
      PROVE  held' = held \cup {n}
  <2>1. slots[i] = NoPacket  BY <1>4, StoreIntoEmptySlot
  <2>2. [seq |-> seq, frame |-> n, arrival |-> t] # NoPacket
    BY <1>3, <1>4, StoredPacket, MarkersAssumption
  <2>3. \A j \in SlotNumbers :
          slots'[j] = IF j = i THEN [seq |-> seq, frame |-> n, arrival |-> t] ELSE slots[j]
    BY <1>4, StoredPacket
  <2>4. Occupied' = Occupied \cup {i} /\ i \notin Occupied
    BY <1>3, <2>1, <2>2, <2>3 DEF Occupied
  <2>5. slots'[i].frame = n  BY <1>3, <2>3
  <2>6. \A j \in Occupied : slots'[j] = slots[j]
    BY <2>3, <2>4 DEF Occupied
  <2>7. held' = {slots'[j].frame : j \in Occupied'}  BY DEF held
  <2> HIDE DEF i
  <2> QED BY <2>4, <2>5, <2>6, <2>7 DEF held
<1>5. CASE ~started
  <2>1. PushStore(n, t)  BY <1>5, FirstPushStores
  <2>2. held = {}  BY <1>5 DEF held, Occupied, JitterInv, Fresh
  <2>3. FrameIndex(seq) = 0 /\ highest_frame_index_seen = -1 /\ frames_played = 0
    BY <1>5, FrameIndexType DEF JitterInv, Fresh
  <2>4. origin' + frames_played' = n /\ origin' + highest_frame_index_seen' = n
    BY <1>1, <1>2, <1>5, <2>3 DEF playout
  <2>5. held' = {n}  BY <1>4, <2>1, <2>2
  <2>6. UNCHANGED <<stream_ended, out>>  BY <1>1 DEF playout
  <2>7. Abstract!FirstArrival(n)
    BY <1>1, <1>5, <2>4, <2>5, <2>6 DEF Abstract!FirstArrival, held
  <2> QED BY <2>7
<1>6. CASE started
  <2>1. FrameIndex(seq) = n - origin
    BY <1>6, IndexDistance DEF FrameIndex, BaseFor, Contents, JitterInv, TypeOK
  <2>2. origin' = origin /\ frames_played' = frames_played
    BY <1>1, <1>6 DEF playout
  <2>3. origin' + highest_frame_index_seen' =
          IF n > origin + highest_frame_index_seen
          THEN n ELSE origin + highest_frame_index_seen
    <3> DEFINE f == FrameIndex(seq)
    <3>1. f = n - origin  BY <2>1
    <3>2. highest_frame_index_seen' = IF f > highest_frame_index_seen
                                      THEN f ELSE highest_frame_index_seen
      BY <1>1
    <3> HIDE DEF f
    <3> QED BY <1>2, <2>2, <3>1, <3>2
  <2>4. held' = IF n \in (origin + frames_played) .. (origin + frames_played + Capacity - 1)
                THEN held \cup {n} ELSE held
    <3>1. CASE PushStore(n, t)
      <4>1. ~AlreadyPlayed(n - origin) /\ ~TooFarAhead(n - origin)
        BY <2>1, <3>1 DEF PushStore
      <4>2. n \in (origin + frames_played) .. (origin + frames_played + Capacity - 1)
        BY <1>2, <4>1 DEF AlreadyPlayed, TooFarAhead
      <4> QED BY <1>4, <3>1, <4>2
    <3>2. CASE PushDuplicate(n, t)
      <4>1. i \in Occupied /\ slots[i].seq = seq
        BY <1>3, <3>2 DEF PushDuplicate, IsDuplicate, Occupied
      <4>2. slots[i].frame \in Indices /\ SeqOf(slots[i].frame) = SeqOf(n)
        BY <4>1, HeldPosition DEF Contents
      <4>3. slots[i].frame = n  BY <4>2, SameSeqSameIndex
      <4>4. n \in held  BY <4>1, <4>3 DEF held
      <4>5. held' = held  BY <3>2, HeldUnchanged DEF PushDuplicate
      <4> QED BY <4>4, <4>5
    <3>3. CASE PushLate(n, t)
      <4>1. AlreadyPlayed(n - origin) \/ TooFarAhead(n - origin)
        BY <2>1, <3>3 DEF PushLate
      <4>2. n \notin (origin + frames_played) .. (origin + frames_played + Capacity - 1)
        BY <1>2, <4>1 DEF AlreadyPlayed, TooFarAhead
      <4>3. held' = held  BY <3>3, HeldUnchanged DEF PushLate
      <4> QED BY <4>2, <4>3
    <3> QED BY <3>1, <3>2, <3>3 DEF Push
  <2>5. UNCHANGED <<stream_ended, out>>  BY <1>1 DEF playout
  <2>6. Abstract!Arrival(n)
    BY <1>1, <1>6, <2>2, <2>3, <2>4, <2>5 DEF Abstract!Arrival, Abstract!InWindow, held
  <2> QED BY <2>6
<1> QED BY <1>5, <1>6 DEF JitterInv, TypeOK

LEMMA PullImplements ==
  ASSUME LastIndex < Half, JitterInv, Contents, NEW now \in Times, TryPull(now)
  PROVE  Abstract!Render
<1> DEFINE cursor == origin + frames_played
<1>1. /\ started /\ frames_played <= highest_frame_index_seen
      /\ frames_played' = frames_played + 1
      /\ UNCHANGED <<started, highest_frame_index_seen, stream_ended, origin>>
  BY PullEffect DEF TryPull
<1>2. /\ origin \in Int /\ frames_played \in Int /\ highest_frame_index_seen \in Int
      /\ consecutive_concealments \in Nat
  BY HalfProperties, StreamAssumption, PlcAssumption DEF JitterInv, TypeOK, Indices
<1>3. cursor <= origin + highest_frame_index_seen /\ origin' + frames_played' = cursor + 1
  BY <1>1, <1>2
<1>4. held' = held \ {cursor}
      /\ (IF out'.fade = 0 THEN out'.frame ELSE Silence) =
           IF cursor \in held THEN cursor ELSE Silence
  <2>1. CASE PlayReal(now) /\ HasFrame
    <3> DEFINE i == SlotOf(CursorSeq)
    <3>1. i \in Occupied /\ slots[i].frame = cursor
      BY <1>1, <2>1, CursorHeld DEF CursorSlot
    <3>2. \A j \in SlotNumbers : slots'[j] = IF j = i THEN NoPacket ELSE slots[j]
      BY <2>1, PullSlots
    <3>3. Occupied' = Occupied \ {i} /\ \A j \in Occupied' : slots'[j] = slots[j]
      BY <3>2 DEF Occupied
    <3>4. \A j \in Occupied : slots[j].frame = cursor => j = i
      <4> SUFFICES ASSUME NEW j \in Occupied, slots[j].frame = cursor PROVE j = i
        OBVIOUS
      <4>1. Position(slots[j].seq) = frames_played  BY <1>2, HeldPosition
      <4> QED BY <4>1, CursorHolder
    <3>5. held' = {slots'[j].frame : j \in Occupied'}  BY DEF held
    <3>6. held' = held \ {cursor}
      <4> HIDE DEF i, cursor
      <4> QED BY <3>1, <3>3, <3>4, <3>5 DEF held
    <3>7. out'.fade = 0 /\ out'.frame = cursor
      BY <2>1, <3>1 DEF PlayReal, Decoded, CursorSlot
    <3>8. cursor \in held  BY <3>1 DEF held
    <3> QED BY <3>6, <3>7, <3>8
  <2>2. CASE Conceal /\ ~HasFrame
    <3>1. cursor \notin held  BY <1>1, <2>2, CursorHeld
    <3>2. held' = held  BY <2>2, HeldUnchanged DEF Conceal
    <3>3. out'.fade = 0 => out'.frame = Silence
      BY <1>2, <2>2 DEF Conceal, NextFade
    <3> QED BY <3>1, <3>2, <3>3
  <2> QED BY <2>1, <2>2, PullEffect
<1> QED BY <1>1, <1>3, <1>4 DEF Abstract!Render, held

LEMMA StepImplements ==
  ASSUME LastIndex < Half, JitterInv, Contents, [Next]_jbuf
  PROVE  [Abstract!Next]_(Abstract!vars)
<1>1. ASSUME NEW n \in Indices, NEW t \in Times, Push(n, t) PROVE Abstract!Next
  BY <1>1, PushImplements DEF Abstract!Next, Indices
<1>2. ASSUME NEW t \in Times, TryPull(t) PROVE Abstract!Next
  BY <1>2, PullImplements DEF Abstract!Next
<1>3. CASE MarkStreamEnded
  <2>1. Abstract!End
    BY <1>3 DEF MarkStreamEnded, Abstract!End, window, playout, Occupied
  <2> QED BY <2>1 DEF Abstract!Next
<1>4. CASE UNCHANGED jbuf
  BY <1>4 DEF jbuf, window, playout, Abstract!vars, Occupied
<1> QED BY <1>1, <1>2, <1>3, <1>4 DEF Next

\* Until positions leave the signed half of the sequence space, the buffer plays
\* the stream by index: each position once, in order, from its own packet if that
\* arrived inside the window and as a concealment otherwise.
THEOREM Refinement == ASSUME LastIndex < Half PROVE Spec => ImplementsPlayoutWindow
<1>1. JitterInit => Abstract!Init
  BY DEF JitterInit, Abstract!Init, Occupied
<1>2. JitterInv /\ Contents /\ [Next]_jbuf => [Abstract!Next]_(Abstract!vars)
  BY StepImplements
<1>3. Spec => [](JitterInv /\ Contents)
  BY Invariance, ContentsInit, ContentsStep, PTL DEF Spec
<1> QED BY <1>1, <1>2, <1>3, PTL DEF Spec, ImplementsPlayoutWindow, Abstract!Spec
=============================================================================
