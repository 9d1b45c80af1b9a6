------------------------- MODULE TrackedBufferProofs -------------------------
(***************************************************************************)
(* The sequence tracker's three counters and the reordered count the       *)
(* receiver prints, for every sequence space and every network that keeps  *)
(* its promise.  The inductive invariants are TrackerInv and Agree.        *)
(***************************************************************************)
EXTENDS TrackedBuffer, JitterBufferProofs

\* What the history variables and the counters are before and after the first packet.
TrackerTypes ==
  /\ has_last \in BOOLEAN
  /\ received \in Nat /\ gaps \in Nat /\ reordered \in Nat /\ repeats \in Nat
  /\ seen \subseteq Indices /\ first \in Indices /\ highest \in Indices
  /\ ~has_last => received = 0 /\ gaps = 0 /\ reordered = 0 /\ repeats = 0 /\ seen = {}

\* The newest packet has been seen, and none after it.
NewestSeen ==
  has_last => highest \in seen /\ first <= highest /\ \A m \in seen : m <= highest

TrackerInv ==
  /\ TrackerTypes /\ NewestSeen
  /\ FollowsNewest /\ GapsAreMissing /\ CountersCoverStream

\* The buffer and the tracker have the same reference, and the same count.
Agree ==
  /\ started = has_last
  /\ has_last => highest_sequence_seen = last_sequence
  /\ SameReordered
-----------------------------------------------------------------------------
(* The tracker. *)

LEMMA IndexInt == ASSUME NEW n \in Indices PROVE n \in Int /\ n >= 0
  BY StreamAssumption DEF Indices

\* While the network keeps its promise, the difference of sequence numbers is the
\* difference of the packets.
LEMMA DeltaIs ==
  ASSUME TrackerInv, has_last, NEW n \in Indices, Arrives(n)
  PROVE  Delta(n) = n - highest
<1>1. StartSeq \in Int /\ n \in Int /\ highest \in Int
  BY StreamAssumption, IndexInt DEF SeqNum, TrackerInv, TrackerTypes
<1>2. n - highest \in (0 - Half) .. (Half - 1)
  BY HalfProperties DEF Arrives
<1>3. last_sequence = SeqOf(highest)  BY DEF TrackerInv, FollowsNewest
<1> QED BY <1>1, <1>2, <1>3, SeqDeltaOfStream DEF Delta, SeqOf

LEMMA MissingFinite ==
  ASSUME NEW a \in Int, NEW b \in Int, NEW S
  PROVE  IsFiniteSet((a .. b) \ S) /\ Cardinality((a .. b) \ S) \in Nat
<1>1. IsFiniteSet(a .. b)  BY FS_Interval
<1>2. IsFiniteSet((a .. b) \ S)  BY <1>1, FS_Difference
<1> QED BY <1>2, FS_CardinalityType

\* A packet d places ahead leaves d - 1 more missing.
LEMMA MissingAhead ==
  ASSUME NEW a \in Int, NEW b \in Int, NEW n \in Int, NEW S,
         a <= b, b < n, \A m \in S : m <= b
  PROVE  Cardinality((a .. n) \ (S \cup {n})) = Cardinality((a .. b) \ S) + (n - b - 1)
<1> DEFINE A == (a .. b) \ S
           B == (b + 1) .. (n - 1)
<1>1. (a .. n) \ (S \cup {n}) = A \cup B  OBVIOUS
<1>2. IsFiniteSet(A) /\ Cardinality(A) \in Nat  BY MissingFinite
<1>3. IsFiniteSet(B) /\ Cardinality(B) = n - b - 1
  <2>1. b + 1 \in Int /\ n - 1 \in Int  OBVIOUS
  <2>2. IsFiniteSet(B) /\ Cardinality(B) =
          IF b + 1 > n - 1 THEN 0 ELSE (n - 1) - (b + 1) + 1
    BY <2>1, FS_Interval
  <2> HIDE DEF B
  <2> QED BY <2>2
<1>4. A \cap B = {}  OBVIOUS
<1> HIDE DEF A, B
<1>5. Cardinality(A \cup B) = Cardinality(A) + Cardinality(B) - Cardinality(A \cap B)
  BY <1>2, <1>3, FS_Union
<1>6. Cardinality(A \cap B) = 0  BY <1>4, FS_EmptySet
<1>7. Cardinality(A \cup B) = Cardinality(A) + (n - b - 1)
  BY <1>2, <1>3, <1>5, <1>6
<1> QED BY <1>1, <1>7 DEF A

\* A packet behind the newest fills at most one gap.
LEMMA MissingBehind ==
  ASSUME NEW a \in Int, NEW b \in Int, NEW n \in Int, NEW S
  PROVE  LET M == (a .. b) \ S
             N == (a .. b) \ (S \cup {n})
         IN  /\ Cardinality(N) <= Cardinality(M)
             /\ Cardinality(M) <= Cardinality(N) + 1
             /\ n \in S => N = M
<1> DEFINE M == (a .. b) \ S
           N == (a .. b) \ (S \cup {n})
<1>1. N = M \ {n}  OBVIOUS
<1>2. IsFiniteSet(M) /\ Cardinality(M) \in Nat  BY MissingFinite
<1>3. n \in S => N = M  OBVIOUS
<1> HIDE DEF M, N
<1>4. Cardinality(M \ {n}) = IF n \in M THEN Cardinality(M) - 1 ELSE Cardinality(M)
  BY <1>2, FS_RemoveElement
<1>5. /\ Cardinality(N) <= Cardinality(M) /\ Cardinality(M) <= Cardinality(N) + 1
  BY <1>1, <1>2, <1>4
<1> QED BY <1>3, <1>5 DEF M, N

LEMMA TypesArrive ==
  ASSUME TrackerInv, NEW n \in Indices, OnPacket(n)
  PROVE  /\ received' = received + 1 /\ has_last' = TRUE
         /\ seen' = seen \cup {n} /\ seen' \subseteq Indices
         /\ first' = IF has_last THEN first ELSE n
         /\ highest' = IF has_last /\ highest > n THEN highest ELSE n
         /\ repeats' = IF has_last /\ n = highest THEN repeats + 1 ELSE repeats
         /\ Arrives(n)
         /\ first' \in Indices /\ highest' \in Indices /\ repeats' \in Nat
         /\ received' \in Nat
  BY DEF OnPacket, FirstPacket, Forward, NotForward, Arrives, TrackerInv, TrackerTypes

LEMMA FirstKeepsInv ==
  ASSUME TrackerInv, NEW n \in Indices, FirstPacket(n)
  PROVE  TrackerInv'
<1>1. /\ received = 0 /\ gaps = 0 /\ reordered = 0 /\ repeats = 0 /\ seen = {}
      /\ ~has_last
  BY DEF FirstPacket, TrackerInv, TrackerTypes
<1>2. /\ received' = 1 /\ has_last' = TRUE /\ seen' = {n} /\ first' = n /\ highest' = n
      /\ repeats' = 0 /\ gaps' = 0 /\ reordered' = 0 /\ last_sequence' = SeqOf(n)
  BY <1>1 DEF FirstPacket, Arrives
<1>3. n \in Int  BY IndexInt
<1>4. TrackerTypes'  BY <1>2 DEF TrackerTypes, Indices
<1>5. NewestSeen'  BY <1>2, <1>3 DEF NewestSeen
<1>6. FollowsNewest'  BY <1>2 DEF FollowsNewest, SeqOf
<1>7. GapsAreMissing'
  <2>1. Missing' = {}  BY <1>2, <1>3 DEF Missing
  <2>2. Cardinality({}) = 0  BY FS_EmptySet
  <2> QED BY <1>2, <2>1, <2>2 DEF GapsAreMissing
<1>8. CountersCoverStream'  BY <1>2, <1>3 DEF CountersCoverStream
<1> QED BY <1>4, <1>5, <1>6, <1>7, <1>8 DEF TrackerInv

LEMMA ForwardKeepsInv ==
  ASSUME TrackerInv, NEW n \in Indices, Forward(n)
  PROVE  TrackerInv'
<1>1. has_last /\ Arrives(n)  BY DEF Forward
<1>2. Delta(n) = n - highest  BY <1>1, DeltaIs
<1>3. /\ n \in Int /\ highest \in Int /\ first \in Int /\ first <= highest
      /\ highest \in seen /\ \A m \in seen : m <= highest
  BY <1>1, IndexInt DEF TrackerInv, TrackerTypes, NewestSeen
<1>4. n > highest  BY <1>2, <1>3 DEF Forward
<1>5. /\ received' = received + 1 /\ has_last' = TRUE /\ seen' = seen \cup {n}
      /\ first' = first /\ highest' = n /\ repeats' = repeats /\ reordered' = reordered
      /\ gaps' = gaps + (n - highest - 1) /\ last_sequence' = SeqOf(n)
  BY <1>1, <1>2, <1>3, <1>4 DEF Forward, Arrives, Skipped
<1>6. received \in Nat /\ gaps \in Nat /\ reordered \in Nat /\ repeats \in Nat
  BY DEF TrackerInv, TrackerTypes
<1>7. gaps' \in Nat  BY <1>3, <1>4, <1>5, <1>6
<1>8. TrackerTypes'
  <2>1. seen \subseteq Indices /\ first \in Indices  BY DEF TrackerInv, TrackerTypes
  <2> QED BY <1>5, <1>6, <1>7, <2>1 DEF TrackerTypes, Indices
<1>9. NewestSeen'
  <2>1. \A m \in seen : m <= n
    <3>1. \A m \in seen : m \in Int  BY IndexInt DEF TrackerInv, TrackerTypes
    <3> QED BY <1>3, <1>4, <3>1
  <2> QED BY <1>3, <1>4, <1>5, <2>1 DEF NewestSeen
<1>10. FollowsNewest'  BY <1>5 DEF FollowsNewest, SeqOf
<1>11. GapsAreMissing'
  <2> DEFINE c == Cardinality((first .. highest) \ seen)
  <2>1. c \in Nat  BY <1>3, MissingFinite
  <2>2. c <= gaps /\ gaps <= c + reordered
    BY <1>1 DEF TrackerInv, GapsAreMissing, Missing
  <2>3. Cardinality((first .. n) \ (seen \cup {n})) = c + (n - highest - 1)
    BY <1>3, <1>4, MissingAhead, ZenonT(60)
  <2>4. Cardinality(Missing') = c + (n - highest - 1)
    BY <1>5, <2>3 DEF Missing
  <2> HIDE DEF c
  <2>5. /\ c + (n - highest - 1) <= gaps'
        /\ gaps' <= c + (n - highest - 1) + reordered'
    BY <1>3, <1>5, <1>6, <2>1, <2>2
  <2> QED BY <2>4, <2>5 DEF GapsAreMissing
<1>12. CountersCoverStream'
  <2>1. highest - first + 1 + repeats = gaps + (received - reordered)
    BY <1>1 DEF TrackerInv, CountersCoverStream
  <2>2. n - first + 1 + repeats = gaps + (n - highest - 1) + ((received + 1) - reordered)
    BY <1>3, <1>6, <2>1
  <2> QED BY <1>5, <2>2 DEF CountersCoverStream
<1> QED BY <1>8, <1>9, <1>10, <1>11, <1>12 DEF TrackerInv

LEMMA NotForwardKeepsInv ==
  ASSUME TrackerInv, NEW n \in Indices, NotForward(n)
  PROVE  TrackerInv'
<1>1. has_last /\ Arrives(n)  BY DEF NotForward
<1>2. Delta(n) = n - highest  BY <1>1, DeltaIs
<1>3. /\ n \in Int /\ highest \in Int /\ first \in Int /\ first <= highest
      /\ highest \in seen /\ \A m \in seen : m <= highest
  BY <1>1, IndexInt DEF TrackerInv, TrackerTypes, NewestSeen
<1>4. n <= highest  BY <1>2, <1>3 DEF NotForward
<1>5. /\ received' = received + 1 /\ has_last' = TRUE /\ seen' = seen \cup {n}
      /\ first' = first /\ highest' = highest /\ gaps' = gaps
      /\ last_sequence' = last_sequence
      /\ repeats' = IF n = highest THEN repeats + 1 ELSE repeats
      /\ reordered' = IF n = highest THEN reordered ELSE reordered + 1
  BY <1>1, <1>2, <1>3, <1>4 DEF NotForward, Arrives, Behind, KeepReference
<1>6. received \in Nat /\ gaps \in Nat /\ reordered \in Nat /\ repeats \in Nat
  BY DEF TrackerInv, TrackerTypes
<1>7. TrackerTypes'
  <2>1. seen \subseteq Indices /\ first \in Indices /\ highest \in Indices
    BY DEF TrackerInv, TrackerTypes
  <2> QED BY <1>5, <1>6, <2>1 DEF TrackerTypes, Indices
<1>8. NewestSeen'  BY <1>3, <1>4, <1>5 DEF NewestSeen
<1>9. FollowsNewest'
  BY <1>1, <1>5 DEF TrackerInv, FollowsNewest, SeqOf
<1>10. GapsAreMissing'
  <2> DEFINE M == (first .. highest) \ seen
             N == (first .. highest) \ (seen \cup {n})
  <2>1. Cardinality(M) \in Nat /\ Cardinality(N) \in Nat
    BY <1>3, MissingFinite
  <2>2. Cardinality(M) <= gaps /\ gaps <= Cardinality(M) + reordered
    BY <1>1 DEF TrackerInv, GapsAreMissing, Missing
  <2>3. /\ Cardinality(N) <= Cardinality(M) /\ Cardinality(M) <= Cardinality(N) + 1
        /\ n \in seen => N = M
    BY <1>3, MissingBehind, ZenonT(60)
  <2>4. Missing' = N  BY <1>5 DEF Missing
  <2> HIDE DEF M, N
  <2>5. Cardinality(N) <= gaps /\ gaps <= Cardinality(N) + reordered'
    <3>1. CASE n = highest
      BY <1>3, <1>5, <2>2, <2>3, <3>1
    <3>2. CASE n # highest
      BY <1>5, <1>6, <2>1, <2>2, <2>3, <3>2
    <3> QED BY <3>1, <3>2
  <2> QED BY <1>5, <2>4, <2>5 DEF GapsAreMissing
<1>11. CountersCoverStream'
  <2>1. highest - first + 1 + repeats = gaps + (received - reordered)
    BY <1>1 DEF TrackerInv, CountersCoverStream
  <2>2. highest - first + 1 + repeats' = gaps + ((received + 1) - reordered')
    BY <1>3, <1>5, <1>6, <2>1
  <2> QED BY <1>5, <2>2 DEF CountersCoverStream
<1> QED BY <1>7, <1>8, <1>9, <1>10, <1>11 DEF TrackerInv

LEMMA TrackerInvStep ==
  TrackerInv /\ [\E n \in Indices : OnPacket(n)]_vars => TrackerInv'
<1>1. ASSUME TrackerInv, UNCHANGED vars PROVE TrackerInv'
  BY <1>1 DEF vars, counters, TrackerInv, TrackerTypes, NewestSeen, FollowsNewest,
              GapsAreMissing, Missing, CountersCoverStream, SeqOf, Indices
<1> QED BY <1>1, FirstKeepsInv, ForwardKeepsInv, NotForwardKeepsInv DEF OnPacket

LEMMA TrackerInvInit == TrackerInit => TrackerInv
<1> SUFFICES ASSUME TrackerInit PROVE TrackerInv
  OBVIOUS
<1>1. 0 \in Indices  BY StreamAssumption DEF Indices
<1>2. TrackerTypes  BY <1>1 DEF TrackerInit, TrackerTypes
<1>3. has_last = FALSE  BY DEF TrackerInit
<1> QED BY <1>2, <1>3 DEF TrackerInv, NewestSeen, FollowsNewest, GapsAreMissing,
                          CountersCoverStream
-----------------------------------------------------------------------------
(* The buffer beside it. *)

\* What push does to the three variables the tracker has counterparts of.
LEMMA PushCounts ==
  ASSUME NEW n \in Indices, NEW t, Push(n, t)
  PROVE  /\ started' = TRUE
         /\ highest_sequence_seen' =
              IF started /\ SeqDelta(SeqOf(n), highest_sequence_seen) <= 0
              THEN highest_sequence_seen ELSE SeqOf(n)
         /\ counts'["reordered"] =
              IF started /\ SeqDelta(SeqOf(n), highest_sequence_seen) < 0
              THEN counts["reordered"] + 1 ELSE counts["reordered"]
<1>1. PICK tallied : Witness(n, t, tallied) /\ "reordered" \notin tallied
  BY DEF Push, PushLate, PushDuplicate, PushStore
<1>2. /\ started' = TRUE
      /\ highest_sequence_seen' =
           IF started /\ SeqDelta(SeqOf(n), highest_sequence_seen) <= 0
           THEN highest_sequence_seen ELSE SeqOf(n)
  BY <1>1 DEF Witness
<1>3. Tally(IF Reordered(SeqOf(n)) THEN tallied \cup {"reordered"} ELSE tallied)
  BY <1>1 DEF Witness
<1>4. counts'["reordered"] = IF Reordered(SeqOf(n))
                             THEN counts["reordered"] + 1 ELSE counts["reordered"]
  BY <1>1, <1>3 DEF Tally, Counters
<1> QED BY <1>2, <1>4 DEF Reordered

LEMMA AgreeStep ==
  ASSUME TrackerInv, Agree, [TrackedNext]_<<vars, jbuf>>
  PROVE  Agree'
<1>1. ASSUME NEW n \in Indices, NEW t \in Times, PacketArrives(n, t) PROVE Agree'
  <2>1. OnPacket(n) /\ Push(n, t)  BY <1>1 DEF PacketArrives
  <2>2. has_last' = TRUE /\ Arrives(n)  BY <2>1, TypesArrive
  <2>3. /\ started' = TRUE
        /\ highest_sequence_seen' =
             IF started /\ SeqDelta(SeqOf(n), highest_sequence_seen) <= 0
             THEN highest_sequence_seen ELSE SeqOf(n)
        /\ counts'["reordered"] =
             IF started /\ SeqDelta(SeqOf(n), highest_sequence_seen) < 0
             THEN counts["reordered"] + 1 ELSE counts["reordered"]
    BY <2>1, PushCounts
  <2>4. has_last \in BOOLEAN /\ started = has_last /\ counts["reordered"] = reordered
    BY DEF TrackerInv, TrackerTypes, Agree, SameReordered
  <2>5. highest_sequence_seen' = last_sequence' /\ counts'["reordered"] = reordered'
    <3>1. CASE ~has_last
      BY <2>1, <2>3, <2>4, <3>1 DEF OnPacket, FirstPacket, Forward, NotForward
    <3>2. CASE has_last
      <4>1. highest_sequence_seen = last_sequence  BY <3>2 DEF Agree
      <4>2. Delta(n) \in Int
        <5>1. Delta(n) = n - highest /\ n \in Int /\ highest \in Int
          BY <2>2, <3>2, DeltaIs, IndexInt DEF TrackerInv, TrackerTypes
        <5> QED BY <5>1
      <4>3. /\ highest_sequence_seen' = IF Delta(n) <= 0 THEN last_sequence ELSE SeqOf(n)
            /\ counts'["reordered"] = IF Delta(n) < 0 THEN reordered + 1 ELSE reordered
        BY <2>3, <2>4, <3>2, <4>1 DEF Delta
      <4>4. CASE Delta(n) >= 1
        BY <2>1, <3>2, <4>2, <4>3, <4>4 DEF OnPacket, FirstPacket, Forward, NotForward
      <4>5. CASE Delta(n) < 1
        BY <2>1, <3>2, <4>2, <4>3, <4>5
           DEF OnPacket, FirstPacket, Forward, NotForward, Behind, KeepReference
      <4> QED BY <4>2, <4>4, <4>5
    <3> QED BY <2>4, <3>1, <3>2
  <2> QED BY <2>2, <2>3, <2>5 DEF Agree, SameReordered
<1>2. ASSUME NEW t \in Times, BufferPlays(t) PROVE Agree'
  <2>1. TryPull(t) /\ UNCHANGED <<has_last, last_sequence, reordered>>
    BY <1>2 DEF BufferPlays, vars, counters
  <2>2. UNCHANGED <<started, highest_sequence_seen>>  BY <2>1 DEF TryPull
  <2>3. counts'["reordered"] = counts["reordered"]
    BY <2>1 DEF TryPull, PlayReal, Conceal, Tally,
                Counters
  <2> QED BY <2>1, <2>2, <2>3 DEF Agree, SameReordered
<1>3. ASSUME StreamEnds \/ UNCHANGED <<vars, jbuf>> PROVE Agree'
  BY <1>3 DEF StreamEnds, MarkStreamEnded, jbuf, window, vars,
              counters, Agree, SameReordered
<1> QED BY <1>1, <1>2, <1>3 DEF TrackedNext

LEMMA TrackerStep ==
  ASSUME [TrackedNext]_<<vars, jbuf>>
  PROVE  [\E n \in Indices : OnPacket(n)]_vars
  BY DEF TrackedNext, PacketArrives, BufferPlays, StreamEnds

LEMMA TrackedInvariance == TrackedSpec => [](TrackerInv /\ Agree)
<1>1. TrackedInit => TrackerInv /\ Agree
  <2> SUFFICES ASSUME TrackedInit PROVE TrackerInv /\ Agree
    OBVIOUS
  <2>1. TrackerInv  BY TrackerInvInit DEF TrackedInit
  <2>2. /\ has_last = FALSE /\ started = FALSE /\ reordered = 0
        /\ counts = [f \in Counters |-> 0]
    BY DEF TrackedInit, TrackerInit, JitterInit
  <2> QED BY <2>1, <2>2 DEF Agree, SameReordered, Counters
<1>2. TrackerInv /\ Agree /\ [TrackedNext]_<<vars, jbuf>> => TrackerInv' /\ Agree'
  BY TrackerStep, TrackerInvStep, AgreeStep
<1> QED BY <1>1, <1>2, PTL DEF TrackedSpec
-----------------------------------------------------------------------------
\* The tracker's reference is the newest packet for ever, across any number of wraps of
\* the sequence number, whatever arrives late or again.
THEOREM NewestCorrect == TrackedSpec => []FollowsNewest
<1>1. TrackerInv => FollowsNewest  BY DEF TrackerInv
<1> QED BY <1>1, TrackedInvariance, PTL

\* What is missing between the first packet and the newest is a gap, and a gap that is
\* not missing came late.
THEOREM GapsCorrect == TrackedSpec => []GapsAreMissing
<1>1. TrackerInv => GapsAreMissing  BY DEF TrackerInv
<1> QED BY <1>1, TrackedInvariance, PTL

\* The three counters account for every number from the first to the newest.
THEOREM CountersCorrect == TrackedSpec => []CountersCoverStream
<1>1. TrackerInv => CountersCoverStream  BY DEF TrackerInv
<1> QED BY <1>1, TrackedInvariance, PTL

\* The buffer counts as reordered exactly the packets the tracker does, before and
\* after it has fallen silent.
THEOREM SameReorderedCorrect == TrackedSpec => []SameReordered
<1>1. Agree => SameReordered  BY DEF Agree
<1> QED BY <1>1, TrackedInvariance, PTL

\* Once playout is half the sequence space from its first packet, the buffer produces
\* and stores nothing any more, while the tracker goes on.
THEOREM TrackedHorizonCorrect == TrackedSpec => SilentBeyondHorizon
<1>1. TrackedInit => JitterInit  BY DEF TrackedInit
<1>2. [TrackedNext]_<<vars, jbuf>> => [Next]_jbuf
  BY DEF TrackedNext, PacketArrives, BufferPlays, StreamEnds, Next
<1>3. TrackedSpec => Spec  BY <1>1, <1>2, PTL DEF TrackedSpec, Spec
<1> QED BY <1>3, HorizonCorrect, PTL
=============================================================================
