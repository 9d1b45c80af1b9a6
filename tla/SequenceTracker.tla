-------------------------- MODULE SequenceTracker --------------------------
(***************************************************************************)
(* rtp::stats::SequenceTracker: counts gaps and late packets from 16-bit   *)
(* sequence numbers alone: of a packet it sees nothing else.  The network  *)
(* may lose, repeat and reorder, as long as a packet is never half the     *)
(* sequence space away from the newest one: beyond that no 16-bit number   *)
(* can say which of the two is newer.                                      *)
(***************************************************************************)
EXTENDS PacketStream, FiniteSets

VARIABLES
  has_last, last_sequence, received, gaps, reordered,
  seen,              \* history: the stream indices that arrived
  first, highest,    \* history: the first of them, and the greatest
  repeats            \* history: arrivals of the newest packet once more

counters == <<received, gaps, reordered>>
vars == <<has_last, last_sequence, counters, seen, first, highest, repeats>>

TrackerInit ==
  /\ has_last = FALSE /\ last_sequence = 0
  /\ received = 0 /\ gaps = 0 /\ reordered = 0
  /\ seen = {} /\ first = 0 /\ highest = 0 /\ repeats = 0
-----------------------------------------------------------------------------
\* The network's promise, and the part of on_packet every packet goes through.
Arrives(n) ==
  /\ received < MaxReceived
  /\ has_last => n - highest \in -Half .. (Half - 1)
  /\ received' = received + 1
  /\ has_last' = TRUE
  /\ seen' = seen \cup {n}
  /\ first' = IF has_last THEN first ELSE n
  /\ highest' = IF has_last /\ highest > n THEN highest ELSE n
  /\ repeats' = IF has_last /\ n = highest THEN repeats + 1 ELSE repeats

Delta(n) == SeqDelta(SeqOf(n), last_sequence)

\* Faults: the missing numbers counted one too many, the repeat of the newest
\* packet taken for a late one, the reference moved back by a late packet.
JumpLength(delta) == delta
NotAhead(delta) == delta <= 0
FollowLatest(n) == last_sequence' = SeqOf(n)

Skipped(delta) == delta - 1
Behind(delta) == delta < 0
KeepReference(n) == UNCHANGED last_sequence

FirstPacket(n) ==
  /\ ~has_last
  /\ Arrives(n)
  /\ last_sequence' = SeqOf(n)
  /\ UNCHANGED <<gaps, reordered>>

Forward(n) ==
  /\ has_last /\ Delta(n) >= 1
  /\ Arrives(n)
  /\ gaps' = gaps + Skipped(Delta(n))
  /\ last_sequence' = SeqOf(n)
  /\ UNCHANGED reordered

NotForward(n) ==
  /\ has_last /\ Delta(n) < 1
  /\ Arrives(n)
  /\ reordered' = IF Behind(Delta(n)) THEN reordered + 1 ELSE reordered
  /\ KeepReference(n)
  /\ UNCHANGED gaps

OnPacket(n) == FirstPacket(n) \/ Forward(n) \/ NotForward(n)

TrackerSpec == TrackerInit /\ [][\E n \in Indices : OnPacket(n)]_vars
-----------------------------------------------------------------------------
(* Properties *)

TrackerTypeOK ==
  /\ has_last \in BOOLEAN /\ last_sequence \in SeqNum
  /\ received \in Nat /\ gaps \in 0 .. LastIndex /\ reordered \in 0 .. received
  /\ repeats \in 0 .. received
  /\ seen \subseteq Indices /\ first \in Indices /\ highest \in first .. LastIndex

\* The reference is the newest packet, across the 65535 -> 0 wrap and whatever
\* arrives late (stats.cpp:16-29).
FollowsNewest == has_last => last_sequence = SeqOf(highest)

\* Between the first and the newest packet nothing is missing that gaps does not
\* count, and a packet counted as a gap that is not missing came late and is
\* counted as reordered.
Missing == (first .. highest) \ seen
GapsAreMissing ==
  has_last => /\ Cardinality(Missing) <= gaps
              /\ gaps <= Cardinality(Missing) + reordered

\* The three counters add up: every number from the first to the newest was
\* skipped or arrived ahead, and a packet that did neither came late or was the
\* newest once more, which is no reordering (stats.cpp:23-25).
CountersCoverStream ==
  has_last => highest - first + 1 + repeats = gaps + (received - reordered)
=============================================================================
