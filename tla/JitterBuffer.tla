---------------------------- MODULE JitterBuffer ----------------------------
(***************************************************************************)
(* rtp::jitter::JitterBuffer: packets go in by sequence number, in any     *)
(* order, more than once or never; frames come out one per position of     *)
(* the stream, decoded when the position's packet is held and concealed    *)
(* when it is not.                                                         *)
(*                                                                         *)
(* The audio of a packet is named by its stream index; decoding and fading *)
(* are named by what they repeat.  Times are in samples.  have_highest_    *)
(* and have_prev_arrival_ are set by the same first push as started_,      *)
(* which stands for the three.                                             *)
(***************************************************************************)
EXTENDS PacketStream, FiniteSets

CONSTANTS
  Capacity,           \* kCapacity, slots in the ring (32)
  FrameSamples,       \* kFrameSamples (160)
  TargetDepths,       \* values target_depth_ms_ may take, in samples
  MinTarget,          \* kMinTargetMs, in samples
  MaxConcealments,    \* kMaxConsecutiveConcealments (3)
  ClockMod,           \* 2^32: the width of a time in samples
  DisablePlcFade,     \* Options::disable_plc_fade
  CollectStats,       \* Options::collect_stats
  Times,              \* bound: the times a caller may pass
  NoPacket,           \* an unoccupied slot
  Silence             \* a frame of zeros

ASSUME CapacityAssumption ==
  Capacity \in Nat \ {0} /\ SeqMod % Capacity = 0 /\ Capacity <= Half
ASSUME TimingAssumption ==
  /\ FrameSamples \in Nat \ {0} /\ ClockMod \in Nat \ {0}
  /\ MinTarget \in TargetDepths /\ TargetDepths \subseteq Nat
  /\ Times \subseteq 0 .. (ClockMod - 1)
ASSUME PlcAssumption ==
  MaxConcealments \in Nat /\ DisablePlcFade \in BOOLEAN /\ CollectStats \in BOOLEAN

SlotNumbers == 0 .. (Capacity - 1)
Packets == [seq : SeqNum, frame : Indices, arrival : 0 .. (ClockMod - 1)]

Counters ==
  {"received", "lost", "late_dropped", "reordered", "concealed", "duplicate"}

ASSUME MarkersAssumption == NoPacket \notin Packets /\ Silence \notin Indices

VARIABLES
  slots, started, base_sequence, first_arrival, frames_played,
  highest_sequence_seen, highest_frame_index_seen, target_depth,
  have_last_real_frame, last_real_frame, consecutive_concealments,
  stream_ended, counts, latencies,
  out,                \* the frame try_pull_due_frame last produced
  origin              \* history: the stream index of the first packet pushed

window == <<slots, started, base_sequence, first_arrival, highest_sequence_seen,
            highest_frame_index_seen, target_depth, origin>>
playout == <<frames_played, have_last_real_frame, last_real_frame,
             consecutive_concealments, latencies, out>>
jbuf == <<window, playout, stream_ended, counts>>
-----------------------------------------------------------------------------
SlotOf(seq) == seq % Capacity
ClockAdd(t, d) == (t + d) % ClockMod

Occupied == {i \in SlotNumbers : slots[i] # NoPacket}
Position(seq) == SeqDelta(seq, base_sequence)

\* counts_.f += 1 for each f of counters
Tally(counters) ==
  counts' = [f \in Counters |-> IF f \in counters THEN counts[f] + 1 ELSE counts[f]]

JitterInit ==
  /\ slots = [i \in SlotNumbers |-> NoPacket]
  /\ started = FALSE /\ base_sequence = 0 /\ first_arrival = 0 /\ frames_played = 0
  /\ highest_sequence_seen = 0 /\ highest_frame_index_seen = -1
  /\ target_depth = MinTarget
  /\ have_last_real_frame = FALSE /\ last_real_frame = Silence
  /\ consecutive_concealments = 0 /\ stream_ended = FALSE
  /\ counts = [f \in Counters |-> 0]
  /\ latencies = {}
  /\ out = [frame |-> Silence, fade |-> 0]
  /\ origin = 0
-----------------------------------------------------------------------------
(* push *)

\* Before the first push the packet's own sequence number becomes the base.
BaseFor(seq) == IF started THEN base_sequence ELSE seq
FrameIndex(seq) == SeqDelta(seq, BaseFor(seq))

\* update_jitter_estimate: the first arrival only primes it; every later one
\* leaves the target somewhere in its clamped range.
UpdateJitterEstimate ==
  IF started THEN target_depth' \in TargetDepths ELSE UNCHANGED target_depth

\* Faults: the window shifted by one at either end, duplicates not recognised.
CursorAlreadyPlayed(fi) == fi <= frames_played
OneTooFarAhead(fi) == fi - frames_played > Capacity
NeverDuplicate(seq) == FALSE

AlreadyPlayed(fi) == fi < frames_played
TooFarAhead(fi) == fi - frames_played >= Capacity
IsDuplicate(seq) == slots[SlotOf(seq)] # NoPacket /\ slots[SlotOf(seq)].seq = seq

\* Fault: positions compared where sequence numbers are, which is the same until the
\* positions end.
BehindPosition(seq) == started /\ FrameIndex(seq) < highest_frame_index_seen

Reordered(seq) == started /\ SeqDelta(seq, highest_sequence_seen) < 0

\* The part of push every packet goes through: the estimate, the bootstrap on
\* the first packet, the frontier, and the counters its outcome names.
Witness(n, arrival, counters) ==
  LET seq == SeqOf(n) IN
  /\ counts["received"] < MaxReceived
  /\ UpdateJitterEstimate
  /\ started' = TRUE
  /\ base_sequence' = BaseFor(seq)
  /\ first_arrival' = IF started THEN first_arrival ELSE arrival
  /\ origin' = IF started THEN origin ELSE n
  /\ highest_sequence_seen' =
       IF started /\ SeqDelta(seq, highest_sequence_seen) <= 0
       THEN highest_sequence_seen ELSE seq
  /\ highest_frame_index_seen' =
       IF FrameIndex(seq) > highest_frame_index_seen
       THEN FrameIndex(seq) ELSE highest_frame_index_seen
  /\ Tally(IF Reordered(seq) THEN counters \cup {"reordered"} ELSE counters)
  /\ UNCHANGED <<playout, stream_ended>>

PushLate(n, arrival) ==
  LET fi == FrameIndex(SeqOf(n)) IN
  /\ AlreadyPlayed(fi) \/ TooFarAhead(fi)
  /\ Witness(n, arrival, {"received", "late_dropped"})
  /\ UNCHANGED slots

PushDuplicate(n, arrival) ==
  LET fi == FrameIndex(SeqOf(n)) IN
  /\ ~AlreadyPlayed(fi) /\ ~TooFarAhead(fi)
  /\ IsDuplicate(SeqOf(n))
  /\ Witness(n, arrival, {"received", "duplicate"})
  /\ UNCHANGED slots

PushStore(n, arrival) ==
  LET seq == SeqOf(n) IN
  /\ ~AlreadyPlayed(FrameIndex(seq)) /\ ~TooFarAhead(FrameIndex(seq))
  /\ ~IsDuplicate(seq)
  /\ Witness(n, arrival, {"received"})
  /\ slots' = [slots EXCEPT ![SlotOf(seq)] =
                 [seq |-> seq, frame |-> n, arrival |-> arrival]]

Push(n, arrival) ==
  PushLate(n, arrival) \/ PushDuplicate(n, arrival) \/ PushStore(n, arrival)
-----------------------------------------------------------------------------
(* try_pull_due_frame *)

\* Faults: done with the newest frame still to come, and a stream that never had a
\* packet never done.
NewestUnplayed == frames_played >= highest_frame_index_seen
OnlyOnceStarted == stream_ended /\ started /\ frames_played > highest_frame_index_seen

Drained == frames_played > highest_frame_index_seen
Finished == stream_ended /\ (started => Drained)

Deadline ==
  ClockAdd(first_arrival, frames_played * FrameSamples + target_depth)

\* Faults: playing on past the frontier, and waiting for deadlines for ever.
NoFrontier == TRUE
DueInRealTime(now) == now >= Deadline /\ frames_played <= highest_frame_index_seen

\* Nothing past the frontier before the stream has ended.
BeforeFrontier == frames_played <= highest_frame_index_seen

Due(now) == stream_ended \/ (BeforeFrontier /\ now >= Deadline)

CursorSeq == SeqAdd(base_sequence, frames_played)
CursorSlot == slots[SlotOf(CursorSeq)]
HasFrame == CursorSlot # NoPacket /\ CursorSlot.seq = CursorSeq

Decoded(packet) == [frame |-> packet.frame, fade |-> 0]
Latency(now, packet) == (now - packet.arrival) % ClockMod

PlayReal(now) ==
  /\ HasFrame
  /\ out' = Decoded(CursorSlot)
  /\ latencies' = IF CollectStats THEN latencies \cup {Latency(now, CursorSlot)}
                                  ELSE latencies
  /\ slots' = [slots EXCEPT ![SlotOf(CursorSeq)] = NoPacket]
  /\ consecutive_concealments' = 0
  /\ have_last_real_frame' = TRUE
  /\ last_real_frame' = CursorSlot.frame
  /\ UNCHANGED counts

\* Faults: no cap on the repeats, and no fade from one to the next.
UncappedFade == DisablePlcFade \/ ~have_last_real_frame
ConstantFade == 1

\* conceal(): silence when fading is off, has nothing to repeat or has run out.
FadeExhausted ==
  \/ DisablePlcFade \/ ~have_last_real_frame
  \/ consecutive_concealments >= MaxConcealments

NextFade == consecutive_concealments + 1

Conceal ==
  /\ ~HasFrame
  /\ Tally({"lost", "concealed"})
  /\ IF FadeExhausted
     THEN /\ out' = [frame |-> Silence, fade |-> 0]
          /\ UNCHANGED consecutive_concealments
     ELSE /\ consecutive_concealments' = NextFade
          /\ out' = [frame |-> last_real_frame, fade |-> NextFade]
  /\ UNCHANGED <<slots, latencies, have_last_real_frame, last_real_frame>>

TryPull(now) ==
  /\ started /\ ~Finished
  /\ Due(now)
  /\ PlayReal(now) \/ Conceal
  /\ frames_played' = frames_played + 1
  /\ UNCHANGED <<started, base_sequence, first_arrival, highest_sequence_seen,
                 highest_frame_index_seen, target_depth, origin, stream_ended>>

MarkStreamEnded ==
  /\ stream_ended' = TRUE
  /\ UNCHANGED <<window, playout, counts>>
-----------------------------------------------------------------------------
Next ==
  \/ \E n \in Indices, t \in Times : Push(n, t)
  \/ \E t \in Times : TryPull(t)
  \/ MarkStreamEnded

Spec == JitterInit /\ [][Next]_jbuf

\* The playout thread calls try_pull_due_frame on every tick, and no more once it has
\* found the stream finished: of a stream that has been that, nothing is assumed.
FairSpec == Spec /\ (<>Finished \/ WF_jbuf(\E t \in Times : TryPull(t)))
-----------------------------------------------------------------------------
(* Properties *)

TypeOK ==
  /\ slots \in [SlotNumbers -> Packets \cup {NoPacket}]
  /\ started \in BOOLEAN /\ base_sequence \in SeqNum /\ origin \in Indices
  /\ first_arrival \in 0 .. (ClockMod - 1) /\ target_depth \in TargetDepths
  /\ frames_played \in 0 .. Half
  /\ highest_sequence_seen \in SeqNum /\ highest_frame_index_seen \in -1 .. (Half - 1)
  /\ have_last_real_frame \in BOOLEAN /\ last_real_frame \in Indices \cup {Silence}
  /\ consecutive_concealments \in 0 .. MaxConcealments
  /\ stream_ended \in BOOLEAN
  /\ counts \in [Counters -> Nat]
  /\ latencies \subseteq 0 .. (ClockMod - 1)
  /\ out \in [frame : Indices \cup {Silence}, fade : 0 .. MaxConcealments]

\* A held packet has not been played, is less than Capacity ahead of the
\* cursor, and sits in its own slot: push never overwrites a packet that is
\* still to be played, and no slot keeps a packet the cursor has passed
\* (jitter_buffer.cpp:74-95 and 178-197 together, across the 65535 -> 0 wrap).
SlotsInWindow ==
  \A i \in Occupied :
    /\ SlotOf(slots[i].seq) = i
    /\ Position(slots[i].seq) \in frames_played .. (frames_played + Capacity - 1)

\* Every packet counted as received was dropped late, dropped as a duplicate,
\* played, or still waits in exactly one slot.
PacketsAccounted ==
  counts["received"] = counts["late_dropped"] + counts["duplicate"]
                    + Cardinality(Occupied) + (frames_played - counts["lost"])

\* Playout never runs ahead of what a packet has proven to exist, before or
\* after the end of the stream, however late it is.
NeverPastFrontier == frames_played <= highest_frame_index_seen + 1

\* The position playout starts from is always played from its packet, so a
\* concealment always has a real frame to repeat.
FirstFrameIsReal ==
  frames_played > 0 => have_last_real_frame /\ counts["lost"] < frames_played

\* Each concealment repeats the frame the loss interrupted, one step quieter
\* than the frame before it, or is silent; after silence it stays silent until
\* a packet is played.
ConcealmentFades ==
  [][counts["lost"]' > counts["lost"] =>
       \/ out'.frame = Silence
       \/ out'.frame = out.frame /\ out'.fade = out.fade + 1]_jbuf

\* Positions reach half the sequence space and no further: once playout is there
\* every packet is dropped and nothing is produced, and until then a packet of the
\* second half of a cycle of sequence numbers is never stored (jitter_buffer.cpp:53-74).
SilentBeyondHorizon ==
  [][/\ frames_played = Half => UNCHANGED <<frames_played, out, slots>>
     /\ \A i \in SlotNumbers :
          slots'[i] # slots[i] /\ slots'[i] # NoPacket =>
            (slots'[i].frame - origin') % SeqMod < Half]_jbuf

\* A stream that is marked ended comes to be finished, although no clock reaches the
\* deadlines of its last frames and packets may go on moving the frontier while it
\* drains.  What arrives after that is another matter: the playout thread has left.
DrainsWhenEnded == <>stream_ended => <>Finished

\* While the stream stays within half the sequence space the slots and the
\* wrapping arithmetic implement the window of indices in PlayoutWindow.
Abstract ==
  INSTANCE PlayoutWindow WITH
    Window <- Capacity, Gap <- Silence,
    heard <- started, cursor <- origin + frames_played,
    frontier <- origin + highest_frame_index_seen,
    held <- {slots[i].frame : i \in Occupied},
    ended <- stream_ended,
    rendered <- IF out.fade = 0 THEN out.frame ELSE Silence
ImplementsPlayoutWindow == Abstract!Spec
=============================================================================
