---------------------------- MODULE TrackedBuffer ---------------------------
(***************************************************************************)
(* The sequence tracker and the jitter buffer fed the same packets, for    *)
(* longer than half the sequence space: the one is meant to go on for      *)
(* ever, the other keeps positions from its first packet on.  Each keeps   *)
(* its own newest sequence number and counts packets behind it; the        *)
(* receiver prints the buffer's count, which the scripts call the          *)
(* tracker's.                                                              *)
(***************************************************************************)
EXTENDS SequenceTracker, JitterBuffer

TrackedInit == TrackerInit /\ JitterInit

PacketArrives(n, t) == OnPacket(n) /\ Push(n, t)

BufferPlays(t) == TryPull(t) /\ UNCHANGED vars

StreamEnds == MarkStreamEnded /\ UNCHANGED vars

TrackedNext ==
  \/ \E n \in Indices, t \in Times : PacketArrives(n, t)
  \/ \E t \in Times : BufferPlays(t)
  \/ StreamEnds

TrackedSpec == TrackedInit /\ [][TrackedNext]_<<vars, jbuf>>
-----------------------------------------------------------------------------
(* Properties, with FollowsNewest, GapsAreMissing and CountersCoverStream of the *)
(* tracker, and SilentBeyondHorizon of the buffer: in a stream that goes past    *)
(* half the sequence space playout stops for good.                               *)

\* The count of reordered packets in the receiver's log is the one the tracker would
\* have printed, even of packets the buffer throws away and after it has fallen silent
\* (jitter_buffer.cpp:62-66 against stats.cpp:23-30).
SameReordered == counts["reordered"] = reordered
=============================================================================
