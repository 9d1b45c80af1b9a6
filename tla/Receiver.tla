------------------------------ MODULE Receiver ------------------------------
(***************************************************************************)
(* The receiver program: three threads around one jitter buffer.  The      *)
(* receive thread pushes datagrams and, when the socket has been idle too  *)
(* long, marks the stream ended; the playout thread wakes on an absolute   *)
(* 20 ms grid and moves due frames into the ring; the main thread drains   *)
(* the ring into samples.  A mutex covers the jitter buffer: the playout   *)
(* thread holds it for as long as it is "pulling", the receive thread for  *)
(* one step.  The ring is the queue Handoff shows it to be and the flag is *)
(* read fresh; what stale reads add is checked there.                      *)
(*                                                                         *)
(* One unit of time is one frame.  The clock stops at MaxClock, which      *)
(* stands for every later time.  Any datagram may arrive at the socket at  *)
(* any time before TrafficEnd, in any order, again, or never, and waits    *)
(* there to be received; any thread may be late by any amount.             *)
(***************************************************************************)
EXTENDS JitterBuffer, Sequences

CONSTANTS
  RingCapacity,      \* kRingCapacity (1024)
  IdleTimeout,       \* --idle-timeout-ms
  TrafficEnd,        \* bound: nothing arrives from then on
  MaxClock           \* bound: see above

ASSUME ReceiverAssumption ==
  /\ RingCapacity \in Nat /\ RingCapacity >= 2
  /\ IdleTimeout \in Nat
  /\ TrafficEnd \in Nat /\ MaxClock \in Nat /\ TrafficEnd + IdleTimeout < MaxClock
  /\ Times = 0 .. MaxClock /\ FrameSamples = 1

VARIABLES
  clock,
  socket,                     \* datagrams that have arrived and wait to be received
  arrived,                    \* bound: how many have arrived
  receiver,                   \* receive thread: "receive", "received", "push",
                              \* "timed out", "end", "check", "exit"
  incoming, last_activity, malformed_dropped,
  player,                     \* playout thread: "asleep", "pulling", "finishing", "exit"
  deadline, playout_done, underruns,
  main,                       \* main thread: "pop", "flag", "final pop", "join", "exit"
  ring, samples               \* and "killed", all three

network == <<socket, arrived>>
receiveThread == <<receiver, incoming, last_activity, malformed_dropped>>
playoutThread == <<player, deadline, playout_done>>
pipe == <<ring, underruns>>
mainThread == <<main, samples>>
vars == <<jbuf, clock, network, receiveThread, playoutThread, pipe, mainThread>>

\* A datagram is the packet it parses to, or does not parse.
Malformed == -1
Datagrams == Indices \cup {Malformed}

Init ==
  /\ JitterInit
  /\ clock = 0 /\ socket = <<>> /\ arrived = 0
  /\ receiver = "receive" /\ incoming = [index |-> 0, stamp |-> 0]
  /\ last_activity = 0 /\ malformed_dropped = 0
  /\ player = "asleep" /\ deadline = 1 /\ playout_done = FALSE /\ underruns = 0
  /\ main = "pop" /\ ring = <<>> /\ samples = <<>>

Advance ==
  /\ clock < MaxClock /\ clock' = clock + 1
  /\ UNCHANGED <<jbuf, network, receiveThread, playoutThread, pipe, mainThread>>

Arrive(d) ==
  /\ clock < TrafficEnd /\ arrived < MaxReceived /\ receiver \notin {"exit", "killed"}
  /\ arrived' = arrived + 1 /\ socket' = Append(socket, d)
  /\ UNCHANGED <<jbuf, clock, receiveThread, playoutThread, pipe, mainThread>>
-----------------------------------------------------------------------------
(* The receive thread. *)

Unlocked == player # "pulling"

\* recvfrom returns the next datagram, or with nothing when none has come for 5 ms.
ReceiveDatagram ==
  /\ receiver = "receive" /\ receiver' = "received"
  /\ socket # <<>>
  /\ incoming' = [incoming EXCEPT !.index = Head(socket)] /\ socket' = Tail(socket)
  /\ UNCHANGED <<jbuf, clock, arrived, last_activity, malformed_dropped,
                 playoutThread, pipe, mainThread>>

ReceiveTimesOut ==
  /\ receiver = "receive" /\ receiver' = "timed out"
  /\ socket = <<>>
  /\ UNCHANGED <<jbuf, clock, network, incoming, last_activity, malformed_dropped,
                 playoutThread, pipe, mainThread>>

\* The clock is read after recvfrom has returned, when more may have arrived.
NoteActivity ==
  /\ receiver = "received" /\ last_activity' = clock
  /\ IF incoming.index = Malformed
     THEN /\ receiver' = "check"
          /\ malformed_dropped' = malformed_dropped + 1 /\ UNCHANGED incoming
     ELSE /\ receiver' = "push"
          /\ incoming' = [incoming EXCEPT !.stamp = clock] /\ UNCHANGED malformed_dropped
  /\ UNCHANGED <<jbuf, clock, network, playoutThread, pipe, mainThread>>

\* Two readings at MaxClock, which stands for every later time, are far apart.
IdleTooLong == clock - last_activity > IdleTimeout \/ clock = MaxClock

LookAtIdleTime ==
  /\ receiver = "timed out"
  /\ receiver' = IF IdleTooLong THEN "end" ELSE "check"
  /\ UNCHANGED <<jbuf, clock, network, incoming, last_activity, malformed_dropped,
                 playoutThread, pipe, mainThread>>

PushIncoming ==
  /\ receiver = "push" /\ receiver' = "check"
  /\ Unlocked
  /\ Push(incoming.index, incoming.stamp)
  /\ UNCHANGED <<clock, network, incoming, last_activity, malformed_dropped,
                 playoutThread, pipe, mainThread>>

EndStream ==
  /\ receiver = "end" /\ receiver' = "check"
  /\ Unlocked
  /\ MarkStreamEnded
  /\ UNCHANGED <<clock, network, incoming, last_activity, malformed_dropped,
                 playoutThread, pipe, mainThread>>

ReceiverLooksAtFlag ==
  /\ receiver = "check"
  /\ receiver' = IF playout_done THEN "exit" ELSE "receive"
  /\ UNCHANGED <<jbuf, clock, network, incoming, last_activity, malformed_dropped,
                 playoutThread, pipe, mainThread>>
\* Fault: the exception ends its own thread only.
DiesAlone == UNCHANGED <<player, main>>

Terminate == player' = "killed" /\ main' = "killed"

\* recvfrom fails with anything but the timeout: the exception leaves the thread's
\* function, and std::terminate ends the process wherever the others are.
SocketFails ==
  /\ receiver = "receive" /\ receiver' = "killed"
  /\ Terminate
  /\ UNCHANGED <<jbuf, clock, network, incoming, last_activity, malformed_dropped,
                 deadline, playout_done, pipe, samples>>
-----------------------------------------------------------------------------
(* The playout thread. *)

\* clock_nanosleep on the grid: it returns at the deadline or later, and the
\* deadline, not the time it returned, is the time the buffer is asked about.
Wake ==
  /\ player = "asleep" /\ player' = "pulling"
  /\ deadline <= clock
  /\ UNCHANGED <<jbuf, clock, network, deadline, playout_done, receiveThread, pipe, mainThread>>

\* Fault: the slot that tells full from empty filled too.
FullToCapacity == Len(ring) >= RingCapacity

\* ring.push: one slot of the ring always stays empty.
RingFull == Len(ring) >= RingCapacity - 1

\* Fault: a refused frame not counted.
RefuseSilently == UNCHANGED <<ring, underruns>>

Refuse == underruns' = underruns + 1 /\ UNCHANGED ring
Offer(frame) ==
  IF RingFull THEN Refuse ELSE ring' = Append(ring, frame) /\ UNCHANGED underruns

PullFrame ==
  /\ player = "pulling"
  /\ TryPull(deadline)
  /\ Offer(out')
  /\ player' = IF Finished' THEN "finishing" ELSE "pulling"
  /\ UNCHANGED <<clock, network, deadline, playout_done, receiveThread, mainThread>>

\* try_pull_due_frame returns false: unlock, and sleep until the next tick.
PullNothing ==
  /\ player = "pulling"
  /\ ~(started /\ ~Finished /\ Due(deadline))
  /\ IF Finished
     THEN player' = "finishing" /\ UNCHANGED deadline
     ELSE /\ player' = "asleep"
          /\ deadline' = IF deadline < MaxClock THEN deadline + 1 ELSE deadline
  /\ UNCHANGED <<jbuf, clock, network, playout_done, receiveThread, pipe, mainThread>>

SetPlayoutDone ==
  /\ player = "finishing" /\ player' = "exit"
  /\ playout_done' = TRUE
  /\ UNCHANGED <<jbuf, clock, network, deadline, receiveThread, pipe, mainThread>>
-----------------------------------------------------------------------------
(* The main thread. *)

\* Fault: the loop left on the flag alone.
NoFinalPop == "join"
FinalPop == "final pop"

MainPops ==
  /\ main \in {"pop", "final pop"} /\ ring # <<>>
  /\ samples' = Append(samples, Head(ring)) /\ ring' = Tail(ring)
  /\ main' = "pop"
  /\ UNCHANGED <<jbuf, clock, network, receiveThread, playoutThread, underruns>>

MainFindsEmpty ==
  /\ main \in {"pop", "final pop"} /\ ring = <<>>
  /\ main' = IF main = "pop" THEN "flag" ELSE "join"
  /\ UNCHANGED <<jbuf, clock, network, receiveThread, playoutThread, pipe, samples>>

MainLooksAtFlag ==
  /\ main = "flag"
  /\ main' = IF playout_done THEN FinalPop ELSE "pop"
  /\ UNCHANGED <<jbuf, clock, network, receiveThread, playoutThread, pipe, samples>>

\* Both joins, then wav::write(samples).
MainJoins ==
  /\ main = "join" /\ main' = "exit"
  /\ receiver = "exit" /\ player = "exit"
  /\ UNCHANGED <<jbuf, clock, network, receiveThread, playoutThread, pipe, samples>>
-----------------------------------------------------------------------------
ReceiveNext ==
  \/ ReceiveDatagram \/ NoteActivity \/ PushIncoming
  \/ ReceiveTimesOut \/ LookAtIdleTime \/ EndStream
  \/ ReceiverLooksAtFlag \/ SocketFails
PlayoutNext == Wake \/ PullFrame \/ PullNothing \/ SetPlayoutDone
MainNext == MainPops \/ MainFindsEmpty \/ MainLooksAtFlag \/ MainJoins

ReceiverNext ==
  \/ Advance \/ (\E d \in Datagrams : Arrive(d))
  \/ ReceiveNext \/ PlayoutNext \/ MainNext

ReceiverSpec == Init /\ [][ReceiverNext]_vars

\* Time passes and each thread is scheduled; the receive thread, which shares
\* the mutex with a thread that sleeps between ticks, gets it in the end.
FairReceiverSpec ==
  /\ ReceiverSpec
  /\ WF_vars(Advance)
  /\ WF_vars(ReceiveNext) /\ SF_vars(PushIncoming \/ EndStream)
  /\ WF_vars(PlayoutNext) /\ WF_vars(MainNext)
-----------------------------------------------------------------------------
(* Properties *)

ReceiverTypeOK ==
  /\ clock \in 0 .. MaxClock /\ last_activity \in 0 .. MaxClock
  /\ socket \in Seq(Datagrams) /\ arrived \in 0 .. MaxReceived
  /\ receiver \in {"receive", "received", "push", "timed out", "end", "check", "exit", "killed"}
  /\ incoming \in [index : Datagrams, stamp : 0 .. MaxClock]
  /\ receiver = "push" => incoming.index # Malformed
  /\ malformed_dropped \in Nat
  /\ player \in {"asleep", "pulling", "finishing", "exit", "killed"}
  /\ deadline \in 1 .. MaxClock /\ playout_done \in BOOLEAN
  /\ underruns \in Nat
  /\ main \in {"pop", "flag", "final pop", "join", "exit", "killed"}
  /\ Len(ring) < RingCapacity

Output == samples \o ring
IsReal(frame) == frame.fade = 0 /\ frame.frame # Silence

\* The file is the stream's timeline: as long as the ring has refused nothing,
\* a frame stands in it exactly where the sender put it, however packets, ticks
\* and the three threads interleave; after a refusal frames still never swap.
WavIsTimeline ==
  /\ underruns = 0 =>
       \A k \in 1 .. Len(Output) : IsReal(Output[k]) => Output[k].frame = origin + k - 1
  /\ \A j, k \in 1 .. Len(Output) :
       j < k /\ IsReal(Output[j]) /\ IsReal(Output[k]) => Output[j].frame < Output[k].frame

\* When the main thread has left its loop, every position playout went through
\* is in the file or counted as an underrun.
NothingLeftInRing ==
  main \in {"join", "exit"} => Len(samples) + underruns = frames_played

\* The playout thread gives up only with nothing left to play: the stream has
\* ended, no packet waits, and every position some packet named is in the output.
EndsDrained ==
  [][player # "finishing" /\ player' = "finishing" =>
       /\ stream_ended' /\ Occupied' = {}
       /\ frames_played' = highest_frame_index_seen' + 1
       /\ frames_played' = Len(Output') + underruns']_vars

\* Claimed at scripts/impair_jitterbuffer_test.sh:76-78 of the counters main prints:
\* each received packet was played, dropped late or a duplicate.
EveryPacketHasAFate ==
  main = "exit" =>
    counts["received"] = counts["late_dropped"] + counts["duplicate"]
                         + (frames_played - counts["lost"])

\* Claimed at jitter_buffer.hpp:96-98: a latency is how long the packet sat in the
\* buffer, so none exceeds the time the program has run.
LatencyIsTimeHeld == \A l \in latencies : l <= clock

\* Once traffic stops, all three threads finish and the file is written; or the socket
\* has failed, and none of the three is left running.
AllThreadsExit ==
  \/ <>(main = "exit" /\ receiver = "exit" /\ player = "exit")
  \/ <>(main = "killed" /\ receiver = "killed" /\ player = "killed")
=============================================================================
