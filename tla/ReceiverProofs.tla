---------------------------- MODULE ReceiverProofs ----------------------------
(***************************************************************************)
(* The receiver's three threads, for every ring, idle timeout, clock and   *)
(* stream: what reaches the file is the timeline, nothing stays in the     *)
(* ring, and playout gives up only with nothing left to play.  The         *)
(* inductive invariant is ReceiverInv, on top of the jitter buffer's own.  *)
(***************************************************************************)
EXTENDS Receiver, JitterBufferProofs, SequenceTheorems

Frames == [frame : Indices \cup {Silence}, fade : 0 .. MaxConcealments]

\* Each position playout went through is in one of three places.
EveryPosition ==
  /\ ring \in Seq(Frames) /\ samples \in Seq(Frames)
  /\ Len(samples) + Len(ring) + underruns = frames_played

\* The flag is set by a playout thread that is through, and the main thread's last
\* look at the ring comes after it.
Shutdown ==
  /\ playout_done => player \in {"exit", "killed"}
  /\ main = "final pop" => playout_done
  /\ main \in {"join", "exit"} => playout_done /\ ring = <<>>

\* No packet waits at a position the frontier has not reached.
HeldBelowFrontier ==
  \A i \in Occupied : Position(slots[i].seq) <= highest_frame_index_seen

ReceiverInv ==
  /\ JitterInv /\ HeldBelowFrontier
  /\ ReceiverTypeOK /\ EveryPosition /\ Shutdown

\* Each real frame in the output stands before the position the cursor is at.
Placed ==
  /\ WavIsTimeline
  /\ \A k \in 1 .. Len(Output) :
       IsReal(Output[k]) => Output[k].frame < origin + frames_played
-----------------------------------------------------------------------------
(* Every step is a step of the jitter buffer, or leaves it alone. *)

LEMMA InputTypes ==
  ASSUME ReceiverTypeOK
  PROVE  /\ incoming.stamp \in Times /\ deadline \in Times
         /\ receiver = "push" => incoming.index \in Indices
<1>1. Times = 0 .. MaxClock /\ MaxClock \in Nat  BY ReceiverAssumption
<1>2. incoming \in [index : Datagrams, stamp : 0 .. MaxClock] /\ deadline \in 1 .. MaxClock
      /\ (receiver = "push" => incoming.index # Malformed)
  BY DEF ReceiverTypeOK
<1>3. incoming.index \in Datagrams /\ incoming.stamp \in 0 .. MaxClock
  BY <1>2
<1>4. deadline \in 0 .. MaxClock  BY <1>1, <1>2
<1> QED BY <1>1, <1>2, <1>3, <1>4 DEF Datagrams

LEMMA BufferStep ==
  ASSUME ReceiverTypeOK, [ReceiverNext]_vars
  PROVE  [Next]_jbuf
<1>1. /\ incoming.stamp \in Times /\ deadline \in Times
      /\ receiver = "push" => incoming.index \in Indices
  BY InputTypes
<1>2. ASSUME PushIncoming PROVE Next
  BY <1>1, <1>2 DEF PushIncoming, Next
<1>3. ASSUME PullFrame PROVE Next
  BY <1>1, <1>3 DEF PullFrame, Next
<1>4. ASSUME EndStream PROVE Next
  BY <1>4 DEF EndStream, Next
<1>5. ASSUME \/ Advance \/ (\E d \in Datagrams : Arrive(d)) \/ ReceiveDatagram
             \/ NoteActivity \/ ReceiveTimesOut \/ LookAtIdleTime
             \/ ReceiverLooksAtFlag \/ SocketFails
             \/ Wake \/ PullNothing \/ SetPlayoutDone \/ MainNext \/ UNCHANGED vars
      PROVE  UNCHANGED jbuf
  BY <1>5 DEF Advance, Arrive, ReceiveDatagram, NoteActivity, ReceiveTimesOut,
              LookAtIdleTime, ReceiverLooksAtFlag, SocketFails, Wake, PullNothing, SetPlayoutDone, MainNext, MainPops,
              MainFindsEmpty, MainLooksAtFlag, MainJoins, vars
<1> QED BY <1>2, <1>3, <1>4, <1>5 DEF ReceiverNext, ReceiveNext, PlayoutNext

\* Which steps change the slots and the cursor, and how.
LEMMA CursorMoves ==
  ASSUME ReceiverInv, [ReceiverNext]_vars
  PROVE  \/ PullFrame /\ TryPull(deadline) /\ deadline \in Times
         \/ /\ PushIncoming /\ Push(incoming.index, incoming.stamp)
            /\ incoming.index \in Indices /\ incoming.stamp \in Times
         \/ EndStream \/ UNCHANGED jbuf
<1>1. /\ incoming.stamp \in Times /\ deadline \in Times
      /\ receiver = "push" => incoming.index \in Indices
  BY InputTypes DEF ReceiverInv
<1>2. ASSUME \/ Advance \/ (\E d \in Datagrams : Arrive(d)) \/ ReceiveDatagram
             \/ NoteActivity \/ ReceiveTimesOut \/ LookAtIdleTime
             \/ ReceiverLooksAtFlag \/ SocketFails
             \/ Wake \/ PullNothing \/ SetPlayoutDone \/ MainNext \/ UNCHANGED vars
      PROVE  UNCHANGED jbuf
  BY <1>2 DEF Advance, Arrive, ReceiveDatagram, NoteActivity, ReceiveTimesOut,
              LookAtIdleTime, ReceiverLooksAtFlag, SocketFails, Wake, PullNothing, SetPlayoutDone, MainNext, MainPops,
              MainFindsEmpty, MainLooksAtFlag, MainJoins, vars
<1> QED BY <1>1, <1>2 DEF ReceiverNext, ReceiveNext, PlayoutNext, PushIncoming, PullFrame

LEMMA FramesPlayedKept ==
  ASSUME ReceiverInv, [ReceiverNext]_vars, ~PullFrame
  PROVE  frames_played' = frames_played
<1>1. CASE PushIncoming
  BY <1>1, CursorMoves, PushEffect DEF ReceiverInv, EndStream, MarkStreamEnded, playout, jbuf
<1> QED BY <1>1, CursorMoves DEF EndStream, MarkStreamEnded, playout, jbuf
-----------------------------------------------------------------------------
(* The threads' own variables. *)

LEMMA ArriveKeepsTypes ==
  ASSUME ReceiverInv, NEW d \in Datagrams, Arrive(d)
  PROVE  ReceiverTypeOK' /\ UNCHANGED <<ring, samples, underruns>>
<1>1. ReceiverTypeOK  BY DEF ReceiverInv
<1>2. socket' \in Seq(Datagrams)
  <2>1. socket \in Seq(Datagrams)  BY <1>1 DEF ReceiverTypeOK
  <2> QED BY <2>1, AppendProperties DEF Arrive
<1>3. arrived' \in 0 .. MaxReceived
  <2>1. arrived \in 0 .. MaxReceived  BY <1>1 DEF ReceiverTypeOK
  <2> QED BY <2>1, StreamAssumption DEF Arrive
<1> QED BY <1>1, <1>2, <1>3 DEF Arrive, ReceiverTypeOK, receiveThread, playoutThread, pipe,
                                mainThread

LEMMA ReceiveKeepsTypes ==
  ASSUME ReceiverInv, ReceiveNext
  PROVE  ReceiverTypeOK' /\ UNCHANGED <<ring, samples, underruns>>
<1>1. MaxClock \in Nat  BY ReceiverAssumption
<1>2. ReceiverTypeOK  BY DEF ReceiverInv
<1>3. ASSUME ReceiveDatagram
      PROVE  ReceiverTypeOK' /\ UNCHANGED <<ring, samples, underruns>>
  <2>1. /\ socket \in Seq(Datagrams) /\ socket # <<>>
        /\ incoming \in [index : Datagrams, stamp : 0 .. MaxClock]
    BY <1>2, <1>3 DEF ReceiverTypeOK, ReceiveDatagram
  <2>2. Head(socket) \in Datagrams /\ Tail(socket) \in Seq(Datagrams)
    BY <2>1, HeadTailProperties
  <2>3. socket' = Tail(socket) /\ incoming' = [incoming EXCEPT !.index = Head(socket)]
        /\ receiver' = "received"
    BY <1>3 DEF ReceiveDatagram
  <2>4. incoming' \in [index : Datagrams, stamp : 0 .. MaxClock]  BY <2>1, <2>2, <2>3
  <2>5. socket' \in Seq(Datagrams)  BY <2>2, <2>3
  <2> QED BY <1>2, <1>3, <2>3, <2>4, <2>5
          DEF ReceiveDatagram, ReceiverTypeOK, playoutThread, pipe, mainThread
<1>4. ASSUME NoteActivity
      PROVE  ReceiverTypeOK' /\ UNCHANGED <<ring, samples, underruns>>
  <2>1. /\ malformed_dropped \in Nat /\ clock \in 0 .. MaxClock
        /\ incoming \in [index : Datagrams, stamp : 0 .. MaxClock]
    BY <1>2 DEF ReceiverTypeOK
  <2>2. malformed_dropped' \in Nat /\ last_activity' \in 0 .. MaxClock
    BY <2>1, <1>4 DEF NoteActivity
  <2>3. incoming' \in [index : Datagrams, stamp : 0 .. MaxClock]
        /\ incoming'.index = incoming.index
    BY <2>1, <1>4 DEF NoteActivity
  <2>4. /\ receiver' \in {"push", "check"}
        /\ receiver' = "push" => incoming.index # Malformed
    BY <1>4 DEF NoteActivity
  <2> QED BY <1>2, <1>4, <2>2, <2>3, <2>4
          DEF NoteActivity, ReceiverTypeOK, network, playoutThread, pipe, mainThread
<1>5. ASSUME \/ PushIncoming \/ ReceiveTimesOut \/ LookAtIdleTime \/ EndStream
             \/ ReceiverLooksAtFlag
      PROVE  ReceiverTypeOK' /\ UNCHANGED <<ring, samples, underruns>>
  BY <1>2, <1>5 DEF PushIncoming, ReceiveTimesOut, LookAtIdleTime, EndStream,
                    ReceiverLooksAtFlag, ReceiverTypeOK, network, playoutThread, pipe,
                    mainThread
<1>6. ASSUME SocketFails
      PROVE  ReceiverTypeOK' /\ UNCHANGED <<ring, samples, underruns>>
  BY <1>2, <1>6 DEF SocketFails, Terminate, ReceiverTypeOK, network, pipe
<1> QED BY <1>3, <1>4, <1>5, <1>6 DEF ReceiveNext

\* The ring and the count of refused frames after a frame has been offered.
LEMMA FrameOffered ==
  ASSUME ReceiverInv, PullFrame
  PROVE  /\ out' \in Frames /\ samples' = samples
         /\ frames_played' = frames_played + 1
         /\ \/ ring' = Append(ring, out') /\ underruns' = underruns
            \/ ring' = ring /\ underruns' = underruns + 1
         /\ Len(ring') < RingCapacity /\ ring' \in Seq(Frames)
         /\ Len(ring') + underruns' = Len(ring) + underruns + 1
<1>1. TryPull(deadline) /\ deadline \in Times
  BY InputTypes DEF PullFrame, ReceiverInv
<1>2. JitterInv'  BY <1>1, PullKeepsInv DEF ReceiverInv
<1>3. out' \in Frames  BY <1>2 DEF JitterInv, TypeOK, Frames
<1>4. samples' = samples  BY DEF PullFrame, mainThread
<1>5. frames_played' = frames_played + 1  BY <1>1, PullEffect DEF ReceiverInv
<1>6. ring \in Seq(Frames) /\ Len(ring) \in Nat /\ underruns \in Nat /\ RingCapacity \in Nat
  BY ReceiverAssumption, LenProperties DEF ReceiverInv, EveryPosition, ReceiverTypeOK
<1>7. CASE RingFull
  <2>1. ring' = ring /\ underruns' = underruns + 1
    BY <1>7 DEF PullFrame, Offer, Refuse
  <2>2. Len(ring) < RingCapacity  BY DEF ReceiverInv, ReceiverTypeOK
  <2> QED BY <1>3, <1>4, <1>5, <1>6, <2>1, <2>2
<1>8. CASE ~RingFull
  <2>1. ring' = Append(ring, out') /\ underruns' = underruns
    BY <1>8 DEF PullFrame, Offer
  <2>2. ring' \in Seq(Frames) /\ Len(ring') = Len(ring) + 1
    BY <1>3, <1>6, <2>1, AppendProperties
  <2>3. Len(ring) < RingCapacity - 1  BY <1>6, <1>8 DEF RingFull
  <2> QED BY <1>3, <1>4, <1>5, <1>6, <2>1, <2>2, <2>3
<1> QED BY <1>7, <1>8

LEMMA PlayoutKeepsTypes == ASSUME ReceiverInv, PlayoutNext PROVE ReceiverTypeOK'
<1>1. MaxClock \in Nat  BY ReceiverAssumption
<1>2. ReceiverTypeOK  BY DEF ReceiverInv
<1>3. ASSUME PullFrame PROVE ReceiverTypeOK'
  <2>1. underruns' \in Nat /\ Len(ring') < RingCapacity
    <3>1. underruns \in Nat  BY <1>2 DEF ReceiverTypeOK
    <3> QED BY <1>3, <3>1, FrameOffered
  <2>2. UNCHANGED <<clock, network, deadline, playout_done, receiveThread, mainThread>>
        /\ player' \in {"finishing", "pulling"}
    BY <1>3 DEF PullFrame
  <2> QED BY <1>2, <2>1, <2>2 DEF ReceiverTypeOK, network, receiveThread, mainThread
<1>4. ASSUME Wake \/ SetPlayoutDone PROVE ReceiverTypeOK'
  BY <1>2, <1>4 DEF Wake, SetPlayoutDone, ReceiverTypeOK, network, receiveThread,
                    pipe, mainThread
<1>5. ASSUME PullNothing PROVE ReceiverTypeOK'
  <2>1. UNCHANGED <<clock, network, playout_done, receiveThread, pipe, mainThread>>
        /\ player' \in {"finishing", "asleep"}
        /\ deadline' \in {deadline, IF deadline < MaxClock THEN deadline + 1 ELSE deadline}
    BY <1>5 DEF PullNothing
  <2>2. deadline \in 1 .. MaxClock  BY <1>2 DEF ReceiverTypeOK
  <2>3. deadline' \in 1 .. MaxClock  BY <1>1, <2>1, <2>2
  <2> QED BY <1>2, <2>1, <2>3 DEF ReceiverTypeOK, network, receiveThread, pipe, mainThread
<1> QED BY <1>3, <1>4, <1>5 DEF PlayoutNext

\* What main takes out of the ring it puts at the end of samples.
LEMMA FramePopped ==
  ASSUME ReceiverInv, MainPops
  PROVE  /\ ring \in Seq(Frames) /\ ring # <<>> /\ samples \in Seq(Frames)
         /\ ring' = Tail(ring) /\ samples' = Append(samples, Head(ring))
         /\ ring' \in Seq(Frames) /\ samples' \in Seq(Frames)
         /\ Len(ring') = Len(ring) - 1 /\ Len(samples') = Len(samples) + 1
         /\ Len(ring) \in Nat /\ Len(samples) \in Nat /\ Head(ring) \in Frames
         /\ UNCHANGED <<jbuf, underruns>>
<1>1. ring \in Seq(Frames) /\ samples \in Seq(Frames) /\ ring # <<>>
  BY DEF ReceiverInv, EveryPosition, MainPops
<1>2. /\ Head(ring) \in Frames /\ Tail(ring) \in Seq(Frames)
      /\ Len(Tail(ring)) = Len(ring) - 1
  BY <1>1, HeadTailProperties
<1>3. /\ Append(samples, Head(ring)) \in Seq(Frames)
      /\ Len(Append(samples, Head(ring))) = Len(samples) + 1
  BY <1>1, <1>2, AppendProperties
<1>4. Len(ring) \in Nat /\ Len(samples) \in Nat  BY <1>1, LenProperties
<1> QED BY <1>1, <1>2, <1>3, <1>4 DEF MainPops

LEMMA MainKeepsTypes == ASSUME ReceiverInv, MainNext PROVE ReceiverTypeOK'
<1>1. ReceiverTypeOK  BY DEF ReceiverInv
<1>2. ASSUME MainPops PROVE ReceiverTypeOK'
  <2>1. Len(ring') < RingCapacity
    <3>1. Len(ring) \in Nat /\ Len(ring') = Len(ring) - 1 /\ RingCapacity \in Nat
      BY <1>2, FramePopped, ReceiverAssumption
    <3>2. Len(ring) < RingCapacity  BY <1>1 DEF ReceiverTypeOK
    <3> QED BY <3>1, <3>2
  <2>2. main' = "pop" /\ UNCHANGED <<clock, network, receiveThread, playoutThread, underruns>>
    BY <1>2 DEF MainPops
  <2> QED BY <1>1, <2>1, <2>2 DEF ReceiverTypeOK, network, receiveThread, playoutThread
<1>3. ASSUME MainFindsEmpty \/ MainLooksAtFlag \/ MainJoins PROVE ReceiverTypeOK'
  BY <1>1, <1>3 DEF MainFindsEmpty, MainLooksAtFlag, MainJoins, FinalPop, ReceiverTypeOK,
                    network, receiveThread, playoutThread, pipe
<1> QED BY <1>2, <1>3 DEF MainNext

LEMMA TypesKept == ASSUME ReceiverInv, [ReceiverNext]_vars PROVE ReceiverTypeOK'
<1>1. ASSUME Advance PROVE ReceiverTypeOK'
  <2>1. clock \in 0 .. MaxClock  BY DEF ReceiverInv, ReceiverTypeOK
  <2>2. clock' \in 0 .. MaxClock  BY <1>1, <2>1, ReceiverAssumption DEF Advance
  <2> QED BY <1>1, <2>2 DEF Advance, ReceiverInv, ReceiverTypeOK, network,
                            receiveThread, playoutThread, pipe, mainThread
<1>2. ASSUME UNCHANGED vars PROVE ReceiverTypeOK'
  BY <1>2 DEF vars, ReceiverInv, ReceiverTypeOK, network, receiveThread, playoutThread,
              pipe, mainThread
<1> QED BY <1>1, <1>2, ArriveKeepsTypes, ReceiveKeepsTypes, PlayoutKeepsTypes, MainKeepsTypes
        DEF ReceiverNext
-----------------------------------------------------------------------------
(* The inductive invariant. *)

LEMMA PositionsKept == ASSUME ReceiverInv, [ReceiverNext]_vars PROVE EveryPosition'
<1>1. /\ ring \in Seq(Frames) /\ samples \in Seq(Frames)
      /\ Len(samples) + Len(ring) + underruns = frames_played
      /\ Len(ring) \in Nat /\ Len(samples) \in Nat /\ underruns \in Nat
  BY LenProperties DEF ReceiverInv, EveryPosition, ReceiverTypeOK
<1>2. CASE PullFrame
  <2>1. samples' \in Seq(Frames) /\ Len(samples') = Len(samples)
    BY <1>1, <1>2, FrameOffered
  <2>2. /\ Len(ring') + underruns' = Len(ring) + underruns + 1
        /\ ring' \in Seq(Frames) /\ Len(ring') \in Nat /\ underruns' \in Nat
    BY <1>1, <1>2, FrameOffered, LenProperties
  <2>3. frames_played' = frames_played + 1  BY <1>2, FrameOffered
  <2>4. Len(samples') + Len(ring') + underruns' = frames_played'
    <3>1. Len(samples) + Len(ring) + underruns = frames_played
          /\ Len(samples) \in Nat /\ Len(ring) \in Nat /\ underruns \in Nat
      BY <1>1
    <3>2. Len(samples') = Len(samples) /\ Len(ring') \in Nat /\ underruns' \in Nat
          /\ Len(ring') + underruns' = Len(ring) + underruns + 1
      BY <2>1, <2>2
    <3> QED BY <2>3, <3>1, <3>2
  <2> QED BY <2>1, <2>2, <2>4 DEF EveryPosition
<1>3. CASE MainPops
  <2>1. frames_played' = frames_played  BY <1>3, FramePopped DEF jbuf, playout
  <2>2. /\ ring' \in Seq(Frames) /\ samples' \in Seq(Frames)
        /\ Len(ring') = Len(ring) - 1 /\ Len(samples') = Len(samples) + 1
        /\ underruns' = underruns
    BY <1>3, FramePopped
  <2>3. Len(samples) + Len(ring) + underruns = frames_played
        /\ Len(samples) \in Nat /\ Len(ring) \in Nat /\ underruns \in Nat
    BY <1>1
  <2>4. Len(samples') + Len(ring') + underruns' = frames_played'
    <3>1. Len(ring') = Len(ring) - 1 /\ Len(samples') = Len(samples) + 1
          /\ underruns' = underruns
      BY <2>2
    <3> QED BY <2>1, <2>3, <3>1
  <2> QED BY <2>2, <2>4 DEF EveryPosition
<1>4. CASE ~PullFrame /\ ~MainPops
  <2>1. UNCHANGED <<ring, samples, underruns>>
    <3>1. CASE ReceiveNext \/ \E d \in Datagrams : Arrive(d)
      BY <3>1, ReceiveKeepsTypes, ArriveKeepsTypes
    <3>2. CASE \/ Advance \/ Wake \/ PullNothing \/ SetPlayoutDone \/ MainFindsEmpty
               \/ MainLooksAtFlag \/ MainJoins \/ UNCHANGED vars
      BY <3>2 DEF Advance, Wake, PullNothing, SetPlayoutDone, MainFindsEmpty,
                  MainLooksAtFlag, MainJoins, vars, pipe, mainThread
    <3> QED BY <1>4, <3>1, <3>2 DEF ReceiverNext, PlayoutNext, MainNext
  <2>2. frames_played' = frames_played  BY <1>4, FramesPlayedKept
  <2> QED BY <1>1, <2>1, <2>2 DEF EveryPosition
<1> QED BY <1>2, <1>3, <1>4

LEMMA ShutdownKept == ASSUME ReceiverInv, [ReceiverNext]_vars PROVE Shutdown'
<1>1. Shutdown /\ playout_done \in BOOLEAN  BY DEF ReceiverInv, ReceiverTypeOK
<1>2. ASSUME ReceiveNext, ~SocketFails PROVE Shutdown'
  <2>1. UNCHANGED <<playoutThread, pipe, mainThread>>
    BY <1>2 DEF ReceiveNext, ReceiveDatagram, NoteActivity, PushIncoming,
                ReceiveTimesOut, LookAtIdleTime, EndStream, ReceiverLooksAtFlag
  <2> QED BY <1>1, <2>1 DEF Shutdown, playoutThread, pipe, mainThread
<1>3. ASSUME SocketFails PROVE Shutdown'
  BY <1>1, <1>3 DEF SocketFails, Terminate, Shutdown, pipe
<1>4. ASSUME PullFrame PROVE Shutdown'
  <2>1. player = "pulling" /\ UNCHANGED <<playout_done, main>>
    BY <1>4 DEF PullFrame, mainThread
  <2> QED BY <1>1, <2>1 DEF Shutdown
<1>5. ASSUME Wake \/ PullNothing \/ SetPlayoutDone PROVE Shutdown'
  <2>1. UNCHANGED <<ring, main>>
    BY <1>5 DEF Wake, PullNothing, SetPlayoutDone, pipe, mainThread
  <2>2. \/ player \in {"asleep", "pulling"} /\ playout_done' = playout_done
        \/ playout_done' = TRUE /\ player' = "exit"
    BY <1>5 DEF Wake, PullNothing, SetPlayoutDone
  <2>3. ~playout_done => main \notin {"final pop", "join", "exit"}
    BY <1>1 DEF Shutdown
  <2>4. CASE player \in {"asleep", "pulling"} /\ playout_done' = playout_done
    <3>1. ~playout_done  BY <1>1, <2>4 DEF Shutdown
    <3> QED BY <2>1, <2>3, <2>4, <3>1 DEF Shutdown
  <2>5. CASE playout_done' = TRUE /\ player' = "exit"
    BY <1>1, <2>1, <2>5 DEF Shutdown
  <2> QED BY <2>2, <2>4, <2>5
<1>6. ASSUME MainNext PROVE Shutdown'
  <2>1. UNCHANGED <<player, playout_done>>
    BY <1>6 DEF MainNext, MainPops, MainFindsEmpty, MainLooksAtFlag, MainJoins,
                playoutThread
  <2>2. \/ main' = "pop" \/ main' = "flag"
        \/ main = "final pop" /\ main' = "join" /\ ring = <<>> /\ ring' = ring
        \/ main' = "final pop" /\ playout_done
        \/ main = "join" /\ main' = "exit" /\ ring' = ring
    BY <1>6 DEF MainNext, MainPops, MainFindsEmpty, MainLooksAtFlag, MainJoins, FinalPop,
                pipe
  <2>3. playout_done => player \in {"exit", "killed"}  BY <1>1 DEF Shutdown
  <2>4. main \in {"final pop", "join", "exit"} => playout_done  BY <1>1 DEF Shutdown
  <2>5. main \in {"join", "exit"} => ring = <<>>  BY <1>1 DEF Shutdown
  <2>6. main' = "final pop" => playout_done'  BY <2>1, <2>2
  <2>7. main' \in {"join", "exit"} => playout_done' /\ ring' = <<>>
    BY <2>1, <2>2, <2>4, <2>5
  <2> QED BY <2>1, <2>3, <2>6, <2>7 DEF Shutdown
<1>7. ASSUME Advance \/ (\E d \in Datagrams : Arrive(d)) \/ UNCHANGED vars PROVE Shutdown'
  <2>1. UNCHANGED <<player, playout_done, main, ring>>
    BY <1>7 DEF Advance, Arrive, vars, playoutThread, pipe, mainThread
  <2> QED BY <1>1, <2>1 DEF Shutdown
<1> QED BY <1>2, <1>3, <1>4, <1>5, <1>6, <1>7 DEF ReceiverNext, PlayoutNext

LEMMA HeldBelowKept == ASSUME ReceiverInv, [ReceiverNext]_vars PROVE HeldBelowFrontier'
<1>1. JitterInv /\ HeldBelowFrontier  BY DEF ReceiverInv
<1>2. ASSUME NEW n \in Indices, NEW t \in Times, Push(n, t) PROVE HeldBelowFrontier'
  <2> SUFFICES ASSUME NEW i \in Occupied'
               PROVE  SeqDelta(slots'[i].seq, base_sequence') <= highest_frame_index_seen'
    BY DEF HeldBelowFrontier, Position
  <2>1. i \in SlotNumbers /\ slots'[i] # NoPacket  BY DEF Occupied
  <2>2. base_sequence' = BaseFor(SeqOf(n))  BY <1>1, <1>2, PushEffect
  <2>3. CASE slots'[i] = [seq |-> SeqOf(n), frame |-> n, arrival |-> t]
    <3>1. slots'[i].seq = SeqOf(n)  BY <2>3
    <3>2. FrameIndex(SeqOf(n)) \in Int /\ highest_frame_index_seen \in Int
      BY <1>1, FrameIndexType, HalfProperties DEF JitterInv, TypeOK
    <3>3. highest_frame_index_seen' =
            IF FrameIndex(SeqOf(n)) > highest_frame_index_seen
            THEN FrameIndex(SeqOf(n)) ELSE highest_frame_index_seen
      BY <1>2 DEF Push, PushLate, PushDuplicate, PushStore, Witness
    <3>4. FrameIndex(SeqOf(n)) <= highest_frame_index_seen'  BY <3>2, <3>3
    <3> QED BY <2>2, <3>1, <3>4 DEF FrameIndex
  <2>4. CASE slots'[i] = slots[i]
    <3>1. i \in Occupied  BY <2>1, <2>4 DEF Occupied
    <3>2. started  BY <1>1, <2>1, <2>4 DEF JitterInv, Fresh
    <3>3. base_sequence' = base_sequence  BY <2>2, <3>2 DEF BaseFor
    <3> DEFINE p == SeqDelta(slots[i].seq, base_sequence)
    <3>4. p <= highest_frame_index_seen  BY <1>1, <3>1 DEF HeldBelowFrontier, Position
    <3>5. slots[i] \in Packets  BY <1>1, <2>1, <3>1 DEF JitterInv, TypeOK, Occupied
    <3>6. slots[i].seq \in Int /\ base_sequence \in Int
      BY <1>1, <3>5 DEF JitterInv, TypeOK, Packets, SeqNum
    <3>7. p \in Int
      <4> DEFINE s == slots[i].seq
      <4>1. s \in Int /\ base_sequence \in Int  BY <3>6
      <4> HIDE DEF s
      <4>2. SeqDelta(s, base_sequence) \in (0 - Half) .. (Half - 1)
        BY <4>1, SeqDeltaType
      <4> QED BY <4>2, HalfProperties DEF s
    <3>8. /\ highest_frame_index_seen' >= highest_frame_index_seen
          /\ highest_frame_index_seen \in Int /\ highest_frame_index_seen' \in Int
      BY <1>1, <1>2, PushEffect, PushKeepsInv, HalfProperties DEF JitterInv, TypeOK
    <3>9. p <= highest_frame_index_seen'
      <4> HIDE DEF p
      <4> QED BY <3>4, <3>7, <3>8
    <3> QED BY <2>4, <3>3, <3>9
  <2> QED BY <1>1, <1>2, <2>1, <2>3, <2>4, PushSlots, StoredPacket
<1>3. ASSUME NEW t \in Times, TryPull(t) PROVE HeldBelowFrontier'
  <2> SUFFICES ASSUME NEW i \in Occupied'
               PROVE  SeqDelta(slots'[i].seq, base_sequence') <= highest_frame_index_seen'
    BY DEF HeldBelowFrontier, Position
  <2>1. i \in SlotNumbers /\ slots'[i] # NoPacket  BY DEF Occupied
  <2>2. slots'[i] = slots[i] /\ i \in Occupied
    BY <1>1, <1>3, <2>1, PullSlots DEF Occupied
  <2> QED BY <1>1, <1>3, <2>2, PullEffect DEF HeldBelowFrontier, Position
<1>4. ASSUME EndStream \/ UNCHANGED jbuf PROVE HeldBelowFrontier'
  BY <1>1, <1>4 DEF EndStream, MarkStreamEnded, jbuf, window, HeldBelowFrontier, Occupied,
                    Position
<1> QED BY <1>2, <1>3, <1>4, CursorMoves

LEMMA ReceiverInvInit == Init => ReceiverInv
<1> SUFFICES ASSUME Init PROVE ReceiverInv
  OBVIOUS
<1>1. JitterInv /\ JitterInit  BY InvInit DEF Init
<1>2. ReceiverTypeOK
  <2>1. 0 \in 0 .. MaxClock /\ 1 \in 1 .. MaxClock /\ 0 \in 0 .. MaxReceived
        /\ 0 < RingCapacity /\ 0 \in Indices
    BY ReceiverAssumption, StreamAssumption DEF Indices
  <2>2. Len(<<>>) = 0 /\ <<>> \in Seq(Datagrams)  OBVIOUS
  <2> QED BY <2>1, <2>2 DEF Init, ReceiverTypeOK, Datagrams
<1>3. EveryPosition  BY <1>1 DEF Init, JitterInit, EveryPosition
<1>4. Shutdown  BY DEF Init, Shutdown
<1>5. HeldBelowFrontier  BY <1>1 DEF JitterInit, HeldBelowFrontier, Occupied
<1> QED BY <1>1, <1>2, <1>3, <1>4, <1>5 DEF ReceiverInv

LEMMA ReceiverInvStep == ReceiverInv /\ [ReceiverNext]_vars => ReceiverInv'
<1> SUFFICES ASSUME ReceiverInv, [ReceiverNext]_vars PROVE ReceiverInv'
  OBVIOUS
<1>1. JitterInv'  BY BufferStep, InvStep DEF ReceiverInv
<1> QED BY <1>1, TypesKept, PositionsKept, ShutdownKept, HeldBelowKept DEF ReceiverInv

LEMMA ReceiverInvariance == ReceiverSpec => []ReceiverInv
  BY ReceiverInvInit, ReceiverInvStep, PTL DEF ReceiverSpec

\* The three threads' variables stay what the code declares them to be, and the ring
\* never fills the slot that tells full from empty.
THEOREM ReceiverTypeCorrect == ReceiverSpec => []ReceiverTypeOK
<1>1. ReceiverInv => ReceiverTypeOK  BY DEF ReceiverInv
<1> QED BY <1>1, ReceiverInvariance, PTL

\* When main leaves its loop (receiver.cpp:206-221) nothing playout produced is still
\* in the ring: it is in the file or counted as an underrun.
THEOREM NothingLeftCorrect == ReceiverSpec => []NothingLeftInRing
<1>1. ReceiverInv => NothingLeftInRing
  <2> SUFFICES ASSUME ReceiverInv, main \in {"join", "exit"}
               PROVE  Len(samples) + underruns = frames_played
    BY DEF NothingLeftInRing
  <2>1. ring = <<>> /\ Len(samples) \in Nat /\ underruns \in Nat
    BY LenProperties DEF ReceiverInv, Shutdown, EveryPosition, ReceiverTypeOK
  <2>2. Len(samples) + Len(ring) + underruns = frames_played
    BY DEF ReceiverInv, EveryPosition
  <2>3. Len(ring) = 0  BY <2>1
  <2> QED BY <2>1, <2>2, <2>3
<1> QED BY <1>1, ReceiverInvariance, PTL
-----------------------------------------------------------------------------
(* The end of the stream. *)

OutputIs ==
  /\ Output \in Seq(Frames) /\ Len(Output) = Len(samples) + Len(ring)
  /\ \A k \in 1 .. Len(samples) + Len(ring) :
       Output[k] = IF k <= Len(samples) THEN samples[k] ELSE ring[k - Len(samples)]

LEMMA OutputType == EveryPosition => OutputIs
  BY ConcatProperties DEF EveryPosition, Output, OutputIs

\* Finished is read under the mutex: what it says of the buffer is true.
AllPlayed ==
  /\ stream_ended /\ Occupied = {}
  /\ frames_played = highest_frame_index_seen + 1
  /\ frames_played = Len(Output) + underruns

LEMMA FinishedMeansDrained == ReceiverInv /\ Finished => AllPlayed
<1> SUFFICES ASSUME ReceiverInv, Finished PROVE AllPlayed
  OBVIOUS
<1>1. frames_played \in Int /\ highest_frame_index_seen \in Int
  BY HalfProperties DEF ReceiverInv, JitterInv, TypeOK
<1>2. frames_played <= highest_frame_index_seen + 1
  BY DEF ReceiverInv, JitterInv, NeverPastFrontier
<1>3. stream_ended /\ (started => frames_played > highest_frame_index_seen)
  BY DEF Finished, Drained
<1>4. ~started => frames_played = 0 /\ highest_frame_index_seen = -1
  BY DEF ReceiverInv, JitterInv, Fresh
<1>5. frames_played = highest_frame_index_seen + 1  BY <1>1, <1>2, <1>3, <1>4
<1>6. Occupied = {}
  <2> SUFFICES ASSUME NEW i \in Occupied PROVE FALSE
    OBVIOUS
  <2> DEFINE p == Position(slots[i].seq)
  <2>1. p \in frames_played .. (frames_played + Capacity - 1)
    BY DEF ReceiverInv, JitterInv, SlotsInWindow
  <2>2. p <= highest_frame_index_seen  BY DEF ReceiverInv, HeldBelowFrontier
  <2>3. Capacity \in Int  BY CapacityAssumption
  <2> HIDE DEF p
  <2> QED BY <1>1, <1>5, <2>1, <2>2, <2>3
<1>7. frames_played = Len(Output) + underruns
  BY OutputType DEF ReceiverInv, EveryPosition, OutputIs
<1> QED BY <1>3, <1>5, <1>6, <1>7 DEF AllPlayed

\* The playout thread leaves its loop only when the stream has ended, no packet waits,
\* and every position up to the newest packet's is in the output or an underrun.
THEOREM EndsDrainedCorrect == ReceiverSpec => EndsDrained
<1>1. ReceiverInv /\ [ReceiverNext]_vars /\ player # "finishing" /\ player' = "finishing"
      => Finished'
  <2> SUFFICES ASSUME ReceiverInv, [ReceiverNext]_vars,
                      player # "finishing", player' = "finishing"
               PROVE  Finished'
    OBVIOUS
  <2>1. PullFrame \/ PullNothing
    BY DEF ReceiverNext, Advance, Arrive, ReceiveNext, ReceiveDatagram, NoteActivity,
           PushIncoming, ReceiveTimesOut, LookAtIdleTime, EndStream, ReceiverLooksAtFlag, SocketFails, Terminate,
           PlayoutNext, Wake, SetPlayoutDone, MainNext, MainPops, MainFindsEmpty,
           MainLooksAtFlag, MainJoins, vars, playoutThread
  <2>2. ASSUME PullFrame PROVE Finished'
    BY <2>2 DEF PullFrame
  <2>3. ASSUME PullNothing PROVE Finished'
    BY <2>3 DEF PullNothing, Finished, Drained, jbuf, window, playout
  <2> QED BY <2>1, <2>2, <2>3
<1>2. ReceiverInv' /\ Finished' => AllPlayed'
  BY FinishedMeansDrained, PTL
<1>3. ReceiverInv /\ ReceiverInv' /\ [ReceiverNext]_vars
      => [player # "finishing" /\ player' = "finishing" =>
            /\ stream_ended' /\ Occupied' = {}
            /\ frames_played' = highest_frame_index_seen' + 1
            /\ frames_played' = Len(Output') + underruns']_vars
  BY <1>1, <1>2 DEF AllPlayed
<1> QED BY <1>3, ReceiverInvariance, PTL DEF ReceiverSpec, EndsDrained
-----------------------------------------------------------------------------
(* The file is the timeline. *)

\* Only playout adds to the output; main moves a frame along inside it.
LEMMA OutputKept ==
  ASSUME ReceiverInv, [ReceiverNext]_vars, ~PullFrame
  PROVE  Output' = Output /\ underruns' = underruns
<1>1. CASE MainPops
  <2> DEFINE m == Len(samples)
             n == Len(ring)
  <2>1. /\ m \in Nat /\ n \in Nat /\ n # 0 /\ ring \in Seq(Frames) /\ samples \in Seq(Frames)
        /\ ring' = Tail(ring) /\ samples' = Append(samples, Head(ring))
        /\ Len(ring') = n - 1 /\ Len(samples') = m + 1 /\ UNCHANGED underruns
        /\ Head(ring) \in Frames /\ ring # <<>>
    BY <1>1, FramePopped, EmptySeq
  <2>2. \A k \in 1 .. (n - 1) : ring'[k] = ring[k + 1]
    BY <2>1, HeadTailProperties
  <2>3. \A k \in 1 .. (m + 1) : samples'[k] = IF k = m + 1 THEN ring[1] ELSE samples[k]
    BY <2>1, AppendProperties
  <2>4. OutputIs  BY OutputType DEF ReceiverInv
  <2>5. OutputIs'  BY PositionsKept, OutputType, PTL
  <2>6. /\ Output \in Seq(Frames) /\ Len(Output) = m + n
        /\ \A k \in 1 .. m + n : Output[k] = IF k <= m THEN samples[k] ELSE ring[k - m]
    BY <2>4 DEF OutputIs
  <2>7. m + 1 + (n - 1) = m + n  BY <2>1
  <2>8. /\ Output' \in Seq(Frames) /\ Len(Output') = m + n
        /\ \A k \in 1 .. m + n :
             Output'[k] = IF k <= m + 1 THEN samples'[k] ELSE ring'[k - (m + 1)]
    BY <2>1, <2>5, <2>7 DEF OutputIs
  <2> DEFINE S == Output'
             T == Output
  <2>9. \A k \in 1 .. m + n : S[k] = T[k]
    <3> SUFFICES ASSUME NEW k \in 1 .. m + n PROVE Output'[k] = Output[k]
      OBVIOUS
    <3>1. CASE k <= m
      <4>1. k \in 1 .. (m + 1) /\ k # m + 1 /\ k <= m + 1
        BY <2>1, <3>1
      <4> QED BY <2>3, <2>6, <2>8, <3>1, <4>1
    <3>2. CASE k = m + 1
      <4>1. k - m = 1 /\ k \in 1 .. (m + 1) /\ ~(k <= m) /\ k <= m + 1
        BY <2>1, <3>2
      <4> QED BY <2>3, <2>6, <2>8, <3>2, <4>1
    <3>3. CASE k > m + 1
      <4>1. k - (m + 1) \in 1 .. (n - 1) /\ k - (m + 1) + 1 = k - m
            /\ ~(k <= m) /\ ~(k <= m + 1)
        BY <2>1, <3>3
      <4> QED BY <2>2, <2>6, <2>8, <4>1
    <3> QED BY <2>1, <3>1, <3>2, <3>3
  <2> HIDE DEF S, T
  <2>10. S \in Seq(Frames) /\ T \in Seq(Frames) /\ Len(S) = m + n /\ Len(T) = m + n
    BY <2>6, <2>8 DEF S, T
  <2>11. S = T  BY <2>9, <2>10, SeqEqual
  <2> QED BY <2>1, <2>11 DEF S, T
<1>2. CASE ReceiveNext \/ \E d \in Datagrams : Arrive(d)
  BY <1>2, ReceiveKeepsTypes, ArriveKeepsTypes DEF Output
<1>3. CASE \/ Advance \/ Wake \/ PullNothing \/ SetPlayoutDone \/ MainFindsEmpty
           \/ MainLooksAtFlag \/ MainJoins \/ UNCHANGED vars
  BY <1>3 DEF Advance, Wake, PullNothing, SetPlayoutDone, MainFindsEmpty,
              MainLooksAtFlag, MainJoins, vars, pipe, mainThread, Output
<1> QED BY <1>1, <1>2, <1>3 DEF ReceiverNext, PlayoutNext, MainNext

\* The stream's first index is named by the first push, when nothing has been played.
LEMMA OriginNamedOnce ==
  ASSUME ReceiverInv, [ReceiverNext]_vars
  PROVE  origin' = origin \/ ~started
  BY CursorMoves DEF TryPull, Push, PushLate, PushDuplicate, PushStore, Witness, EndStream,
                     MarkStreamEnded, window, jbuf

\* A real frame comes out at the position its index names.
LEMMA RealFrameInPlace ==
  ASSUME LastIndex < Half, ReceiverInv, Contents, PullFrame, IsReal(out')
  PROVE  out'.frame = origin + frames_played
<1>1. TryPull(deadline) /\ deadline \in Times /\ JitterInv
  BY InputTypes DEF PullFrame, ReceiverInv
<1>2. /\ started /\ frames_played <= highest_frame_index_seen
      /\ (PlayReal(deadline) /\ HasFrame) \/ (Conceal /\ ~HasFrame)
  BY <1>1, PullEffect
<1>3. CASE Conceal
  <2>1. consecutive_concealments \in Nat  BY <1>1, PlcAssumption DEF JitterInv, TypeOK
  <2>2. out'.frame = Silence \/ out'.fade = consecutive_concealments + 1
    BY <1>3 DEF Conceal, NextFade
  <2> QED BY <2>1, <2>2 DEF IsReal
<1>4. CASE PlayReal(deadline) /\ HasFrame
  <2>1. out'.frame = CursorSlot.frame  BY <1>4 DEF PlayReal, Decoded
  <2> QED BY <1>1, <1>2, <1>4, <2>1, CursorHeld
<1> QED BY <1>2, <1>3, <1>4

LEMMA PullKeepsPlaced ==
  ASSUME LastIndex < Half, ReceiverInv, Contents, Placed, PullFrame
  PROVE  Placed'
<1> DEFINE n == Len(Output)
<1>1. /\ out' \in Frames /\ samples' = samples
      /\ frames_played' = frames_played + 1
      /\ \/ ring' = Append(ring, out') /\ underruns' = underruns
         \/ ring' = ring /\ underruns' = underruns + 1
  BY FrameOffered
<1>2. /\ OutputIs /\ n \in Nat /\ n + underruns = frames_played
      /\ underruns \in Nat /\ frames_played \in Nat
      /\ ring \in Seq(Frames) /\ samples \in Seq(Frames)
  <2>1. EveryPosition /\ ring \in Seq(Frames) /\ samples \in Seq(Frames)
    BY DEF ReceiverInv, EveryPosition
  <2>2. OutputIs  BY <2>1, OutputType
  <2>3. Len(ring) \in Nat /\ Len(samples) \in Nat  BY <2>1, LenProperties
  <2>4. underruns \in Nat /\ frames_played \in Nat
    <3>1. underruns \in Nat  BY DEF ReceiverInv, ReceiverTypeOK
    <3>2. frames_played \in 0 .. Half  BY DEF ReceiverInv, JitterInv, TypeOK
    <3> QED BY <3>1, <3>2
  <2>5. n = Len(samples) + Len(ring)  BY <2>2 DEF OutputIs
  <2>6. Len(samples) + Len(ring) + underruns = frames_played
    BY <2>1 DEF EveryPosition
  <2> QED BY <2>1, <2>2, <2>3, <2>4, <2>5, <2>6
<1>3. origin' = origin /\ origin \in Int
  BY StreamAssumption DEF PullFrame, TryPull, ReceiverInv, JitterInv, TypeOK, Indices
<1>4. \A k \in 1 .. n : IsReal(Output[k]) => Output[k].frame \in Int
  <2> SUFFICES ASSUME NEW k \in 1 .. n, IsReal(Output[k]) PROVE Output[k].frame \in Int
    OBVIOUS
  <2>1. Output[k] \in Frames  BY <1>2, ElementOfSeq DEF OutputIs
  <2>2. Output[k].frame \in Indices \cup {Silence}  BY <2>1 DEF Frames
  <2> QED BY <2>2, StreamAssumption DEF IsReal, Indices
<1>5. \A k \in 1 .. n : IsReal(Output[k]) => Output[k].frame < origin + frames_played
  BY DEF Placed
<1>6. \A j, k \in 1 .. n :
        j < k /\ IsReal(Output[j]) /\ IsReal(Output[k]) => Output[j].frame < Output[k].frame
  BY DEF Placed, WavIsTimeline
<1>7. CASE ring' = ring /\ underruns' = underruns + 1
  <2>1. Output' = Output /\ underruns' # 0  BY <1>1, <1>2, <1>7 DEF Output
  <2>2. \A k \in 1 .. n : IsReal(Output[k]) => Output[k].frame < origin + (frames_played + 1)
    <3>1. \A x \in Int : x < origin + frames_played => x < origin + (frames_played + 1)
      <4>1. origin \in Int /\ frames_played \in Nat  BY <1>2, <1>3
      <4> QED BY <4>1
    <3> QED BY <1>4, <1>5, <3>1
  <2> QED BY <1>1, <1>3, <1>6, <2>1, <2>2 DEF Placed, WavIsTimeline, IsReal
<1>8. CASE ring' = Append(ring, out') /\ underruns' = underruns
  <2> DEFINE m == Len(samples)
             r == Len(ring)
  <2>1. /\ m \in Nat /\ r \in Nat /\ n = m + r
        /\ \A k \in 1 .. n : Output[k] = IF k <= m THEN samples[k] ELSE ring[k - m]
    BY <1>2, LenProperties DEF OutputIs
  <2>2. OutputIs'  BY FrameOffered, PositionsKept, OutputType, PTL DEF ReceiverNext, PlayoutNext
  <2>3. /\ Len(ring') = r + 1
        /\ \A k \in 1 .. (r + 1) : ring'[k] = IF k = r + 1 THEN out' ELSE ring[k]
    BY <1>1, <1>2, <1>8, AppendProperties
  <2>4. m + (r + 1) = n + 1  BY <2>1
  <2>5. /\ Len(Output') = n + 1
        /\ \A k \in 1 .. (n + 1) :
             Output'[k] = IF k <= m THEN samples[k] ELSE ring'[k - m]
    BY <1>1, <2>2, <2>3, <2>4 DEF OutputIs
  <2>6. \A k \in 1 .. n : Output'[k] = Output[k]
    <3> SUFFICES ASSUME NEW k \in 1 .. n PROVE Output'[k] = Output[k]
      OBVIOUS
    <3>1. k \in 1 .. (n + 1) /\ (~(k <= m) => k - m \in 1 .. (r + 1) /\ k - m # r + 1)
      BY <2>1
    <3> QED BY <2>1, <2>3, <2>5, <3>1
  <2>7. Output'[n + 1] = out'
    <3>1. ~(n + 1 <= m) /\ n + 1 - m = r + 1 /\ n + 1 \in 1 .. (n + 1) /\ r + 1 \in 1 .. (r + 1)
      BY <2>1
    <3> QED BY <2>3, <2>5, <3>1
  <2>8. IsReal(out') => out'.frame = origin + frames_played  BY RealFrameInPlace
  <2>9. \A k \in 1 .. (n + 1) : k \in 1 .. n \/ k = n + 1  BY <1>2
  <2>10. \A k \in 1 .. (n + 1) :
           IsReal(Output'[k]) => Output'[k].frame < origin + (frames_played + 1)
    <3> SUFFICES ASSUME NEW k \in 1 .. (n + 1), IsReal(Output'[k])
                 PROVE  Output'[k].frame < origin + (frames_played + 1)
      OBVIOUS
    <3>1. CASE k \in 1 .. n
      <4>1. Output[k].frame \in Int /\ Output[k].frame < origin + frames_played
        BY <1>4, <1>5, <2>6, <3>1
      <4> QED BY <1>2, <1>3, <2>6, <3>1, <4>1
    <3>2. CASE k = n + 1
      BY <1>2, <1>3, <2>7, <2>8, <3>2
    <3> QED BY <2>9, <3>1, <3>2
  <2>11. \A j, k \in 1 .. (n + 1) :
           j < k /\ IsReal(Output'[j]) /\ IsReal(Output'[k])
           => Output'[j].frame < Output'[k].frame
    <3> SUFFICES ASSUME NEW j \in 1 .. (n + 1), NEW k \in 1 .. (n + 1), j < k,
                        IsReal(Output'[j]), IsReal(Output'[k])
                 PROVE  Output'[j].frame < Output'[k].frame
      OBVIOUS
    <3>1. j \in 1 .. n  BY <1>2
    <3>2. CASE k \in 1 .. n
      BY <1>6, <2>6, <3>1, <3>2
    <3>3. CASE k = n + 1
      BY <1>5, <2>6, <2>7, <2>8, <3>1, <3>3
    <3> QED BY <2>9, <3>2, <3>3
  <2>12. underruns' = 0 =>
           \A k \in 1 .. (n + 1) : IsReal(Output'[k]) => Output'[k].frame = origin + k - 1
    <3> SUFFICES ASSUME underruns = 0, NEW k \in 1 .. (n + 1), IsReal(Output'[k])
                 PROVE  Output'[k].frame = origin + k - 1
      BY <1>8
    <3>1. CASE k \in 1 .. n
      BY <2>6, <3>1 DEF Placed, WavIsTimeline
    <3>2. CASE k = n + 1
      <4>1. n = frames_played  BY <1>2
      <4> QED BY <1>2, <1>3, <2>7, <2>8, <3>2, <4>1
    <3> QED BY <2>9, <3>1, <3>2
  <2> QED BY <1>1, <1>3, <2>5, <2>10, <2>11, <2>12 DEF Placed, WavIsTimeline, IsReal
<1> QED BY <1>1, <1>7, <1>8

LEMMA PlacedStep ==
  ASSUME LastIndex < Half, ReceiverInv, Contents, Placed, [ReceiverNext]_vars
  PROVE  Placed'
<1>1. CASE PullFrame
  BY <1>1, PullKeepsPlaced
<1>2. CASE ~PullFrame
  <2>1. Output' = Output /\ underruns' = underruns /\ frames_played' = frames_played
    BY <1>2, OutputKept, FramesPlayedKept
  <2>2. CASE origin' = origin
    BY <2>1, <2>2 DEF Placed, WavIsTimeline, IsReal
  <2>3. CASE ~started
    <3>1. frames_played = 0  BY <2>3 DEF ReceiverInv, JitterInv, Fresh
    <3>2. Len(Output) + underruns = frames_played /\ Len(Output) \in Nat /\ underruns \in Nat
      BY OutputType, LenProperties DEF ReceiverInv, EveryPosition, OutputIs, ReceiverTypeOK
    <3>3. Len(Output') = 0  BY <2>1, <3>1, <3>2
    <3> QED BY <3>3 DEF Placed, WavIsTimeline
  <2> QED BY <2>2, <2>3, OriginNamedOnce
<1> QED BY <1>1, <1>2

\* While the stream is shorter than half the sequence space and the ring has refused
\* nothing, a frame stands in the file exactly where the sender put it, whatever the
\* network does to the packets and however the three threads interleave; and frames
\* never swap, refused or not.
THEOREM TimelineCorrect == ASSUME LastIndex < Half PROVE ReceiverSpec => []WavIsTimeline
<1>1. Init => Contents /\ Placed
  <2> SUFFICES ASSUME Init PROVE Contents /\ Placed
    OBVIOUS
  <2>1. Contents  BY ContentsInit DEF Init
  <2>2. Len(Output) = 0
    <3>1. EveryPosition /\ samples = <<>> /\ ring = <<>>
      BY ReceiverInvInit DEF Init, ReceiverInv
    <3> QED BY <3>1, OutputType DEF OutputIs
  <2> QED BY <2>1, <2>2 DEF Placed, WavIsTimeline
<1>2. ReceiverInv /\ Contents /\ Placed /\ [ReceiverNext]_vars => (Contents /\ Placed)'
  BY BufferStep, ContentsStep, PlacedStep DEF ReceiverInv
<1>3. Placed => WavIsTimeline  BY DEF Placed
<1> QED BY <1>1, <1>2, <1>3, ReceiverInvariance, PTL DEF ReceiverSpec
=============================================================================
