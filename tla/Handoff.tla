------------------------------- MODULE Handoff ------------------------------
(***************************************************************************)
(* The end of the receiver's pipeline: the playout thread offers frames to *)
(* the ring and then sets playout_done; the main thread drains the ring    *)
(* into samples and leaves when it has seen the flag and one more pop      *)
(* fails.  The flag is an atomic of its own: the main thread may go on     *)
(* reading false for a while after it is set.  Frames are numbered in the  *)
(* order they are produced; try_pull_due_frame decides how many there are. *)
(***************************************************************************)
EXTENDS SpscRing

CONSTANT MaxFrames      \* bound: frames the jitter buffer produces

ASSUME HandoffAssumption == MaxFrames \in Nat /\ Items = 0 .. (MaxFrames - 1)

VARIABLES
  offered,          \* frames try_pull_due_frame has produced
  accepted,         \* history: those push took
  underruns,        \* those it refused
  done,             \* playout_done
  main,             \* the main thread: in its first pop, at the flag, in its
                    \* final pop, or out of the loop
  samples

playoutThread == <<offered, accepted, underruns, done>>
mainThread == <<main, samples>>
handoffVars == <<ringVars, playoutThread, mainThread>>

HandoffInit ==
  /\ RingInit
  /\ offered = 0 /\ accepted = <<>> /\ underruns = 0 /\ done = FALSE
  /\ main = "first pop" /\ samples = <<>>
-----------------------------------------------------------------------------
(* The playout thread. *)

OfferTaken ==
  /\ ~done /\ offered < MaxFrames
  /\ PushBegin(offered)
  /\ offered' = offered + 1 /\ accepted' = Append(accepted, offered)
  /\ UNCHANGED <<underruns, done, mainThread>>

OfferRefused ==
  /\ ~done /\ offered < MaxFrames
  /\ PushFull
  /\ offered' = offered + 1 /\ underruns' = underruns + 1
  /\ UNCHANGED <<accepted, done, mainThread>>

PushStep ==
  /\ PushWrite \/ PushPublish
  /\ UNCHANGED <<playoutThread, mainThread>>

Finish ==
  /\ ~done /\ ppc = "idle"
  /\ done' = TRUE
  /\ UNCHANGED <<ringVars, offered, accepted, underruns, mainThread>>
-----------------------------------------------------------------------------
(* The main thread. *)

\* Faults: the flag without memory_order_acquire, and a flag that does not end
\* the loop.
RelaxedFlag == UNCHANGED <<headSeen, headSync>>
LoopOnFlag == main' = "first pop"

MainTakes ==
  /\ main \in {"first pop", "final pop"}
  /\ PopBegin
  /\ UNCHANGED <<playoutThread, mainThread>>

MainPopStep ==
  /\ PopRead
  /\ UNCHANGED <<playoutThread, mainThread>>

MainAppends ==
  /\ PopPublish
  /\ samples' = Append(samples, out) /\ main' = "first pop"
  /\ UNCHANGED playoutThread

MainFindsEmpty ==
  /\ main \in {"first pop", "final pop"}
  /\ PopEmpty
  /\ main' = IF main = "first pop" THEN "flag" ELSE "exit"
  /\ UNCHANGED <<playoutThread, samples>>

\* sleep_for(1ms), then round again
MainNotDone ==
  /\ main = "flag" /\ main' = "first pop"
  /\ UNCHANGED <<ringVars, playoutThread, samples>>

\* The acquire load synchronises with the store of the flag, and so with every
\* store to head_ before it.
AcquireFlag == headSeen' = pushes /\ headSync' = pushes
AfterFlag == main' = "final pop"

MainSeesDone ==
  /\ main = "flag" /\ done
  /\ AcquireFlag /\ AfterFlag
  /\ UNCHANGED <<buffer, pops, cpc, out, popped, producerVars, playoutThread, samples>>
-----------------------------------------------------------------------------
PlayoutNext == OfferTaken \/ OfferRefused \/ PushStep \/ Finish
MainNext ==
  MainTakes \/ MainPopStep \/ MainAppends \/ MainFindsEmpty \/ MainNotDone \/ MainSeesDone

HandoffNext == PlayoutNext \/ MainNext

HandoffSpec == HandoffInit /\ [][HandoffNext]_handoffVars

\* Each thread keeps being scheduled, and a store is not hidden from the other
\* thread for ever: the flag, once set, is at some look seen.
FairHandoffSpec ==
  /\ HandoffSpec
  /\ WF_handoffVars(PlayoutNext) /\ WF_handoffVars(MainNext)
  /\ SF_handoffVars(MainSeesDone)
-----------------------------------------------------------------------------
(* Properties *)

\* What the main thread has is a prefix of what push took, however the two
\* threads interleave.
SamplesInOrder ==
  /\ Len(samples) <= Len(accepted)
  /\ \A k \in 1 .. Len(samples) : samples[k] = accepted[k]

\* No frame is left behind in the ring or counted nowhere: when the main thread
\* leaves its loop every frame was written or was an underrun.
NothingLeftBehind ==
  main = "exit" => samples = accepted /\ Len(samples) + underruns = offered

\* The main thread leaves its loop, and not before playout is done.
MainExits == <>(done /\ main = "exit")
=============================================================================
