------------------------------- MODULE Impair -------------------------------
(***************************************************************************)
(* The network impairment simulator: a loop that receives packets, loses   *)
(* some, forwards the rest itself when they are not to be delayed, and     *)
(* hands the delayed ones to a thread each, joined when nothing has come   *)
(* for the idle timeout.  Packets are numbered in the order the sender     *)
(* sends them; wire is what leaves for the receiver.  How long a thread    *)
(* sleeps is not modelled: its first send may come at any time.            *)
(***************************************************************************)
EXTENDS Integers, Sequences, FiniteSets

CONSTANTS
  Loss, Reorder, Jitter, Dup,    \* whether each knob is set above zero
  SocketMayFail,                 \* whether socket(), sendto() or recvfrom() may fail
  MaxPackets                     \* bound: packets the sender sends

ASSUME ImpairAssumption ==
  {Loss, Reorder, Jitter, Dup, SocketMayFail} \subseteq BOOLEAN /\ MaxPackets \in Nat

Packets == 1 .. MaxPackets

VARIABLES
  inbox,            \* the listening socket's queue
  arrivals,         \* packets the sender has sent
  main,             \* "receive", "decide", "send", "join", or how it ended:
                    \* "exit", "error" (return 1), "terminated" (std::terminate)
  packet, copies,   \* what main has in hand, and how often it is still to go out
  in_flight,        \* per packet: copies its thread has still to send
  spawned,          \* packets that were given a thread
  tally,            \* received, dropped, duplicated, reordered, forwarded
  wire,
  held              \* history: packets that were to be delayed

network == <<inbox, arrivals>>
thread == <<in_flight, spawned>>
vars == <<network, main, packet, copies, thread, tally, wire, held>>

Counted == {"received", "dropped", "duplicated", "reordered", "forwarded"}
Running == main \in {"receive", "decide", "send", "join"}

ImpairInit ==
  /\ inbox = <<>> /\ arrivals = 0
  /\ main = "receive" /\ packet = 0 /\ copies = 0
  /\ in_flight = [p \in Packets |-> 0] /\ spawned = {}
  /\ tally = [c \in Counted |-> 0]
  /\ wire = <<>> /\ held = {}

SenderSends ==
  /\ arrivals < MaxPackets
  /\ arrivals' = arrivals + 1 /\ inbox' = Append(inbox, arrivals + 1)
  /\ UNCHANGED <<main, packet, copies, thread, tally, wire, held>>
-----------------------------------------------------------------------------
(* The main loop. *)

\* Faults: a thread for every packet, the loop left without joining the threads,
\* one copy too many, and a receive without a timeout.
AlwaysThread(delayed) == TRUE
NoJoin == TRUE
OneMore(left) == left >= 0
NeverTimesOut == FALSE

NeedsThread(delayed) == delayed
AllJoined == \A p \in spawned : in_flight[p] = 0
StillToSend(left) == left > 0

Receive ==
  /\ main = "receive" /\ inbox # <<>>
  /\ packet' = Head(inbox) /\ inbox' = Tail(inbox)
  /\ tally' = [tally EXCEPT !["received"] = @ + 1]
  /\ main' = "decide"
  /\ UNCHANGED <<arrivals, copies, thread, wire, held>>

\* An exception in main leaves the loop past in_flight: destroying a thread that has
\* not been joined, even one that has finished, ends the process.
AfterException == IF spawned = {} THEN "error" ELSE "terminated"

\* recvfrom fails with anything but the timeout.
ReceiveFails ==
  /\ main = "receive" /\ SocketMayFail
  /\ main' = AfterException
  /\ UNCHANGED <<network, packet, copies, thread, tally, wire, held>>

Lose ==
  /\ main = "decide" /\ Loss
  /\ tally' = [tally EXCEPT !["dropped"] = @ + 1]
  /\ main' = "receive"
  /\ UNCHANGED <<network, packet, copies, thread, wire, held>>

\* The draws for jitter, reordering and duplication, and where they lead.
Forward ==
  /\ main = "decide"
  /\ \E jitter \in {FALSE, Jitter}, reorder \in {FALSE, Reorder}, dup \in {FALSE, Dup} :
       LET send_count == IF dup THEN 2 ELSE 1
           delayed == jitter \/ reorder
       IN  /\ tally' = [tally EXCEPT
                          !["reordered"] = @ + IF reorder THEN 1 ELSE 0,
                          !["duplicated"] = @ + IF dup THEN 1 ELSE 0,
                          !["forwarded"] = @ + send_count]
           /\ held' = IF delayed THEN held \cup {packet} ELSE held
           /\ IF NeedsThread(delayed)
              THEN /\ in_flight' = [in_flight EXCEPT ![packet] = send_count]
                   /\ spawned' = spawned \cup {packet}
                   /\ main' = "receive" /\ UNCHANGED copies
              ELSE /\ main' = "send" /\ copies' = send_count
                   /\ UNCHANGED thread
  /\ UNCHANGED <<network, packet, wire>>

SendInline ==
  /\ main = "send" /\ StillToSend(copies)
  /\ wire' = Append(wire, packet) /\ copies' = copies - 1
  /\ UNCHANGED <<network, main, packet, thread, tally, held>>

SentInline ==
  /\ main = "send" /\ ~StillToSend(copies)
  /\ main' = "receive"
  /\ UNCHANGED <<network, packet, copies, thread, tally, wire, held>>

SendInlineFails ==
  /\ main = "send" /\ StillToSend(copies) /\ SocketMayFail
  /\ main' = AfterException
  /\ UNCHANGED <<network, packet, copies, thread, tally, wire, held>>

IdleTimeout ==
  /\ main = "receive" /\ inbox = <<>>
  /\ main' = "join"
  /\ UNCHANGED <<network, packet, copies, thread, tally, wire, held>>

Join ==
  /\ main = "join" /\ AllJoined
  /\ main' = "exit"
  /\ UNCHANGED <<network, packet, copies, thread, tally, wire, held>>
-----------------------------------------------------------------------------
(* The thread of packet p. *)

ThreadSends(p) ==
  /\ Running /\ p \in spawned /\ StillToSend(in_flight[p])
  /\ wire' = Append(wire, p)
  /\ in_flight' = [in_flight EXCEPT ![p] = @ - 1]
  /\ UNCHANGED <<network, main, packet, copies, spawned, tally, held>>

\* Nothing catches an exception in a thread.
ThreadFails(p) ==
  /\ Running /\ p \in spawned /\ StillToSend(in_flight[p]) /\ SocketMayFail
  /\ main' = "terminated"
  /\ UNCHANGED <<network, packet, copies, thread, tally, wire, held>>
-----------------------------------------------------------------------------
MainGoesOn ==
  \/ Receive \/ Lose \/ Forward \/ SendInline \/ SentInline
  \/ IdleTimeout \/ Join

MainNext == MainGoesOn \/ ReceiveFails \/ SendInlineFails

ThreadNext(p) == ThreadSends(p) \/ ThreadFails(p)

ImpairNext == SenderSends \/ MainNext \/ \E p \in Packets : ThreadNext(p)

ImpairSpec == ImpairInit /\ [][ImpairNext]_vars

\* recvfrom returns, with a packet or the timeout unless it fails, and every thread
\* runs.  No call has to fail.
FairImpairSpec ==
  /\ ImpairSpec
  /\ WF_vars(MainGoesOn) /\ \A p \in Packets : WF_vars(ThreadSends(p))
-----------------------------------------------------------------------------
(* Properties *)

\* Packets that were not to be delayed leave in the order they came, whatever the
\* threads of the others do meanwhile (impair.cpp:128-133).
StraightPacketsInOrder ==
  \A j, k \in 1 .. Len(wire) :
    j < k /\ {wire[j], wire[k]} \cap held = {} => wire[j] <= wire[k]

CopiesOnWire(p) == Cardinality({k \in 1 .. Len(wire) : wire[k] = p})

\* When impair exits normally everything it counted as forwarded has left, and
\* every packet it received was dropped or left at least once, at most twice.
ForwardedIsSent ==
  main = "exit" =>
    /\ Len(wire) = tally["forwarded"]
    /\ tally["forwarded"] = tally["received"] - tally["dropped"] + tally["duplicated"]
    /\ Cardinality({p \in Packets : CopiesOnWire(p) = 0})
         = tally["dropped"] + (MaxPackets - tally["received"])
    /\ \A p \in Packets : CopiesOnWire(p) <= 2

\* Once the sender has stopped impair ends, by the idle timeout and the joins or by a
\* failed call of a socket: no thread is waited for that is not going to finish.
ImpairEnds == <>(main \in {"exit", "error", "terminated"})
=============================================================================
