---------------------------- MODULE ImpairProofs ----------------------------
(***************************************************************************)
(* Proofs about the impairment simulator, for any number of packets and    *)
(* any setting of its knobs: undelayed packets keep their order, and at a  *)
(* normal exit the counters tell what has left.                            *)
(***************************************************************************)
EXTENDS Impair, SequenceTheorems, FiniteSetTheorems, TLAPS

(* Where the packets are. *)

Ended == {"exit", "error", "terminated"}
Pending == IF main = "decide" THEN 1 ELSE 0
\* Packets 1 .. Decided have been lost or given to main's own sends or a thread.
Decided == packet - Pending

\* How often packet p is in w.
CopiesIn(w, p) == Cardinality({k \in 1 .. Len(w) : w[k] = p})

\* What is still to leave: by main, by the threads, of packet p.
InHand(p) == IF p = packet THEN copies ELSE 0
Owed == {e \in Packets \X (1 .. 2) : e[2] <= in_flight[e[1]]}
Copies(p) == CopiesIn(wire, p) + in_flight[p] + InHand(p)

\* Packets that have not left and are not going to as things stand.
Absent == {p \in Packets : Copies(p) = 0}
-----------------------------------------------------------------------------
(* The inductive invariant. *)

ImpairTypes ==
  /\ arrivals \in 0 .. MaxPackets /\ inbox \in Seq(Packets)
  /\ main \in {"receive", "decide", "send", "join"} \cup Ended
  /\ packet \in 0 .. MaxPackets /\ copies \in 0 .. 2
  /\ in_flight \in [Packets -> 0 .. 2] /\ spawned \subseteq Packets
  /\ tally \in [Counted -> Nat] /\ wire \in Seq(Packets) /\ held \subseteq Packets

\* The queue holds what has been sent since the packet in hand.
Queued ==
  /\ packet + Len(inbox) = arrivals
  /\ \A i \in 1 .. Len(inbox) : inbox[i] = packet + i
  /\ main = "decide" => packet >= 1
  /\ copies > 0 => packet >= 1

\* Nothing leaves, and nothing is held, ahead of its turn; only packets that were to
\* be delayed have a thread, and a thread that owes nothing is not waited for.
InTurn ==
  /\ \A k \in 1 .. Len(wire) : wire[k] <= Decided
  /\ \A p \in held : p <= Decided
  /\ spawned \subseteq held
  /\ \A p \in Packets : in_flight[p] > 0 => p \in spawned
  /\ main \in {"receive", "decide", "join", "exit"} => copies = 0
  /\ main = "exit" => \A p \in Packets : in_flight[p] = 0

\* Every copy counted as forwarded has left, is in main's hand or in a thread's.
Ledger ==
  /\ Len(wire) + copies + Cardinality(Owed) = tally["forwarded"]
  /\ tally["received"] = packet
  /\ \A p \in Packets : Copies(p) <= 2

\* Until a failure interrupts it, main has lost or forwarded each packet but the one
\* in hand; one without a copy anywhere was lost, is in hand or has not been received.
Balance ==
  main \notin {"error", "terminated"} =>
    /\ tally["forwarded"] + tally["dropped"] + Pending
         = tally["received"] + tally["duplicated"]
    /\ Cardinality(Absent) = tally["dropped"] + Pending + (MaxPackets - packet)

ImpairInv ==
  ImpairTypes /\ Queued /\ InTurn /\ StraightPacketsInOrder /\ Ledger /\ Balance
-----------------------------------------------------------------------------
(* Counting copies. *)

LEMMA CopiesInNat ==
  ASSUME NEW w \in Seq(Packets), NEW p
  PROVE  /\ IsFiniteSet({k \in 1 .. Len(w) : w[k] = p})
         /\ CopiesIn(w, p) \in Nat
<1>1. Len(w) \in Nat  OBVIOUS
<1>2. IsFiniteSet(1 .. Len(w))  BY <1>1, FS_Interval
<1>3. IsFiniteSet({k \in 1 .. Len(w) : w[k] = p})  BY <1>2, FS_Subset
<1> QED BY <1>3, FS_CardinalityType DEF CopiesIn

LEMMA CopiesInAppend ==
  ASSUME NEW w \in Seq(Packets), NEW q \in Packets, NEW p
  PROVE  CopiesIn(Append(w, q), p) = CopiesIn(w, p) + IF p = q THEN 1 ELSE 0
<1> DEFINE old == {k \in 1 .. Len(w) : w[k] = p}
           new == {k \in 1 .. Len(Append(w, q)) : Append(w, q)[k] = p}
           c == CopiesIn(w, p)
<1>1. Len(w) \in Nat /\ Len(Append(w, q)) = Len(w) + 1  OBVIOUS
<1>2. /\ \A k \in 1 .. Len(w) : Append(w, q)[k] = w[k]
      /\ Append(w, q)[Len(w) + 1] = q
  BY AppendProperties
<1>3. 1 .. (Len(w) + 1) = (1 .. Len(w)) \cup {Len(w) + 1}  BY <1>1
<1>4. IsFiniteSet(old)  BY CopiesInNat
<1>7. Len(w) + 1 \notin old  BY <1>1
<1>8. c \in Nat /\ c = Cardinality(old)  BY CopiesInNat DEF CopiesIn
<1>9. CopiesIn(Append(w, q), p) = Cardinality(new)  BY DEF CopiesIn
<1> HIDE DEF c, new
<1>5. CASE p = q
  <2>1. new = old \cup {Len(w) + 1}  BY <1>1, <1>2, <1>3, <1>5 DEF new
  <2>2. Cardinality(new) = Cardinality(old) + 1  BY <2>1, <1>4, <1>7, FS_AddElement
  <2>3. CopiesIn(Append(w, q), p) = c + 1  BY <2>2, <1>8, <1>9
  <2> QED BY <2>3, <1>5 DEF c
<1>6. CASE p # q
  <2>1. new = old  BY <1>1, <1>2, <1>3, <1>6 DEF new
  <2>2. CopiesIn(Append(w, q), p) = c /\ c + 0 = c  BY <2>1, <1>8, <1>9
  <2> QED BY <2>2, <1>6 DEF c
<1> QED BY <1>5, <1>6

LEMMA NotOnWire ==
  ASSUME NEW w \in Seq(Packets), NEW p, \A k \in 1 .. Len(w) : w[k] # p
  PROVE  CopiesIn(w, p) = 0
<1>1. {k \in 1 .. Len(w) : w[k] = p} = {}  OBVIOUS
<1> QED BY <1>1, FS_EmptySet DEF CopiesIn

LEMMA FinitePackets ==
  /\ IsFiniteSet(Packets) /\ Cardinality(Packets) = MaxPackets
  /\ MaxPackets \in Nat
<1>1. MaxPackets \in Nat  BY ImpairAssumption
<1> QED BY <1>1, FS_Interval DEF Packets

LEMMA OwedFinite == IsFiniteSet(Owed) /\ Cardinality(Owed) \in Nat
<1> DEFINE one == 1  two == 2
<1>0. one \in Int /\ two \in Int  OBVIOUS
<1> HIDE DEF one, two
<1>a. IsFiniteSet(one .. two)  BY <1>0, FS_Interval
<1>1. IsFiniteSet(1 .. 2)  BY <1>a DEF one, two
<1>2. IsFiniteSet(Packets \X (1 .. 2))  BY <1>1, FinitePackets, FS_Product
<1>3. IsFiniteSet(Owed)  BY <1>2, FS_Subset DEF Owed
<1> QED BY <1>3, FS_CardinalityType

LEMMA AbsentFinite == IsFiniteSet(Absent) /\ Cardinality(Absent) \in Nat
<1>1. IsFiniteSet(Absent)  BY FinitePackets, FS_Subset DEF Absent
<1> QED BY <1>1, FS_CardinalityType
-----------------------------------------------------------------------------
(* What the steps do. *)

\* Forward gives the packet n copies, to a thread or to main.
LEMMA ForwardEffect ==
  ASSUME ImpairTypes, Forward
  PROVE  /\ main = "decide" /\ UNCHANGED <<network, packet, wire>>
         /\ tally' \in [Counted -> Nat]
         /\ \E n \in 1 .. 2 :
              /\ tally'["forwarded"] = tally["forwarded"] + n
              /\ tally'["duplicated"] = tally["duplicated"] + (n - 1)
              /\ tally'["received"] = tally["received"]
              /\ tally'["dropped"] = tally["dropped"]
              /\ \/ /\ in_flight' = [in_flight EXCEPT ![packet] = n]
                    /\ spawned' = spawned \cup {packet} /\ held' = held \cup {packet}
                    /\ main' = "receive" /\ copies' = copies
                 \/ /\ main' = "send" /\ copies' = n
                    /\ UNCHANGED <<in_flight, spawned, held>>
<1>1. PICK jitter \in {FALSE, Jitter}, reorder \in {FALSE, Reorder}, dup \in {FALSE, Dup} :
        LET send_count == IF dup THEN 2 ELSE 1
            delayed == jitter \/ reorder
        IN  /\ tally' = [tally EXCEPT
                           !["reordered"] = @ + IF reorder THEN 1 ELSE 0,
                           !["duplicated"] = @ + IF dup THEN 1 ELSE 0,
                           !["forwarded"] = @ + send_count]
            /\ held' = IF delayed THEN held \cup {packet} ELSE held
            /\ IF NeedsThread(delayed)
               THEN /\ in_flight' = [in_flight EXCEPT ![packet] = send_count]
                    /\ spawned' = spawned \cup {packet}
                    /\ main' = "receive" /\ UNCHANGED copies
               ELSE /\ main' = "send" /\ copies' = send_count
                    /\ UNCHANGED thread
  BY DEF Forward
<1>2. jitter \in BOOLEAN /\ reorder \in BOOLEAN /\ dup \in BOOLEAN  BY ImpairAssumption
<1> DEFINE n == IF dup THEN 2 ELSE 1
           r == IF reorder THEN 1 ELSE 0
           d == IF dup THEN 1 ELSE 0
           delayed == jitter \/ reorder
<1>3. n \in 1 .. 2 /\ d = n - 1 /\ d \in Nat /\ r \in Nat  BY <1>2
<1>4. tally' = [tally EXCEPT !["reordered"] = @ + r, !["duplicated"] = @ + d,
                             !["forwarded"] = @ + n]
  BY <1>1
<1>5. /\ delayed \in BOOLEAN
      /\ delayed => /\ in_flight' = [in_flight EXCEPT ![packet] = n]
                    /\ spawned' = spawned \cup {packet} /\ held' = held \cup {packet}
                    /\ main' = "receive" /\ copies' = copies
      /\ ~delayed => /\ main' = "send" /\ copies' = n
                     /\ UNCHANGED <<in_flight, spawned, held>>
  BY <1>1, <1>2 DEF NeedsThread, thread
<1> HIDE DEF n, r, d, delayed
<1>6. tally \in [Counted -> Nat]  BY DEF ImpairTypes
<1>7. /\ tally'["forwarded"] = tally["forwarded"] + n
      /\ tally'["duplicated"] = tally["duplicated"] + d
      /\ tally'["received"] = tally["received"]
      /\ tally'["dropped"] = tally["dropped"]
      /\ tally' \in [Counted -> Nat]
  BY <1>3, <1>4, <1>6 DEF Counted
<1>8. main = "decide" /\ UNCHANGED <<network, packet, wire>>  BY DEF Forward
<1> QED BY <1>3, <1>5, <1>7, <1>8

LEMMA NextCases ==
  ASSUME [ImpairNext]_vars
  PROVE  \/ SenderSends \/ Receive \/ Lose \/ Forward \/ SendInline \/ SentInline
         \/ ReceiveFails \/ SendInlineFails \/ IdleTimeout \/ Join
         \/ \E p \in Packets : ThreadSends(p)
         \/ \E p \in Packets : ThreadFails(p)
         \/ UNCHANGED vars
  BY DEF ImpairNext, MainNext, MainGoesOn, ThreadNext

\* A failing send, a timeout, a join and a last look at the copies change main only.
Quiet == UNCHANGED <<network, packet, copies, thread, tally, wire, held>>

LEMMA QuietSteps ==
  ASSUME ImpairTypes, InTurn
  PROVE  /\ SentInline => Quiet /\ main = "send" /\ main' = "receive" /\ copies = 0
         /\ ReceiveFails \/ SendInlineFails => Quiet /\ main' \in {"error", "terminated"}
         /\ IdleTimeout => Quiet /\ main = "receive" /\ main' = "join"
         /\ Join => /\ Quiet /\ main = "join" /\ main' = "exit"
                    /\ \A p \in Packets : in_flight[p] = 0
         /\ \A p \in Packets : ThreadFails(p) => Quiet /\ main' = "terminated"
<1>1. SentInline => Quiet /\ main = "send" /\ main' = "receive" /\ ~(copies > 0)
  BY DEF SentInline, Quiet, StillToSend
<1>2. ~(copies > 0) => copies = 0  BY DEF ImpairTypes
<1>3. ReceiveFails \/ SendInlineFails => Quiet /\ main' \in {"error", "terminated"}
  BY DEF ReceiveFails, SendInlineFails, AfterException, Quiet
<1>4. IdleTimeout => Quiet /\ main = "receive" /\ main' = "join"
  BY DEF IdleTimeout, Quiet
<1>5. Join => Quiet /\ main = "join" /\ main' = "exit"  BY DEF Join, Quiet
<1>6. ASSUME Join, NEW p \in Packets  PROVE in_flight[p] = 0
  <2>1. p \in spawned => in_flight[p] = 0  BY <1>6 DEF Join, AllJoined
  <2>2. in_flight[p] > 0 => p \in spawned  BY DEF InTurn
  <2>3. in_flight[p] \in 0 .. 2  BY DEF ImpairTypes
  <2> QED BY <2>1, <2>2, <2>3
<1>7. \A p \in Packets : ThreadFails(p) => Quiet /\ main' = "terminated"
  BY DEF ThreadFails, Quiet
<1> QED BY <1>1, <1>2, <1>3, <1>4, <1>5, <1>6, <1>7

LEMMA TypesStep ==
  ASSUME ImpairTypes, Queued, InTurn, [ImpairNext]_vars
  PROVE  ImpairTypes'
<1> USE FinitePackets DEF Packets
<1>1. CASE SenderSends
  <2>1. arrivals' \in 0 .. MaxPackets /\ arrivals + 1 \in Packets
    BY <1>1 DEF SenderSends, ImpairTypes
  <2>2. inbox' \in Seq(Packets)  BY <1>1, <2>1 DEF SenderSends, ImpairTypes
  <2> QED BY <1>1, <2>1, <2>2 DEF SenderSends, ImpairTypes, thread
<1>2. CASE Receive
  <2>1. packet' \in Packets /\ inbox' \in Seq(Packets)
    BY <1>2 DEF Receive, ImpairTypes
  <2>2. tally' \in [Counted -> Nat]  BY <1>2 DEF Receive, ImpairTypes, Counted
  <2> QED BY <1>2, <2>1, <2>2 DEF Receive, ImpairTypes, thread
<1>3. CASE Lose
  <2>1. tally' \in [Counted -> Nat]  BY <1>3 DEF Lose, ImpairTypes, Counted
  <2> QED BY <1>3, <2>1 DEF Lose, ImpairTypes, thread, network
<1>4. CASE Forward
  <2>1. packet \in Packets  BY <1>4, ForwardEffect DEF Queued, ImpairTypes
  <2>2. PICK n \in 1 .. 2 :
          \/ /\ in_flight' = [in_flight EXCEPT ![packet] = n]
             /\ spawned' = spawned \cup {packet} /\ held' = held \cup {packet}
             /\ main' = "receive" /\ copies' = copies
          \/ /\ main' = "send" /\ copies' = n
             /\ UNCHANGED <<in_flight, spawned, held>>
    BY <1>4, ForwardEffect
  <2>3. n \in 0 .. 2  BY <2>2
  <2>4. /\ in_flight' \in [Packets -> 0 .. 2] /\ spawned' \subseteq Packets
        /\ held' \subseteq Packets /\ copies' \in 0 .. 2
        /\ main' \in {"receive", "send"}
    BY <2>1, <2>2, <2>3 DEF ImpairTypes
  <2> QED BY <1>4, <2>4, ForwardEffect DEF ImpairTypes, network
<1>5. CASE SendInline
  <2>1. packet \in Packets  BY <1>5 DEF SendInline, StillToSend, Queued, ImpairTypes
  <2>2. copies' \in 0 .. 2  BY <1>5 DEF SendInline, StillToSend, ImpairTypes
  <2>3. wire' \in Seq(Packets)  BY <1>5, <2>1 DEF SendInline, ImpairTypes
  <2> QED BY <1>5, <2>2, <2>3 DEF SendInline, ImpairTypes, network, thread
<1>6. ASSUME NEW p \in Packets, ThreadSends(p)
      PROVE  ImpairTypes'
  <2>1. wire' \in Seq(Packets)  BY <1>6 DEF ThreadSends, ImpairTypes
  <2>2. in_flight[p] \in 0 .. 2 /\ in_flight[p] > 0
    BY <1>6 DEF ThreadSends, StillToSend, ImpairTypes
  <2>3. in_flight[p] - 1 \in 0 .. 2  BY <2>2
  <2>4. in_flight' \in [Packets -> 0 .. 2]  BY <1>6, <2>3 DEF ThreadSends, ImpairTypes
  <2> QED BY <1>6, <2>1, <2>4 DEF ThreadSends, ImpairTypes, network
<1>7. CASE Quiet /\ main' \in {"receive", "join"} \cup Ended
  BY <1>7 DEF Quiet, ImpairTypes, network, thread
<1>8. CASE UNCHANGED vars
  BY <1>8 DEF vars, ImpairTypes, network, thread
<1>9. SentInline \/ ReceiveFails \/ SendInlineFails \/ IdleTimeout \/ Join
        \/ (\E p \in Packets : ThreadFails(p))
        => Quiet /\ main' \in {"receive", "join"} \cup Ended
  BY QuietSteps DEF Ended
<1> QED BY <1>1, <1>2, <1>3, <1>4, <1>5, <1>6, <1>7, <1>8, <1>9, NextCases

LEMMA QueuedStep ==
  ASSUME ImpairTypes, Queued, InTurn, [ImpairNext]_vars
  PROVE  Queued'
<1>0. /\ arrivals \in Nat /\ packet \in Nat /\ inbox \in Seq(Packets) /\ Len(inbox) \in Nat
      /\ packet + Len(inbox) = arrivals
      /\ \A i \in 1 .. Len(inbox) : inbox[i] = packet + i
      /\ main = "decide" => packet >= 1
      /\ copies > 0 => packet >= 1
  BY DEF ImpairTypes, Queued
<1>1. CASE SenderSends
  <2>1. arrivals + 1 \in Packets
    BY <1>1, FinitePackets DEF SenderSends, ImpairTypes, Packets
  <2>2. /\ arrivals' = arrivals + 1 /\ inbox' = Append(inbox, arrivals + 1)
        /\ packet' = packet /\ main' = main /\ copies' = copies
    BY <1>1 DEF SenderSends
  <2>3. /\ Len(inbox') = Len(inbox) + 1
        /\ \A i \in 1 .. Len(inbox) : inbox'[i] = inbox[i]
        /\ inbox'[Len(inbox) + 1] = arrivals + 1
    BY <1>0, <2>1, <2>2, AppendProperties
  <2>4. ASSUME NEW i \in 1 .. Len(inbox')  PROVE inbox'[i] = packet + i
    <3>1. CASE i \in 1 .. Len(inbox)  BY <1>0, <2>3, <3>1
    <3>2. CASE i = Len(inbox) + 1
      <4>1. inbox'[i] = arrivals + 1  BY <2>3, <3>2
      <4> QED BY <1>0, <3>2, <4>1
    <3>3. i \in 1 .. Len(inbox) \/ i = Len(inbox) + 1  BY <1>0, <2>3
    <3> QED BY <3>1, <3>2, <3>3
  <2>5. packet + Len(inbox') = arrivals + 1  BY <1>0, <2>3
  <2> QED BY <1>0, <2>2, <2>4, <2>5 DEF Queued
<1>2. CASE Receive
  <2>1. /\ inbox # <<>> /\ packet' = Head(inbox) /\ inbox' = Tail(inbox)
        /\ arrivals' = arrivals /\ copies' = copies
    BY <1>2 DEF Receive
  <2>2. /\ Len(inbox) >= 1 /\ packet' = inbox[1] /\ Len(inbox') = Len(inbox) - 1
        /\ \A i \in 1 .. (Len(inbox) - 1) : inbox'[i] = inbox[i + 1]
    BY <1>0, <2>1
  <2>3. packet' = packet + 1  BY <1>0, <2>2
  <2>4. \A i \in 1 .. Len(inbox') : inbox'[i] = packet' + i  BY <1>0, <2>2, <2>3
  <2>5. packet' + Len(inbox') = arrivals' /\ packet' >= 1  BY <1>0, <2>1, <2>2, <2>3
  <2> QED BY <2>4, <2>5 DEF Queued
<1>3. CASE Forward
  <2>1. main = "decide" /\ packet' = packet /\ inbox' = inbox /\ arrivals' = arrivals
    BY <1>3, ForwardEffect DEF network
  <2> QED BY <1>0, <2>1 DEF Queued
<1>4. ASSUME Lose \/ (Quiet /\ main' # "decide") \/ UNCHANGED vars \/ SendInline
             \/ \E p \in Packets : ThreadSends(p)
      PROVE  Queued'
  <2>1. /\ arrivals' = arrivals /\ inbox' = inbox /\ packet' = packet
        /\ main' = "decide" => main = "decide"
    BY <1>4 DEF Lose, Quiet, SendInline, ThreadSends, vars, network
  <2>2. copies' = copies \/ (copies > 0 /\ copies' = copies - 1)
    BY <1>4 DEF Lose, Quiet, SendInline, ThreadSends, vars, StillToSend
  <2>3. copies \in Nat  BY DEF ImpairTypes
  <2>4. copies' > 0 => copies > 0  BY <2>2, <2>3
  <2> QED BY <1>0, <2>1, <2>4 DEF Queued
<1> QED BY <1>1, <1>2, <1>3, <1>4, NextCases, QuietSteps

LEMMA PendingValue ==
  /\ main = "decide" => Pending = 1
  /\ main # "decide" => Pending = 0
  /\ Pending \in {0, 1}
  BY DEF Pending

LEMMA PendingNext ==
  /\ main' = "decide" => Pending' = 1
  /\ main' # "decide" => Pending' = 0
  /\ Pending' \in {0, 1}
  BY DEF Pending

\* What is decided only grows, past the packet in hand when main lets go of it.
LEMMA DecidedGrows ==
  ASSUME ImpairTypes, Queued, InTurn, [ImpairNext]_vars
  PROVE  /\ Decided \in Int /\ Decided' \in Int
         /\ Decided <= packet /\ Decided <= Decided' /\ packet \in Int
         /\ Forward => Decided = packet - 1 /\ Decided' = packet
         /\ SendInline => Decided' = packet
         /\ main # "decide" => Decided = packet
<1>0. packet \in Nat /\ packet' \in Nat  BY TypesStep DEF ImpairTypes
<1>1. Decided = packet - Pending /\ Decided' = packet' - Pending'  BY DEF Decided
<1>2. Pending \in {0, 1} /\ Pending' \in {0, 1}  BY PendingValue, PendingNext
<1>3. CASE Receive
  <2>1. Pending = 0 /\ Pending' = 1
    BY <1>3, PendingValue, PendingNext DEF Receive
  <2>2. inbox # <<>> /\ packet' = Head(inbox) /\ inbox \in Seq(Packets)
    BY <1>3 DEF Receive, ImpairTypes
  <2>3. Len(inbox) >= 1 /\ packet' = inbox[1]  BY <2>2
  <2>4. inbox[1] = packet + 1  BY <2>3, <2>2 DEF Queued
  <2>5. packet' = packet + 1  BY <2>3, <2>4
  <2>6. ~Forward /\ ~SendInline /\ main # "decide"
    BY <1>3 DEF Receive, Forward, SendInline
  <2> QED BY <1>0, <1>1, <2>1, <2>5, <2>6
<1>4. CASE Forward
  <2>1. main = "decide" /\ main' # "decide" /\ packet' = packet
    BY <1>4, ForwardEffect
  <2>2. Pending = 1 /\ Pending' = 0  BY <2>1, PendingValue, PendingNext
  <2>3. ~SendInline  BY <2>1 DEF SendInline
  <2> QED BY <1>0, <1>1, <2>1, <2>2, <2>3
<1>5. CASE SendInline
  <2>1. main # "decide" /\ main' # "decide" /\ packet' = packet
    BY <1>5 DEF SendInline
  <2>2. Pending = 0 /\ Pending' = 0  BY <2>1, PendingValue, PendingNext
  <2>3. ~Forward  BY <2>1 DEF Forward
  <2> QED BY <1>0, <1>1, <2>1, <2>2, <2>3
<1>6. ASSUME ~Receive, ~Forward, ~SendInline  PROVE packet' = packet /\ Pending' <= Pending
  <2>1. packet' = packet /\ (main' = "decide" => main = "decide")
    BY <1>6, NextCases, QuietSteps DEF SenderSends, Lose, Quiet, ThreadSends, vars
  <2>2. main # "decide" => Pending' = 0  BY <2>1, PendingNext
  <2>3. main = "decide" => Pending = 1  BY PendingValue
  <2> QED BY <2>1, <2>2, <2>3, <1>2
<1>7. main # "decide" => Decided = packet
  <2>1. main # "decide" => Pending = 0  BY PendingValue
  <2> QED BY <1>0, <1>1, <2>1
<1>8. Decided \in Int /\ Decided' \in Int /\ Decided <= packet /\ packet \in Int
  BY <1>0, <1>1, <1>2
<1>9. CASE ~Receive /\ ~Forward /\ ~SendInline
  <2>1. packet' = packet /\ Pending' <= Pending  BY <1>6, <1>9
  <2>2. Pending \in Int /\ Pending' \in Int  BY <1>2
  <2>3. packet - Pending <= packet - Pending'
    <3>1. \A a, b, c \in Int : c <= b => a - b <= a - c  OBVIOUS
    <3> QED BY <1>8, <2>1, <2>2, <3>1, Zenon
  <2>4. Decided <= Decided'  BY <1>1, <2>1, <2>3
  <2> QED BY <1>7, <1>8, <1>9, <2>4
<1> QED BY <1>3, <1>4, <1>5, <1>9

\* What a step adds to the wire.
LEMMA WireSteps ==
  ASSUME ImpairTypes, Queued, [ImpairNext]_vars
  PROVE  \/ wire' = wire /\ ~SendInline /\ \A p \in Packets : ~ThreadSends(p)
         \/ SendInline /\ packet \in Packets /\ wire' = Append(wire, packet)
         \/ \E p \in Packets : ThreadSends(p) /\ wire' = Append(wire, p)
<1>1. ASSUME ~SendInline, \A p \in Packets : ~ThreadSends(p)  PROVE wire' = wire
  BY <1>1, NextCases DEF SenderSends, Receive, ReceiveFails, Lose, Forward, SentInline,
       SendInlineFails, IdleTimeout, Join, ThreadFails, vars
<1>2. ASSUME SendInline  PROVE packet \in Packets /\ wire' = Append(wire, packet)
  <2>1. wire' = Append(wire, packet) /\ copies > 0
    BY <1>2 DEF SendInline, StillToSend
  <2>2. packet >= 1 /\ packet \in 0 .. MaxPackets  BY <2>1 DEF Queued, ImpairTypes
  <2>3. packet \in Packets  BY <2>2, FinitePackets DEF Packets
  <2> QED BY <2>1, <2>3
<1>3. \A p \in Packets : ThreadSends(p) => wire' = Append(wire, p)  BY DEF ThreadSends
<1> QED BY <1>1, <1>2, <1>3

\* A thread that sends owes a copy of a packet that was to be delayed.
LEMMA ThreadOwes ==
  ASSUME ImpairTypes, InTurn, NEW p \in Packets, ThreadSends(p)
  PROVE  /\ p \in spawned /\ p \in held /\ in_flight[p] \in 1 .. 2 /\ p <= Decided
         /\ in_flight' = [in_flight EXCEPT ![p] = in_flight[p] - 1]
         /\ UNCHANGED <<network, main, packet, copies, spawned, tally, held>>
         /\ main \in {"receive", "decide", "send", "join"}
<1>1. /\ p \in spawned /\ in_flight[p] > 0
      /\ in_flight' = [in_flight EXCEPT ![p] = in_flight[p] - 1]
      /\ UNCHANGED <<network, main, packet, copies, spawned, tally, held>>
      /\ main \in {"receive", "decide", "send", "join"}
  BY DEF ThreadSends, StillToSend, Running
<1>2. in_flight[p] \in 0 .. 2  BY DEF ImpairTypes
<1>3. p \in held /\ p <= Decided  BY <1>1 DEF InTurn
<1> QED BY <1>1, <1>2, <1>3

\* One more packet of wire: its old part and its last place.
LEMMA WireAppended ==
  ASSUME ImpairTypes, NEW q \in Packets, wire' = Append(wire, q)
  PROVE  /\ Len(wire) \in Nat /\ Len(wire') = Len(wire) + 1
         /\ \A k \in 1 .. Len(wire) : wire'[k] = wire[k]
         /\ wire'[Len(wire) + 1] = q
         /\ \A k \in 1 .. Len(wire') : k \in 1 .. Len(wire) \/ k = Len(wire) + 1
         /\ \A k \in 1 .. Len(wire) : wire[k] \in Int
<1>1. wire \in Seq(Packets)  BY DEF ImpairTypes
<1>2. /\ Len(wire) \in Nat /\ Len(wire') = Len(wire) + 1
      /\ \A k \in 1 .. Len(wire) : wire'[k] = wire[k]
      /\ wire'[Len(wire) + 1] = q
  BY <1>1, AppendProperties
<1>3. \A k \in 1 .. Len(wire) : wire[k] \in Packets  BY <1>1
<1>4. Packets \subseteq Int  BY DEF Packets
<1>5. \A k \in 1 .. Len(wire') : k \in 1 .. Len(wire) \/ k = Len(wire) + 1  BY <1>2
<1>6. \A k \in 1 .. Len(wire) : wire[k] \in Int  BY <1>3, <1>4
<1> QED BY <1>2, <1>5, <1>6

LEMMA InTurnStep ==
  ASSUME ImpairTypes, Queued, InTurn, [ImpairNext]_vars
  PROVE  InTurn'
<1>0. /\ Decided \in Int /\ Decided' \in Int /\ Decided <= packet /\ Decided <= Decided'
      /\ packet \in Int
      /\ SendInline => Decided' = packet
      /\ Forward => Decided' = packet
  BY DecidedGrows
<1>1. \A k \in 1 .. Len(wire') : wire'[k] <= Decided'
  <2>1. ASSUME NEW k \in 1 .. Len(wire)  PROVE wire[k] <= Decided'
    <3>1. wire[k] <= Decided  BY DEF InTurn
    <3>2. wire[k] \in Packets  BY DEF ImpairTypes
    <3>3. wire[k] \in Int  BY <3>2 DEF Packets
    <3> QED BY <1>0, <3>1, <3>3
  <2>2. ASSUME NEW q \in Packets, wire' = Append(wire, q), q <= Decided'
        PROVE  \A k \in 1 .. Len(wire') : wire'[k] <= Decided'
    BY <2>1, <2>2, WireAppended
  <2>3. SendInline => packet <= Decided'  BY <1>0
  <2>4. ASSUME NEW p \in Packets, ThreadSends(p)  PROVE p <= Decided'
    <3>1. p <= Decided /\ p \in Int  BY <2>4, ThreadOwes DEF Packets
    <3> QED BY <1>0, <3>1
  <2> QED BY <2>1, <2>2, <2>3, <2>4, WireSteps
<1>2. held' = held \/ (Forward /\ held' = held \cup {packet})
  <2>1. Forward => held' = held \/ held' = held \cup {packet}  BY ForwardEffect
  <2>2. ~Forward => held' = held
    BY NextCases, QuietSteps DEF SenderSends, Receive, Lose, SendInline, ThreadSends, Quiet, vars
  <2> QED BY <2>1, <2>2
<1>3. ASSUME NEW p \in held'  PROVE p <= Decided'
  <2>1. CASE p \in held
    <3>1. p <= Decided /\ p \in Int  BY <2>1 DEF InTurn, ImpairTypes, Packets
    <3> QED BY <1>0, <3>1
  <2>2. CASE Forward /\ p = packet  BY <1>0, <2>2
  <2> QED BY <1>2, <1>3, <2>1, <2>2
<1>4. CASE Forward
  <2>1. PICK n \in 1 .. 2 :
          \/ /\ in_flight' = [in_flight EXCEPT ![packet] = n]
             /\ spawned' = spawned \cup {packet} /\ held' = held \cup {packet}
             /\ main' = "receive" /\ copies' = copies
          \/ /\ main' = "send" /\ copies' = n
             /\ UNCHANGED <<in_flight, spawned, held>>
    BY <1>4, ForwardEffect
  <2>2. main = "decide"  BY <1>4, ForwardEffect
  <2>3. spawned' \subseteq held' /\ \A p \in Packets : in_flight'[p] > 0 => p \in spawned'
    BY <2>1 DEF InTurn, ImpairTypes
  <2>4. main' \in {"receive", "decide", "join", "exit"} => copies' = 0
    BY <2>1, <2>2 DEF InTurn
  <2>5. main' # "exit"  BY <2>1
  <2> QED BY <1>1, <1>3, <2>3, <2>4, <2>5 DEF InTurn
<1>5. CASE \E p \in Packets : ThreadSends(p)
  <2>1. PICK p \in Packets : ThreadSends(p)  BY <1>5
  <2>2. /\ in_flight[p] \in 1 .. 2 /\ in_flight' = [in_flight EXCEPT ![p] = in_flight[p] - 1]
        /\ spawned' = spawned /\ held' = held /\ main' = main /\ copies' = copies
        /\ p \in spawned /\ main # "exit"
    BY <2>1, ThreadOwes
  <2>3. \A r \in Packets : in_flight'[r] > 0 => r \in spawned'
    BY <2>2 DEF InTurn, ImpairTypes
  <2> QED BY <1>1, <1>3, <2>2, <2>3 DEF InTurn
<1>6. CASE SendInline
  <2>1. main' = "send" /\ UNCHANGED <<thread, held>>  BY <1>6 DEF SendInline
  <2> QED BY <1>1, <1>3, <2>1 DEF InTurn, thread
<1>7. ASSUME ~Forward, ~SendInline, \A p \in Packets : ~ThreadSends(p)
      PROVE  /\ UNCHANGED <<thread, held, copies>>
             /\ main' \in {"receive", "decide", "join", "exit"} => copies = 0
             /\ main' = "exit" => \A p \in Packets : in_flight[p] = 0
  BY <1>7, NextCases, QuietSteps
     DEF InTurn, SenderSends, Receive, Lose, Quiet, vars, thread
<1>8. CASE ~Forward /\ ~SendInline /\ \A p \in Packets : ~ThreadSends(p)
  <2>1. /\ UNCHANGED <<thread, held, copies>>
        /\ main' \in {"receive", "decide", "join", "exit"} => copies = 0
        /\ main' = "exit" => \A p \in Packets : in_flight[p] = 0
    BY <1>7, <1>8
  <2> QED BY <1>1, <1>3, <2>1 DEF InTurn, thread
<1> QED BY <1>4, <1>5, <1>6, <1>8

LEMMA OrderStep ==
  ASSUME ImpairTypes, Queued, InTurn, StraightPacketsInOrder, [ImpairNext]_vars
  PROVE  StraightPacketsInOrder'
<1>1. held \subseteq held'
  <2>1. Forward => held \subseteq held'  BY ForwardEffect
  <2>2. ~Forward => held' = held
    BY NextCases, QuietSteps DEF SenderSends, Receive, Lose, SendInline, ThreadSends, Quiet, vars
  <2> QED BY <2>1, <2>2
<1>2. CASE wire' = wire  BY <1>1, <1>2 DEF StraightPacketsInOrder
<1>3. ASSUME NEW q \in Packets, wire' = Append(wire, q),
             q \in held \/ \A k \in 1 .. Len(wire) : wire[k] <= q
      PROVE  StraightPacketsInOrder'
  <2>1. SUFFICES ASSUME NEW j \in 1 .. Len(wire'), NEW k \in 1 .. Len(wire'),
                        j < k, {wire'[j], wire'[k]} \cap held' = {}
                 PROVE  wire'[j] <= wire'[k]
    BY DEF StraightPacketsInOrder
  <2>2. Len(wire) \in Nat /\ Len(wire') = Len(wire) + 1  BY <1>3, WireAppended
  <2>3. j \in 1 .. Len(wire)  BY <2>1, <2>2
  <2>4. wire'[j] = wire[j]  BY <1>3, <2>3, WireAppended
  <2>5. CASE k \in 1 .. Len(wire)
    <3>1. wire'[k] = wire[k]  BY <1>3, <2>5, WireAppended
    <3>2. {wire[j], wire[k]} \cap held = {}  BY <1>1, <2>1, <2>4, <3>1
    <3> QED BY <2>1, <2>3, <2>4, <2>5, <3>1, <3>2 DEF StraightPacketsInOrder
  <2>6. CASE k = Len(wire) + 1
    <3>1. wire'[k] = q  BY <1>3, <2>6, WireAppended
    <3>2. q \notin held  BY <1>1, <2>1, <3>1
    <3> QED BY <1>3, <2>3, <2>4, <3>1, <3>2
  <2> QED BY <2>2, <2>5, <2>6
<1>4. CASE SendInline
  <2>1. packet \in Packets /\ wire' = Append(wire, packet)  BY <1>4 DEF SendInline, StillToSend, Queued, ImpairTypes, Packets
  <2>2. main # "decide"  BY <1>4 DEF SendInline
  <2>3. Decided = packet  BY <2>2, DecidedGrows
  <2>4. \A k \in 1 .. Len(wire) : wire[k] <= packet  BY <2>3 DEF InTurn
  <2> QED BY <1>3, <2>1, <2>4
<1>5. ASSUME NEW p \in Packets, ThreadSends(p)  PROVE StraightPacketsInOrder'
  <2>1. p \in held /\ wire' = Append(wire, p)  BY <1>5, ThreadOwes DEF ThreadSends
  <2> QED BY <1>3, <2>1
<1> QED BY <1>2, <1>4, <1>5, WireSteps
-----------------------------------------------------------------------------
(* The books. *)

\* No step but Forward changes how many copies of a packet there are.
LEMMA CopiesStep ==
  ASSUME ImpairTypes, Queued, InTurn, [ImpairNext]_vars, NEW p \in Packets
  PROVE  /\ Copies(p) \in Nat /\ Copies(p)' \in Nat
         /\ ~(Forward /\ p = packet) => Copies(p)' = Copies(p)
         /\ Forward /\ p = packet => Copies(p) = 0 /\ Copies(p)' \in 1 .. 2
<1> DEFINE c == CopiesIn(wire, p)
           d == CopiesIn(wire', p)
           f == in_flight[p]
           g == in_flight'[p]
           h == InHand(p)
           i == InHand(p)'
<1>1. wire \in Seq(Packets) /\ wire' \in Seq(Packets)  BY TypesStep DEF ImpairTypes
<1>2. c \in Nat /\ d \in Nat  BY <1>1, CopiesInNat
<1>3. f \in 0 .. 2 /\ g \in 0 .. 2  BY TypesStep DEF ImpairTypes
<1>4. h \in 0 .. 2 /\ i \in 0 .. 2
  <2>1. copies \in 0 .. 2 /\ copies' \in 0 .. 2  BY TypesStep DEF ImpairTypes
  <2> QED BY <2>1 DEF InHand
<1>5. Copies(p) = c + f + h /\ Copies(p)' = d + g + i  BY DEF Copies
<1>6. /\ p = packet => h = copies
      /\ p # packet => h = 0
      /\ p = packet' => i = copies'
      /\ p # packet' => i = 0
  BY DEF InHand
<1> HIDE DEF c, d, f, g, h, i
<1>7. Copies(p) \in Nat /\ Copies(p)' \in Nat  BY <1>2, <1>3, <1>4, <1>5
<1>8. CASE Forward
  <2>1. PICK n \in 1 .. 2 :
          \/ in_flight' = [in_flight EXCEPT ![packet] = n] /\ copies' = copies
          \/ copies' = n /\ in_flight' = in_flight
    BY <1>8, ForwardEffect
  <2>2. main = "decide" /\ wire' = wire /\ packet' = packet  BY <1>8, ForwardEffect
  <2>3. copies = 0  BY <2>2 DEF InTurn
  <2>4. d = c  BY <2>2 DEF c, d
  <2>5. CASE p # packet
    <3>1. g = f  BY <2>1, <2>5 DEF f, g, ImpairTypes
    <3>2. h = 0 /\ i = 0  BY <1>6, <2>2, <2>5
    <3>3. Copies(p)' = Copies(p)  BY <1>5, <2>4, <3>1, <3>2
    <3> QED BY <1>7, <2>5, <3>3
  <2>6. CASE p = packet
    <3>1. Decided = packet - 1 /\ packet \in Int  BY <1>8, DecidedGrows
    <3>2. ASSUME NEW k \in 1 .. Len(wire)  PROVE wire[k] # p
      <4>1. wire[k] <= packet - 1  BY <3>1 DEF InTurn
      <4>3. wire[k] \in Packets  BY <1>1
      <4>2. wire[k] \in Int  BY <4>3 DEF Packets
      <4> QED BY <2>6, <3>1, <4>1, <4>2
    <3>3. c = 0  BY <1>1, <3>2, NotOnWire DEF c
    <3>4. f = 0
      <4>1. f > 0 => p \in held  BY DEF InTurn, f
      <4>2. p \in held => p <= packet - 1  BY <3>1 DEF InTurn
      <4>3. ~(p <= packet - 1)  BY <2>6, <3>1
      <4> QED BY <1>3, <4>1, <4>2, <4>3
    <3>5. h = 0  BY <1>6, <2>3, <2>6
    <3>6. Copies(p) = 0  BY <1>5, <3>3, <3>4, <3>5
    <3>7. p = packet'  BY <2>2, <2>6
    <3>8. (g = n /\ i = 0) \/ (i = n /\ g = 0)
      <4>1. CASE in_flight' = [in_flight EXCEPT ![packet] = n] /\ copies' = copies
        <5>1. g = n  BY <2>6, <4>1 DEF g, ImpairTypes
        <5>2. i = 0  BY <1>6, <2>3, <3>7, <4>1
        <5> QED BY <5>1, <5>2
      <4>2. CASE copies' = n /\ in_flight' = in_flight
        <5>1. g = 0  BY <3>4, <4>2 DEF f, g
        <5>2. i = n  BY <1>6, <3>7, <4>2
        <5> QED BY <5>1, <5>2
      <4> QED BY <2>1, <4>1, <4>2
    <3>9. Copies(p)' = n
      <4>1. d = 0  BY <2>4, <3>3
      <4> QED BY <1>5, <2>1, <3>8, <4>1
    <3> QED BY <1>7, <1>8, <2>1, <2>6, <3>6, <3>9
  <2> QED BY <2>5, <2>6
<1>9. CASE SendInline
  <2>1. /\ packet \in Packets /\ wire' = Append(wire, packet) /\ copies' = copies - 1
        /\ packet' = packet /\ in_flight' = in_flight
    BY <1>9 DEF SendInline, StillToSend, Queued, ImpairTypes, Packets, thread
  <2>2. d = c + IF p = packet THEN 1 ELSE 0  BY <1>1, <2>1, CopiesInAppend DEF c, d
  <2>3. g = f  BY <2>1 DEF f, g
  <2>4. CASE p = packet
    <3>1. d = c + 1  BY <2>2, <2>4
    <3>2. h = copies /\ i = copies - 1  BY <1>6, <2>1, <2>4
    <3>3. i = h - 1  BY <3>2
    <3> QED BY <1>2, <1>3, <1>4, <1>5, <1>7, <2>3, <3>1, <3>3, <1>9 DEF Forward, SendInline
  <2>5. CASE p # packet
    <3>1. d = c  BY <1>2, <2>2, <2>5
    <3>2. h = 0 /\ i = 0  BY <1>6, <2>1, <2>5
    <3>3. Copies(p)' = Copies(p)  BY <1>5, <2>3, <3>1, <3>2
    <3> QED BY <1>7, <2>5, <3>3
  <2> QED BY <2>4, <2>5
<1>10. ASSUME NEW q \in Packets, ThreadSends(q)  PROVE Copies(p)' = Copies(p)
  <2>1. /\ in_flight' = [in_flight EXCEPT ![q] = in_flight[q] - 1]
        /\ packet' = packet /\ copies' = copies /\ wire' = Append(wire, q)
    BY <1>10, ThreadOwes DEF ThreadSends
  <2>2. d = c + IF p = q THEN 1 ELSE 0  BY <1>1, <2>1, CopiesInAppend DEF c, d
  <2>3. i = h  BY <1>6, <2>1
  <2>4. CASE p = q
    <3>1. d = c + 1  BY <2>2, <2>4
    <3>2. g = f - 1  BY <2>1, <2>4 DEF f, g, ImpairTypes
    <3> QED BY <1>2, <1>3, <1>4, <1>5, <2>3, <3>1, <3>2
  <2>5. CASE p # q
    <3>1. d = c  BY <1>2, <2>2, <2>5
    <3>2. g = f  BY <2>1, <2>5 DEF f, g, ImpairTypes
    <3> QED BY <1>5, <2>3, <3>1, <3>2
  <2> QED BY <2>4, <2>5
<1>11. CASE Receive
  <2>1. wire' = wire /\ in_flight' = in_flight /\ copies' = copies /\ main = "receive"
    BY <1>11 DEF Receive, thread
  <2>2. copies = 0  BY <2>1 DEF InTurn
  <2>3. h = 0 /\ i = 0  BY <1>6, <2>1, <2>2
  <2>4. d = c /\ g = f  BY <2>1 DEF c, d, f, g
  <2>5. Copies(p)' = Copies(p)  BY <1>5, <2>3, <2>4
  <2>6. ~Forward  BY <2>1 DEF Forward
  <2> QED BY <1>7, <2>5, <2>6
<1>12. ASSUME ~Receive, ~Forward, ~SendInline, \A q \in Packets : ~ThreadSends(q)
       PROVE  Copies(p)' = Copies(p)
  <2>1. UNCHANGED <<wire, in_flight, packet, copies>>
    BY <1>12, NextCases, QuietSteps DEF SenderSends, Lose, Quiet, vars, thread
  <2> QED BY <1>5, <1>6, <2>1 DEF c, d, f, g
<1>13. CASE ~Receive /\ ~Forward /\ ~SendInline
  <2>1. Copies(p)' = Copies(p)  BY <1>10, <1>12, <1>13
  <2> QED BY <1>7, <1>13, <2>1
<1> QED BY <1>8, <1>9, <1>11, <1>13

LEMMA OwedStep ==
  ASSUME ImpairTypes, Queued, InTurn, [ImpairNext]_vars
  PROVE  /\ IsFiniteSet(Owed) /\ Cardinality(Owed) \in Nat
         /\ \A p \in Packets : ThreadSends(p) => Cardinality(Owed') = Cardinality(Owed) - 1
         /\ ~Forward /\ (\A p \in Packets : ~ThreadSends(p)) => Owed' = Owed
         /\ Forward => \E n \in 1 .. 2 :
              /\ tally'["forwarded"] = tally["forwarded"] + n
              /\ tally'["duplicated"] = tally["duplicated"] + (n - 1)
              /\ \/ Cardinality(Owed') = Cardinality(Owed) + n /\ copies' = copies
                 \/ Owed' = Owed /\ copies' = n
<1>0. IsFiniteSet(Owed) /\ Cardinality(Owed) \in Nat  BY OwedFinite
<1>1. Owed' = {e \in Packets \X (1 .. 2) : e[2] <= in_flight'[e[1]]}
      /\ Owed = {e \in Packets \X (1 .. 2) : e[2] <= in_flight[e[1]]}
      /\ (in_flight' = in_flight => Owed' = Owed)
  BY DEF Owed
<1>2. in_flight \in [Packets -> 0 .. 2]  BY DEF ImpairTypes
<1>3. ASSUME NEW p \in Packets, ThreadSends(p)
      PROVE  Cardinality(Owed') = Cardinality(Owed) - 1
  <2> DEFINE m == in_flight[p]
  <2>1. m \in 1 .. 2 /\ in_flight' = [in_flight EXCEPT ![p] = m - 1]
    BY <1>3, ThreadOwes
  <2>2. <<p, m>> \in Owed  BY <1>1, <2>1
  <2>3. in_flight'[p] = m - 1 /\ \A q \in Packets : q # p => in_flight'[q] = in_flight[q]
    BY <1>2, <2>1
  <2>4. ASSUME NEW q \in Packets, NEW n \in 1 .. 2
        PROVE  n <= in_flight'[q] <=> n <= in_flight[q] /\ <<q, n>> # <<p, m>>
    <3>1. CASE q = p  BY <2>1, <2>3, <3>1
    <3>2. CASE q # p  BY <2>3, <3>2
    <3> QED BY <3>1, <3>2
  <2>5. Owed' = Owed \ {<<p, m>>}  BY <1>1, <2>4
  <2> HIDE DEF m
  <2>6. Cardinality(Owed') = Cardinality(Owed) - 1
    BY <1>0, <2>2, <2>5, FS_RemoveElement
  <2> QED BY <2>6
<1>4. ASSUME ~Forward, \A p \in Packets : ~ThreadSends(p)  PROVE in_flight' = in_flight
  BY <1>4, NextCases, QuietSteps
     DEF SenderSends, Receive, Lose, SendInline, Quiet, vars, thread
<1>5. ASSUME Forward
      PROVE  \E n \in 1 .. 2 :
               /\ tally'["forwarded"] = tally["forwarded"] + n
               /\ tally'["duplicated"] = tally["duplicated"] + (n - 1)
               /\ \/ Cardinality(Owed') = Cardinality(Owed) + n /\ copies' = copies
                  \/ Owed' = Owed /\ copies' = n
  <2>1. PICK n \in 1 .. 2 :
          /\ tally'["forwarded"] = tally["forwarded"] + n
          /\ tally'["duplicated"] = tally["duplicated"] + (n - 1)
          /\ \/ in_flight' = [in_flight EXCEPT ![packet] = n] /\ copies' = copies
             \/ copies' = n /\ in_flight' = in_flight
    BY <1>5, ForwardEffect
  <2>2. main = "decide"  BY <1>5, ForwardEffect
  <2>3. packet \in Packets  BY <2>2 DEF Queued, ImpairTypes, Packets
  <2>4. Decided = packet - 1 /\ packet \in Int  BY <1>5, DecidedGrows
  <2>5. in_flight[packet] = 0
    <3>1. in_flight[packet] > 0 => packet \in held  BY <2>3 DEF InTurn
    <3>2. packet \in held => packet <= packet - 1  BY <2>4 DEF InTurn
    <3>3. ~(packet <= packet - 1)  BY <2>4
    <3>4. in_flight[packet] \in 0 .. 2  BY <1>2, <2>3
    <3> QED BY <3>1, <3>2, <3>3, <3>4
  <2>6. CASE in_flight' = [in_flight EXCEPT ![packet] = n] /\ copies' = copies
    <3> DEFINE one == <<packet, 1>>
               two == <<packet, 2>>
    <3>1. in_flight'[packet] = n /\ \A q \in Packets : q # packet => in_flight'[q] = in_flight[q]
      BY <1>2, <2>3, <2>6
    <3>2. \A q \in Packets, i \in 1 .. 2 :
            i <= in_flight'[q] <=> i <= in_flight[q] \/ (q = packet /\ i <= n)
      <4> TAKE q \in Packets, i \in 1 .. 2
      <4>1. CASE q = packet  BY <2>1, <2>5, <3>1, <4>1
      <4>2. CASE q # packet  BY <3>1, <4>2
      <4> QED BY <4>1, <4>2
    <3>3. Owed' = Owed \cup {e \in Packets \X (1 .. 2) : e[1] = packet /\ e[2] <= n}
      BY <1>1, <3>2
    <3>4. one \notin Owed /\ two \notin Owed /\ one # two  BY <1>1, <2>5
    <3>5. CASE n = 1
      <4>1. {e \in Packets \X (1 .. 2) : e[1] = packet /\ e[2] <= 1} = {one}
        BY <2>3
      <4>2. Owed' = Owed \cup {one}  BY <3>3, <3>5, <4>1
      <4> HIDE DEF one
      <4>3. Cardinality(Owed') = Cardinality(Owed) + 1  BY <1>0, <3>4, <4>2, FS_AddElement
      <4> QED BY <2>1, <2>6, <3>5, <4>3
    <3>6. CASE n = 2
      <4>1. {e \in Packets \X (1 .. 2) : e[1] = packet /\ e[2] <= 2} = {one, two}
        BY <2>3
      <4> DEFINE more == Owed \cup {one}
      <4>2. Owed' = more \cup {two}  BY <3>3, <3>6, <4>1
      <4> HIDE DEF one, two
      <4>3. IsFiniteSet(more) /\ Cardinality(more) = Cardinality(Owed) + 1
        BY <1>0, <3>4, FS_AddElement
      <4>4. two \notin more  BY <3>4
      <4>5. Cardinality(Owed') = Cardinality(more) + 1
        BY <4>2, <4>3, <4>4, FS_AddElement
      <4>6. Cardinality(Owed') = Cardinality(Owed) + 2  BY <1>0, <4>3, <4>5
      <4> QED BY <2>1, <2>6, <3>6, <4>6
    <3>7. n = 1 \/ n = 2  BY <2>1
    <3> QED BY <3>5, <3>6, <3>7
  <2>7. CASE copies' = n /\ in_flight' = in_flight  BY <1>1, <2>1, <2>7
  <2> QED BY <2>1, <2>6, <2>7
<1> QED BY <1>0, <1>1, <1>3, <1>4, <1>5

\* How the counters move, but for Forward.
LEMMA TallySteps ==
  ASSUME ImpairTypes, Queued, InTurn, [ImpairNext]_vars
  PROVE  /\ Receive => /\ tally' = [tally EXCEPT !["received"] = @ + 1]
                       /\ packet' = packet + 1
         /\ Lose => tally' = [tally EXCEPT !["dropped"] = @ + 1] /\ packet' = packet
         /\ ~Receive /\ ~Lose /\ ~Forward => tally' = tally /\ packet' = packet
<1>1. ASSUME Receive
      PROVE  tally' = [tally EXCEPT !["received"] = @ + 1] /\ packet' = packet + 1
  <2>1. /\ inbox # <<>> /\ packet' = Head(inbox) /\ inbox \in Seq(Packets)
        /\ tally' = [tally EXCEPT !["received"] = @ + 1]
    BY <1>1 DEF Receive, ImpairTypes
  <2>2. Len(inbox) >= 1 /\ packet' = inbox[1]  BY <2>1
  <2>3. inbox[1] = packet + 1  BY <2>1, <2>2 DEF Queued
  <2> QED BY <2>1, <2>2, <2>3
<1>2. Lose => tally' = [tally EXCEPT !["dropped"] = @ + 1] /\ packet' = packet
  BY DEF Lose
<1>3. ~Receive /\ ~Lose /\ ~Forward => tally' = tally /\ packet' = packet
  BY NextCases, QuietSteps DEF SenderSends, SendInline, ThreadSends, Quiet, vars
<1> QED BY <1>1, <1>2, <1>3

LEMMA LedgerStep ==
  ASSUME ImpairTypes, Queued, InTurn, Ledger, [ImpairNext]_vars
  PROVE  Ledger'
<1> DEFINE w == Len(wire)
           v == Len(wire')
           o == Cardinality(Owed)
           u == Cardinality(Owed')
           f == tally["forwarded"]
           g == tally'["forwarded"]
<1>1. /\ w \in Nat /\ o \in Nat /\ f \in Nat /\ copies \in 0 .. 2
      /\ w + copies + o = f /\ tally["received"] = packet /\ packet \in Nat
  BY OwedStep DEF ImpairTypes, Ledger, Counted
<1>2. tally \in [Counted -> Nat]  BY DEF ImpairTypes
<1> HIDE DEF w, v, o, u, f, g
<1>3. ~Forward => g = f
  <2>1. CASE Receive  BY <1>2, <2>1, TallySteps DEF f, g, Counted
  <2>2. CASE Lose  BY <1>2, <2>2, TallySteps DEF f, g, Counted
  <2>3. CASE ~Receive /\ ~Lose /\ ~Forward  BY <2>3, TallySteps DEF f, g
  <2> QED BY <2>1, <2>2, <2>3
<1>4. v + copies' + u = g
  <2>1. CASE Forward
    <3>1. PICK n \in 1 .. 2 :
            /\ g = f + n
            /\ \/ u = o + n /\ copies' = copies
               \/ u = o /\ copies' = n
      BY <2>1, OwedStep DEF f, g, o, u
    <3>2. main = "decide" /\ wire' = wire  BY <2>1, ForwardEffect
    <3>3. copies = 0 /\ v = w  BY <3>2 DEF InTurn, v, w
    <3> QED BY <1>1, <3>1, <3>3
  <2>2. CASE SendInline
    <3>1. packet \in Packets /\ wire' = Append(wire, packet) /\ copies' = copies - 1
      BY <2>2 DEF SendInline, StillToSend, Queued, ImpairTypes, Packets
    <3>2. v = w + 1  BY <3>1, WireAppended DEF v, w
    <3>3. ~Forward /\ \A p \in Packets : ~ThreadSends(p)
      <4>1. copies' # copies  BY <1>1, <3>1
      <4>2. main = "send"  BY <2>2 DEF SendInline
      <4> QED BY <4>1, <4>2 DEF Forward, ThreadSends
    <3>4. u = o  BY <3>3, OwedStep DEF u, o
    <3>5. copies' = copies - 1 /\ g = f  BY <1>3, <3>1, <3>3
    <3> QED BY <1>1, <3>2, <3>4, <3>5
  <2>3. CASE \E p \in Packets : ThreadSends(p)
    <3>1. PICK p \in Packets : ThreadSends(p)  BY <2>3
    <3>2. wire' = Append(wire, p) /\ copies' = copies /\ tally' = tally
      BY <3>1 DEF ThreadSends
    <3>3. v = w + 1  BY <3>2, WireAppended DEF v, w
    <3>4. u = o - 1  BY <3>1, OwedStep DEF u, o
    <3>5. g = f  BY <3>2 DEF f, g
    <3> QED BY <1>1, <3>2, <3>3, <3>4, <3>5
  <2>4. CASE ~Forward /\ ~SendInline /\ \A p \in Packets : ~ThreadSends(p)
    <3>1. UNCHANGED <<wire, copies>>
      BY <2>4, NextCases, QuietSteps DEF SenderSends, Receive, Lose, Quiet, vars
    <3>2. v = w /\ copies' = copies  BY <3>1 DEF v, w
    <3>3. u = o  BY <2>4, OwedStep DEF u, o
    <3>4. g = f  BY <2>4, <1>3
    <3> QED BY <1>1, <3>2, <3>3, <3>4
  <2> QED BY <2>1, <2>2, <2>3, <2>4
<1>5. tally'["received"] = packet'
  <2>1. CASE Receive
    <3>1. tally'["received"] = tally["received"] + 1 /\ packet' = packet + 1
      BY <1>2, <2>1, TallySteps DEF Counted
    <3> QED BY <1>1, <3>1
  <2>2. CASE Lose
    <3>1. tally'["received"] = tally["received"] /\ packet' = packet
      BY <1>2, <2>2, TallySteps DEF Counted
    <3> QED BY <1>1, <3>1
  <2>3. CASE Forward
    <3>1. tally'["received"] = tally["received"] /\ packet' = packet
      BY <2>3, ForwardEffect
    <3> QED BY <1>1, <3>1
  <2>4. CASE ~Receive /\ ~Lose /\ ~Forward  BY <1>1, <2>4, TallySteps
  <2> QED BY <2>1, <2>2, <2>3, <2>4
<1>6. \A p \in Packets : Copies(p)' <= 2
  <2> TAKE p \in Packets
  <2>1. Copies(p) <= 2  BY DEF Ledger
  <2>2. CASE Forward /\ p = packet
    <3>1. Copies(p)' \in 1 .. 2  BY <2>2, CopiesStep
    <3> QED BY <3>1
  <2>3. CASE ~(Forward /\ p = packet)
    <3>1. Copies(p)' = Copies(p)  BY <2>3, CopiesStep
    <3> QED BY <2>1, <3>1
  <2> QED BY <2>2, <2>3
<1> QED BY <1>4, <1>5, <1>6 DEF Ledger, v, u, g

LEMMA AbsentStep ==
  ASSUME ImpairTypes, Queued, InTurn, [ImpairNext]_vars
  PROVE  /\ IsFiniteSet(Absent) /\ Cardinality(Absent) \in Nat
         /\ ~Forward => Absent' = Absent
         /\ Forward => Cardinality(Absent') = Cardinality(Absent) - 1
<1>0. IsFiniteSet(Absent) /\ Cardinality(Absent) \in Nat  BY AbsentFinite
<1>1. /\ Absent = {p \in Packets : Copies(p) = 0}
      /\ Absent' = {p \in Packets : Copies(p)' = 0}
  BY DEF Absent
<1>2. ASSUME ~Forward  PROVE Absent' = Absent
  <2>1. \A p \in Packets : Copies(p)' = Copies(p)  BY <1>2, CopiesStep
  <2> QED BY <1>1, <2>1
<1>3. ASSUME Forward  PROVE Cardinality(Absent') = Cardinality(Absent) - 1
  <2>1. main = "decide"  BY <1>3, ForwardEffect
  <2>2. packet \in Packets  BY <2>1 DEF Queued, ImpairTypes, Packets
  <2>3. Copies(packet) = 0 /\ Copies(packet)' \in 1 .. 2
    <3>1. \A p \in Packets : p = packet => Copies(p) = 0 /\ Copies(p)' \in 1 .. 2
      BY <1>3, CopiesStep
    <3>2. packet' = packet  BY <1>3, ForwardEffect
    <3> QED BY <2>2, <3>1, <3>2
  <2>4. \A p \in Packets : p # packet => Copies(p)' = Copies(p)  BY CopiesStep
  <2>5. packet \in Absent  BY <1>1, <2>2, <2>3
  <2>6. Absent' = Absent \ {packet}
    <3>1. \A p \in Packets : p = packet => Copies(p)' # 0
      <4>1. \A p \in Packets : p = packet => Copies(p)' \in 1 .. 2  BY <1>3, CopiesStep
      <4> QED BY <4>1
    <3> QED BY <1>1, <2>4, <3>1
  <2> QED BY <1>0, <2>5, <2>6, FS_RemoveElement
<1> QED BY <1>0, <1>2, <1>3

LEMMA BalanceStep ==
  ASSUME ImpairTypes, Queued, InTurn, Ledger, Balance, [ImpairNext]_vars
  PROVE  Balance'
<1> DEFINE f == tally["forwarded"]
           d == tally["dropped"]
           r == tally["received"]
           c == tally["duplicated"]
           g == Pending
           a == Cardinality(Absent)
           f1 == tally'["forwarded"]
           d1 == tally'["dropped"]
           r1 == tally'["received"]
           c1 == tally'["duplicated"]
           g1 == Pending'
           a1 == Cardinality(Absent')
           Even == f + d + g = r + c /\ a = d + g + (MaxPackets - packet)
           Even1 == f1 + d1 + g1 = r1 + c1 /\ a1 = d1 + g1 + (MaxPackets - packet')
<1> SUFFICES ASSUME main' \notin {"error", "terminated"}  PROVE Even1
  BY DEF Balance
<1>1. main \notin {"error", "terminated"} => Even  BY DEF Balance
<1>2. tally \in [Counted -> Nat]  BY DEF ImpairTypes
<1>3. /\ f \in Nat /\ d \in Nat /\ r \in Nat /\ c \in Nat /\ a \in Nat
      /\ MaxPackets \in Nat /\ packet \in Nat
  BY <1>2, AbsentStep, FinitePackets DEF ImpairTypes, Counted
<1>4. g \in Nat /\ g1 \in Nat
      /\ (main = "decide" => g = 1) /\ (main # "decide" => g = 0)
      /\ (main' = "decide" => g1 = 1) /\ (main' # "decide" => g1 = 0)
  BY PendingValue, PendingNext
<1> HIDE DEF f, d, r, c, g, a, f1, d1, r1, c1, g1, a1
<1>5. CASE Receive
  <2>1. /\ f1 = f /\ d1 = d /\ c1 = c /\ r1 = r + 1 /\ packet' = packet + 1
    BY <1>2, <1>5, TallySteps DEF f, d, r, c, f1, d1, r1, c1, Counted
  <2>2. main = "receive" /\ main' = "decide"  BY <1>5 DEF Receive
  <2>3. g = 0 /\ g1 = 1  BY <1>4, <2>2
  <2>4. ~Forward  BY <2>2 DEF Forward
  <2>5. a1 = a  BY <2>4, AbsentStep DEF a, a1
  <2>6. Even  BY <1>1, <2>2
  <2> QED BY <1>3, <2>1, <2>3, <2>5, <2>6
<1>6. CASE Lose
  <2>1. f1 = f /\ d1 = d + 1 /\ c1 = c /\ r1 = r /\ packet' = packet
    BY <1>2, <1>6, TallySteps DEF f, d, r, c, f1, d1, r1, c1, Counted
  <2>2. main = "decide" /\ main' = "receive"  BY <1>6 DEF Lose
  <2>3. g = 1 /\ g1 = 0  BY <1>4, <2>2
  <2>4. CASE ~Forward
    <3>1. a1 = a  BY <2>4, AbsentStep DEF a, a1
    <3>2. Even  BY <1>1, <2>2
    <3> QED BY <1>3, <2>1, <2>3, <3>1, <3>2
  <2>5. CASE Forward
    <3>1. PICK n \in 1 .. 2 : tally'["forwarded"] = tally["forwarded"] + n
      BY <2>5, ForwardEffect
    <3>2. f1 = f + n  BY <3>1 DEF f, f1
    <3> QED BY <1>3, <2>1, <3>1, <3>2
  <2> QED BY <2>4, <2>5
<1>7. CASE Forward
  <2>1. PICK n \in 1 .. 2 :
          /\ tally'["forwarded"] = tally["forwarded"] + n
          /\ tally'["duplicated"] = tally["duplicated"] + (n - 1)
          /\ tally'["received"] = tally["received"]
          /\ tally'["dropped"] = tally["dropped"]
    BY <1>7, ForwardEffect
  <2>2. f1 = f + n /\ c1 = c + (n - 1) /\ r1 = r /\ d1 = d
    BY <2>1 DEF f, d, r, c, f1, d1, r1, c1
  <2>3. main = "decide" /\ main' # "decide" /\ packet' = packet  BY <1>7, ForwardEffect
  <2>4. g = 1 /\ g1 = 0  BY <1>4, <2>3
  <2>5. a1 = a - 1  BY <1>7, AbsentStep DEF a, a1
  <2>6. Even  BY <1>1, <2>3
  <2>7. packet' = packet  BY <2>3
  <2> QED BY <1>3, <2>1, <2>2, <2>4, <2>5, <2>6, <2>7
<1>8. CASE ~Receive /\ ~Lose /\ ~Forward
  <2>1. tally' = tally /\ packet' = packet  BY <1>8, TallySteps
  <2>2. f1 = f /\ d1 = d /\ c1 = c /\ r1 = r
    BY <2>1 DEF f, d, r, c, f1, d1, r1, c1
  <2>3. a1 = a  BY <1>8, AbsentStep DEF a, a1
  <2>4. /\ main \notin {"error", "terminated"}
        /\ main' = "decide" <=> main = "decide"
    BY <1>8, NextCases, QuietSteps DEF SenderSends, SendInline, ThreadSends, Running, vars
  <2>5. Even  BY <1>1, <2>4
  <2>6. g1 = g  BY <1>4, <2>4
  <2>7. packet' = packet  BY <2>1
  <2> QED BY <2>2, <2>3, <2>5, <2>6, <2>7
<1> QED BY <1>5, <1>6, <1>7, <1>8
-----------------------------------------------------------------------------
(* The invariant. *)

LEMMA ImpairInvInit == ImpairInit => ImpairInv
<1> SUFFICES ASSUME ImpairInit  PROVE ImpairInv
  OBVIOUS
<1>0. MaxPackets \in Nat /\ IsFiniteSet(Packets) /\ Cardinality(Packets) = MaxPackets
  BY FinitePackets
<1>1. /\ inbox = <<>> /\ arrivals = 0 /\ main = "receive" /\ packet = 0 /\ copies = 0
      /\ in_flight = [p \in Packets |-> 0] /\ spawned = {}
      /\ tally = [c \in Counted |-> 0] /\ wire = <<>> /\ held = {}
  BY DEF ImpairInit
<1>2. inbox \in Seq(Packets) /\ Len(inbox) = 0 /\ wire \in Seq(Packets) /\ Len(wire) = 0
  BY <1>1
<1>3. arrivals \in 0 .. MaxPackets /\ packet \in 0 .. MaxPackets  BY <1>0, <1>1
<1>4. tally \in [Counted -> Nat] /\ in_flight \in [Packets -> 0 .. 2]  BY <1>1
<1>5. ImpairTypes  BY <1>1, <1>2, <1>3, <1>4 DEF ImpairTypes
<1>6. Queued /\ InTurn /\ StraightPacketsInOrder
  <2>1. \A k : ~(k \in 1 .. 0)  OBVIOUS
  <2>2. Queued  BY <1>1, <1>2, <2>1 DEF Queued
  <2>3. InTurn  BY <1>1, <1>2, <2>1 DEF InTurn
  <2>4. StraightPacketsInOrder  BY <1>2, <2>1 DEF StraightPacketsInOrder
  <2> QED BY <2>2, <2>3, <2>4
<1>7. Pending = 0  BY <1>1, PendingValue
<1>8. \A p \in Packets : Copies(p) = 0
  <2> TAKE p \in Packets
  <2>1. CopiesIn(wire, p) = 0
    <3>1. \A k \in 1 .. Len(wire) : wire[k] # p  BY <1>2
    <3> QED BY <1>2, <3>1, NotOnWire
  <2>2. in_flight[p] = 0 /\ InHand(p) = 0  BY <1>1 DEF InHand
  <2> QED BY <2>1, <2>2 DEF Copies
<1>9. Absent = Packets  BY <1>8 DEF Absent
<1>10. Owed = {}
  <2>1. \A e \in Packets \X (1 .. 2) : ~(e[2] <= in_flight[e[1]])  BY <1>1
  <2> QED BY <2>1 DEF Owed
<1>11. Cardinality(Owed) = 0  BY <1>10, FS_EmptySet
<1>12. /\ tally["forwarded"] = 0 /\ tally["received"] = 0 /\ tally["dropped"] = 0
       /\ tally["duplicated"] = 0
  BY <1>1 DEF Counted
<1>13. Ledger  BY <1>1, <1>2, <1>8, <1>11, <1>12 DEF Ledger
<1>14. Cardinality(Absent) = 0 + 0 + (MaxPackets - 0)  BY <1>0, <1>9
<1>15. Balance  BY <1>1, <1>7, <1>12, <1>14 DEF Balance
<1> QED BY <1>5, <1>6, <1>13, <1>15 DEF ImpairInv

LEMMA ImpairInvariance == ImpairSpec => []ImpairInv
<1>1. ImpairInv /\ [ImpairNext]_vars => ImpairInv'
  <2> SUFFICES ASSUME ImpairInv, [ImpairNext]_vars  PROVE ImpairInv'
    OBVIOUS
  <2>1. ImpairTypes /\ Queued /\ InTurn /\ StraightPacketsInOrder /\ Ledger /\ Balance
    BY DEF ImpairInv
  <2> QED BY <2>1, TypesStep, QueuedStep, InTurnStep, OrderStep, LedgerStep, BalanceStep
          DEF ImpairInv
<1> QED BY <1>1, ImpairInvInit, PTL DEF ImpairSpec
-----------------------------------------------------------------------------
(* What follows. *)

\* Packets that were not to be delayed leave in the order they came, whatever the
\* knobs, and however the threads of the others run.
THEOREM StraightCorrect == ImpairSpec => []StraightPacketsInOrder
<1>1. ImpairInv => StraightPacketsInOrder  BY DEF ImpairInv
<1> QED BY <1>1, ImpairInvariance, PTL

LEMMA InvGivesSent == ImpairInv => ForwardedIsSent
<1> SUFFICES ASSUME ImpairInv, main = "exit"  PROVE ForwardedIsSent
  BY DEF ForwardedIsSent
<1>1. /\ wire \in Seq(Packets) /\ packet \in Nat /\ MaxPackets \in Nat
      /\ tally \in [Counted -> Nat]
  BY FinitePackets DEF ImpairInv, ImpairTypes
<1>2. copies = 0 /\ \A p \in Packets : in_flight[p] = 0  BY DEF ImpairInv, InTurn
<1>3. Pending = 0  BY PendingValue
<1>4. \A p \in Packets : Copies(p) = CopiesOnWire(p)
  <2> TAKE p \in Packets
  <2>1. CopiesIn(wire, p) \in Nat /\ CopiesIn(wire, p) = CopiesOnWire(p)
    BY <1>1, CopiesInNat DEF CopiesIn, CopiesOnWire
  <2>2. in_flight[p] = 0 /\ InHand(p) = 0  BY <1>2 DEF InHand
  <2>3. Copies(p) = CopiesIn(wire, p)  BY <2>1, <2>2 DEF Copies
  <2> QED BY <2>1, <2>3
<1>5. Cardinality(Owed) = 0
  <2>1. \A e \in Packets \X (1 .. 2) : ~(e[2] <= in_flight[e[1]])  BY <1>2
  <2>2. Owed = {}  BY <2>1 DEF Owed
  <2> QED BY <2>2, FS_EmptySet
<1> DEFINE f == tally["forwarded"]
           d == tally["dropped"]
           r == tally["received"]
           c == tally["duplicated"]
           l == Len(wire)
           a == Cardinality({p \in Packets : CopiesOnWire(p) = 0})
<1>6. f \in Nat /\ d \in Nat /\ r \in Nat /\ c \in Nat /\ l \in Nat  BY <1>1 DEF Counted
<1>7. l + 0 + 0 = f /\ r = packet /\ \A p \in Packets : CopiesOnWire(p) <= 2
  BY <1>2, <1>4, <1>5 DEF ImpairInv, Ledger
<1>8. Absent = {p \in Packets : CopiesOnWire(p) = 0}  BY <1>4 DEF Absent
<1>9. f + d + 0 = r + c /\ a = d + 0 + (MaxPackets - packet)
  BY <1>3, <1>8 DEF ImpairInv, Balance
<1> HIDE DEF f, d, r, c, l, a
<1>10. l = f /\ f = r - d + c /\ a = d + (MaxPackets - r)
  BY <1>1, <1>6, <1>7, <1>9
<1> QED BY <1>7, <1>10 DEF ForwardedIsSent, f, d, r, c, l, a

\* When impair exits normally everything counted as forwarded has left and what it
\* received was dropped or left once or twice, for any number of packets.
THEOREM ForwardedCorrect == ImpairSpec => []ForwardedIsSent
  BY InvGivesSent, ImpairInvariance, PTL
=============================================================================
