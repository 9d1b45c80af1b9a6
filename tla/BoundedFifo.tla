---------------------------- MODULE BoundedFifo -----------------------------
(***************************************************************************)
(* What a single-producer single-consumer ring promises its two threads:   *)
(* a queue that holds at most Bound items, takes them whole and in order,  *)
(* and gives each of them up once.                                         *)
(***************************************************************************)
EXTENDS Naturals, Sequences

CONSTANTS Items, Nothing, Bound

VARIABLES queue, popped      \* what is queued; the item pop last returned

vars == <<queue, popped>>

Init == queue = <<>> /\ popped = Nothing

Put(x) ==
  /\ Len(queue) < Bound
  /\ queue' = Append(queue, x)
  /\ UNCHANGED popped

Take ==
  /\ queue # <<>>
  /\ popped' = Head(queue)
  /\ queue' = Tail(queue)

Next == Take \/ \E x \in Items : Put(x)

Spec == Init /\ [][Next]_vars
=============================================================================
