------------------------------ MODULE SpscRing ------------------------------
(***************************************************************************)
(* rtp::ring::SpscRingBuffer under the C++ memory model: one producer      *)
(* thread in push, one consumer thread in pop, two atomic indices.         *)
(*                                                                         *)
(* pushes and pops number the stores made to head_ and tail_: store number *)
(* k holds k modulo Capacity.  A load may return any store from the newest *)
(* one its thread has seen up to the newest there is (tailSeen .. pops,    *)
(* headSeen .. pushes); what it returns is seen from then on.  An acquire  *)
(* load of a release store also orders everything the other thread did     *)
(* before that store ahead of what this one does next: tailSync and        *)
(* headSync number the newest store synchronised with.  An access to a     *)
(* slot that is not ordered after the other thread's access to it is a     *)
(* data race, and may leave or find anything there.                        *)
(***************************************************************************)
EXTENDS Integers, Sequences

CONSTANTS
  Capacity,      \* a power of two; one slot always stays empty
  Items,
  Torn,          \* what a data race leaves; also in slots never yet filled
  MaxPushes      \* bound: stores to head_

ASSUME RingAssumption ==
  /\ Capacity \in Nat /\ Capacity >= 2
  /\ MaxPushes \in Nat
  /\ Torn \notin Items

VARIABLES
  buffer,
  pushes, pops,
  tailSeen, tailSync,      \* the producer's view of tail_
  headSeen, headSync,      \* the consumer's view of head_
  ppc, item,               \* the producer: where it is in push(item)
  cpc, out,                \* the consumer: where it is in pop(out)
  popped                   \* history: what pop last returned

producerVars == <<pushes, tailSeen, tailSync, ppc, item>>
consumerVars == <<pops, headSeen, headSync, cpc, out, popped>>
ringVars == <<buffer, producerVars, consumerVars>>

Slots == 0 .. (Capacity - 1)
Index(k) == k % Capacity        \* k & kMask
Values == Items \cup {Torn}

RingInit ==
  /\ buffer = [i \in Slots |-> Torn]
  /\ pushes = 0 /\ tailSeen = 0 /\ tailSync = 0 /\ ppc = "idle" /\ item = Torn
  /\ pops = 0 /\ headSeen = 0 /\ headSync = 0 /\ cpc = "idle" /\ out = Torn
  /\ popped = Torn
-----------------------------------------------------------------------------
\* Faults: a load without memory_order_acquire orders nothing; the producer does
\* not ask whether the ring is full, or fills the last slot too.
RelaxedLoad(sync, store) == sync
NeverFull(t) == FALSE
FullToTheLast(t) == pushes # t /\ Index(pushes) = Index(t)

AcquireLoad(sync, store) == store

Full(t) == Index(pushes + 1) = Index(t)
Empty(h) == Index(pops) = Index(h)

LoadTail(t) ==
  /\ t \in tailSeen .. pops
  /\ tailSeen' = t /\ tailSync' = AcquireLoad(tailSync, t)

LoadHead(h) ==
  /\ h \in headSeen .. pushes
  /\ headSeen' = h /\ headSync' = AcquireLoad(headSync, h)

\* The slot push fills was last read by the pop Capacity items ago, if any; the
\* slot pop reads was filled by the push of the same number.
WriteOrdered == pushes < tailSync + Capacity
ReadOrdered == pops < headSync
Raced(ordered, value) == IF ordered THEN {value} ELSE Values
-----------------------------------------------------------------------------
(* push *)

PushFull ==
  /\ ppc = "idle"
  /\ \E t \in tailSeen .. pops : Full(t) /\ LoadTail(t)
  /\ UNCHANGED <<buffer, pushes, ppc, item, consumerVars>>

PushBegin(x) ==
  /\ ppc = "idle" /\ pushes < MaxPushes
  /\ \E t \in tailSeen .. pops : ~Full(t) /\ LoadTail(t)
  /\ ppc' = "write" /\ item' = x
  /\ UNCHANGED <<buffer, pushes, consumerVars>>

PushWrite ==
  /\ ppc = "write" /\ ppc' = "publish"
  /\ \E v \in Raced(WriteOrdered, item) : buffer' = [buffer EXCEPT ![Index(pushes)] = v]
  /\ UNCHANGED <<pushes, tailSeen, tailSync, item, consumerVars>>

PushPublish ==
  /\ ppc = "publish" /\ ppc' = "idle"
  /\ pushes' = pushes + 1
  /\ UNCHANGED <<buffer, tailSeen, tailSync, item, consumerVars>>
-----------------------------------------------------------------------------
(* pop *)

PopEmpty ==
  /\ cpc = "idle"
  /\ \E h \in headSeen .. pushes : Empty(h) /\ LoadHead(h)
  /\ UNCHANGED <<buffer, pops, cpc, out, popped, producerVars>>

PopBegin ==
  /\ cpc = "idle" /\ cpc' = "read"
  /\ \E h \in headSeen .. pushes : ~Empty(h) /\ LoadHead(h)
  /\ UNCHANGED <<buffer, pops, out, popped, producerVars>>

PopRead ==
  /\ cpc = "read" /\ cpc' = "publish"
  /\ out' \in Raced(ReadOrdered, buffer[Index(pops)])
  /\ UNCHANGED <<buffer, pops, headSeen, headSync, popped, producerVars>>

PopPublish ==
  /\ cpc = "publish" /\ cpc' = "idle"
  /\ pops' = pops + 1 /\ popped' = out
  /\ UNCHANGED <<buffer, headSeen, headSync, out, producerVars>>
-----------------------------------------------------------------------------
RingNext ==
  \/ \E x \in Items : PushBegin(x)
  \/ PushFull \/ PushWrite \/ PushPublish
  \/ PopEmpty \/ PopBegin \/ PopRead \/ PopPublish

RingSpec == RingInit /\ [][RingNext]_ringVars
-----------------------------------------------------------------------------
(* Properties *)

RingTypeOK ==
  /\ buffer \in [Slots -> Values]
  /\ pushes \in Nat /\ pops \in 0 .. pushes /\ pushes - pops < Capacity
  /\ tailSeen \in 0 .. pops /\ tailSync \in 0 .. tailSeen
  /\ headSeen \in 0 .. pushes /\ headSync \in 0 .. headSeen
  /\ ppc \in {"idle", "write", "publish"} /\ cpc \in {"idle", "read", "publish"}
  /\ item \in Values /\ out \in Values /\ popped \in Values

\* No access to a slot races with the other thread's: the consumer's read of it
\* happens before the producer reuses it, the producer's write before the
\* consumer reads it (the two comments at ring_buffer.hpp:26-28 and 34-36).
RaceFree ==
  /\ ppc = "write" => WriteOrdered
  /\ cpc = "read" => ReadOrdered

\* What is queued: pushed and not yet popped.
Queued == [k \in 1 .. (pushes - pops) |-> buffer[Index(pops + k - 1)]]

\* Whatever stale indices the two threads act on, items come out whole, once
\* and in the order they went in, and Capacity - 1 of them fit.
Fifo == INSTANCE BoundedFifo WITH
  queue <- Queued, Nothing <- Torn, Bound <- Capacity - 1
ImplementsFifo == Fifo!Spec
=============================================================================
