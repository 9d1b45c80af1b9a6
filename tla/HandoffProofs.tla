---------------------------- MODULE HandoffProofs ----------------------------
(***************************************************************************)
(* The ring is race free and a bounded queue, for every capacity and every *)
(* choice of stale indices.  The inductive invariant is RingInv: the two   *)
(* views bound what each thread may touch, and what lies between the       *)
(* indices is what was pushed.  Around it HandoffInv, by which the main    *)
(* thread takes every frame, in order, before it leaves its loop.          *)
(***************************************************************************)
EXTENDS Handoff, SequenceTheorems, TLAPS

\* The acquire loads keep what a thread has seen and what it is ordered after
\* together, and each thread's step in progress is covered by its own view.
Views ==
  /\ tailSync = tailSeen /\ headSync = headSeen
  /\ tailSeen <= pops /\ pops <= headSeen /\ headSeen <= pushes
  /\ pushes - tailSeen < Capacity
  /\ ppc # "idle" => pushes - tailSeen < Capacity - 1
  /\ cpc # "idle" => pops < headSeen

Contents ==
  /\ \A k \in pops .. (pushes - 1) : buffer[Index(k)] \in Items
  /\ ppc # "idle" => item \in Items
  /\ ppc = "publish" => buffer[Index(pushes)] = item
  /\ cpc = "publish" => out = buffer[Index(pops)]

RingTypes ==
  /\ buffer \in [Slots -> Values]
  /\ pushes \in Nat /\ tailSeen \in Nat /\ tailSync \in Nat
  /\ pops \in Nat /\ headSeen \in Nat /\ headSync \in Nat
  /\ ppc \in {"idle", "write", "publish"} /\ cpc \in {"idle", "read", "publish"}
  /\ item \in Values /\ out \in Values /\ popped \in Values

RingInv == RingTypes /\ Views /\ Contents
-----------------------------------------------------------------------------
(* Masked indices, and the facts about division they rest on. *)

\* Quotient and remainder, the form the other lemmas compute with.
LEMMA DivMod ==
  ASSUME NEW a \in Int, NEW m \in Nat \ {0}
  PROVE  /\ a % m \in 0 .. (m - 1)
         /\ a \div m \in Int
         /\ a = m * (a \div m) + (a % m)
  OBVIOUS

LEMMA ModUnique ==
  ASSUME NEW a \in Int, NEW m \in Nat \ {0}, NEW q \in Int,
         NEW r \in 0 .. (m - 1), a = m * q + r
  PROVE  a % m = r
  OBVIOUS

\* A multiple of c strictly between -c and c is zero.
LEMMA SmallMultiple ==
  ASSUME NEW c \in Nat \ {0}, NEW x \in Int, -c < c * x, c * x < c
  PROVE  x = 0
  OBVIOUS

\* Two numbers less than m apart with the same remainder are equal.
LEMMA ModDistinct ==
  ASSUME NEW a \in Int, NEW b \in Int, NEW m \in Nat \ {0},
         -m < a - b, a - b < m, a % m = b % m
  PROVE  a = b
<1> DEFINE u == a \div m
           v == b \div m
           r == a % m
<1>1. r \in 0 .. (m - 1) /\ u \in Int /\ a = m * u + r  BY DivMod
<1>2. v \in Int /\ b = m * v + (b % m)  BY DivMod
<1> HIDE DEF u, v
<1>3. b = m * v + r  BY <1>2
<1> HIDE DEF r
<1>4. a - b = m * (u - v) /\ u - v \in Int  BY <1>1, <1>2, <1>3
<1>5. -m < m * (u - v) /\ m * (u - v) < m  BY <1>4
<1>6. u - v = 0  BY <1>4, <1>5, SmallMultiple
<1> QED BY <1>1, <1>2, <1>3, <1>6

LEMMA ModPeriod ==
  ASSUME NEW a \in Int, NEW m \in Nat \ {0}
  PROVE  (a + m) % m = a % m
<1> DEFINE q == a \div m
           r == a % m
<1>1. r \in 0 .. (m - 1) /\ q \in Int /\ a = m * q + r  BY DivMod
<1> HIDE DEF q, r
<1>2. a + m = m * (q + 1) + r /\ a + m \in Int /\ q + 1 \in Int  BY <1>1
<1>3. (a + m) % m = r  BY <1>1, <1>2, ModUnique
<1> QED BY <1>3 DEF r

LEMMA IndexType == ASSUME NEW k \in Nat PROVE Index(k) \in Slots
<1>1. Capacity \in Nat \ {0}  BY RingAssumption
<1> QED BY <1>1 DEF Index, Slots

LEMMA IndexPeriod == ASSUME NEW k \in Nat PROVE Index(k + Capacity) = Index(k)
<1>1. Capacity \in Nat \ {0} /\ k \in Int  BY RingAssumption
<1> QED BY <1>1, ModPeriod DEF Index

\* Two stores less than a lap apart name different slots.
LEMMA IndexDistinct ==
  ASSUME NEW j \in Nat, NEW k \in Nat, j < k, k - j < Capacity
  PROVE  Index(j) # Index(k)
<1>1. /\ Capacity \in Nat \ {0} /\ j \in Int /\ k \in Int
      /\ -Capacity < j - k /\ j - k < Capacity /\ j # k
  BY RingAssumption
<1> QED BY <1>1, ModDistinct DEF Index
-----------------------------------------------------------------------------
LEMMA RingInvInit == RingInit => RingInv
  BY RingAssumption DEF RingInit, RingInv, RingTypes, Views, Contents, Values

\* Under the invariant no access races, so the race's outcomes never arise.
LEMMA InvRaceFree == RingInv => RaceFree
  BY RingAssumption DEF RingInv, RingTypes, Views, RaceFree, WriteOrdered, ReadOrdered

LEMMA PushBeginKeepsInv ==
  ASSUME RingInv, NEW x \in Items, PushBegin(x)
  PROVE  RingInv'
<1>1. PICK t \in tailSeen .. pops : ~Full(t) /\ LoadTail(t)  BY DEF PushBegin
<1>2. /\ t \in Nat /\ pushes \in Nat /\ Capacity \in Nat
      /\ pushes - t < Capacity /\ t <= pops
  BY <1>1, RingAssumption DEF RingInv, RingTypes, Views
<1>3. pushes + 1 # t + Capacity
  <2> SUFFICES ASSUME pushes + 1 = t + Capacity PROVE FALSE
    OBVIOUS
  <2>1. Index(pushes + 1) = Index(t)  BY <1>2, IndexPeriod
  <2> QED BY <1>1, <2>1 DEF Full
<1>4. pushes - t < Capacity - 1  BY <1>2, <1>3
<1>5. tailSeen' = t /\ tailSync' = t  BY <1>1 DEF LoadTail, AcquireLoad
<1>6. UNCHANGED <<buffer, pushes, consumerVars>> /\ ppc' = "write" /\ item' = x
  BY DEF PushBegin
<1>7. RingTypes'
  BY <1>2, <1>5, <1>6 DEF RingInv, RingTypes, Values, consumerVars
<1>8. Views'
  BY <1>2, <1>4, <1>5, <1>6 DEF RingInv, Views, consumerVars
<1>9. Contents'
  BY <1>6 DEF RingInv, RingTypes, Contents, consumerVars, Index
<1> QED BY <1>7, <1>8, <1>9 DEF RingInv

LEMMA PushFullKeepsInv == ASSUME RingInv, PushFull PROVE RingInv'
<1>1. PICK t \in tailSeen .. pops : LoadTail(t)  BY DEF PushFull
<1>2. t \in Nat /\ tailSeen' = t /\ tailSync' = t
  BY <1>1 DEF LoadTail, AcquireLoad, RingInv, RingTypes
<1>3. UNCHANGED <<buffer, pushes, ppc, item, consumerVars>> /\ ppc = "idle"
  BY DEF PushFull
<1>4. RingTypes'  BY <1>2, <1>3 DEF RingInv, RingTypes, consumerVars
<1>5. Views'
  <2>1. Capacity \in Nat  BY RingAssumption
  <2> QED BY <1>1, <1>2, <1>3, <2>1 DEF RingInv, RingTypes, Views, consumerVars
<1>6. Contents'
  BY <1>3 DEF RingInv, Contents, consumerVars, Index
<1> QED BY <1>4, <1>5, <1>6 DEF RingInv

\* The slot push fills is none of those between the indices.
LEMMA WriteKeepsQueued ==
  ASSUME RingInv, PushWrite
  PROVE  /\ buffer' = [buffer EXCEPT ![Index(pushes)] = item]
         /\ \A k \in pops .. (pushes - 1) : buffer'[Index(k)] = buffer[Index(k)]
<1>1. WriteOrdered  BY InvRaceFree DEF PushWrite, RaceFree
<1>2. buffer' = [buffer EXCEPT ![Index(pushes)] = item]
  BY <1>1 DEF PushWrite, Raced
<1> SUFFICES ASSUME NEW k \in pops .. (pushes - 1)
             PROVE  buffer'[Index(k)] = buffer[Index(k)]
  BY <1>2
<1>3. k \in Nat /\ pushes \in Nat /\ k < pushes /\ pushes - k < Capacity
  BY RingAssumption DEF RingInv, RingTypes, Views
<1>4. Index(k) # Index(pushes) /\ Index(k) \in Slots
  BY <1>3, IndexDistinct, IndexType
<1> QED BY <1>2, <1>4 DEF RingInv, RingTypes

LEMMA PushWriteKeepsInv == ASSUME RingInv, PushWrite PROVE RingInv'
<1>1. /\ buffer' = [buffer EXCEPT ![Index(pushes)] = item]
      /\ ppc = "write" /\ ppc' = "publish"
      /\ UNCHANGED <<pushes, tailSeen, tailSync, item, consumerVars>>
  BY WriteKeepsQueued DEF PushWrite
<1>2. Index(pushes) \in Slots  BY IndexType DEF RingInv, RingTypes
<1>3. \A k \in pops .. (pushes - 1) : buffer'[Index(k)] = buffer[Index(k)]
  BY WriteKeepsQueued
<1>4. buffer'[Index(pushes)] = item  BY <1>1, <1>2 DEF RingInv, RingTypes
<1>5. RingTypes'  BY <1>1, <1>2 DEF RingInv, RingTypes, consumerVars
<1>6. Views'  BY <1>1 DEF RingInv, Views, consumerVars
<1>7. Contents'
  <2>1. cpc = "publish" => pops \in pops .. (pushes - 1)
    BY DEF RingInv, RingTypes, Views
  <2> QED BY <1>1, <1>3, <1>4, <2>1 DEF RingInv, Contents, consumerVars, Index
<1> QED BY <1>5, <1>6, <1>7 DEF RingInv

LEMMA PushPublishKeepsInv == ASSUME RingInv, PushPublish PROVE RingInv'
<1>1. /\ ppc = "publish" /\ ppc' = "idle" /\ pushes' = pushes + 1
      /\ UNCHANGED <<buffer, tailSeen, tailSync, item, consumerVars>>
  BY DEF PushPublish
<1>2. RingTypes'  BY <1>1 DEF RingInv, RingTypes, consumerVars
<1>3. Views'
  BY <1>1, RingAssumption DEF RingInv, RingTypes, Views, consumerVars
<1>4. \A k \in pops .. pushes : buffer[Index(k)] \in Items
  <2>1. \A k \in pops .. pushes : k = pushes \/ k \in pops .. (pushes - 1)
    BY DEF RingInv, RingTypes
  <2> QED BY <1>1, <2>1 DEF RingInv, Contents
<1>5. pushes' - 1 = pushes  BY <1>1 DEF RingInv, RingTypes
<1>6. Contents'
  BY <1>1, <1>4, <1>5 DEF RingInv, Contents, consumerVars, Index
<1> QED BY <1>2, <1>3, <1>6 DEF RingInv

LEMMA PopEmptyKeepsInv == ASSUME RingInv, PopEmpty PROVE RingInv'
<1>1. PICK h \in headSeen .. pushes : LoadHead(h)  BY DEF PopEmpty
<1>2. h \in Nat /\ headSeen' = h /\ headSync' = h /\ headSeen <= h /\ h <= pushes
  BY <1>1 DEF LoadHead, AcquireLoad, RingInv, RingTypes
<1>3. UNCHANGED <<buffer, pops, cpc, out, popped, producerVars>> /\ cpc = "idle"
  BY DEF PopEmpty
<1>4. RingTypes'  BY <1>2, <1>3 DEF RingInv, RingTypes, producerVars
<1>5. Views'  BY <1>2, <1>3 DEF RingInv, RingTypes, Views, producerVars
<1>6. Contents'  BY <1>3 DEF RingInv, Contents, producerVars, Index
<1> QED BY <1>4, <1>5, <1>6 DEF RingInv

LEMMA PopBeginKeepsInv == ASSUME RingInv, PopBegin PROVE RingInv'
<1>1. PICK h \in headSeen .. pushes : ~Empty(h) /\ LoadHead(h)  BY DEF PopBegin
<1>2. h \in Nat /\ headSeen' = h /\ headSync' = h /\ headSeen <= h /\ h <= pushes
  BY <1>1 DEF LoadHead, AcquireLoad, RingInv, RingTypes
<1>3. pops < h  BY <1>1, <1>2 DEF Empty, RingInv, RingTypes, Views
<1>4. /\ UNCHANGED <<buffer, pops, out, popped, producerVars>>
      /\ cpc = "idle" /\ cpc' = "read"
  BY DEF PopBegin
<1>5. RingTypes'  BY <1>2, <1>4 DEF RingInv, RingTypes, producerVars
<1>6. Views'  BY <1>2, <1>3, <1>4 DEF RingInv, RingTypes, Views, producerVars
<1>7. Contents'  BY <1>4 DEF RingInv, Contents, producerVars, Index
<1> QED BY <1>5, <1>6, <1>7 DEF RingInv

LEMMA PopReadKeepsInv == ASSUME RingInv, PopRead PROVE RingInv'
<1>1. ReadOrdered  BY InvRaceFree DEF PopRead, RaceFree
<1>2. /\ out' = buffer[Index(pops)] /\ cpc = "read" /\ cpc' = "publish"
      /\ UNCHANGED <<buffer, pops, headSeen, headSync, popped, producerVars>>
  BY <1>1 DEF PopRead, Raced
<1>3. Index(pops) \in Slots  BY IndexType DEF RingInv, RingTypes
<1>4. RingTypes'  BY <1>2, <1>3 DEF RingInv, RingTypes, producerVars
<1>5. Views'  BY <1>2 DEF RingInv, Views, producerVars
<1>6. Contents'  BY <1>2 DEF RingInv, Contents, producerVars, Index
<1> QED BY <1>4, <1>5, <1>6 DEF RingInv

LEMMA PopPublishKeepsInv == ASSUME RingInv, PopPublish PROVE RingInv'
<1>1. /\ cpc = "publish" /\ cpc' = "idle" /\ pops' = pops + 1 /\ popped' = out
      /\ UNCHANGED <<buffer, headSeen, headSync, out, producerVars>>
  BY DEF PopPublish
<1>2. RingTypes'  BY <1>1 DEF RingInv, RingTypes, producerVars
<1>3. Views'  BY <1>1 DEF RingInv, RingTypes, Views, producerVars
<1>4. \A k \in (pops + 1) .. (pushes - 1) : buffer[Index(k)] \in Items
  <2>1. \A k \in (pops + 1) .. (pushes - 1) : k \in pops .. (pushes - 1)
    BY DEF RingInv, RingTypes
  <2> QED BY <2>1 DEF RingInv, Contents
<1>5. Contents'  BY <1>1, <1>4 DEF RingInv, Contents, producerVars, Index
<1> QED BY <1>2, <1>3, <1>5 DEF RingInv

LEMMA RingInvStep == RingInv /\ [RingNext]_ringVars => RingInv'
<1> SUFFICES ASSUME RingInv, [RingNext]_ringVars PROVE RingInv'
  OBVIOUS
<1>1. CASE UNCHANGED ringVars
  BY <1>1 DEF ringVars, producerVars, consumerVars, RingInv, RingTypes, Views,
              Contents, Index
<1> QED BY <1>1, PushBeginKeepsInv, PushFullKeepsInv, PushWriteKeepsInv,
           PushPublishKeepsInv, PopEmptyKeepsInv, PopBeginKeepsInv, PopReadKeepsInv,
           PopPublishKeepsInv DEF RingNext

LEMMA RingInvariance == RingSpec => []RingInv
  BY RingInvInit, RingInvStep, PTL DEF RingSpec
-----------------------------------------------------------------------------
\* Neither index runs past the other by more than the ring holds, and neither
\* thread's view runs ahead of the other thread.
THEOREM RingTypeCorrect == RingSpec => []RingTypeOK
<1>1. RingInv => RingTypeOK
  BY RingAssumption DEF RingInv, RingTypes, Views, RingTypeOK
<1> QED BY <1>1, RingInvariance, PTL

\* Acquire and release on the two indices are enough: no slot is written before
\* the consumer is done reading it, none is read before it is written.
THEOREM RingRaceFree == RingSpec => []RaceFree
  BY InvRaceFree, RingInvariance, PTL
-----------------------------------------------------------------------------
(* Each step of the ring is a step of the queue, or a stutter. *)

QueuedIs ==
  /\ Queued \in Seq(Items) /\ Len(Queued) = pushes - pops
  /\ \A k \in 1 .. (pushes - pops) : Queued[k] = buffer[Index(pops + k - 1)]

LEMMA QueuedType == RingInv => QueuedIs
<1> SUFFICES ASSUME RingInv PROVE QueuedIs
  OBVIOUS
<1>1. pushes \in Nat /\ pops \in Nat /\ pushes - pops \in Nat
  BY DEF RingInv, RingTypes, Views
<1>2. \A k \in 1 .. (pushes - pops) : buffer[Index(pops + k - 1)] \in Items
  <2> SUFFICES ASSUME NEW k \in 1 .. (pushes - pops)
               PROVE  buffer[Index(pops + k - 1)] \in Items
    OBVIOUS
  <2>1. pops + k - 1 \in pops .. (pushes - 1)  BY <1>1
  <2> QED BY <2>1 DEF RingInv, Contents
<1>3. Queued \in [1 .. (pushes - pops) -> Items]  BY <1>2 DEF Queued
<1> DEFINE n == pushes - pops
<1> HIDE DEF n
<1>4. n \in Nat /\ Queued \in [1 .. n -> Items]  BY <1>1, <1>3 DEF n
<1>5. Queued \in Seq(Items)  BY <1>4, SeqDef
<1>6. Len(Queued) = n
  <2>1. DOMAIN Queued = 1 .. n /\ DOMAIN Queued = 1 .. Len(Queued) /\ Len(Queued) \in Nat
    BY <1>4, <1>5, LenProperties
  <2> QED BY <1>4, <2>1
<1>7. \A k \in 1 .. (pushes - pops) : Queued[k] = buffer[Index(pops + k - 1)]
  BY DEF Queued
<1> QED BY <1>5, <1>6, <1>7 DEF QueuedIs, n

LEMMA QueuedUnchanged ==
  ASSUME RingInv, UNCHANGED <<pushes, pops>>,
         \A k \in pops .. (pushes - 1) : buffer'[Index(k)] = buffer[Index(k)]
  PROVE  Queued' = Queued
<1>1. \A k \in 1 .. (pushes - pops) : pops + k - 1 \in pops .. (pushes - 1)
  BY DEF RingInv, RingTypes
<1> QED BY <1>1 DEF Queued, Index

LEMMA PublishPuts ==
  ASSUME RingInv, PushPublish
  PROVE  item \in Items /\ Fifo!Put(item)
<1>1. /\ pushes' = pushes + 1 /\ pops' = pops /\ buffer' = buffer /\ popped' = popped
      /\ item \in Items /\ buffer[Index(pushes)] = item
  BY DEF PushPublish, consumerVars, RingInv, Contents
<1>2. RingInv'  BY PushPublishKeepsInv
<1>3. QueuedIs /\ QueuedIs'  BY <1>2, QueuedType, PTL
<1>4. pushes \in Nat /\ pops \in Nat /\ Capacity \in Nat /\ pushes - pops \in Nat
  BY RingAssumption DEF RingInv, RingTypes, Views
<1>5. pushes - pops < Capacity - 1
  BY <1>1, <1>2, <1>4 DEF PushPublish, RingInv, RingTypes, Views
<1> DEFINE n == pushes - pops
           S == Append(Queued, item)
           T == Queued'
<1>6. S \in Seq(Items) /\ Len(S) = n + 1
      /\ \A k \in 1 .. (n + 1) : S[k] = IF k = n + 1 THEN item ELSE Queued[k]
  BY <1>1, <1>3, <1>4, AppendProperties DEF QueuedIs
<1>7. T \in Seq(Items) /\ Len(T) = n + 1
      /\ \A k \in 1 .. (n + 1) : T[k] = buffer[Index(pops + k - 1)]
  <2>1. pushes' - pops' = n + 1  BY <1>1, <1>4
  <2> QED BY <1>1, <1>3, <2>1 DEF QueuedIs, Index
<1>8. \A k \in 1 .. (n + 1) : S[k] = T[k]
  <2> SUFFICES ASSUME NEW k \in 1 .. (n + 1)
               PROVE  (IF k = n + 1 THEN item ELSE Queued[k]) = buffer[Index(pops + k - 1)]
    BY <1>6, <1>7
  <2>1. CASE k = n + 1
    <3>1. pops + k - 1 = pushes  BY <1>4, <2>1
    <3> QED BY <1>1, <2>1, <3>1
  <2>2. CASE k # n + 1
    <3>1. k \in 1 .. n  BY <1>4, <2>2
    <3> QED BY <1>3, <2>2, <3>1 DEF QueuedIs
  <2> QED BY <2>1, <2>2
<1> HIDE DEF S, T
<1>9. T = S  BY <1>6, <1>7, <1>8, SeqEqual
<1>10. Queued' = Append(Queued, item)  BY <1>9 DEF S, T
<1> QED BY <1>1, <1>3, <1>5, <1>10 DEF Fifo!Put, QueuedIs

LEMMA PublishTakes == ASSUME RingInv, PopPublish PROVE Fifo!Take
<1>1. /\ pops' = pops + 1 /\ pushes' = pushes /\ buffer' = buffer /\ popped' = out
      /\ out = buffer[Index(pops)]
  BY DEF PopPublish, producerVars, RingInv, Contents
<1>2. pushes \in Nat /\ pops \in Nat /\ pops < pushes
  BY DEF PopPublish, RingInv, RingTypes, Views
<1>3. QueuedIs /\ QueuedIs'  BY PopPublishKeepsInv, QueuedType, PTL
<1>4. Queued # <<>>  BY <1>2, <1>3, EmptySeq DEF QueuedIs
<1>5. Head(Queued) = out
  <2>1. 1 \in 1 .. (pushes - pops) /\ pops + 1 - 1 = pops  BY <1>2
  <2>2. Queued[1] = buffer[Index(pops + 1 - 1)]  BY <1>3, <2>1 DEF QueuedIs
  <2>3. Queued[1] = out  BY <1>1, <2>1, <2>2
  <2>4. Head(Queued) = Queued[1]  BY <1>3, <1>4 DEF QueuedIs
  <2> QED BY <2>3, <2>4
<1> DEFINE n == pushes - pops
           S == Tail(Queued)
           T == Queued'
<1>6. S \in Seq(Items) /\ Len(S) = n - 1 /\ \A k \in 1 .. (n - 1) : S[k] = Queued[k + 1]
  BY <1>3, <1>4, HeadTailProperties DEF QueuedIs
<1>7. T \in Seq(Items) /\ Len(T) = n - 1
      /\ \A k \in 1 .. (n - 1) : T[k] = buffer[Index(pops + 1 + k - 1)]
  <2>1. pushes' - pops' = n - 1  BY <1>1, <1>2
  <2> QED BY <1>1, <1>3, <2>1 DEF QueuedIs, Index
<1>8. \A k \in 1 .. (n - 1) : S[k] = T[k]
  <2> SUFFICES ASSUME NEW k \in 1 .. (n - 1)
               PROVE  Queued[k + 1] = buffer[Index(pops + 1 + k - 1)]
    BY <1>6, <1>7
  <2>1. k + 1 \in 1 .. n /\ pops + 1 + k - 1 = pops + (k + 1) - 1  BY <1>2
  <2>2. Queued[k + 1] = buffer[Index(pops + (k + 1) - 1)]
    BY <1>3, <2>1 DEF QueuedIs
  <2> QED BY <2>1, <2>2
<1> HIDE DEF S, T
<1>9. T = S  BY <1>6, <1>7, <1>8, SeqEqual
<1>10. Queued' = Tail(Queued)  BY <1>9 DEF S, T
<1> QED BY <1>1, <1>4, <1>5, <1>10 DEF Fifo!Take

LEMMA RingStepImplements ==
  ASSUME RingInv, [RingNext]_ringVars
  PROVE  [Fifo!Next]_(Fifo!vars)
<1>1. ASSUME UNCHANGED <<buffer, pushes, pops, popped>> PROVE UNCHANGED Fifo!vars
  BY <1>1 DEF Fifo!vars, Queued, Index
<1>2. ASSUME NEW x \in Items, PushBegin(x) PROVE UNCHANGED Fifo!vars
  BY <1>1, <1>2 DEF PushBegin, consumerVars
<1>3. ASSUME PushFull PROVE UNCHANGED Fifo!vars
  BY <1>1, <1>3 DEF PushFull, consumerVars
<1>4. ASSUME PopEmpty \/ PopBegin \/ PopRead PROVE UNCHANGED Fifo!vars
  BY <1>1, <1>4 DEF PopEmpty, PopBegin, PopRead, producerVars
<1>5. ASSUME PushWrite PROVE UNCHANGED Fifo!vars
  <2>1. UNCHANGED <<pushes, pops, popped>>  BY <1>5 DEF PushWrite, consumerVars
  <2>2. Queued' = Queued  BY <1>5, <2>1, WriteKeepsQueued, QueuedUnchanged
  <2> QED BY <2>1, <2>2 DEF Fifo!vars
<1>6. ASSUME PushPublish PROVE Fifo!Next
  BY <1>6, PublishPuts DEF Fifo!Next
<1>7. ASSUME PopPublish PROVE Fifo!Next
  BY <1>7, PublishTakes DEF Fifo!Next
<1>8. ASSUME UNCHANGED ringVars PROVE UNCHANGED Fifo!vars
  BY <1>1, <1>8 DEF ringVars, producerVars, consumerVars
<1> QED BY <1>2, <1>3, <1>4, <1>5, <1>6, <1>7, <1>8 DEF RingNext

LEMMA FifoInit == RingInit => Fifo!Init
<1> SUFFICES ASSUME RingInit PROVE Queued = <<>> /\ popped = Torn
  BY DEF Fifo!Init
<1>1. pushes - pops = 0 /\ popped = Torn  BY DEF RingInit
<1>2. Queued = [k \in 1 .. 0 |-> buffer[Index(pops + k - 1)]]  BY <1>1 DEF Queued
<1> QED BY <1>1, <1>2

\* Whatever stale indices the two threads act on, the ring is a queue of
\* Capacity - 1 items.
THEOREM RingRefinement == RingSpec => ImplementsFifo
<1>1. RingInit => Fifo!Init  BY FifoInit
<1>2. RingInv /\ [RingNext]_ringVars => [Fifo!Next]_(Fifo!vars)
  BY RingStepImplements
<1> QED BY <1>1, <1>2, RingInvariance, PTL DEF RingSpec, ImplementsFifo, Fifo!Spec
-----------------------------------------------------------------------------
(* The two threads at its ends. *)

HandoffTypes ==
  /\ accepted \in Seq(Items) /\ samples \in Seq(Items)
  /\ offered \in Nat /\ underruns \in Nat /\ done \in BOOLEAN
  /\ main \in {"first pop", "flag", "final pop", "exit"}

\* A frame push has taken is in samples, in the slot of its number, or on its way
\* into one.
Carried ==
  /\ Len(accepted) = IF ppc = "idle" THEN pushes ELSE pushes + 1
  /\ Len(samples) = pops
  /\ \A k \in 1 .. pops : samples[k] = accepted[k]
  /\ \A k \in pops .. (pushes - 1) : buffer[Index(k)] = accepted[k + 1]
  /\ ppc # "idle" => item = accepted[pushes + 1]

Counted == Len(accepted) + underruns = offered

\* Nothing is pushed once the flag is set, and after it the main thread has seen
\* every push.
Leaving ==
  /\ done => ppc = "idle"
  /\ main = "final pop" => done /\ headSeen = pushes
  /\ main \in {"flag", "exit"} => cpc = "idle"
  /\ main = "exit" => done /\ pops = pushes

HandoffInv == RingInv /\ HandoffTypes /\ Carried /\ Counted /\ Leaving

LEMMA RingNumbers ==
  ASSUME RingInv
  PROVE  /\ pushes \in Nat /\ pops \in Nat /\ headSeen \in Nat /\ Capacity \in Nat
         /\ pops <= headSeen /\ headSeen <= pushes /\ pushes - pops < Capacity
         /\ cpc # "idle" => pops < pushes
  BY RingAssumption DEF RingInv, RingTypes, Views

LEMMA OfferTakenKeepsInv == ASSUME HandoffInv, OfferTaken PROVE HandoffInv'
<1>1. RingInv /\ RingInv' /\ offered \in Items /\ offered \in Nat
  <2>1. RingInv /\ offered \in Nat  BY DEF HandoffInv, HandoffTypes
  <2>2. offered \in Items  BY <2>1, HandoffAssumption DEF OfferTaken
  <2> QED BY <2>1, <2>2, PushBeginKeepsInv DEF OfferTaken
<1>2. /\ UNCHANGED <<underruns, done, main, samples, buffer, pushes, pops, cpc, headSeen>>
      /\ ppc = "idle" /\ ppc' = "write" /\ item' = offered /\ done = FALSE
      /\ offered' = offered + 1 /\ accepted' = Append(accepted, offered)
  BY DEF OfferTaken, PushBegin, consumerVars, mainThread, HandoffInv, HandoffTypes
<1> DEFINE n == Len(accepted)
<1>3. /\ accepted \in Seq(Items) /\ n = pushes /\ Len(samples) = pops
      /\ \A k \in 1 .. pops : samples[k] = accepted[k]
      /\ \A k \in pops .. (pushes - 1) : buffer[Index(k)] = accepted[k + 1]
      /\ n + underruns = offered
  BY <1>2 DEF HandoffInv, HandoffTypes, Carried, Counted
<1>4. /\ accepted' \in Seq(Items) /\ Len(accepted') = n + 1
      /\ \A k \in 1 .. n : accepted'[k] = accepted[k]
      /\ accepted'[n + 1] = offered
  BY <1>1, <1>2, <1>3, AppendProperties
<1>5. pushes \in Nat /\ pops \in Nat /\ pops <= pushes  BY <1>1, RingNumbers
<1>6. HandoffTypes'
  <2>1. offered' \in Nat  BY <1>1, <1>2
  <2> QED BY <1>2, <1>4, <2>1 DEF HandoffInv, HandoffTypes
<1>7. Carried'
  <2>1. Len(accepted') = pushes + 1  BY <1>3, <1>4
  <2>2. \A k \in 1 .. pops : samples[k] = accepted'[k]
    <3>1. \A k \in 1 .. pops : k \in 1 .. n  BY <1>3, <1>5
    <3> QED BY <1>3, <1>4, <3>1
  <2>3. \A k \in pops .. (pushes - 1) : buffer[Index(k)] = accepted'[k + 1]
    <3>1. \A k \in pops .. (pushes - 1) : k + 1 \in 1 .. n  BY <1>3, <1>5
    <3> QED BY <1>3, <1>4, <3>1
  <2>4. item' = accepted'[pushes + 1]  BY <1>2, <1>3, <1>4
  <2> QED BY <1>2, <1>3, <2>1, <2>2, <2>3, <2>4 DEF Carried, Index
<1>8. Counted'
  <2>1. (n + 1) + underruns = offered + 1
    <3>1. underruns \in Nat  BY DEF HandoffInv, HandoffTypes
    <3> QED BY <1>1, <1>3, <1>5, <3>1
  <2> QED BY <1>2, <1>4, <2>1 DEF Counted
<1>9. Leaving'  BY <1>2 DEF HandoffInv, Leaving
<1> QED BY <1>1, <1>6, <1>7, <1>8, <1>9 DEF HandoffInv

LEMMA OfferRefusedKeepsInv == ASSUME HandoffInv, OfferRefused PROVE HandoffInv'
<1>1. RingInv'  BY PushFullKeepsInv DEF HandoffInv, OfferRefused
<1>2. /\ UNCHANGED <<accepted, done, main, samples, buffer, pushes, pops, cpc, headSeen,
                     ppc, item>>
      /\ offered' = offered + 1 /\ underruns' = underruns + 1
  BY DEF OfferRefused, PushFull, consumerVars, mainThread
<1>3. HandoffTypes'
  <2>1. offered \in Nat /\ underruns \in Nat  BY DEF HandoffInv, HandoffTypes
  <2>2. offered' \in Nat /\ underruns' \in Nat  BY <1>2, <2>1
  <2> QED BY <1>2, <2>2 DEF HandoffInv, HandoffTypes
<1>4. Carried'  BY <1>2 DEF HandoffInv, Carried, Index
<1>5. Counted'
  <2>1. Len(accepted) + underruns = offered /\ offered \in Nat /\ underruns \in Nat
    BY DEF HandoffInv, HandoffTypes, Counted
  <2>2. Len(accepted) \in Nat  BY LenProperties DEF HandoffInv, HandoffTypes
  <2>3. Len(accepted) + (underruns + 1) = offered + 1  BY <2>1, <2>2
  <2> QED BY <1>2, <2>3 DEF Counted
<1>6. Leaving'  BY <1>2 DEF HandoffInv, Leaving
<1> QED BY <1>1, <1>3, <1>4, <1>5, <1>6 DEF HandoffInv

LEMMA PushStepKeepsInv == ASSUME HandoffInv, PushStep PROVE HandoffInv'
<1>1. RingInv /\ RingInv' /\ ppc # "idle"
  BY PushWriteKeepsInv, PushPublishKeepsInv
     DEF HandoffInv, PushStep, PushWrite, PushPublish
<1>2. UNCHANGED <<accepted, offered, underruns, done, main, samples, pops, cpc, headSeen, item>>
  BY DEF PushStep, PushWrite, PushPublish, playoutThread, mainThread, consumerVars
<1>3. pushes \in Nat /\ pops \in Nat /\ pops <= pushes  BY <1>1, RingNumbers
<1>4. /\ Len(accepted) = pushes + 1 /\ Len(samples) = pops
      /\ \A k \in 1 .. pops : samples[k] = accepted[k]
      /\ \A k \in pops .. (pushes - 1) : buffer[Index(k)] = accepted[k + 1]
      /\ item = accepted[pushes + 1]
  BY <1>1 DEF HandoffInv, Carried
<1>5. HandoffTypes' /\ Counted'  BY <1>2 DEF HandoffInv, HandoffTypes, Counted
<1>6. done = FALSE /\ main # "final pop" /\ main # "exit"
  BY <1>1 DEF HandoffInv, HandoffTypes, Leaving
<1>7. Leaving'  BY <1>2, <1>6 DEF HandoffInv, Leaving
<1>8. CASE PushWrite
  <2>1. pushes' = pushes /\ ppc' = "publish"  BY <1>8 DEF PushWrite
  <2>2. \A k \in pops .. (pushes - 1) : buffer'[Index(k)] = buffer[Index(k)]
    BY <1>1, <1>8, WriteKeepsQueued
  <2>3. Carried'  BY <1>2, <1>4, <2>1, <2>2 DEF Carried, Index
  <2> QED BY <1>1, <1>5, <1>7, <2>3 DEF HandoffInv
<1>9. CASE PushPublish
  <2>1. pushes' = pushes + 1 /\ ppc = "publish" /\ ppc' = "idle" /\ buffer' = buffer
    BY <1>9 DEF PushPublish
  <2>2. buffer[Index(pushes)] = item  BY <1>1, <2>1 DEF RingInv, Contents
  <2>3. \A k \in pops .. pushes : buffer[Index(k)] = accepted[k + 1]
    <3>1. \A k \in pops .. pushes : k = pushes \/ k \in pops .. (pushes - 1)  BY <1>3
    <3> QED BY <1>4, <2>2, <3>1
  <2>4. pushes' - 1 = pushes  BY <1>3, <2>1
  <2>5. Carried'  BY <1>2, <1>4, <2>1, <2>3, <2>4 DEF Carried, Index
  <2> QED BY <1>1, <1>5, <1>7, <2>5 DEF HandoffInv
<1> QED BY <1>8, <1>9 DEF PushStep

LEMMA FinishKeepsInv == ASSUME HandoffInv, Finish PROVE HandoffInv'
<1>1. /\ UNCHANGED <<ringVars, offered, accepted, underruns, main, samples>>
      /\ done' = TRUE /\ ppc = "idle"
  BY DEF Finish, mainThread
<1>2. RingInv'  BY <1>1, RingInvStep DEF HandoffInv
<1>3. UNCHANGED <<buffer, pushes, pops, cpc, headSeen, ppc, item>>
  BY <1>1 DEF ringVars, producerVars, consumerVars
<1>4. HandoffTypes' /\ Counted' /\ Carried'
  BY <1>1, <1>3 DEF HandoffInv, HandoffTypes, Counted, Carried, Index
<1>5. Leaving'  BY <1>1, <1>3 DEF HandoffInv, Leaving
<1> QED BY <1>2, <1>4, <1>5 DEF HandoffInv

LEMMA MainTakesKeepsInv == ASSUME HandoffInv, MainTakes PROVE HandoffInv'
<1>1. RingInv'  BY PopBeginKeepsInv DEF HandoffInv, MainTakes
<1>2. /\ UNCHANGED <<accepted, offered, underruns, done, main, samples, buffer, pushes,
                     pops, ppc, item>>
      /\ main \in {"first pop", "final pop"}
  BY DEF MainTakes, PopBegin, producerVars, playoutThread, mainThread
<1>3. HandoffTypes' /\ Carried' /\ Counted'
  BY <1>2 DEF HandoffInv, HandoffTypes, Carried, Counted, Index
<1>4. Leaving'
  <2>1. main = "final pop" => headSeen' = pushes
    <3>1. headSeen \in Nat /\ pushes \in Nat  BY RingNumbers DEF HandoffInv
    <3>2. main = "final pop" => headSeen = pushes  BY DEF HandoffInv, Leaving
    <3>3. PICK h \in headSeen .. pushes : headSeen' = h
      BY DEF MainTakes, PopBegin, LoadHead
    <3>4. headSeen = pushes => h = pushes  BY <3>1
    <3> QED BY <3>2, <3>3, <3>4
  <2> QED BY <1>2, <2>1 DEF HandoffInv, Leaving
<1> QED BY <1>1, <1>3, <1>4 DEF HandoffInv

LEMMA MainPopStepKeepsInv == ASSUME HandoffInv, MainPopStep PROVE HandoffInv'
<1>1. RingInv'  BY PopReadKeepsInv DEF HandoffInv, MainPopStep
<1>2. /\ UNCHANGED <<accepted, offered, underruns, done, main, samples, buffer, pushes,
                     pops, ppc, item, headSeen>>
      /\ cpc # "idle"
  BY DEF MainPopStep, PopRead, producerVars, playoutThread, mainThread
<1>3. HandoffTypes' /\ Carried' /\ Counted'
  BY <1>2 DEF HandoffInv, HandoffTypes, Carried, Counted, Index
<1>4. Leaving'  BY <1>2 DEF HandoffInv, Leaving
<1> QED BY <1>1, <1>3, <1>4 DEF HandoffInv

LEMMA MainAppendsKeepsInv == ASSUME HandoffInv, MainAppends PROVE HandoffInv'
<1>1. RingInv /\ RingInv'  BY PopPublishKeepsInv DEF HandoffInv, MainAppends
<1>2. /\ UNCHANGED <<accepted, offered, underruns, done, buffer, pushes, ppc, item>>
      /\ cpc = "publish" /\ cpc' = "idle" /\ pops' = pops + 1
      /\ samples' = Append(samples, out) /\ main' = "first pop"
  BY DEF MainAppends, PopPublish, producerVars, playoutThread
<1>3. /\ samples \in Seq(Items) /\ Len(samples) = pops /\ done \in BOOLEAN
      /\ \A k \in 1 .. pops : samples[k] = accepted[k]
      /\ \A k \in pops .. (pushes - 1) : buffer[Index(k)] = accepted[k + 1]
  BY DEF HandoffInv, HandoffTypes, Carried
<1>4. pushes \in Nat /\ pops \in Nat /\ pops < pushes  BY <1>1, <1>2, RingNumbers
<1>5. out = accepted[pops + 1] /\ out \in Items
  <2>1. pops \in pops .. (pushes - 1)  BY <1>4
  <2> QED BY <1>1, <1>2, <1>3, <2>1 DEF RingInv, Contents
<1>6. /\ samples' \in Seq(Items) /\ Len(samples') = pops + 1
      /\ \A k \in 1 .. (pops + 1) : samples'[k] = IF k = pops + 1 THEN out ELSE samples[k]
  <2>1. /\ Append(samples, out) \in Seq(Items)
        /\ Len(Append(samples, out)) = Len(samples) + 1
        /\ \A k \in 1 .. Len(samples) + 1 :
             Append(samples, out)[k] = IF k = Len(samples) + 1 THEN out ELSE samples[k]
    BY <1>3, <1>5, AppendProperties
  <2> QED BY <1>2, <1>3, <2>1
<1>7. Carried'
  <2>1. \A k \in 1 .. (pops + 1) : samples'[k] = accepted[k]
    <3>1. \A k \in 1 .. (pops + 1) : k = pops + 1 \/ k \in 1 .. pops  BY <1>4
    <3> QED BY <1>3, <1>5, <1>6, <3>1
  <2>2. \A k \in (pops + 1) .. (pushes - 1) : buffer[Index(k)] = accepted[k + 1]
    <3>1. \A k \in (pops + 1) .. (pushes - 1) : k \in pops .. (pushes - 1)  BY <1>4
    <3> QED BY <1>3, <3>1
  <2> QED BY <1>2, <1>6, <2>1, <2>2 DEF HandoffInv, Carried, Index
<1>8. HandoffTypes' /\ Counted' /\ Leaving'
  BY <1>2, <1>6 DEF HandoffInv, HandoffTypes, Counted, Leaving
<1> QED BY <1>1, <1>7, <1>8 DEF HandoffInv

\* An empty ring seen through an index as new as the flag is empty.
LEMMA MainFindsEmptyKeepsInv == ASSUME HandoffInv, MainFindsEmpty PROVE HandoffInv'
<1>1. RingInv /\ RingInv'  BY PopEmptyKeepsInv DEF HandoffInv, MainFindsEmpty
<1>2. /\ UNCHANGED <<accepted, offered, underruns, done, samples, buffer, pushes, pops,
                     ppc, item, cpc>>
      /\ cpc = "idle" /\ main \in {"first pop", "final pop"}
      /\ main' = IF main = "first pop" THEN "flag" ELSE "exit"
  BY DEF MainFindsEmpty, PopEmpty, producerVars, playoutThread
<1>3. HandoffTypes' /\ Carried' /\ Counted'
  BY <1>2 DEF HandoffInv, HandoffTypes, Carried, Counted, Index
<1>4. ASSUME main = "final pop" PROVE pops = pushes
  <2>1. /\ pushes \in Nat /\ pops \in Nat /\ headSeen \in Nat /\ pops <= headSeen
        /\ headSeen <= pushes /\ pushes - pops < Capacity /\ Capacity \in Nat
    BY <1>1, RingNumbers
  <2>2. headSeen = pushes  BY <1>4 DEF HandoffInv, Leaving
  <2>3. PICK h \in headSeen .. pushes : Empty(h)  BY DEF MainFindsEmpty, PopEmpty
  <2>4. h = pushes
    <3>1. h \in pushes .. pushes  BY <2>2
    <3> QED BY <2>1, <3>1
  <2>5. Index(pops) = Index(pushes)  BY <2>3, <2>4 DEF Empty
  <2>6. ~(pops < pushes)  BY <2>1, <2>5, IndexDistinct
  <2> QED BY <2>1, <2>6
<1>5. done \in BOOLEAN  BY DEF HandoffInv, HandoffTypes
<1>6. Leaving'  BY <1>2, <1>4, <1>5 DEF HandoffInv, Leaving
<1> QED BY <1>1, <1>3, <1>6 DEF HandoffInv

LEMMA MainNotDoneKeepsInv == ASSUME HandoffInv, MainNotDone PROVE HandoffInv'
<1>1. /\ UNCHANGED <<ringVars, accepted, offered, underruns, done, samples>>
      /\ main' = "first pop"
  BY DEF MainNotDone, playoutThread
<1>2. RingInv'  BY <1>1, RingInvStep DEF HandoffInv
<1>3. UNCHANGED <<buffer, pushes, pops, cpc, headSeen, ppc, item>>
  BY <1>1 DEF ringVars, producerVars, consumerVars
<1>4. HandoffTypes' /\ Carried' /\ Counted' /\ Leaving'
  BY <1>1, <1>3 DEF HandoffInv, HandoffTypes, Carried, Counted, Leaving, Index
<1> QED BY <1>2, <1>4 DEF HandoffInv

LEMMA MainSeesDoneKeepsInv == ASSUME HandoffInv, MainSeesDone PROVE HandoffInv'
<1>1. /\ UNCHANGED <<buffer, pops, cpc, out, popped, pushes, tailSeen, tailSync, ppc, item,
                     accepted, offered, underruns, done, samples>>
      /\ headSeen' = pushes /\ headSync' = pushes /\ main' = "final pop" /\ done
      /\ cpc = "idle"
  BY DEF MainSeesDone, AcquireFlag, AfterFlag, producerVars, playoutThread, HandoffInv,
         Leaving
<1>2. RingTypes'  BY <1>1 DEF HandoffInv, RingInv, RingTypes
<1>3. Views'
  <2>1. pops <= pushes /\ pushes <= pushes  BY RingNumbers DEF HandoffInv
  <2> QED BY <1>1, <2>1 DEF HandoffInv, RingInv, Views
<1>4. Contents'  BY <1>1 DEF HandoffInv, RingInv, Contents, Index
<1>5. HandoffTypes' /\ Carried' /\ Counted' /\ Leaving'
  BY <1>1 DEF HandoffInv, HandoffTypes, Carried, Counted, Leaving, Index
<1> QED BY <1>2, <1>3, <1>4, <1>5 DEF HandoffInv, RingInv
-----------------------------------------------------------------------------
LEMMA HandoffInvInit == HandoffInit => HandoffInv
<1> SUFFICES ASSUME HandoffInit PROVE HandoffInv
  OBVIOUS
<1>1. RingInv  BY RingInvInit DEF HandoffInit
<1>2. pushes = 0 /\ pops = 0 /\ offered = 0 /\ underruns = 0  BY DEF HandoffInit, RingInit
<1>3. /\ accepted = <<>> /\ samples = <<>> /\ ppc = "idle" /\ done = FALSE
      /\ main = "first pop"
  BY DEF HandoffInit, RingInit
<1>4. HandoffTypes  BY <1>2, <1>3, EmptySeq DEF HandoffTypes
<1>5. Len(accepted) = 0 /\ Len(samples) = 0  BY <1>3, EmptySeq
<1>6. Carried
  <2>1. \A k \in 1 .. pops : samples[k] = accepted[k]  BY <1>2
  <2>2. \A k \in pops .. (pushes - 1) : buffer[Index(k)] = accepted[k + 1]  BY <1>2
  <2>3. /\ Len(accepted) = IF ppc = "idle" THEN pushes ELSE pushes + 1
        /\ Len(samples) = pops /\ ppc = "idle"
    BY <1>2, <1>3, <1>5
  <2> QED BY <2>1, <2>2, <2>3 DEF Carried
<1>7. Counted  BY <1>2, <1>5 DEF Counted
<1>8. Leaving  BY <1>3 DEF Leaving
<1> QED BY <1>1, <1>4, <1>6, <1>7, <1>8 DEF HandoffInv

LEMMA HandoffInvStep == HandoffInv /\ [HandoffNext]_handoffVars => HandoffInv'
<1> SUFFICES ASSUME HandoffInv, [HandoffNext]_handoffVars PROVE HandoffInv'
  OBVIOUS
<1>1. CASE UNCHANGED handoffVars
  <2>1. RingInv'  BY <1>1, RingInvStep DEF HandoffInv, handoffVars
  <2>2. HandoffTypes' /\ Carried' /\ Counted' /\ Leaving'
    BY <1>1 DEF handoffVars, ringVars, producerVars, consumerVars, playoutThread, mainThread,
                HandoffInv, HandoffTypes, Carried, Counted, Leaving, Index
  <2> QED BY <2>1, <2>2 DEF HandoffInv
<1> QED BY <1>1, OfferTakenKeepsInv, OfferRefusedKeepsInv, PushStepKeepsInv,
           FinishKeepsInv, MainTakesKeepsInv, MainPopStepKeepsInv, MainAppendsKeepsInv,
           MainFindsEmptyKeepsInv, MainNotDoneKeepsInv, MainSeesDoneKeepsInv
        DEF HandoffNext, PlayoutNext, MainNext

LEMMA HandoffInvariance == HandoffSpec => []HandoffInv
  BY HandoffInvInit, HandoffInvStep, PTL DEF HandoffSpec
-----------------------------------------------------------------------------
\* The ring's two users keep to its protocol: the flag that ends the one and tells the
\* other adds no race, so both indices and every slot are used as in the ring alone.
THEOREM HandoffRaceFree == HandoffSpec => [](RingTypeOK /\ RaceFree)
<1>1. HandoffInv => RingTypeOK /\ RaceFree
  <2>1. RingInv => RingTypeOK
    BY RingAssumption DEF RingInv, RingTypes, Views, RingTypeOK
  <2> QED BY <2>1, InvRaceFree DEF HandoffInv
<1> QED BY <1>1, HandoffInvariance, PTL

\* Between the two threads the ring is the queue; only the look at the flag, which
\* moves the consumer's view, is not a step of the ring.
THEOREM HandoffRefinement == HandoffSpec => ImplementsFifo
<1>1. HandoffInit => Fifo!Init
  BY FifoInit DEF HandoffInit
<1>2. HandoffInv /\ [HandoffNext]_handoffVars => [Fifo!Next]_(Fifo!vars)
  <2> SUFFICES ASSUME HandoffInv, [HandoffNext]_handoffVars
               PROVE  [Fifo!Next]_(Fifo!vars)
    OBVIOUS
  <2>1. CASE MainSeesDone
    BY <2>1 DEF MainSeesDone, producerVars, Fifo!vars, Queued, Index
  <2>2. CASE OfferTaken
    <3>1. offered \in Items
      <4>1. offered \in Nat  BY DEF HandoffInv, HandoffTypes
      <4> QED BY <2>2, <4>1, HandoffAssumption DEF OfferTaken
    <3> QED BY <2>2, <3>1, RingStepImplements DEF OfferTaken, RingNext, HandoffInv
  <2>3. ASSUME ~MainSeesDone, ~OfferTaken PROVE RingNext \/ UNCHANGED ringVars
    BY <2>3 DEF HandoffNext, PlayoutNext, MainNext, OfferRefused, PushStep, Finish,
                MainTakes, MainPopStep, MainAppends, MainFindsEmpty, MainNotDone, RingNext,
                handoffVars
  <2> QED BY <2>1, <2>2, <2>3, RingStepImplements DEF HandoffInv
<1> QED BY <1>1, <1>2, HandoffInvariance, PTL DEF HandoffSpec, ImplementsFifo, Fifo!Spec

\* The main thread has exactly the frames push took first, in the order it took them.
THEOREM InOrderCorrect == HandoffSpec => []SamplesInOrder
<1>1. HandoffInv => SamplesInOrder
  <2> SUFFICES ASSUME HandoffInv PROVE SamplesInOrder
    OBVIOUS
  <2>1. /\ Len(samples) = pops /\ \A k \in 1 .. pops : samples[k] = accepted[k]
        /\ Len(accepted) = IF ppc = "idle" THEN pushes ELSE pushes + 1
    BY DEF HandoffInv, Carried
  <2>2. pushes \in Nat /\ pops \in Nat /\ pops <= pushes
    BY RingNumbers DEF HandoffInv
  <2> QED BY <2>1, <2>2 DEF SamplesInOrder
<1> QED BY <1>1, HandoffInvariance, PTL

\* However stale the indices it acted on, a main thread that has left its loop has
\* every frame that is not counted as an underrun.
THEOREM NothingBehindCorrect == HandoffSpec => []NothingLeftBehind
<1>1. HandoffInv => NothingLeftBehind
  <2> SUFFICES ASSUME HandoffInv, main = "exit"
               PROVE  samples = accepted /\ Len(samples) + underruns = offered
    BY DEF NothingLeftBehind
  <2>1. ppc = "idle" /\ pops = pushes  BY DEF HandoffInv, Leaving
  <2>2. /\ samples \in Seq(Items) /\ accepted \in Seq(Items)
        /\ Len(samples) = Len(accepted)
        /\ \A k \in 1 .. Len(samples) : samples[k] = accepted[k]
    BY <2>1 DEF HandoffInv, HandoffTypes, Carried
  <2>3. samples = accepted  BY <2>2, SeqEqual
  <2> QED BY <2>2, <2>3 DEF HandoffInv, Counted
<1> QED BY <1>1, HandoffInvariance, PTL
=============================================================================
