------------------------------ MODULE SeqArith ------------------------------
(***************************************************************************)
(* Wrap-around sequence numbers.  The code keeps RTP sequence numbers in   *)
(* uint16_t and orders two of them by the sign of their difference cast to *)
(* int16_t; SeqMod is 2^16 there and a smaller even number in the TLC      *)
(* instances.                                                              *)
(***************************************************************************)
EXTENDS Integers

CONSTANT SeqMod

ASSUME SeqModAssumption == SeqMod \in Nat \ {0} /\ SeqMod % 2 = 0

SeqNum == 0 .. (SeqMod - 1)
Half == SeqMod \div 2

\* static_cast<uint16_t>(s + k)
SeqAdd(s, k) == (s + k) % SeqMod

\* Faults.  Without the casts 65535 -> 0 is a jump backward; without the second
\* one every packet is ahead.
NaiveDelta(a, b) == a - b
UnsignedDelta(a, b) == (a - b) % SeqMod

\* static_cast<int16_t>(a - b): the distance from b to a, in -Half .. Half-1.
SeqDelta(a, b) ==
  LET d == (a - b) % SeqMod IN IF d < Half THEN d ELSE d - SeqMod
=============================================================================
