---------------------------- MODULE PacketStream ----------------------------
(***************************************************************************)
(* The packets of one stream: the one with stream index n is the (n+1)-th  *)
(* the sender made and carries sequence number StartSeq + n modulo SeqMod. *)
(***************************************************************************)
EXTENDS SeqArith

CONSTANTS
  StartSeq,       \* the sender's first sequence number, drawn at random
  LastIndex,      \* bound: packets 0 .. LastIndex
  MaxReceived     \* bound: packets that arrive, repeats included

ASSUME StreamAssumption ==
  StartSeq \in SeqNum /\ LastIndex \in Nat /\ MaxReceived \in Nat

Indices == 0 .. LastIndex
SeqOf(n) == SeqAdd(StartSeq, n)
=============================================================================
