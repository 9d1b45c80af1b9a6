---------------------------- MODULE MCAdpcmLoop -----------------------------
(* AdpcmLoop between both ends of the sample range and next to silence. *)
EXTENDS AdpcmLoop

EdgeInputs == {-32768, -1, 32767}
=============================================================================
