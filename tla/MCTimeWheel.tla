----------------------------- MODULE MCTimeWheel -----------------------------
(* Instances of the timer wheel for TLC. *)
EXTENDS TimeWheel, TLC

Symmetry == Permutations(Handle)
=============================================================================
