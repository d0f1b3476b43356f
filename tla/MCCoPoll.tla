------------------------------- MODULE MCCoPoll -------------------------------
(* Instances of co_poll for TLC. *)
EXTENDS CoPoll, TLC

Symmetry == Permutations(Co) \cup Permutations(Fd)
\* A poll that does not ask for POLLHUP; the hooks do.
Masks == {{"out"}}
=============================================================================
