---- MODULE MCCoroutine ----
(* Instance of Coroutine: a few user coroutines, interchangeable. *)
EXTENDS Coroutine, TLC

Symmetry == Permutations(User)
====
