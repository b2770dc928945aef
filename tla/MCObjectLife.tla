---------------------------- MODULE MCObjectLife ----------------------------
(* Instances of ObjectLife for TLC. *)
EXTENDS ObjectLife, TLC

Symmetric == Permutations(Threads)
============================================================================
