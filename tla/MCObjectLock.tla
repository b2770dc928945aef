---------------------------- MODULE MCObjectLock ----------------------------
(* Instances of ObjectLock for TLC. *)
EXTENDS ObjectLock, TLC

Symmetric == Permutations(Threads) \cup Permutations(Objects)
============================================================================
