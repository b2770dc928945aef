--------------------------- MODULE MCAsyncActions ---------------------------
(* Instances of AsyncActions for TLC. *)
EXTENDS AsyncActions, TLC

Symmetric == Permutations(Objects) \cup Permutations(Callers)
=============================================================================
