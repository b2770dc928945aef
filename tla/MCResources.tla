---------------------------- MODULE MCResources ----------------------------
(* Small instances of Resources for TLC. *)
EXTENDS Resources, TLC

CONSTANTS c1, c2, c3, r1, r2, o1, a1

MCSymmetry == Permutations(Clients) \cup Permutations(ResourceIDs)
============================================================================
