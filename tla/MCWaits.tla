------------------------------ MODULE MCWaits ------------------------------
(* Instances of Waits for TLC. *)
EXTENDS Waits
CONSTANTS o1, o2

MCLists == {{o1, o2}}
=============================================================================
