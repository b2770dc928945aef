------------------------------ MODULE MCEvents ------------------------------
(* Instances of Events for TLC: two groups, one with a wildcard listener. *)
EXTENDS Events, TLC

Event(g, n) == [group |-> g, name |-> n]
MCEventIDs == {Event("gui", "open"), Event("gui", "shut"), Event("io", "open")}
MCFilters == {Event("gui", "open"), Event("gui", "*"), Event("io", "open")}
=============================================================================
