------------------------------ MODULE MCTimers ------------------------------
(* Instances of Timers for TLC. *)
EXTENDS Timers

CONSTANTS o1, o2

(* A routine in C of the subscriber's own, one of a script on behalf of    *)
(* another object, and an internal one.                                    *)
OwnC     == [subscriber |-> o1, context |-> o1, script |-> FALSE]
OwnScript == [subscriber |-> o1, context |-> o1, script |-> TRUE]
Scripted == [subscriber |-> o1, context |-> o2, script |-> TRUE]
Internal == [subscriber |-> None, context |-> None, script |-> FALSE]

MCForms    == <<{OwnC}, {Scripted}>>
MCOwnForms == <<{OwnC}, {OwnScript}>>
MCAllForms == <<{OwnC, Scripted, Internal}, {OwnC, Scripted, Internal}>>
MCOneTimer == <<{OwnC, Scripted, Internal}>>
=============================================================================
