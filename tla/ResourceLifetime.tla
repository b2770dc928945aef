-------------------------- MODULE ResourceLifetime --------------------------
(***************************************************************************)
(* What the registry promises the users of a resource, without records,    *)
(* flags, owners or threads: a resource is absent, live, doomed (freed     *)
(* while pinned, waiting for the last unpin) or dying (its manager runs).  *)
(* Pins are only given on live resources, and only a resource without pins *)
(* dies.  Resources implements this specification.                         *)
(***************************************************************************)
CONSTANTS Clients, ResourceIDs

VARIABLES
    status,     \* "absent", "live", "doomed" or "dying"
    holders     \* the clients that have a resource pinned

vars == <<status, holders>>

Init ==
    /\ status = [r \in ResourceIDs |-> "absent"]
    /\ holders = [r \in ResourceIDs |-> {}]

Become(r, s) == status' = [status EXCEPT ![r] = s]

Appear(r) == status[r] = "absent" /\ Become(r, "live") /\ UNCHANGED holders

\* UntrackResource(): the caller keeps the payload.
Withdraw(r) ==
    status[r] = "live" /\ holders[r] = {} /\ Become(r, "absent") /\ UNCHANGED holders

Acquire(r, c) ==
    /\ status[r] = "live"
    /\ holders' = [holders EXCEPT ![r] = @ \cup {c}]
    /\ UNCHANGED status

Release(r, c) ==
    /\ c \in holders[r]
    /\ holders' = [holders EXCEPT ![r] = @ \ {c}]
    /\ IF status[r] = "doomed" /\ holders[r] = {c} THEN Become(r, "dying") ELSE UNCHANGED status

\* FreeResource() kills an unpinned resource and dooms a pinned one.
Kill(r) == status[r] = "live" /\ holders[r] = {} /\ Become(r, "dying") /\ UNCHANGED holders
Doom(r) == status[r] = "live" /\ holders[r] # {} /\ Become(r, "doomed") /\ UNCHANGED holders

\* The manager released the payload, or refused and the resource is live again.
Die(r)    == status[r] = "dying" /\ Become(r, "absent") /\ UNCHANGED holders
Survive(r) == status[r] = "dying" /\ Become(r, "live") /\ UNCHANGED holders

Next == \E r \in ResourceIDs :
    \/ Appear(r) \/ Withdraw(r) \/ Kill(r) \/ Doom(r) \/ Die(r) \/ Survive(r)
    \/ \E c \in Clients : Acquire(r, c) \/ Release(r, c)

Spec == Init /\ [][Next]_vars
============================================================================
