----------------------------- MODULE Resources -----------------------------
(***************************************************************************)
(* The registry of tracked resources of the Kotuku core                    *)
(* (src/core/lib_memory.cpp) and the part of an owner's destruction that   *)
(* sweeps its resources (free_children() in src/core/lib_objects.cpp).     *)
(*                                                                         *)
(* A resource is anything with an identifier, an address and a manager: a  *)
(* heap block, an open folder, a compiled regex.  Any thread may pin it,   *)
(* unpin it, free it, re-track it or untrack it.  Every entry point takes  *)
(* glmResources for its registry work, so one critical section is one      *)
(* action; the manager's Free() runs WITHOUT the mutex, so destroying a    *)
(* resource is two steps with any other call in between.                   *)
(*                                                                         *)
(* A client is an activity that calls the registry: a thread, or a nested  *)
(* call such as a manager callback that re-enters the core.  A client      *)
(* holds at most one pin per resource; a thread with two pins is two       *)
(* clients.                                                                *)
(*                                                                         *)
(* A definition that stands right before another one under a longer name   *)
(* is a deviation from the code, there to confirm that the properties      *)
(* notice it.                                                              *)
(***************************************************************************)
EXTENDS Naturals, FiniteSets

CONSTANTS
    Clients,        \* activities calling the registry
    ResourceIDs,    \* RESOURCEID values, 0 excluded
    ObjectIDs,      \* objects able to own resources
    Addresses,      \* non-null addresses
    MaxPins,        \* UINT32_MAX, the limit of ResourceRecord::PinCount
    ManagerErrors,  \* errors a custom manager may return, e.g. ERR::InUse
    Disciplined,    \* do callers register resources with an address, for owners
                    \* whose destruction has not begun?
    NULL,           \* the null address, the null manager
    NoObject,       \* OwnerID 0
    Inherit         \* RESOURCEID_INHERIT

ASSUME ConstantsAssumption ==
    /\ IsFiniteSet(Clients)
    /\ MaxPins \in Nat \ {0}
    /\ Disciplined \in BOOLEAN
    /\ NULL \notin Addresses
    /\ NULL \notin {"memory", "custom"}
    /\ NoObject \notin ObjectIDs
    /\ Inherit \notin ObjectIDs \cup {NoObject}
    /\ ManagerErrors \cap {"Okay", "Terminate"} = {}

VARIABLES
    glResources,    \* glResources: the record of each identifier
    Resources,      \* ObjectRecord::Resources of each object in glObjects
    glObjects,      \* the objects registered in glObjects
    freeing,        \* objects whose FreeObject() has claimed Terminating
    pc,             \* where each client is
    claim,          \* the record a client is destroying
    result,         \* what the manager returned to it
    sweep,          \* the object a client is destroying
    todo,           \* the identifiers its free_children() has still to free
    held,           \* ghost: the clients with a pin on each resource
    payload         \* ghost: what the address of a resource stands for

registry == <<glResources, Resources, glObjects, freeing>>
callers  == <<pc, claim, result, sweep, todo>>
vars     == <<registry, callers, held, payload>>

Owners   == ObjectIDs \cup {NoObject}
Managers == {"memory", "custom"}
Errors   == {"Okay", "DoesNotExist"} \cup ManagerErrors

ResourceRecord ==
    [Tracked : BOOLEAN, Address : Addresses \cup {NULL}, Manager : Managers \cup {NULL},
     OwnerID : Owners, PinCount : 0..MaxPins, CollectOnUnlock : BOOLEAN,
     Terminating : BOOLEAN]

\* No record of this identifier in glResources.
Untracked ==
    [Tracked |-> FALSE, Address |-> NULL, Manager |-> NULL, OwnerID |-> NoObject,
     PinCount |-> 0, CollectOnUnlock |-> FALSE, Terminating |-> FALSE]

NewRecord(address, owner, manager) ==
    [Tracked |-> TRUE, Address |-> address, Manager |-> manager, OwnerID |-> owner,
     PinCount |-> 0, CollectOnUnlock |-> FALSE, Terminating |-> FALSE]

Init ==
    /\ glResources = [r \in ResourceIDs |-> Untracked]
    /\ Resources = [o \in ObjectIDs |-> {}]
    /\ glObjects = ObjectIDs
    /\ freeing = {}
    /\ pc = [c \in Clients |-> "idle"]
    /\ claim = [c \in Clients |-> NULL]
    /\ result = [c \in Clients |-> "Okay"]
    /\ sweep = [c \in Clients |-> NoObject]
    /\ todo = [c \in Clients |-> {}]
    /\ held = [r \in ResourceIDs |-> {}]
    /\ payload = [r \in ResourceIDs |-> "none"]

----------------------------------------------------------------------------
(* Helpers that run under glmResources.                                    *)

\* find(ResourceID) succeeds and the record has an address.
Usable(r) == glResources[r].Tracked /\ glResources[r].Address # NULL

BusyUnlessOnlyPinned(r) == glResources[r].CollectOnUnlock \/ glResources[r].Terminating

\* Pinned, being collected or being destroyed: the record may not be changed.
Busy(r) ==
    \/ glResources[r].PinCount > 0
    \/ glResources[r].CollectOnUnlock
    \/ glResources[r].Terminating

SetRecord(r, record) == glResources' = [glResources EXCEPT ![r] = record]

Pinned(r)   == [glResources[r] EXCEPT !.PinCount = @ + 1]
Deferred(r) == [glResources[r] EXCEPT !.CollectOnUnlock = TRUE]
Claimed(r)  == [glResources[r] EXCEPT !.Terminating = TRUE]

\* TrackResource() keeps the address or manager it is given no value for.
Retracked(r, address, owner, manager) ==
    [glResources[r] EXCEPT !.Address = IF address = NULL THEN @ ELSE address,
                           !.Manager = IF manager = NULL THEN @ ELSE manager,
                           !.OwnerID = owner]

\* An object's Resources set after r moved from one owner to another; an owner
\* that is no longer in glObjects has no set to update.
MoveOwner(r, from, to) ==
    [o \in ObjectIDs |->
        IF o \notin glObjects THEN Resources[o]
        ELSE (Resources[o] \ (IF o = from THEN {r} ELSE {}))
                \cup (IF o = to THEN {r} ELSE {})]

erase_resource_OwnerForgotten(r) ==
    /\ SetRecord(r, Untracked)
    /\ UNCHANGED Resources

erase_resource(r) ==
    /\ Resources' = MoveOwner(r, glResources[r].OwnerID, NoObject)
    /\ SetRecord(r, Untracked)

\* The owners and addresses a caller may pass for a new record.
KnownOwners  == IF Disciplined THEN (glObjects \ freeing) \cup {NoObject} ELSE Owners
NewAddresses == IF Disciplined THEN Addresses ELSE Addresses \cup {NULL}

----------------------------------------------------------------------------
(* TrackResource(), AllocResource() and UntrackResource().                  *)

Register(r, address, owner, manager) ==
    /\ ~glResources[r].Tracked
    /\ SetRecord(r, NewRecord(address, owner, manager))
    /\ Resources' = MoveOwner(r, NoObject, owner)
    /\ payload' = [payload EXCEPT ![r] = "live"]
    /\ UNCHANGED <<glObjects, freeing, callers, held>>

TrackNewResource(c, r) ==
    /\ pc[c] = "idle"
    /\ \E address \in NewAddresses, owner \in KnownOwners :
          Register(r, address, owner, "custom")

\* The identifier is fresh (glResourceID++) and the address is never null.
AllocResource(c, r) ==
    /\ pc[c] = "idle"
    /\ payload[r] = "none"
    /\ \E address \in Addresses, owner \in KnownOwners, manager \in Managers :
          Register(r, address, owner, manager)

TrackExistingResource(c, r) ==
    /\ pc[c] = "idle"
    /\ glResources[r].Tracked
    /\ ~Busy(r)
    /\ \E address \in Addresses \cup {NULL}, owner \in KnownOwners \cup {Inherit},
          manager \in Managers \cup {NULL} :
          LET oldOwner == glResources[r].OwnerID
              newOwner == IF owner = Inherit THEN oldOwner ELSE owner
          IN  /\ SetRecord(r, Retracked(r, address, newOwner, manager))
              /\ Resources' = IF oldOwner = newOwner THEN Resources
                              ELSE MoveOwner(r, oldOwner, newOwner)
    /\ UNCHANGED <<glObjects, freeing, callers, held, payload>>

\* The caller takes the payload back.
UntrackResource(c, r) ==
    /\ pc[c] = "idle"
    /\ glResources[r].Tracked
    /\ ~Busy(r)
    /\ erase_resource(r)
    /\ payload' = [payload EXCEPT ![r] = "none"]
    /\ UNCHANGED <<glObjects, freeing, callers, held>>

----------------------------------------------------------------------------
(* PinResource(), UnpinResource() and FreeResource().                       *)

\* The counter is below its limit; ERR::OutOfRange otherwise.
PinAvailable(r) == glResources[r].PinCount # MaxPins

PinResource(c, r) ==
    /\ pc[c] = "idle"
    /\ c \notin held[r]
    /\ Usable(r)
    /\ ~glResources[r].Terminating
    /\ ~glResources[r].CollectOnUnlock
    /\ PinAvailable(r)
    /\ SetRecord(r, Pinned(r))
    /\ held' = [held EXCEPT ![r] = @ \cup {c}]
    /\ UNCHANGED <<Resources, glObjects, freeing, callers, payload>>

\* The critical sections of UnpinResource() and FreeResource() that claim the
\* record; the caller then continues in destroy_claimed_resource().
Claim(c, r) ==
    /\ pc' = [pc EXCEPT ![c] = "manager"]
    /\ claim' = [claim EXCEPT ![c] = r]

NeverLastPin(r) == FALSE

\* This unpin is the last one and a collection is waiting for it.
LastPin(r) == glResources[r].PinCount = 1 /\ glResources[r].CollectOnUnlock

Unpinned(r) ==
    [glResources[r] EXCEPT !.PinCount = @ - 1, !.Terminating = IF LastPin(r) THEN TRUE ELSE @]

UnpinResource(c, r) ==
    /\ pc[c] = "idle"
    /\ c \in held[r]
    /\ Usable(r)
    /\ glResources[r].PinCount > 0
    /\ SetRecord(r, Unpinned(r))
    /\ IF LastPin(r) THEN Claim(c, r) ELSE UNCHANGED <<pc, claim>>
    /\ held' = [held EXCEPT ![r] = @ \ {c}]
    /\ UNCHANGED <<Resources, glObjects, freeing, result, sweep, todo, payload>>

FreeRegisteredTwice(c, r) ==
    IF ~Usable(r) THEN UNCHANGED <<glResources, pc, claim>>
    ELSE IF glResources[r].PinCount > 0
    THEN /\ SetRecord(r, Deferred(r))
         /\ UNCHANGED <<pc, claim>>
    ELSE /\ SetRecord(r, Claimed(r))
         /\ Claim(c, r)

FreeRegisteredPinned(c, r) ==
    IF ~Usable(r) \/ glResources[r].Terminating
    THEN UNCHANGED <<glResources, pc, claim>>
    ELSE /\ SetRecord(r, Claimed(r))
         /\ Claim(c, r)

\* The part of FreeResource() under glmResources: nothing to do, deferral to
\* the last unpin, or the claim.
FreeRegistered(c, r) ==
    IF ~Usable(r) \/ glResources[r].Terminating
    THEN UNCHANGED <<glResources, pc, claim>>
    ELSE IF glResources[r].PinCount > 0
    THEN /\ SetRecord(r, Deferred(r))
         /\ UNCHANGED <<pc, claim>>
    ELSE /\ SetRecord(r, Claimed(r))
         /\ Claim(c, r)

FreeResource(c, r) ==
    /\ pc[c] = "idle"
    /\ FreeRegistered(c, r)
    /\ UNCHANGED <<Resources, glObjects, freeing, result, sweep, todo, held, payload>>

----------------------------------------------------------------------------
(* destroy_claimed_resource(): the manager runs without the mutex, then the *)
(* outcome is recorded under it.                                           *)

\* free_private_memory_resource(), the memory manager.
FreeMemory(c) ==
    /\ pc[c] = "manager"
    /\ LET r == claim[c] IN
       /\ glResources[r].Manager = "memory"
       /\ IF Usable(r)
          THEN /\ payload' = [payload EXCEPT ![r] = "freed"]
               /\ result' = [result EXCEPT ![c] = "Okay"]
          ELSE /\ result' = [result EXCEPT ![c] = "DoesNotExist"]
               /\ UNCHANGED payload
    /\ pc' = [pc EXCEPT ![c] = "outcome"]
    /\ UNCHANGED <<registry, claim, sweep, todo, held>>

\* A custom manager succeeds (Okay, or Terminate followed by the release of the
\* block, which destroy_claimed_resource() also turns into Okay) or refuses.
RunManager(c) ==
    /\ pc[c] = "manager"
    /\ LET r == claim[c] IN
       /\ glResources[r].Manager # "memory"
       /\ \/ /\ payload' = [payload EXCEPT ![r] = "freed"]
             /\ result' = [result EXCEPT ![c] = "Okay"]
          \/ /\ \E error \in ManagerErrors : result' = [result EXCEPT ![c] = error]
             /\ UNCHANGED payload
    /\ pc' = [pc EXCEPT ![c] = "outcome"]
    /\ UNCHANGED <<registry, claim, sweep, todo, held>>

RefusedStillMarked(r) == [glResources[r] EXCEPT !.Terminating = FALSE]

\* The record after its manager refused: live again, and retryable.
Refused(r) ==
    [glResources[r] EXCEPT !.Terminating = FALSE,
                           !.CollectOnUnlock = IF glResources[r].PinCount > 0 THEN @ ELSE FALSE]

\* Where destroy_claimed_resource() returns to: the caller of the API, or the
\* loop of free_children().
ReturnTo(c) == IF sweep[c] = NoObject THEN "idle" ELSE "sweep"

RecordOutcome(c) ==
    /\ pc[c] = "outcome"
    /\ LET r == claim[c] IN
       IF result[c] = "Okay" THEN erase_resource(r)
       ELSE SetRecord(r, Refused(r)) /\ UNCHANGED Resources
    /\ claim' = [claim EXCEPT ![c] = NULL]
    /\ result' = [result EXCEPT ![c] = "Okay"]
    /\ pc' = [pc EXCEPT ![c] = ReturnTo(c)]
    /\ UNCHANGED <<glObjects, freeing, sweep, todo, held, payload>>

----------------------------------------------------------------------------
(* The destruction of an owner, as far as its resources see it.            *)

\* FreeObject() claims the object; a second caller gets ERR::InUse.
FreeObject(c, o) ==
    /\ pc[c] = "idle"
    /\ o \in glObjects \ freeing
    /\ freeing' = freeing \cup {o}
    /\ sweep' = [sweep EXCEPT ![c] = o]
    /\ pc' = [pc EXCEPT ![c] = "snapshot"]
    /\ UNCHANGED <<glResources, Resources, glObjects, claim, result, todo, held, payload>>

UnpinnedTracked(r) == glResources[r].Tracked /\ ~Busy(r)

\* Nobody is destroying the resource or is going to collect it.
Unclaimed(r) ==
    /\ glResources[r].Tracked
    /\ ~glResources[r].CollectOnUnlock
    /\ ~glResources[r].Terminating

\* free_children() copies the identifiers under both mutexes.
free_children(c) ==
    /\ pc[c] = "snapshot"
    /\ todo' = [todo EXCEPT ![c] =
                  {r \in Resources[sweep[c]] : Unclaimed(r)}]
    /\ pc' = [pc EXCEPT ![c] = "sweep"]
    /\ UNCHANGED <<registry, claim, result, sweep, held, payload>>

\* One turn of its loop: FreeResource(id), whose result is ignored.
SweepResource(c, r) ==
    /\ pc[c] = "sweep"
    /\ r \in todo[c]
    /\ todo' = [todo EXCEPT ![c] = @ \ {r}]
    /\ FreeRegistered(c, r)
    /\ UNCHANGED <<Resources, glObjects, freeing, result, sweep, held, payload>>

\* object_free() drops the object's record, and with it the Resources set.
EraseObject(c) ==
    /\ pc[c] = "sweep"
    /\ todo[c] = {}
    /\ glObjects' = glObjects \ {sweep[c]}
    /\ freeing' = freeing \ {sweep[c]}
    /\ Resources' = [Resources EXCEPT ![sweep[c]] = {}]
    /\ sweep' = [sweep EXCEPT ![c] = NoObject]
    /\ pc' = [pc EXCEPT ![c] = "idle"]
    /\ UNCHANGED <<glResources, claim, result, todo, held, payload>>

----------------------------------------------------------------------------
RegistryCall(c, r) ==
    \/ TrackNewResource(c, r)
    \/ AllocResource(c, r)
    \/ TrackExistingResource(c, r)
    \/ UntrackResource(c, r)
    \/ PinResource(c, r)
    \/ UnpinResource(c, r)
    \/ FreeResource(c, r)
    \/ SweepResource(c, r)

\* The rest of a call that has begun.
Continue(c) ==
    \/ FreeMemory(c)
    \/ RunManager(c)
    \/ RecordOutcome(c)
    \/ free_children(c)
    \/ EraseObject(c)

Next == \E c \in Clients :
    \/ \E r \in ResourceIDs : RegistryCall(c, r)
    \/ Continue(c)
    \/ \E o \in ObjectIDs : FreeObject(c, o)

Spec == Init /\ [][Next]_vars

\* A started call runs to its end, and a client that keeps returning from its
\* calls makes the unpin that matches its pin.
Fairness == \A c \in Clients :
    /\ WF_vars(Continue(c))
    /\ \A r \in ResourceIDs : WF_vars(SweepResource(c, r)) /\ SF_vars(UnpinResource(c, r))

FairSpec == Spec /\ Fairness

----------------------------------------------------------------------------
(* Properties.                                                             *)

TypeOK ==
    /\ glResources \in [ResourceIDs -> ResourceRecord]
    /\ Resources \in [ObjectIDs -> SUBSET ResourceIDs]
    /\ glObjects \in SUBSET ObjectIDs
    /\ freeing \in SUBSET ObjectIDs
    /\ pc \in [Clients -> {"idle", "manager", "outcome", "snapshot", "sweep"}]
    /\ claim \in [Clients -> ResourceIDs \cup {NULL}]
    /\ result \in [Clients -> Errors]
    /\ sweep \in [Clients -> Owners]
    /\ todo \in [Clients -> SUBSET ResourceIDs]
    /\ held \in [ResourceIDs -> SUBSET Clients]
    /\ payload \in [ResourceIDs -> {"none", "live", "freed"}]

Destroying(c) == pc[c] \in {"manager", "outcome"}

\* A successful PinResource() protects the resource: as long as any client
\* holds a pin the record is there, its destruction has not begun and its
\* payload has not been released, whatever FreeResource(), TrackResource(),
\* UntrackResource() and an owner's free_children() do meanwhile.
PinProtects == \A r \in ResourceIDs :
    held[r] # {} => /\ glResources[r].Tracked
                    /\ ~glResources[r].Terminating
                    /\ payload[r] = "live"

\* Only one caller ever destroys a record: two clients inside
\* destroy_claimed_resource() hold different records, each registered and
\* flagged Terminating, so the raw ResourceRecord pointer stays valid while the
\* manager runs without glmResources.
SingleDestroyer ==
    /\ \A c \in Clients : Destroying(c) =>
          claim[c] \in ResourceIDs /\ glResources[claim[c]].Tracked
                                   /\ glResources[claim[c]].Terminating
    /\ \A c, d \in Clients : Destroying(c) /\ Destroying(d) /\ claim[c] = claim[d] => c = d

\* The manager is never called on a payload that was already released: no
\* block is freed twice, although a failed collection may call it again.
NoDoubleFree == \A c \in Clients : pc[c] = "manager" => payload[claim[c]] = "live"

\* A collection that FreeResource() deferred is somebody's duty: the record is
\* marked CollectOnUnlock only while a pin is left whose release will collect
\* it, or while a client is destroying it.  A mark without either would make
\* the resource unusable and never freed.
DeferredCollectionOwned == \A r \in ResourceIDs :
    glResources[r].CollectOnUnlock =>
        \/ glResources[r].PinCount > 0
        \/ \E c \in Clients : Destroying(c) /\ claim[c] = r

\* Terminating is the claim of one particular caller: the flag never outlives
\* the call that set it, which would leave the resource InUse for ever.
ClaimOwned == \A r \in ResourceIDs :
    glResources[r].Terminating => \E c \in Clients : Destroying(c) /\ claim[c] = r

\* ResourceRecord::OwnerID and ObjectRecord::Resources are two views of one
\* relation, kept by separate updates in TrackResource() and erase_resource().
OwnershipConsistent == \A o \in glObjects, r \in ResourceIDs :
    r \in Resources[o] <=> (glResources[r].Tracked /\ glResources[r].OwnerID = o)

\* While a pin is held across a step, nobody changes what the record means to
\* the holder: its address, manager and owner stay what they were.
PinnedRecordStable == [][\A r \in ResourceIDs :
    held[r] # {} => /\ glResources'[r].Address = glResources[r].Address
                    /\ glResources'[r].Manager = glResources[r].Manager
                    /\ glResources'[r].OwnerID = glResources[r].OwnerID]_vars

\* A deferred collection happens once the pins are released: the record leaves
\* the registry, or the manager refused and it is live again.
DeferredCollectionHappens == \A r \in ResourceIDs :
    glResources[r].CollectOnUnlock ~> ~glResources[r].CollectOnUnlock

\* The destruction of an owner ends, whatever its resources' managers answer.
OwnerSweepEnds == \A o \in ObjectIDs : o \in freeing ~> o \notin glObjects

\* What has been put off or begun is brought to its end: deferred collections
\* and the destruction of owners.
DestructionCompletes == DeferredCollectionHappens /\ OwnerSweepEnds

----------------------------------------------------------------------------
(* What the documentation says and the code does not keep in every case:   *)
(* the counterexample is described in the README.                         *)

\* The owner's destruction cleans up: a usable resource whose owner has left
\* glObjects is still pinned for collection or being destroyed, never simply
\* forgotten, as long as no manager refuses (lib_memory.cpp:154).
CleanedUpWithOwner == \A r \in ResourceIDs :
    /\ Usable(r)
    /\ glResources[r].OwnerID \in ObjectIDs \ glObjects
    => glResources[r].CollectOnUnlock \/ glResources[r].Terminating

----------------------------------------------------------------------------
(* Refinement and inductive invariant.                                     *)

Status(r) ==
    IF ~glResources[r].Tracked THEN "absent"
    ELSE IF glResources[r].Terminating THEN "dying"
    ELSE IF glResources[r].CollectOnUnlock THEN "doomed" ELSE "live"

Lifetime == INSTANCE ResourceLifetime WITH
    status <- [r \in ResourceIDs |-> Status(r)], holders <- held

\* The registry keeps the promise of ResourceLifetime: pins only on live
\* resources, death only without pins, one death per life.
ImplementsLifetime == Lifetime!Spec

\* What the records and the ghosts have in common in every state.
RecordInv(r) ==
    /\ glResources[r].PinCount = Cardinality(held[r])
    /\ ~glResources[r].Tracked => glResources[r] = Untracked
    /\ glResources[r].Terminating => held[r] = {}
    /\ glResources[r].CollectOnUnlock => glResources[r].Terminating \/ held[r] # {}
    /\ glResources[r].Terminating => \E c \in Clients : Destroying(c) /\ claim[c] = r
    /\ glResources[r].Tracked =>
          \/ payload[r] = "live"
          \/ \E c \in Clients : pc[c] = "outcome" /\ claim[c] = r /\ result[c] = "Okay"

\* The pin counter of every record is the number of pins clients really hold,
\* destruction and pins exclude each other, and a record whose payload is gone
\* is one whose destroyer is about to erase it: the inductive strengthening of
\* PinProtects, SingleDestroyer and NoDoubleFree.
RegistryInv ==
    /\ TypeOK
    /\ SingleDestroyer
    /\ \A c \in Clients : pc[c] \in {"snapshot", "sweep"} => sweep[c] \in ObjectIDs
    /\ \A r \in ResourceIDs : RecordInv(r)
============================================================================
