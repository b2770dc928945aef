-------------------------- MODULE ResourcesProofs --------------------------
(***************************************************************************)
(* The inductive invariant of Resources, its safety properties and its     *)
(* refinement of ResourceLifetime, for any number of clients, resources,   *)
(* objects and pins.                                                       *)
(***************************************************************************)
EXTENDS Resources, FiniteSetTheorems, TLAPS

\* The pins of a resource are a finite set.
LEMMA HoldersFinite ==
    ASSUME NEW S \in SUBSET Clients
    PROVE  /\ IsFiniteSet(S)
           /\ Cardinality(S) \in Nat
           /\ Cardinality(S) = 0 <=> S = {}
<1>1. IsFiniteSet(S)
  BY ConstantsAssumption, FS_Subset
<1>2. QED
  BY <1>1, FS_CardinalityType, FS_EmptySet

\* Counting them follows the steps of PinResource() and UnpinResource().
LEMMA HoldersCount ==
    ASSUME NEW S \in SUBSET Clients, NEW c \in Clients
    PROVE  /\ c \notin S => Cardinality(S \cup {c}) = Cardinality(S) + 1
           /\ c \in S => Cardinality(S \ {c}) = Cardinality(S) - 1
  BY HoldersFinite, FS_AddElement, FS_RemoveElement

----------------------------------------------------------------------------
\* Every value an action writes into the registry is a record.
LEMMA RecordTyped ==
    ASSUME TypeOK, NEW r \in ResourceIDs
    PROVE  /\ glResources[r] \in ResourceRecord
           /\ Untracked \in ResourceRecord
           /\ Deferred(r) \in ResourceRecord
           /\ Claimed(r) \in ResourceRecord
           /\ Refused(r) \in ResourceRecord
           /\ glResources[r].PinCount # MaxPins => Pinned(r) \in ResourceRecord
           /\ glResources[r].PinCount > 0 => Unpinned(r) \in ResourceRecord
<1>1. glResources[r] \in ResourceRecord
  BY DEF TypeOK
<1>2. Untracked \in ResourceRecord
  BY ConstantsAssumption DEF Untracked, ResourceRecord, Owners
<1>3. Deferred(r) \in ResourceRecord
  BY <1>1 DEF Deferred, ResourceRecord
<1>4. Claimed(r) \in ResourceRecord
  BY <1>1 DEF Claimed, ResourceRecord
<1>5. Refused(r) \in ResourceRecord
  BY <1>1 DEF Refused, ResourceRecord
<1>6. glResources[r].PinCount # MaxPins => Pinned(r) \in ResourceRecord
  <2>1. glResources[r].PinCount # MaxPins => glResources[r].PinCount + 1 \in 0..MaxPins
    BY <1>1, ConstantsAssumption DEF ResourceRecord
  <2>2. QED
    BY <1>1, <2>1 DEF Pinned, ResourceRecord
<1>7. glResources[r].PinCount > 0 => Unpinned(r) \in ResourceRecord
  <2>1. glResources[r].PinCount > 0 => glResources[r].PinCount - 1 \in 0..MaxPins
    BY <1>1, ConstantsAssumption DEF ResourceRecord
  <2>2. QED
    BY <1>1, <2>1 DEF Unpinned, ResourceRecord
<1>8. QED
  BY <1>1, <1>2, <1>3, <1>4, <1>5, <1>6, <1>7

\* Writing a record writes that record only.
LEMMA RecordWritten ==
    ASSUME TypeOK, NEW r \in ResourceIDs, NEW record \in ResourceRecord, SetRecord(r, record)
    PROVE  /\ glResources' \in [ResourceIDs -> ResourceRecord]
           /\ glResources'[r] = record
           /\ \A s \in ResourceIDs \ {r} : glResources'[s] = glResources[s]
  BY DEF TypeOK, SetRecord

\* Every action keeps the types; the outcome of a manager is recorded for a
\* claimed record.
LEMMA TypeStep == RegistryInv /\ [Next]_vars => TypeOK'
<1> USE ConstantsAssumption DEF Owners, Errors
<1> SUFFICES ASSUME RegistryInv, TypeOK, SingleDestroyer, [Next]_vars PROVE TypeOK'
  BY DEF RegistryInv
<1>0. ASSUME NEW r \in ResourceIDs, NEW from \in Owners, NEW to \in Owners
      PROVE  MoveOwner(r, from, to) \in [ObjectIDs -> SUBSET ResourceIDs]
  BY <1>0 DEF TypeOK, MoveOwner
<1>1. ASSUME NEW r \in ResourceIDs, NEW address \in Addresses \cup {NULL}, NEW owner \in Owners,
             NEW manager \in Managers, Register(r, address, owner, manager)
      PROVE  TypeOK'
  <2>1. NewRecord(address, owner, manager) \in ResourceRecord
    BY <1>1 DEF NewRecord, ResourceRecord
  <2>2. glResources' \in [ResourceIDs -> ResourceRecord]
    BY <1>1, <2>1, RecordWritten DEF Register
  <2>3. Resources' \in [ObjectIDs -> SUBSET ResourceIDs]
    BY <1>0, <1>1 DEF Register
  <2>4. QED
    BY <1>1, <2>2, <2>3 DEF TypeOK, Register, callers
<1>2. ASSUME NEW c \in Clients, NEW r \in ResourceIDs,
             TrackNewResource(c, r) \/ AllocResource(c, r)
      PROVE  TypeOK'
  BY <1>1, <1>2 DEF TrackNewResource, AllocResource, NewAddresses, KnownOwners, Managers, TypeOK
<1>3. ASSUME NEW c \in Clients, NEW r \in ResourceIDs, TrackExistingResource(c, r) PROVE TypeOK'
  <2>1. PICK address \in Addresses \cup {NULL}, owner \in KnownOwners \cup {Inherit},
             manager \in Managers \cup {NULL} :
          LET oldOwner == glResources[r].OwnerID
              newOwner == IF owner = Inherit THEN oldOwner ELSE owner
          IN  /\ SetRecord(r, Retracked(r, address, newOwner, manager))
              /\ Resources' = IF oldOwner = newOwner THEN Resources
                              ELSE MoveOwner(r, oldOwner, newOwner)
    BY <1>3 DEF TrackExistingResource
  <2> DEFINE newOwner == IF owner = Inherit THEN glResources[r].OwnerID ELSE owner
  <2>2. glResources[r] \in ResourceRecord /\ newOwner \in Owners
        /\ glResources[r].OwnerID \in Owners
    BY RecordTyped DEF KnownOwners, TypeOK, ResourceRecord
  <2>3. Retracked(r, address, newOwner, manager) \in ResourceRecord
    BY <2>2 DEF Retracked, ResourceRecord
  <2>4. glResources' \in [ResourceIDs -> ResourceRecord]
    BY <2>1, <2>3, RecordWritten
  <2>5. Resources' \in [ObjectIDs -> SUBSET ResourceIDs]
    BY <1>0, <2>1, <2>2 DEF TypeOK
  <2>6. QED
    BY <1>3, <2>4, <2>5 DEF TypeOK, TrackExistingResource, callers
<1>4. ASSUME NEW r \in ResourceIDs, erase_resource(r)
      PROVE  /\ glResources' \in [ResourceIDs -> ResourceRecord]
             /\ Resources' \in [ObjectIDs -> SUBSET ResourceIDs]
  <2>1. glResources[r].OwnerID \in Owners
    BY RecordTyped DEF ResourceRecord
  <2>2. QED
    BY <1>0, <1>4, <2>1, RecordTyped, RecordWritten DEF erase_resource
<1>5. ASSUME NEW c \in Clients, NEW r \in ResourceIDs, UntrackResource(c, r) PROVE TypeOK'
  BY <1>4, <1>5 DEF TypeOK, UntrackResource, callers
<1>6. ASSUME NEW c \in Clients, NEW r \in ResourceIDs, PinResource(c, r) PROVE TypeOK'
  <2>1. glResources' \in [ResourceIDs -> ResourceRecord]
    BY <1>6, RecordTyped, RecordWritten DEF PinResource, PinAvailable
  <2>2. QED
    BY <1>6, <2>1 DEF TypeOK, PinResource, callers
<1>7. ASSUME NEW c \in Clients, NEW r \in ResourceIDs, UnpinResource(c, r) PROVE TypeOK'
  <2>1. glResources' \in [ResourceIDs -> ResourceRecord]
    BY <1>7, RecordTyped, RecordWritten DEF UnpinResource
  <2>2. pc' \in [Clients -> {"idle", "manager", "outcome", "snapshot", "sweep"}]
        /\ claim' \in [Clients -> ResourceIDs \cup {NULL}]
    BY <1>7 DEF TypeOK, UnpinResource, Claim
  <2>3. QED
    BY <1>7, <2>1, <2>2 DEF TypeOK, UnpinResource
<1>8. ASSUME NEW c \in Clients, NEW r \in ResourceIDs, FreeRegistered(c, r)
      PROVE  /\ glResources' \in [ResourceIDs -> ResourceRecord]
             /\ pc' \in [Clients -> {"idle", "manager", "outcome", "snapshot", "sweep"}]
             /\ claim' \in [Clients -> ResourceIDs \cup {NULL}]
  <2>1. glResources' \in [ResourceIDs -> ResourceRecord]
    BY <1>8, RecordTyped, RecordWritten DEF FreeRegistered, TypeOK
  <2>2. QED
    BY <1>8, <2>1 DEF TypeOK, FreeRegistered, Claim
<1>9. ASSUME NEW c \in Clients, NEW r \in ResourceIDs,
             FreeResource(c, r) \/ SweepResource(c, r)
      PROVE  TypeOK'
  BY <1>8, <1>9 DEF TypeOK, FreeResource, SweepResource
<1>10. ASSUME NEW c \in Clients, FreeMemory(c) \/ RunManager(c) PROVE TypeOK'
  BY <1>10 DEF TypeOK, FreeMemory, RunManager, registry
<1>11. ASSUME NEW c \in Clients, RecordOutcome(c) PROVE TypeOK'
  <2>0. claim[c] \in ResourceIDs
    BY <1>11 DEF SingleDestroyer, Destroying, RecordOutcome
  <2>1. /\ glResources' \in [ResourceIDs -> ResourceRecord]
        /\ Resources' \in [ObjectIDs -> SUBSET ResourceIDs]
    BY <1>4, <1>11, <2>0, RecordTyped, RecordWritten DEF RecordOutcome, TypeOK
  <2>2. QED
    BY <1>11, <2>1 DEF TypeOK, RecordOutcome, ReturnTo
<1>12. ASSUME NEW c \in Clients, free_children(c) PROVE TypeOK'
  <2>1. sweep[c] \in ObjectIDs
    BY <1>12 DEF RegistryInv, free_children
  <2>2. QED
    BY <1>12, <2>1 DEF TypeOK, free_children, registry
<1>13. ASSUME NEW c \in Clients, EraseObject(c) PROVE TypeOK'
  <2>1. Resources' \in [ObjectIDs -> SUBSET ResourceIDs]
    BY <1>13 DEF TypeOK, EraseObject
  <2>2. QED
    BY <1>13, <2>1 DEF TypeOK, EraseObject
<1>14. ASSUME NEW c \in Clients, NEW o \in ObjectIDs, FreeObject(c, o) PROVE TypeOK'
  BY <1>14 DEF TypeOK, FreeObject
<1>15. CASE UNCHANGED vars
  BY <1>15 DEF TypeOK, vars, registry, callers
<1>16. QED
  BY <1>2, <1>3, <1>5, <1>6, <1>7, <1>9, <1>10, <1>11, <1>12, <1>13, <1>14, <1>15
  DEF Next, RegistryCall, Continue

----------------------------------------------------------------------------
(* The inductive step, one action at a time.  A step touches one record;   *)
(* the others keep theirs, their holders, their payload and their claim.   *)

\* A pinned record has no destroyer, so its payload is live.
LEMMA PinnedIsLive ==
    ASSUME RegistryInv, NEW r \in ResourceIDs, held[r] # {}
    PROVE  /\ glResources[r].Tracked
           /\ ~glResources[r].Terminating
           /\ payload[r] = "live"
           /\ \A c \in Clients : Destroying(c) => claim[c] # r
<1>1. glResources[r].PinCount # 0
  BY HoldersFinite DEF RegistryInv, TypeOK, RecordInv
<1>2. glResources[r].Tracked
  BY <1>1 DEF RegistryInv, RecordInv, Untracked
<1>3. ~glResources[r].Terminating
  BY DEF RegistryInv, RecordInv
<1>4. \A c \in Clients : Destroying(c) => claim[c] # r
  BY <1>3 DEF RegistryInv, SingleDestroyer
<1>5. payload[r] = "live"
  BY <1>2, <1>4 DEF RegistryInv, RecordInv, Destroying
<1>6. QED
  BY <1>2, <1>3, <1>4, <1>5

\* An idle record, neither pinned, marked nor claimed, is nobody's claim.
LEMMA NotBusyIsFree ==
    ASSUME RegistryInv, NEW r \in ResourceIDs, ~Busy(r)
    PROVE  /\ held[r] = {}
           /\ \A c \in Clients : Destroying(c) => claim[c] # r
           /\ glResources[r].Tracked => payload[r] = "live"
<1>1. glResources[r].PinCount = 0
  BY RecordTyped DEF Busy, RegistryInv, ResourceRecord
<1>2. held[r] = {}
  BY <1>1, HoldersFinite DEF RegistryInv, RecordInv, TypeOK
<1>3. \A c \in Clients : Destroying(c) => claim[c] # r
  BY DEF RegistryInv, SingleDestroyer, Busy
<1>4. QED
  BY <1>2, <1>3 DEF RegistryInv, RecordInv, Destroying

LEMMA InvRegister ==
    ASSUME RegistryInv, TypeOK', NEW r \in ResourceIDs, NEW address \in Addresses \cup {NULL},
           NEW owner \in Owners, NEW manager \in Managers, Register(r, address, owner, manager)
    PROVE  RegistryInv'
<1> USE DEF Register, callers
<1>1. TypeOK /\ glResources[r] = Untracked
  BY DEF RegistryInv, RecordInv
<1>2. ~Busy(r)
  BY <1>1 DEF Busy, Untracked
<1>3. NewRecord(address, owner, manager) \in ResourceRecord
  BY ConstantsAssumption DEF NewRecord, ResourceRecord
<1>4. /\ glResources'[r] = NewRecord(address, owner, manager)
      /\ \A s \in ResourceIDs \ {r} : glResources'[s] = glResources[s]
  BY <1>1, <1>3, RecordWritten
<1>5. payload'[r] = "live" /\ \A s \in ResourceIDs \ {r} : payload'[s] = payload[s]
  BY <1>1 DEF TypeOK
<1>6. SingleDestroyer'
  BY <1>2, <1>4, NotBusyIsFree DEF RegistryInv, SingleDestroyer, Destroying
<1>7. ASSUME NEW s \in ResourceIDs PROVE RecordInv(s)'
  <2>1. CASE s = r
    <3>1. held[r] = {} /\ Cardinality(held[r]) = 0
      BY <1>2, NotBusyIsFree, FS_EmptySet
    <3>2. QED
      BY <1>4, <1>5, <2>1, <3>1 DEF RecordInv, NewRecord, Destroying
  <2>2. CASE s # r
    BY <1>4, <1>5, <2>2 DEF RegistryInv, RecordInv, Destroying
  <2>3. QED
    BY <2>1, <2>2
<1>8. \A c \in Clients : pc'[c] \in {"snapshot", "sweep"} => sweep'[c] \in ObjectIDs
  BY DEF RegistryInv
<1>9. QED
  BY <1>6, <1>7, <1>8 DEF RegistryInv

\* TrackResource() on an existing record leaves its counters and flags alone.
LEMMA InvRetrack ==
    ASSUME RegistryInv, TypeOK', NEW c \in Clients, NEW r \in ResourceIDs,
           TrackExistingResource(c, r)
    PROVE  RegistryInv'
<1> USE DEF TrackExistingResource, callers
<1>1. PICK address \in Addresses \cup {NULL}, owner \in Owners,
           manager \in Managers \cup {NULL} : SetRecord(r, Retracked(r, address, owner, manager))
  <2>1. PICK address \in Addresses \cup {NULL}, owner \in KnownOwners \cup {Inherit},
             manager \in Managers \cup {NULL} :
          SetRecord(r, Retracked(r, address,
                                 IF owner = Inherit THEN glResources[r].OwnerID ELSE owner, manager))
    OBVIOUS
  <2>2. glResources[r].OwnerID \in Owners
    BY RecordTyped DEF RegistryInv, ResourceRecord
  <2>3. (IF owner = Inherit THEN glResources[r].OwnerID ELSE owner) \in Owners
    BY <2>2 DEF RegistryInv, TypeOK, KnownOwners, Owners
  <2>4. QED
    BY <2>1, <2>3
<1>2. glResources[r] \in ResourceRecord /\ TypeOK
  BY RecordTyped DEF RegistryInv
<1>3. Retracked(r, address, owner, manager) \in ResourceRecord
  BY <1>2 DEF Retracked, ResourceRecord
<1>4. /\ glResources'[r] = Retracked(r, address, owner, manager)
      /\ \A s \in ResourceIDs \ {r} : glResources'[s] = glResources[s]
  BY <1>1, <1>2, <1>3, RecordWritten
<1>5. \A s \in ResourceIDs :
        /\ glResources'[s].Tracked = glResources[s].Tracked
        /\ glResources'[s].Terminating = glResources[s].Terminating
        /\ glResources'[s].CollectOnUnlock = glResources[s].CollectOnUnlock
        /\ glResources'[s].PinCount = glResources[s].PinCount
  <2> HIDE DEF TrackExistingResource, callers
  <2>1. LET retracked == Retracked(r, address, owner, manager)
        IN  /\ retracked.Tracked = glResources[r].Tracked
            /\ retracked.Terminating = glResources[r].Terminating
            /\ retracked.CollectOnUnlock = glResources[r].CollectOnUnlock
            /\ retracked.PinCount = glResources[r].PinCount
    BY <1>2 DEF Retracked, ResourceRecord
  <2>2. QED
    BY <1>4, <2>1
<1>6. SingleDestroyer'
  BY <1>5 DEF RegistryInv, SingleDestroyer, Destroying
<1>7. ASSUME NEW s \in ResourceIDs PROVE RecordInv(s)'
  BY <1>4, <1>5 DEF RegistryInv, RecordInv, Destroying
<1>8. \A d \in Clients : pc'[d] \in {"snapshot", "sweep"} => sweep'[d] \in ObjectIDs
  BY DEF RegistryInv
<1>9. QED
  BY <1>6, <1>7, <1>8 DEF RegistryInv

LEMMA InvUntrack ==
    ASSUME RegistryInv, TypeOK', NEW c \in Clients, NEW r \in ResourceIDs, UntrackResource(c, r)
    PROVE  RegistryInv'
<1> USE DEF UntrackResource, callers
<1>1. /\ glResources'[r] = Untracked
      /\ \A s \in ResourceIDs \ {r} : glResources'[s] = glResources[s]
  BY RecordTyped, RecordWritten DEF RegistryInv, erase_resource
<1>2. \A s \in ResourceIDs \ {r} : payload'[s] = payload[s]
  BY DEF RegistryInv, TypeOK
<1>3. SingleDestroyer'
  BY <1>1, NotBusyIsFree DEF RegistryInv, SingleDestroyer, Destroying
<1>4. ASSUME NEW s \in ResourceIDs PROVE RecordInv(s)'
  <2>1. CASE s = r
    <3>1. held[r] = {} /\ Cardinality(held[r]) = 0
      BY NotBusyIsFree, FS_EmptySet
    <3>2. QED
      BY <1>1, <2>1, <3>1 DEF RecordInv, Untracked, Destroying
  <2>2. CASE s # r
    BY <1>1, <1>2, <2>2 DEF RegistryInv, RecordInv, Destroying
  <2>3. QED
    BY <2>1, <2>2
<1>5. \A d \in Clients : pc'[d] \in {"snapshot", "sweep"} => sweep'[d] \in ObjectIDs
  BY DEF RegistryInv
<1>6. QED
  BY <1>3, <1>4, <1>5 DEF RegistryInv

LEMMA InvPin ==
    ASSUME RegistryInv, TypeOK', NEW c \in Clients, NEW r \in ResourceIDs, PinResource(c, r)
    PROVE  RegistryInv'
<1> USE DEF PinResource, callers
<1>1. TypeOK /\ glResources[r] \in ResourceRecord /\ Pinned(r) \in ResourceRecord
  BY RecordTyped DEF RegistryInv, PinAvailable
<1>2. /\ glResources'[r] = Pinned(r)
      /\ \A s \in ResourceIDs \ {r} : glResources'[s] = glResources[s]
  BY <1>1, RecordWritten
<1>3. /\ glResources'[r].Tracked = glResources[r].Tracked
      /\ glResources'[r].Terminating = glResources[r].Terminating
      /\ glResources'[r].CollectOnUnlock = glResources[r].CollectOnUnlock
      /\ glResources'[r].PinCount = glResources[r].PinCount + 1
  BY <1>1, <1>2 DEF Pinned, ResourceRecord
<1>4. /\ held'[r] = held[r] \cup {c}
      /\ \A s \in ResourceIDs \ {r} : held'[s] = held[s]
      /\ held[r] \in SUBSET Clients
  BY <1>1 DEF TypeOK
<1>5. SingleDestroyer'
  BY <1>2, <1>3 DEF RegistryInv, SingleDestroyer, Destroying
<1>6. ASSUME NEW s \in ResourceIDs PROVE RecordInv(s)'
  <2>1. CASE s = r
    <3>1. Cardinality(held'[r]) = Cardinality(held[r]) + 1
      BY <1>4, HoldersCount
    <3>2. glResources[r].Tracked /\ ~glResources[r].Terminating
      BY DEF Usable
    <3>3. \A d \in Clients : pc[d] = "outcome" => claim[d] # r
      BY <3>2 DEF RegistryInv, SingleDestroyer, Destroying
    <3>4. payload[r] = "live" /\ glResources[r].PinCount = Cardinality(held[r])
      BY <3>2, <3>3 DEF RegistryInv, RecordInv
    <3>5. QED
      BY <1>3, <1>4, <2>1, <3>1, <3>2, <3>4 DEF RecordInv
  <2>2. CASE s # r
    BY <1>2, <1>4, <2>2 DEF RegistryInv, RecordInv, Destroying
  <2>3. QED
    BY <2>1, <2>2
<1>7. \A d \in Clients : pc'[d] \in {"snapshot", "sweep"} => sweep'[d] \in ObjectIDs
  BY DEF RegistryInv
<1>8. QED
  BY <1>5, <1>6, <1>7 DEF RegistryInv

\* The last unpin of a marked record claims it; nobody else can have.
LEMMA InvUnpin ==
    ASSUME RegistryInv, TypeOK', NEW c \in Clients, NEW r \in ResourceIDs, UnpinResource(c, r)
    PROVE  RegistryInv'
<1> USE DEF UnpinResource
<1>1. TypeOK /\ glResources[r] \in ResourceRecord /\ Unpinned(r) \in ResourceRecord
  BY RecordTyped DEF RegistryInv
<1>2. /\ glResources'[r] = Unpinned(r)
      /\ \A s \in ResourceIDs \ {r} : glResources'[s] = glResources[s]
  BY <1>1, RecordWritten
<1>3. /\ glResources[r].Tracked
      /\ ~glResources[r].Terminating
      /\ payload[r] = "live"
      /\ \A d \in Clients : Destroying(d) => claim[d] # r
  BY PinnedIsLive
<1>4. /\ glResources'[r].Tracked
      /\ glResources'[r].Terminating <=> LastPin(r)
      /\ glResources'[r].CollectOnUnlock = glResources[r].CollectOnUnlock
      /\ glResources'[r].PinCount = glResources[r].PinCount - 1
  BY <1>1, <1>2, <1>3 DEF Unpinned, ResourceRecord
<1>5. /\ held'[r] = held[r] \ {c}
      /\ \A s \in ResourceIDs \ {r} : held'[s] = held[s]
      /\ held[r] \in SUBSET Clients
      /\ held'[r] \in SUBSET Clients
  BY <1>1 DEF TypeOK
<1>6. glResources'[r].PinCount = Cardinality(held'[r])
  BY <1>4, <1>5, HoldersCount DEF RegistryInv, RecordInv
<1>7. glResources'[r].PinCount = 0 <=> held'[r] = {}
  BY <1>5, <1>6, HoldersFinite
<1>8. CASE LastPin(r)
  <2>1. /\ pc'[c] = "manager" /\ claim'[c] = r
        /\ \A d \in Clients \ {c} : pc'[d] = pc[d] /\ claim'[d] = claim[d]
    BY <1>1, <1>8 DEF Claim, TypeOK
  <2>2. SingleDestroyer'
    BY <1>2, <1>3, <1>4, <1>8, <2>1 DEF RegistryInv, SingleDestroyer, Destroying
  <2>3. held'[r] = {}
    BY <1>4, <1>7, <1>8 DEF LastPin
  <2>4. RecordInv(r)'
    BY <1>3, <1>4, <1>6, <1>8, <2>1, <2>3 DEF RecordInv, Destroying
  <2>5. ASSUME NEW s \in ResourceIDs \ {r} PROVE RecordInv(s)'
    <3>1. RecordInv(s) /\ glResources'[s] = glResources[s] /\ held'[s] = held[s] /\ payload' = payload
      BY <1>2, <1>5 DEF RegistryInv
    <3>2. \A d \in Clients : Destroying(d) => d # c
      BY DEF Destroying
    <3>3. QED
      BY <2>1, <3>1, <3>2 DEF RecordInv, Destroying
  <2>6. \A d \in Clients : pc'[d] \in {"snapshot", "sweep"} => sweep'[d] \in ObjectIDs
    BY <2>1 DEF RegistryInv
  <2>7. QED
    BY <2>2, <2>4, <2>5, <2>6 DEF RegistryInv
<1>9. CASE ~LastPin(r)
  <2>1. pc' = pc /\ claim' = claim
    BY <1>9
  <2>2. SingleDestroyer'
    BY <1>2, <1>3, <1>4, <1>9, <2>1 DEF RegistryInv, SingleDestroyer, Destroying
  <2>3. glResources'[r].CollectOnUnlock => held'[r] # {}
    BY <1>1, <1>4, <1>7, <1>9 DEF LastPin, ResourceRecord
  <2>4. RecordInv(r)'
    BY <1>3, <1>4, <1>6, <1>9, <2>3 DEF RecordInv
  <2>5. ASSUME NEW s \in ResourceIDs \ {r} PROVE RecordInv(s)'
    BY <1>2, <1>5, <2>1 DEF RegistryInv, RecordInv, Destroying
  <2>6. \A d \in Clients : pc'[d] \in {"snapshot", "sweep"} => sweep'[d] \in ObjectIDs
    BY <2>1 DEF RegistryInv
  <2>7. QED
    BY <2>2, <2>4, <2>5, <2>6 DEF RegistryInv
<1>10. QED
  BY <1>8, <1>9

\* FreeResource() outside and inside free_children(): the caller is not inside
\* destroy_claimed_resource(), and keeps the object it is sweeping.
LEMMA InvFree ==
    ASSUME RegistryInv, TypeOK', NEW c \in Clients, NEW r \in ResourceIDs, FreeRegistered(c, r),
           pc[c] \in {"idle", "sweep"}, UNCHANGED <<sweep, held, payload, result>>
    PROVE  RegistryInv'
<1>1. TypeOK /\ glResources[r] \in ResourceRecord
      /\ Deferred(r) \in ResourceRecord /\ Claimed(r) \in ResourceRecord
  BY RecordTyped DEF RegistryInv
<1>2. CASE UNCHANGED <<glResources, pc, claim>>
  BY <1>2 DEF RegistryInv, SingleDestroyer, RecordInv, Destroying
<1>3. CASE /\ ~glResources[r].Terminating /\ glResources[r].PinCount > 0
           /\ SetRecord(r, Deferred(r)) /\ UNCHANGED <<pc, claim>>
  <2>1. /\ glResources'[r] = Deferred(r)
        /\ \A s \in ResourceIDs \ {r} : glResources'[s] = glResources[s]
    BY <1>1, <1>3, RecordWritten
  <2>2. /\ glResources'[r].Tracked = glResources[r].Tracked
        /\ glResources'[r].Terminating = glResources[r].Terminating
        /\ glResources'[r].PinCount = glResources[r].PinCount
    BY <1>1, <2>1 DEF Deferred, ResourceRecord
  <2>3. glResources[r].Tracked
    BY <1>3 DEF RegistryInv, RecordInv, Untracked
  <2>4. held[r] # {}
    BY <1>1, <1>3, HoldersFinite DEF RegistryInv, RecordInv, TypeOK
  <2>5. SingleDestroyer'
    BY <1>3, <2>1, <2>2 DEF RegistryInv, SingleDestroyer, Destroying
  <2>6. ASSUME NEW s \in ResourceIDs PROVE RecordInv(s)'
    <3>1. RecordInv(s) /\ UNCHANGED <<pc, claim, held, payload, result>>
      BY <1>3 DEF RegistryInv
    <3>2. CASE s = r
      BY <2>2, <2>3, <2>4, <3>1, <3>2 DEF RecordInv, Destroying
    <3>3. CASE s # r
      BY <2>1, <3>1, <3>3 DEF RecordInv, Destroying
    <3>4. QED
      BY <3>2, <3>3
  <2>7. QED
    BY <1>3, <2>5, <2>6 DEF RegistryInv
<1>4. CASE /\ Usable(r) /\ ~glResources[r].Terminating /\ ~(glResources[r].PinCount > 0)
           /\ SetRecord(r, Claimed(r)) /\ Claim(c, r)
  <2>1. /\ glResources'[r] = Claimed(r)
        /\ \A s \in ResourceIDs \ {r} : glResources'[s] = glResources[s]
    BY <1>1, <1>4, RecordWritten
  <2>2. /\ glResources'[r].Tracked
        /\ glResources'[r].Terminating
        /\ glResources'[r].PinCount = glResources[r].PinCount
    BY <1>1, <1>4, <2>1 DEF Claimed, ResourceRecord, Usable
  <2>3. /\ pc'[c] = "manager" /\ claim'[c] = r
        /\ \A d \in Clients \ {c} : pc'[d] = pc[d] /\ claim'[d] = claim[d]
    BY <1>1, <1>4 DEF Claim, TypeOK
  <2>4. \A d \in Clients : Destroying(d) => claim[d] # r /\ d # c
    BY <1>4 DEF RegistryInv, SingleDestroyer, Destroying
  <2>5. /\ held[r] = {}
        /\ payload[r] = "live"
    <3>1. glResources[r].PinCount = 0
      BY <1>1, <1>4 DEF ResourceRecord
    <3>2. QED
      BY <1>1, <1>4, <2>4, <3>1, HoldersFinite DEF RegistryInv, RecordInv, TypeOK, Usable, Destroying
  <2>6. SingleDestroyer'
    BY <2>1, <2>2, <2>3, <2>4 DEF RegistryInv, SingleDestroyer, Destroying
  <2>7. RecordInv(r)'
    <3>1. glResources[r].PinCount = Cardinality(held[r]) /\ held' = held /\ payload' = payload
      BY DEF RegistryInv, RecordInv
    <3>2. Destroying(c)'
      BY <2>3 DEF Destroying
    <3>3. QED
      BY <2>2, <2>3, <2>5, <3>1, <3>2 DEF RecordInv
  <2>8. ASSUME NEW s \in ResourceIDs \ {r} PROVE RecordInv(s)'
    <3>1. /\ RecordInv(s) /\ glResources'[s] = glResources[s]
          /\ held' = held /\ payload' = payload /\ result' = result
      BY <2>1 DEF RegistryInv
    <3>2. QED
      BY <2>3, <2>4, <3>1 DEF RecordInv, Destroying
  <2>9. \A d \in Clients : pc'[d] \in {"snapshot", "sweep"} => sweep'[d] \in ObjectIDs
    BY <2>3 DEF RegistryInv
  <2>10. QED
    BY <2>6, <2>7, <2>8, <2>9 DEF RegistryInv
<1>5. QED
  BY <1>2, <1>3, <1>4 DEF FreeRegistered

\* The manager releases the payload or leaves it; its record stays claimed.
LEMMA InvManager ==
    ASSUME RegistryInv, TypeOK', NEW c \in Clients, FreeMemory(c) \/ RunManager(c)
    PROVE  RegistryInv'
<1> USE DEF registry
<1>1. pc[c] = "manager" /\ Destroying(c) /\ TypeOK
  BY DEF FreeMemory, RunManager, Destroying, RegistryInv
<1>2. PICK r \in ResourceIDs : r = claim[c] /\ glResources[r].Tracked /\ glResources[r].Terminating
  BY <1>1 DEF RegistryInv, SingleDestroyer
<1>3. /\ pc'[c] = "outcome"
      /\ \A d \in Clients \ {c} : pc'[d] = pc[d] /\ result'[d] = result[d]
      /\ glResources' = glResources /\ held' = held /\ claim' = claim /\ sweep' = sweep
  BY <1>1 DEF FreeMemory, RunManager, TypeOK
<1>4. /\ payload'[r] = payload[r] \/ result'[c] = "Okay"
      /\ \A s \in ResourceIDs \ {r} : payload'[s] = payload[s]
  BY <1>1, <1>2 DEF FreeMemory, RunManager, TypeOK
<1>5. \A d \in Clients : Destroying(d)' <=> Destroying(d)
  BY <1>1, <1>3 DEF Destroying
<1>6. SingleDestroyer'
  BY <1>3, <1>5 DEF RegistryInv, SingleDestroyer
<1>7. payload[r] = "live"
  <2>1. \A d \in Clients : pc[d] = "outcome" => claim[d] # r
    BY <1>1, <1>2 DEF RegistryInv, SingleDestroyer, Destroying
  <2>2. QED
    BY <1>2, <2>1 DEF RegistryInv, RecordInv
<1>8. ASSUME NEW s \in ResourceIDs PROVE RecordInv(s)'
  <2>1. RecordInv(s)
    BY DEF RegistryInv
  <2>2. CASE s = r
    BY <1>1, <1>2, <1>3, <1>4, <1>5, <1>7, <2>1, <2>2 DEF RecordInv
  <2>3. CASE s # r
    BY <1>1, <1>3, <1>4, <1>5, <2>1, <2>3 DEF RecordInv
  <2>4. QED
    BY <2>2, <2>3
<1>9. \A d \in Clients : pc'[d] \in {"snapshot", "sweep"} => sweep'[d] \in ObjectIDs
  BY <1>3 DEF RegistryInv
<1>10. QED
  BY <1>6, <1>8, <1>9 DEF RegistryInv

\* The outcome: the record is erased, or it is live again without a mark.
LEMMA InvOutcome ==
    ASSUME RegistryInv, TypeOK', NEW c \in Clients, RecordOutcome(c)
    PROVE  RegistryInv'
<1>1. pc[c] = "outcome" /\ Destroying(c) /\ TypeOK
  BY DEF RecordOutcome, Destroying, RegistryInv
<1>2. PICK r \in ResourceIDs : r = claim[c] /\ glResources[r].Tracked /\ glResources[r].Terminating
  BY <1>1 DEF RegistryInv, SingleDestroyer
<1>3. /\ pc'[c] \in {"idle", "sweep"}
      /\ pc'[c] = "sweep" => sweep[c] # NoObject
      /\ \A d \in Clients \ {c} : pc'[d] = pc[d] /\ claim'[d] = claim[d] /\ result'[d] = result[d]
      /\ held' = held /\ payload' = payload /\ sweep' = sweep
  BY <1>1 DEF RecordOutcome, ReturnTo, TypeOK
<1>4. /\ ~Destroying(c)'
      /\ \A d \in Clients \ {c} : (Destroying(d)' <=> Destroying(d))
      /\ \A d \in Clients \ {c} : Destroying(d) => claim[d] # r
  BY <1>1, <1>2, <1>3 DEF RegistryInv, SingleDestroyer, Destroying
<1>5. held[r] = {} /\ glResources[r].PinCount = 0 /\ Cardinality(held[r]) = 0
  BY <1>2, HoldersFinite DEF RegistryInv, RecordInv, TypeOK
<1>6. \A s \in ResourceIDs \ {r} : glResources'[s] = glResources[s]
  <2>1. SetRecord(r, Untracked) \/ SetRecord(r, Refused(r))
    BY <1>2 DEF RecordOutcome, erase_resource
  <2>2. QED
    BY <1>1, <2>1, RecordTyped, RecordWritten
<1>7. SingleDestroyer'
  BY <1>3, <1>4, <1>6 DEF RegistryInv, SingleDestroyer
<1>8. ASSUME NEW s \in ResourceIDs \ {r} PROVE RecordInv(s)'
  <2>1. RecordInv(s)
    BY DEF RegistryInv
  <2>2. QED
    BY <1>1, <1>2, <1>3, <1>4, <1>6, <2>1 DEF RecordInv, Destroying
<1>9. RecordInv(r)'
  <2>1. CASE result[c] = "Okay"
    <3>1. glResources'[r] = Untracked
      BY <1>1, <1>2, <2>1, RecordTyped, RecordWritten DEF RecordOutcome, erase_resource
    <3>2. QED
      BY <1>3, <1>5, <3>1 DEF RecordInv, Untracked
  <2>2. CASE result[c] # "Okay"
    <3>1. glResources'[r] = Refused(r)
      BY <1>1, <1>2, <2>2, RecordTyped, RecordWritten DEF RecordOutcome
    <3>2. /\ glResources'[r].Tracked
          /\ ~glResources'[r].Terminating /\ ~glResources'[r].CollectOnUnlock
          /\ glResources'[r].PinCount = 0
      <4>1. glResources[r] \in ResourceRecord
        BY <1>1, RecordTyped
      <4>2. QED
        BY <1>2, <1>5, <3>1, <4>1 DEF Refused, ResourceRecord
    <3>3. payload[r] = "live"
      BY <1>2, <1>4, <2>2 DEF RegistryInv, RecordInv, Destroying
    <3>4. QED
      BY <1>3, <1>5, <3>2, <3>3 DEF RecordInv
  <2>3. QED
    BY <2>1, <2>2
<1>10. \A d \in Clients : pc'[d] \in {"snapshot", "sweep"} => sweep'[d] \in ObjectIDs
  BY <1>1, <1>3 DEF RegistryInv, TypeOK, Owners
<1>11. QED
  BY <1>7, <1>8, <1>9, <1>10 DEF RegistryInv

\* The steps of an owner's destruction that do not touch the records.
LEMMA InvOwner ==
    ASSUME RegistryInv, TypeOK', NEW c \in Clients,
           (\E o \in ObjectIDs : FreeObject(c, o)) \/ free_children(c) \/ EraseObject(c)
    PROVE  RegistryInv'
<1> USE DEF registry
<1>1. /\ pc[c] \in {"idle", "snapshot", "sweep"} /\ pc'[c] \in {"idle", "snapshot", "sweep"}
      /\ pc'[c] # "idle" => sweep'[c] \in ObjectIDs
      /\ \A d \in Clients \ {c} : pc'[d] = pc[d] /\ sweep'[d] = sweep[d]
      /\ UNCHANGED <<glResources, held, payload, claim, result>>
  BY DEF FreeObject, free_children, EraseObject, RegistryInv, TypeOK
<1>2. \A d \in Clients : /\ Destroying(d)' <=> Destroying(d)
                         /\ pc'[d] = "outcome" <=> pc[d] = "outcome"
  BY <1>1 DEF Destroying
<1>3. SingleDestroyer'
  BY <1>1, <1>2 DEF RegistryInv, SingleDestroyer
<1>4. \A s \in ResourceIDs : RecordInv(s)'
  BY <1>1, <1>2 DEF RegistryInv, RecordInv
<1>5. \A d \in Clients : pc'[d] \in {"snapshot", "sweep"} => sweep'[d] \in ObjectIDs
  BY <1>1 DEF RegistryInv
<1>6. QED
  BY <1>3, <1>4, <1>5 DEF RegistryInv

----------------------------------------------------------------------------
(* The invariant and the safety properties that follow from it.            *)

LEMMA InitInv == Init => RegistryInv
<1> SUFFICES ASSUME Init PROVE RegistryInv
  OBVIOUS
<1>1. Untracked \in ResourceRecord
  BY ConstantsAssumption DEF Untracked, ResourceRecord, Owners
<1>2. TypeOK
  BY <1>1 DEF Init, TypeOK, Owners, Errors
<1>3. SingleDestroyer
  BY DEF Init, SingleDestroyer, Destroying
<1>4. \A r \in ResourceIDs : RecordInv(r)
  BY FS_EmptySet DEF Init, RecordInv, Untracked
<1>5. QED
  BY <1>2, <1>3, <1>4 DEF RegistryInv, Init

LEMMA StepInv == RegistryInv /\ [Next]_vars => RegistryInv'
<1> SUFFICES ASSUME RegistryInv, [Next]_vars PROVE RegistryInv'
  OBVIOUS
<1>1. TypeOK'
  BY TypeStep
<1>2. ASSUME NEW c \in Clients, NEW r \in ResourceIDs,
             TrackNewResource(c, r) \/ AllocResource(c, r)
      PROVE  RegistryInv'
  BY <1>1, <1>2, InvRegister
  DEF TrackNewResource, AllocResource, NewAddresses, KnownOwners, Owners, Managers, RegistryInv, TypeOK
<1>3. ASSUME NEW c \in Clients, NEW r \in ResourceIDs, TrackExistingResource(c, r)
      PROVE  RegistryInv'
  BY <1>1, <1>3, InvRetrack
<1>4. ASSUME NEW c \in Clients, NEW r \in ResourceIDs, UntrackResource(c, r) PROVE RegistryInv'
  BY <1>1, <1>4, InvUntrack
<1>5. ASSUME NEW c \in Clients, NEW r \in ResourceIDs, PinResource(c, r) PROVE RegistryInv'
  BY <1>1, <1>5, InvPin
<1>6. ASSUME NEW c \in Clients, NEW r \in ResourceIDs, UnpinResource(c, r) PROVE RegistryInv'
  BY <1>1, <1>6, InvUnpin
<1>7. ASSUME NEW c \in Clients, NEW r \in ResourceIDs,
             FreeResource(c, r) \/ SweepResource(c, r)
      PROVE  RegistryInv'
  <2>1. /\ FreeRegistered(c, r) /\ pc[c] \in {"idle", "sweep"}
        /\ UNCHANGED <<sweep, held, payload, result>>
    BY <1>7 DEF FreeResource, SweepResource
  <2>2. QED
    BY <1>1, <2>1, InvFree
<1>8. ASSUME NEW c \in Clients, FreeMemory(c) \/ RunManager(c) PROVE RegistryInv'
  BY <1>1, <1>8, InvManager
<1>9. ASSUME NEW c \in Clients, RecordOutcome(c) PROVE RegistryInv'
  BY <1>1, <1>9, InvOutcome
<1>10. ASSUME NEW c \in Clients,
              (\E o \in ObjectIDs : FreeObject(c, o)) \/ free_children(c) \/ EraseObject(c)
       PROVE  RegistryInv'
  BY <1>1, <1>10, InvOwner
<1>11. CASE UNCHANGED vars
  BY <1>1, <1>11 DEF RegistryInv, SingleDestroyer, RecordInv, Destroying, vars, registry, callers
<1>12. QED
  BY <1>2, <1>3, <1>4, <1>5, <1>6, <1>7, <1>8, <1>9, <1>10, <1>11 DEF Next, RegistryCall, Continue

\* The registry's inductive invariant: types, one destroyer per record, pins
\* counted exactly and excluding destruction.
THEOREM RegistryInvariant == Spec => []RegistryInv
<1>1. QED
  BY InitInv, StepInv, PTL DEF Spec

\* Every record, set and program counter stays within its type.
THEOREM TypeCorrect == Spec => []TypeOK
<1>1. RegistryInv => TypeOK
  BY DEF RegistryInv
<1>2. QED
  BY <1>1, RegistryInvariant, PTL

\* PinResource() protects: no resource is destroyed, untracked or being
\* destroyed while anybody holds a pin on it.
THEOREM PinsProtect == Spec => []PinProtects
<1>1. RegistryInv => PinProtects
  BY PinnedIsLive DEF PinProtects
<1>2. QED
  BY <1>1, RegistryInvariant, PTL

\* destroy_claimed_resource() never runs twice for one record at a time.
THEOREM OneDestroyer == Spec => []SingleDestroyer
<1>1. RegistryInv => SingleDestroyer
  BY DEF RegistryInv
<1>2. QED
  BY <1>1, RegistryInvariant, PTL

\* No manager is called on a payload that was released before.
THEOREM FreedOnce == Spec => []NoDoubleFree
<1>1. RegistryInv => NoDoubleFree
  <2> SUFFICES ASSUME RegistryInv, NEW c \in Clients, pc[c] = "manager"
               PROVE  payload[claim[c]] = "live"
    BY DEF NoDoubleFree
  <2>1. PICK r \in ResourceIDs : r = claim[c] /\ glResources[r].Tracked
    BY DEF RegistryInv, SingleDestroyer, Destroying
  <2>2. \A d \in Clients : pc[d] = "outcome" => claim[d] # r
    BY <2>1 DEF RegistryInv, SingleDestroyer, Destroying
  <2>3. QED
    BY <2>1, <2>2 DEF RegistryInv, RecordInv
<1>2. QED
  BY <1>1, RegistryInvariant, PTL

\* A deferred collection always has somebody who will carry it out.
THEOREM DeferredCollectionNotLost == Spec => []DeferredCollectionOwned
<1>1. RegistryInv => DeferredCollectionOwned
  <2> SUFFICES ASSUME RegistryInv, NEW r \in ResourceIDs, glResources[r].CollectOnUnlock
               PROVE  \/ glResources[r].PinCount > 0
                      \/ \E c \in Clients : Destroying(c) /\ claim[c] = r
    BY DEF DeferredCollectionOwned
  <2>1. CASE glResources[r].Terminating
    BY <2>1 DEF RegistryInv, RecordInv
  <2>2. CASE ~glResources[r].Terminating
    <3>1. held[r] # {} /\ held[r] \in SUBSET Clients
      BY <2>2 DEF RegistryInv, RecordInv, TypeOK
    <3>2. glResources[r].PinCount > 0
      BY <3>1, HoldersFinite DEF RegistryInv, RecordInv
    <3>3. QED
      BY <3>2
  <2>3. QED
    BY <2>1, <2>2
<1>2. QED
  BY <1>1, RegistryInvariant, PTL

\* A Terminating flag always belongs to a call in progress.
THEOREM ClaimsOwned == Spec => []ClaimOwned
<1>1. RegistryInv => ClaimOwned
  BY DEF RegistryInv, RecordInv, ClaimOwned
<1>2. QED
  BY <1>1, RegistryInvariant, PTL

----------------------------------------------------------------------------
(* The two views of ownership.                                             *)

\* Moving r between owners changes exactly r's place in the sets.
LEMMA OwnerMoved ==
    ASSUME RegistryInv, OwnershipConsistent, NEW r \in ResourceIDs, NEW to \in Owners,
           NEW from \in Owners, glResources[r].Tracked => from = glResources[r].OwnerID,
           Resources' = MoveOwner(r, from, to), glObjects' = glObjects,
           \A s \in ResourceIDs \ {r} : glResources'[s] = glResources[s],
           \A o \in ObjectIDs : o = to <=> (glResources'[r].Tracked /\ glResources'[r].OwnerID = o)
    PROVE  OwnershipConsistent'
<1> SUFFICES ASSUME NEW o \in glObjects, NEW s \in ResourceIDs
             PROVE  s \in Resources'[o] <=> (glResources'[s].Tracked /\ glResources'[s].OwnerID = o)
  BY DEF OwnershipConsistent
<1>1. o \in ObjectIDs
  BY DEF RegistryInv, TypeOK
<1>2. Resources'[o] = (Resources[o] \ (IF o = from THEN {r} ELSE {})) \cup (IF o = to THEN {r} ELSE {})
  BY <1>1 DEF MoveOwner
<1>3. s \in Resources[o] <=> (glResources[s].Tracked /\ glResources[s].OwnerID = o)
  BY DEF OwnershipConsistent
<1>4. CASE s = r
  BY <1>1, <1>2, <1>3, <1>4
<1>5. CASE s # r
  BY <1>2, <1>3, <1>5
<1>6. QED
  BY <1>4, <1>5

LEMMA OwnershipStep == RegistryInv /\ OwnershipConsistent /\ [Next]_vars => OwnershipConsistent'
<1> SUFFICES ASSUME RegistryInv, OwnershipConsistent, [Next]_vars PROVE OwnershipConsistent'
  OBVIOUS
<1>0. TypeOK
  BY DEF RegistryInv
<1>1. ASSUME NEW r \in ResourceIDs, NEW address \in Addresses \cup {NULL}, NEW owner \in Owners,
             NEW manager \in Managers, Register(r, address, owner, manager)
      PROVE  OwnershipConsistent'
  <2>1. NewRecord(address, owner, manager) \in ResourceRecord
    BY ConstantsAssumption DEF NewRecord, ResourceRecord
  <2>2. /\ glResources'[r] = NewRecord(address, owner, manager)
        /\ \A s \in ResourceIDs \ {r} : glResources'[s] = glResources[s]
    BY <1>0, <1>1, <2>1, RecordWritten DEF Register
  <2>3. QED
    BY <1>1, <2>2, OwnerMoved DEF Register, NewRecord, Owners
<1>2. ASSUME NEW c \in Clients, NEW r \in ResourceIDs,
             TrackNewResource(c, r) \/ AllocResource(c, r)
      PROVE  OwnershipConsistent'
  BY <1>0, <1>1, <1>2
  DEF TrackNewResource, AllocResource, NewAddresses, KnownOwners, Owners, Managers, TypeOK
<1>3. ASSUME NEW c \in Clients, NEW r \in ResourceIDs, TrackExistingResource(c, r)
      PROVE  OwnershipConsistent'
  <2>1. PICK address \in Addresses \cup {NULL}, owner \in KnownOwners \cup {Inherit},
             manager \in Managers \cup {NULL} :
          LET oldOwner == glResources[r].OwnerID
              newOwner == IF owner = Inherit THEN oldOwner ELSE owner
          IN  /\ SetRecord(r, Retracked(r, address, newOwner, manager))
              /\ Resources' = IF oldOwner = newOwner THEN Resources
                              ELSE MoveOwner(r, oldOwner, newOwner)
    BY <1>3 DEF TrackExistingResource
  <2>2. glResources[r] \in ResourceRecord /\ glResources[r].OwnerID \in Owners
    BY <1>0, RecordTyped DEF ResourceRecord
  <2>3. PICK newOwner \in Owners :
          /\ newOwner = IF owner = Inherit THEN glResources[r].OwnerID ELSE owner
          /\ SetRecord(r, Retracked(r, address, newOwner, manager))
          /\ Resources' = IF glResources[r].OwnerID = newOwner THEN Resources
                          ELSE MoveOwner(r, glResources[r].OwnerID, newOwner)
    BY <1>0, <2>1, <2>2 DEF KnownOwners, Owners, TypeOK
  <2>4. Retracked(r, address, newOwner, manager) \in ResourceRecord
    BY <2>2 DEF Retracked, ResourceRecord
  <2>5. /\ glResources'[r].Tracked /\ glResources'[r].OwnerID = newOwner
        /\ \A s \in ResourceIDs \ {r} : glResources'[s] = glResources[s]
        /\ glObjects' = glObjects
    <3>1. /\ glResources'[r] = Retracked(r, address, newOwner, manager)
          /\ \A s \in ResourceIDs \ {r} : glResources'[s] = glResources[s]
      BY <1>0, <2>3, <2>4, RecordWritten
    <3>2. /\ Retracked(r, address, newOwner, manager).Tracked = glResources[r].Tracked
          /\ Retracked(r, address, newOwner, manager).OwnerID = newOwner
      BY <2>2 DEF Retracked, ResourceRecord
    <3>3. glResources[r].Tracked /\ glObjects' = glObjects
      BY <1>3 DEF TrackExistingResource
    <3>4. QED
      BY <3>1, <3>2, <3>3
  <2>6. CASE glResources[r].OwnerID = newOwner
    <3>1. \A s \in ResourceIDs : /\ glResources'[s].Tracked <=> glResources[s].Tracked
                                /\ glResources'[s].OwnerID = glResources[s].OwnerID
      BY <1>3, <2>5, <2>6 DEF TrackExistingResource
    <3>2. Resources' = Resources
      BY <2>3, <2>6
    <3>3. QED
      BY <2>5, <3>1, <3>2 DEF OwnershipConsistent
  <2>7. CASE glResources[r].OwnerID # newOwner
    <3>1. Resources' = MoveOwner(r, glResources[r].OwnerID, newOwner)
      BY <2>3, <2>7
    <3>2. \A o \in ObjectIDs : o = newOwner <=> (glResources'[r].Tracked /\ glResources'[r].OwnerID = o)
      BY <2>5
    <3>3. QED
      BY <2>2, <2>5, <3>1, <3>2, OwnerMoved
  <2>8. QED
    BY <2>6, <2>7
<1>4. ASSUME NEW r \in ResourceIDs, erase_resource(r), glObjects' = glObjects
      PROVE  OwnershipConsistent'
  <2>1. /\ glResources'[r] = Untracked
        /\ \A s \in ResourceIDs \ {r} : glResources'[s] = glResources[s]
    BY <1>0, <1>4, RecordTyped, RecordWritten DEF erase_resource
  <2>2. glResources[r].OwnerID \in Owners
    BY <1>0, RecordTyped DEF ResourceRecord
  <2>3. QED
    BY <1>4, <2>1, <2>2, OwnerMoved, ConstantsAssumption DEF erase_resource, Untracked, Owners
<1>5. ASSUME NEW r \in ResourceIDs, NEW record \in ResourceRecord, SetRecord(r, record),
             record.Tracked = glResources[r].Tracked, record.OwnerID = glResources[r].OwnerID,
             Resources' = Resources, glObjects' = glObjects
      PROVE  OwnershipConsistent'
  <2>1. /\ glResources'[r] = record
        /\ \A s \in ResourceIDs \ {r} : glResources'[s] = glResources[s]
    BY <1>0, <1>5, RecordWritten
  <2>2. QED
    BY <1>5, <2>1 DEF OwnershipConsistent
<1>6. ASSUME NEW r \in ResourceIDs
      PROVE  /\ Pinned(r).Tracked = glResources[r].Tracked /\ Pinned(r).OwnerID = glResources[r].OwnerID
             /\ Unpinned(r).Tracked = glResources[r].Tracked /\ Unpinned(r).OwnerID = glResources[r].OwnerID
             /\ Deferred(r).Tracked = glResources[r].Tracked /\ Deferred(r).OwnerID = glResources[r].OwnerID
             /\ Claimed(r).Tracked = glResources[r].Tracked /\ Claimed(r).OwnerID = glResources[r].OwnerID
             /\ Refused(r).Tracked = glResources[r].Tracked /\ Refused(r).OwnerID = glResources[r].OwnerID
  <2>1. glResources[r] \in ResourceRecord
    BY <1>0, RecordTyped
  <2>2. QED
    BY <2>1 DEF Pinned, Unpinned, Deferred, Claimed, Refused, ResourceRecord
<1>7. ASSUME NEW c \in Clients, NEW r \in ResourceIDs, UntrackResource(c, r)
      PROVE  OwnershipConsistent'
  BY <1>4, <1>7 DEF UntrackResource
<1>8. ASSUME NEW c \in Clients, NEW r \in ResourceIDs, PinResource(c, r)
      PROVE  OwnershipConsistent'
  <2>1. Pinned(r) \in ResourceRecord /\ SetRecord(r, Pinned(r))
    BY <1>0, <1>8, RecordTyped DEF PinResource, PinAvailable
  <2>2. QED
    BY <1>5, <1>6, <1>8, <2>1 DEF PinResource
<1>9. ASSUME NEW c \in Clients, NEW r \in ResourceIDs, UnpinResource(c, r)
      PROVE  OwnershipConsistent'
  <2>1. Unpinned(r) \in ResourceRecord /\ SetRecord(r, Unpinned(r))
    BY <1>0, <1>9, RecordTyped DEF UnpinResource
  <2>2. QED
    BY <1>5, <1>6, <1>9, <2>1 DEF UnpinResource
<1>10. ASSUME NEW c \in Clients, NEW r \in ResourceIDs, FreeResource(c, r) \/ SweepResource(c, r)
       PROVE  OwnershipConsistent'
  <2>1. Deferred(r) \in ResourceRecord /\ Claimed(r) \in ResourceRecord
    BY <1>0, RecordTyped
  <2>2. /\ FreeRegistered(c, r)
        /\ Resources' = Resources /\ glObjects' = glObjects
    BY <1>10 DEF FreeResource, SweepResource
  <2>3. CASE glResources' = glResources
    BY <2>2, <2>3 DEF OwnershipConsistent
  <2>4. CASE SetRecord(r, Deferred(r)) \/ SetRecord(r, Claimed(r))
    BY <1>5, <1>6, <2>1, <2>2, <2>4
  <2>5. QED
    BY <2>2, <2>3, <2>4 DEF FreeRegistered
<1>11. ASSUME NEW c \in Clients, RecordOutcome(c) PROVE OwnershipConsistent'
  <2>1. PICK r \in ResourceIDs : r = claim[c]
    BY <1>11 DEF RegistryInv, SingleDestroyer, Destroying, RecordOutcome
  <2>2. Refused(r) \in ResourceRecord /\ glObjects' = glObjects
    BY <1>0, <1>11, RecordTyped DEF RecordOutcome
  <2>3. erase_resource(r) \/ (SetRecord(r, Refused(r)) /\ Resources' = Resources)
    BY <1>11, <2>1 DEF RecordOutcome
  <2>4. QED
    BY <1>4, <1>5, <1>6, <2>2, <2>3
<1>12. ASSUME NEW c \in Clients, EraseObject(c) PROVE OwnershipConsistent'
  <2>1. \A o \in glObjects' : o \in glObjects /\ Resources'[o] = Resources[o]
    BY <1>0, <1>12 DEF EraseObject, TypeOK
  <2>2. glResources' = glResources
    BY <1>12 DEF EraseObject
  <2>3. QED
    BY <2>1, <2>2 DEF OwnershipConsistent
<1>13. ASSUME UNCHANGED <<glResources, Resources, glObjects>> PROVE OwnershipConsistent'
  BY <1>13 DEF OwnershipConsistent
<1>14. QED
  BY <1>2, <1>3, <1>7, <1>8, <1>9, <1>10, <1>11, <1>12, <1>13
  DEF Next, RegistryCall, Continue, FreeMemory, RunManager, free_children, FreeObject, vars, registry

\* ResourceRecord::OwnerID and ObjectRecord::Resources never disagree.
THEOREM OwnershipIsConsistent == Spec => []OwnershipConsistent
<1>1. Init => OwnershipConsistent
  BY DEF Init, OwnershipConsistent, Untracked
<1>2. QED
  BY <1>1, RegistryInvariant, OwnershipStep, PTL DEF Spec

----------------------------------------------------------------------------
(* The refinement.  A step writes at most one record, so at most one       *)
(* resource changes its status.                                            *)

LEMMA StatusMoved ==
    ASSUME NEW r \in ResourceIDs,
           \A s \in ResourceIDs \ {r} : glResources'[s] = glResources[s]
    PROVE  Lifetime!Become(r, Status(r)')
<1>1. \A s \in ResourceIDs \ {r} : Status(s)' = Status(s)
  BY DEF Status
<1>2. QED
  BY <1>1 DEF Lifetime!Become

\* A record that is nobody's collection and nobody's claim is live or absent.
LEMMA StatusOf ==
    ASSUME TypeOK, NEW r \in ResourceIDs
    PROVE  /\ Status(r) = "absent" <=> ~glResources[r].Tracked
           /\ Status(r) = "dying" <=> glResources[r].Tracked /\ glResources[r].Terminating
           /\ Status(r) = "doomed" <=> /\ glResources[r].Tracked
                                       /\ ~glResources[r].Terminating
                                       /\ glResources[r].CollectOnUnlock
           /\ Status(r) = "live" <=> /\ glResources[r].Tracked
                                     /\ ~glResources[r].Terminating
                                     /\ ~glResources[r].CollectOnUnlock
<1>1. glResources[r] \in ResourceRecord
  BY RecordTyped
<1>2. /\ glResources[r].Tracked \in BOOLEAN
      /\ glResources[r].Terminating \in BOOLEAN
      /\ glResources[r].CollectOnUnlock \in BOOLEAN
  BY <1>1 DEF ResourceRecord
<1>3. QED
  BY <1>2 DEF Status

\* A step that leaves every status and every pin alone is a stutter.
LEMMA LifetimeStutter ==
    ASSUME held' = held, \A s \in ResourceIDs : Status(s)' = Status(s)
    PROVE  UNCHANGED Lifetime!vars
<1>1. [s \in ResourceIDs |-> Status(s)]' = [s \in ResourceIDs |-> Status(s)]
  OBVIOUS
<1>2. QED
  BY <1>1 DEF Lifetime!vars

\* Each step of the registry is a step of ResourceLifetime or a stutter.
LEMMA LifetimeStep == RegistryInv /\ TypeOK' /\ [Next]_vars => [Lifetime!Next]_(Lifetime!vars)
<1> SUFFICES ASSUME RegistryInv, TypeOK', [Next]_vars PROVE [Lifetime!Next]_(Lifetime!vars)
  OBVIOUS
<1>0. TypeOK
  BY DEF RegistryInv
<1>1. ASSUME NEW r \in ResourceIDs, NEW address \in Addresses \cup {NULL}, NEW owner \in Owners,
             NEW manager \in Managers, Register(r, address, owner, manager)
      PROVE  Lifetime!Next
  <2>1. NewRecord(address, owner, manager) \in ResourceRecord
    BY ConstantsAssumption DEF NewRecord, ResourceRecord
  <2>2. /\ glResources'[r] = NewRecord(address, owner, manager)
        /\ \A s \in ResourceIDs \ {r} : glResources'[s] = glResources[s]
    BY <1>0, <1>1, <2>1, RecordWritten DEF Register
  <2>3. Status(r) = "absent" /\ Status(r)' = "live"
    BY <1>1, <2>2 DEF Register, NewRecord, Status
  <2>4. Lifetime!Appear(r)
    BY <1>1, <2>2, <2>3, StatusMoved DEF Lifetime!Appear, Register
  <2>5. QED
    BY <2>4 DEF Lifetime!Next
<1>2. ASSUME NEW c \in Clients, NEW r \in ResourceIDs,
             TrackNewResource(c, r) \/ AllocResource(c, r)
      PROVE  Lifetime!Next
  BY <1>0, <1>1, <1>2
  DEF TrackNewResource, AllocResource, NewAddresses, KnownOwners, Owners, Managers, TypeOK
<1>3. ASSUME NEW c \in Clients, NEW r \in ResourceIDs, TrackExistingResource(c, r)
      PROVE  UNCHANGED Lifetime!vars
  <2>1. PICK record \in ResourceRecord :
          /\ SetRecord(r, record)
          /\ record.Tracked = glResources[r].Tracked
          /\ record.Terminating = glResources[r].Terminating
          /\ record.CollectOnUnlock = glResources[r].CollectOnUnlock
    <3>1. PICK address \in Addresses \cup {NULL}, owner \in KnownOwners \cup {Inherit},
               manager \in Managers \cup {NULL} :
            SetRecord(r, Retracked(r, address,
                             IF owner = Inherit THEN glResources[r].OwnerID ELSE owner, manager))
      BY <1>3 DEF TrackExistingResource
    <3>2. glResources[r] \in ResourceRecord /\ glResources[r].OwnerID \in Owners
      BY <1>0, RecordTyped DEF ResourceRecord
    <3>3. (IF owner = Inherit THEN glResources[r].OwnerID ELSE owner) \in Owners
      BY <1>0, <3>2 DEF KnownOwners, Owners, TypeOK
    <3>4. PICK newOwner \in Owners : SetRecord(r, Retracked(r, address, newOwner, manager))
      BY <3>1, <3>3
    <3>5. Retracked(r, address, newOwner, manager) \in ResourceRecord
      BY <3>2 DEF Retracked, ResourceRecord
    <3>6. /\ Retracked(r, address, newOwner, manager).Tracked = glResources[r].Tracked
          /\ Retracked(r, address, newOwner, manager).Terminating = glResources[r].Terminating
          /\ Retracked(r, address, newOwner, manager).CollectOnUnlock
               = glResources[r].CollectOnUnlock
      BY <3>2 DEF Retracked, ResourceRecord
    <3>7. QED
      BY <3>4, <3>5, <3>6
  <2>2. \A s \in ResourceIDs : /\ glResources'[s].Tracked = glResources[s].Tracked
                              /\ glResources'[s].Terminating = glResources[s].Terminating
                              /\ glResources'[s].CollectOnUnlock = glResources[s].CollectOnUnlock
    BY <1>0, <2>1, RecordWritten
  <2>3. held' = held
    BY <1>3 DEF TrackExistingResource
  <2>4. QED
    BY <2>2, <2>3, LifetimeStutter DEF Status
<1>4. ASSUME NEW c \in Clients, NEW r \in ResourceIDs, UntrackResource(c, r)
      PROVE  Lifetime!Next
  <2>1. /\ glResources'[r] = Untracked
        /\ \A s \in ResourceIDs \ {r} : glResources'[s] = glResources[s]
    BY <1>0, <1>4, RecordTyped, RecordWritten DEF UntrackResource, erase_resource
  <2>2. Status(r) = "live" /\ Status(r)' = "absent" /\ held[r] = {}
    BY <1>4, <2>1, NotBusyIsFree DEF UntrackResource, Busy, Untracked, Status
  <2>3. Lifetime!Withdraw(r)
    BY <1>4, <2>1, <2>2, StatusMoved DEF Lifetime!Withdraw, UntrackResource
  <2>4. QED
    BY <2>3 DEF Lifetime!Next
<1>5. ASSUME NEW c \in Clients, NEW r \in ResourceIDs, PinResource(c, r)
      PROVE  Lifetime!Next
  <2>1. glResources[r] \in ResourceRecord /\ Pinned(r) \in ResourceRecord
    BY <1>0, <1>5, RecordTyped DEF PinResource, PinAvailable
  <2>2. /\ glResources'[r] = Pinned(r)
        /\ \A s \in ResourceIDs \ {r} : glResources'[s] = glResources[s]
    BY <1>0, <1>5, <2>1, RecordWritten DEF PinResource
  <2>3. \A s \in ResourceIDs : Status(s)' = Status(s)
    BY <2>1, <2>2 DEF Pinned, ResourceRecord, Status
  <2>4. [s \in ResourceIDs |-> Status(s)]' = [s \in ResourceIDs |-> Status(s)]
    BY <2>3
  <2>5. Status(r) = "live"
    BY <1>5 DEF PinResource, Usable, Status
  <2>6. Lifetime!Acquire(r, c)
    BY <1>5, <2>4, <2>5 DEF Lifetime!Acquire, PinResource
  <2>7. QED
    BY <2>6 DEF Lifetime!Next
<1>6. ASSUME NEW c \in Clients, NEW r \in ResourceIDs, UnpinResource(c, r)
      PROVE  Lifetime!Next
  <2>1. glResources[r] \in ResourceRecord /\ Unpinned(r) \in ResourceRecord
    BY <1>0, <1>6, RecordTyped DEF UnpinResource
  <2>2. /\ glResources'[r] = Unpinned(r)
        /\ \A s \in ResourceIDs \ {r} : glResources'[s] = glResources[s]
    BY <1>0, <1>6, <2>1, RecordWritten DEF UnpinResource
  <2>3. c \in held[r] /\ held' = [held EXCEPT ![r] = @ \ {c}] /\ held[r] \in SUBSET Clients
    BY <1>0, <1>6 DEF UnpinResource, TypeOK
  <2>4. glResources[r].Tracked /\ ~glResources[r].Terminating
    BY <2>3, PinnedIsLive
  <2>5. glResources[r].PinCount = 1 <=> held[r] = {c}
    <3>1. glResources[r].PinCount = Cardinality(held[r])
      BY DEF RegistryInv, RecordInv
    <3>2. Cardinality(held[r] \ {c}) = Cardinality(held[r]) - 1
      BY <2>3, HoldersCount
    <3>3. Cardinality(held[r] \ {c}) = 0 <=> held[r] \ {c} = {}
      BY <2>3, HoldersFinite
    <3>4. held[r] \ {c} = {} <=> held[r] = {c}
      BY <2>3
    <3>5. QED
      BY <2>3, <3>1, <3>2, <3>3, <3>4, HoldersFinite
  <2>6. CASE LastPin(r)
    <3>1. Unpinned(r).Tracked /\ Unpinned(r).Terminating
      BY <2>1, <2>4, <2>6 DEF Unpinned, ResourceRecord
    <3>2. Status(r) = "doomed" /\ Status(r)' = "dying" /\ held[r] = {c}
      BY <2>2, <2>4, <2>5, <2>6, <3>1 DEF LastPin, Status
    <3>3. Lifetime!Release(r, c)
      BY <2>2, <2>3, <3>2, StatusMoved DEF Lifetime!Release
    <3>4. QED
      BY <3>3 DEF Lifetime!Next
  <2>7. CASE ~LastPin(r)
    <3>1. /\ Unpinned(r).Tracked = glResources[r].Tracked
          /\ Unpinned(r).Terminating = glResources[r].Terminating
          /\ Unpinned(r).CollectOnUnlock = glResources[r].CollectOnUnlock
      BY <2>1, <2>7 DEF Unpinned, ResourceRecord
    <3>2. [s \in ResourceIDs |-> Status(s)]' = [s \in ResourceIDs |-> Status(s)]
      BY <2>2, <3>1 DEF Status
    <3>3. ~(Status(r) = "doomed" /\ held[r] = {c})
      BY <2>4, <2>5, <2>7 DEF LastPin, Status
    <3>4. Lifetime!Release(r, c)
      BY <2>3, <3>2, <3>3 DEF Lifetime!Release
    <3>5. QED
      BY <3>4 DEF Lifetime!Next
  <2>8. QED
    BY <2>6, <2>7
<1>7. ASSUME NEW c \in Clients, NEW r \in ResourceIDs, FreeRegistered(c, r), held' = held
      PROVE  [Lifetime!Next]_(Lifetime!vars)
  <2>0. /\ glResources[r] \in ResourceRecord
        /\ Deferred(r) \in ResourceRecord /\ Claimed(r) \in ResourceRecord
    BY <1>0, RecordTyped
  <2>1. CASE ~Usable(r) \/ glResources[r].Terminating
    <3>1. glResources' = glResources
      BY <1>7, <2>1 DEF FreeRegistered
    <3>2. QED
      BY <1>7, <3>1, LifetimeStutter DEF Status
  <2>2. CASE Usable(r) /\ ~glResources[r].Terminating /\ glResources[r].PinCount > 0
    <3>1. SetRecord(r, Deferred(r))
      BY <1>7, <2>2 DEF FreeRegistered
    <3>2. /\ glResources'[r] = Deferred(r)
          /\ \A s \in ResourceIDs \ {r} : glResources'[s] = glResources[s]
      BY <1>0, <2>0, <3>1, RecordWritten
    <3>3. /\ Deferred(r).Tracked = glResources[r].Tracked
          /\ Deferred(r).Terminating = glResources[r].Terminating
          /\ Deferred(r).CollectOnUnlock
      BY <2>0 DEF Deferred, ResourceRecord
    <3>4. held[r] # {}
      BY <1>0, <2>2, HoldersFinite DEF RegistryInv, RecordInv, TypeOK
    <3>5. CASE glResources[r].CollectOnUnlock
      <4>1. \A s \in ResourceIDs : Status(s)' = Status(s)
        BY <3>2, <3>3, <3>5 DEF Status
      <4>2. QED
        BY <1>7, <4>1, LifetimeStutter
    <3>6. CASE ~glResources[r].CollectOnUnlock
      <4>1. Status(r) = "live" /\ Status(r)' = "doomed"
        BY <2>2, <3>2, <3>3, <3>6 DEF Usable, Status
      <4>2. Lifetime!Doom(r)
        BY <1>7, <3>2, <3>4, <4>1, StatusMoved DEF Lifetime!Doom
      <4>3. QED
        BY <4>2 DEF Lifetime!Next
    <3>7. QED
      BY <3>5, <3>6
  <2>3. CASE Usable(r) /\ ~glResources[r].Terminating /\ ~(glResources[r].PinCount > 0)
    <3>1. SetRecord(r, Claimed(r))
      BY <1>7, <2>3 DEF FreeRegistered
    <3>2. /\ glResources'[r] = Claimed(r)
          /\ \A s \in ResourceIDs \ {r} : glResources'[s] = glResources[s]
      BY <1>0, <2>0, <3>1, RecordWritten
    <3>3. Claimed(r).Tracked = glResources[r].Tracked /\ Claimed(r).Terminating
      BY <2>0 DEF Claimed, ResourceRecord
    <3>4. held[r] = {}
      <4>1. glResources[r].PinCount = 0
        BY <2>0, <2>3 DEF ResourceRecord
      <4>2. QED
        BY <1>0, <4>1, HoldersFinite DEF RegistryInv, RecordInv, TypeOK
    <3>5. ~glResources[r].CollectOnUnlock
      BY <2>3, <3>4 DEF RegistryInv, RecordInv
    <3>6. Status(r) = "live" /\ Status(r)' = "dying"
      BY <2>3, <3>2, <3>3, <3>5 DEF Usable, Status
    <3>7. Lifetime!Kill(r)
      BY <1>7, <3>2, <3>4, <3>6, StatusMoved DEF Lifetime!Kill
    <3>8. QED
      BY <3>7 DEF Lifetime!Next
  <2>4. QED
    BY <2>1, <2>2, <2>3
<1>8. ASSUME NEW c \in Clients, NEW r \in ResourceIDs, FreeResource(c, r) \/ SweepResource(c, r)
      PROVE  [Lifetime!Next]_(Lifetime!vars)
  BY <1>7, <1>8 DEF FreeResource, SweepResource
<1>9. ASSUME NEW c \in Clients, RecordOutcome(c)
      PROVE  Lifetime!Next
  <2>1. PICK r \in ResourceIDs : r = claim[c]
    BY <1>9 DEF RegistryInv, SingleDestroyer, Destroying, RecordOutcome
  <2>2. /\ glResources[r] \in ResourceRecord
        /\ Refused(r) \in ResourceRecord /\ Untracked \in ResourceRecord
    BY <1>0, RecordTyped
  <2>3. glResources[r].Tracked /\ glResources[r].Terminating
    BY <1>9, <2>1 DEF RegistryInv, SingleDestroyer, Destroying, RecordOutcome
  <2>4. Status(r) = "dying"
    BY <2>3 DEF Status
  <2>5. held' = held
    BY <1>9 DEF RecordOutcome
  <2>6. CASE result[c] = "Okay"
    <3>1. /\ glResources'[r] = Untracked
          /\ \A s \in ResourceIDs \ {r} : glResources'[s] = glResources[s]
      BY <1>0, <1>9, <2>1, <2>2, <2>6, RecordWritten DEF RecordOutcome, erase_resource
    <3>2. Status(r)' = "absent"
      BY <3>1 DEF Untracked, Status
    <3>3. Lifetime!Die(r)
      BY <2>4, <2>5, <3>1, <3>2, StatusMoved DEF Lifetime!Die
    <3>4. QED
      BY <3>3 DEF Lifetime!Next
  <2>7. CASE result[c] # "Okay"
    <3>1. /\ glResources'[r] = Refused(r)
          /\ \A s \in ResourceIDs \ {r} : glResources'[s] = glResources[s]
      BY <1>0, <1>9, <2>1, <2>2, <2>7, RecordWritten DEF RecordOutcome
    <3>2. glResources[r].PinCount = 0
      <4>1. held[r] = {} /\ glResources[r].PinCount = Cardinality(held[r])
        BY <2>3 DEF RegistryInv, RecordInv
      <4>2. QED
        BY <4>1, FS_EmptySet
    <3>3. Refused(r).Tracked /\ ~Refused(r).Terminating /\ ~Refused(r).CollectOnUnlock
      BY <2>2, <2>3, <3>2 DEF Refused, ResourceRecord
    <3>4. Status(r)' = "live"
      BY <3>1, <3>3 DEF Status
    <3>5. Lifetime!Survive(r)
      BY <2>4, <2>5, <3>1, <3>4, StatusMoved DEF Lifetime!Survive
    <3>6. QED
      BY <3>5 DEF Lifetime!Next
  <2>8. QED
    BY <2>6, <2>7
<1>10. ASSUME UNCHANGED <<glResources, held>>
       PROVE  UNCHANGED Lifetime!vars
  BY <1>10, LifetimeStutter DEF Status
<1>11. QED
  BY <1>2, <1>3, <1>4, <1>5, <1>6, <1>8, <1>9, <1>10
  DEF Next, RegistryCall, Continue, FreeMemory, RunManager, free_children, EraseObject,
      FreeObject, vars, registry

\* The registry implements the abstract lifetime of a resource.
THEOREM RegistryImplementsLifetime == Spec => ImplementsLifetime
<1>1. Init => Lifetime!Init
  BY DEF Init, Lifetime!Init, Status, Untracked
<1>2. RegistryInv /\ [Next]_vars => [Lifetime!Next]_(Lifetime!vars)
  BY TypeStep, LifetimeStep
<1>3. QED
  BY <1>1, <1>2, RegistryInvariant, PTL DEF Spec, ImplementsLifetime, Lifetime!Spec

----------------------------------------------------------------------------
\* Only the counters and flags of a pinned record change.
LEMMA PinnedRecordStep ==
    ASSUME RegistryInv, [Next]_vars, NEW r \in ResourceIDs, held[r] # {}
    PROVE  /\ glResources'[r].Address = glResources[r].Address
           /\ glResources'[r].Manager = glResources[r].Manager
           /\ glResources'[r].OwnerID = glResources[r].OwnerID
<1> DEFINE Same(record) == /\ record.Address = glResources[r].Address
                           /\ record.Manager = glResources[r].Manager
                           /\ record.OwnerID = glResources[r].OwnerID
<1> SUFFICES Same(glResources'[r])
  OBVIOUS
<1>0. TypeOK
  BY DEF RegistryInv
<1>1. /\ glResources[r].Tracked /\ Busy(r)
      /\ \A c \in Clients : Destroying(c) => claim[c] # r
  BY PinnedIsLive, NotBusyIsFree
<1>2. /\ Same(glResources[r]) /\ Same(Pinned(r)) /\ Same(Unpinned(r))
      /\ Same(Deferred(r)) /\ Same(Claimed(r))
  <2>1. glResources[r] \in ResourceRecord
    BY <1>0, RecordTyped
  <2>2. QED
    BY <2>1 DEF Pinned, Unpinned, Deferred, Claimed, ResourceRecord
<1>3. ASSUME NEW s \in ResourceIDs, NEW record, SetRecord(s, record), s = r => Same(record)
      PROVE  Same(glResources'[r])
  BY <1>0, <1>3 DEF SetRecord, TypeOK
<1>4. ASSUME glResources' = glResources PROVE Same(glResources'[r])
  BY <1>4
<1>5. ASSUME NEW c \in Clients, NEW s \in ResourceIDs, RegistryCall(c, s)
      PROVE  Same(glResources'[r])
  <2>1. CASE TrackNewResource(c, s) \/ AllocResource(c, s)
    <3>1. s # r /\ \E record : SetRecord(s, record)
      BY <1>1, <2>1 DEF TrackNewResource, AllocResource, Register
    <3>2. QED
      BY <1>3, <3>1
  <2>2. CASE TrackExistingResource(c, s) \/ UntrackResource(c, s)
    <3>1. s # r /\ \E record : SetRecord(s, record)
      BY <1>1, <2>2 DEF TrackExistingResource, UntrackResource, erase_resource
    <3>2. QED
      BY <1>3, <3>1
  <2>3. CASE PinResource(c, s)
    BY <1>2, <1>3, <2>3 DEF PinResource
  <2>4. CASE UnpinResource(c, s)
    BY <1>2, <1>3, <2>4 DEF UnpinResource
  <2>5. CASE FreeResource(c, s) \/ SweepResource(c, s)
    <3>1. FreeRegistered(c, s)
      BY <2>5 DEF FreeResource, SweepResource
    <3>2. QED
      BY <1>2, <1>3, <1>4, <3>1 DEF FreeRegistered
  <2>6. QED
    BY <1>5, <2>1, <2>2, <2>3, <2>4, <2>5 DEF RegistryCall
<1>6. ASSUME NEW c \in Clients, RecordOutcome(c) PROVE Same(glResources'[r])
  <2>1. PICK s \in ResourceIDs : s = claim[c] /\ s # r
    BY <1>1, <1>6 DEF RegistryInv, SingleDestroyer, Destroying, RecordOutcome
  <2>2. \E record : SetRecord(s, record)
    BY <1>6, <2>1 DEF RecordOutcome, erase_resource
  <2>3. QED
    BY <1>3, <2>1, <2>2
<1>7. QED
  BY <1>4, <1>5, <1>6
  DEF Next, Continue, FreeMemory, RunManager, free_children, EraseObject, FreeObject, vars, registry

\* What a pin holder sees of its record never changes under it.
THEOREM PinnedRecordsAreStable == Spec => PinnedRecordStable
<1>1. RegistryInv /\ [Next]_vars =>
        [\A r \in ResourceIDs :
            held[r] # {} => /\ glResources'[r].Address = glResources[r].Address
                            /\ glResources'[r].Manager = glResources[r].Manager
                            /\ glResources'[r].OwnerID = glResources[r].OwnerID]_vars
  BY PinnedRecordStep
<1>2. QED
  BY <1>1, RegistryInvariant, PTL DEF Spec, PinnedRecordStable
============================================================================
