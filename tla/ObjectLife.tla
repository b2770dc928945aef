----------------------------- MODULE ObjectLife -----------------------------
(***************************************************************************)
(* The life of one object of the Kotuku core: AccessObject() and           *)
(* ReleaseObject() (src/core/lib_locking.cpp), strong and weak pins and    *)
(* SharedObjectAccess (objects.h), FreeObject() with object_free(), its    *)
(* deferral while the object is in use, zombie headers and msg_free()      *)
(* (src/core/lib_objects.cpp).                                             *)
(*                                                                         *)
(* Each thread runs a stack of labels, one per function that it is in:     *)
(* releasing a lock or a pin may call FreeObject(), which releases a lock  *)
(* in turn.  What is done under glmObjects in one go is one step, so is    *)
(* each access to Queue, RefCount or Flags that another thread can come    *)
(* between.  The lock itself is idealised: it excludes other threads, and  *)
(* a sleeper may take it as soon as it is free (ObjectLock has the detail).*)
(* Reading a header after its block was released yields its last contents. *)
(*                                                                         *)
(* A definition that stands right before another one under a longer name   *)
(* (LastPinIgnoringWeak before LastPin) is a deviation from the code,      *)
(* there to confirm that the properties notice it.                         *)
(***************************************************************************)
EXTENDS Naturals, Sequences, FiniteSets

CONSTANTS
    Threads,
    Shared,     \* is SharedObjectAccess in use?
    Messages,   \* does anybody send MSGID::FREE?
    Veto,       \* may FreeWarning answer ERR::InUse?
    Interrupts, \* may a wait for the lock in object_free() be broken off?
    MaxLocks,   \* bound on the locks that a thread holds
    NoThread

ASSUME LifeAssumption ==
    /\ IsFiniteSet(Threads) /\ NoThread \notin Threads
    /\ {Shared, Messages, Veto, Interrupts} \subseteq BOOLEAN
    /\ MaxLocks \in Nat \ {0}

VARIABLES
    registered,         \* the object has a record in glObjects
    Terminating,        \* ObjectRecord::Terminating
    CollectOnUnlock,    \* ObjectRecord::CollectOnUnlock
    Flags,              \* Object::Flags
    Strong, Weak,       \* the two counters packed in Object::RefCount
    Queue, ThreadID,    \* Object::Queue and, while it is positive, its owner
    removed,            \* sleepers whose wait-lock has WLF_REMOVED
    glZombies,          \* is the object in glZombies?
    frees,              \* how often the header block was released
    stack,              \* what each thread is doing
    locks, pins, weak   \* the locks and pins that callers have and may give back

record  == <<registered, Terminating, CollectOnUnlock>>
counts  == <<Strong, Weak>>
lock    == <<Queue, ThreadID, removed>>
block   == <<glZombies, frees>>
clients == <<locks, pins, weak>>
vars    == <<record, Flags, counts, lock, block, stack, clients>>

Init ==
    /\ registered = TRUE /\ Terminating = FALSE /\ CollectOnUnlock = FALSE
    /\ Flags = {}
    /\ Strong = 0 /\ Weak = 0
    /\ Queue = 0 /\ ThreadID = NoThread
    /\ removed = {}
    /\ glZombies = FALSE /\ frees = 0
    /\ stack = [t \in Threads |-> <<>>]
    /\ locks = [t \in Threads |-> 0]
    /\ pins = [t \in Threads |-> FALSE]
    /\ weak = [t \in Threads |-> FALSE]

----------------------------------------------------------------------------
(* Helpers.                                                                *)

Idle(t)      == stack[t] = <<>>
At(t, label) == ~Idle(t) /\ Head(stack[t]) = label

\* The thread goes on with the given labels, then with its callers'.
Continue(t, labels) == stack' = [stack EXCEPT ![t] = labels \o Tail(@)]
Return(t)           == Continue(t, <<>>)
Begin(t, labels)    == Idle(t) /\ stack' = [stack EXCEPT ![t] = labels]

defined(flag) == flag \in Flags
collecting    == defined("FREE") \/ defined("FREE_ON_UNLOCK")
isPinned      == Strong > 0

Sleepers == {t \in Threads : At(t, "access_sleep") \/ At(t, "free_sleep")}

LastPinIgnoringWeak == Strong = 1
\* The terminator's pin is the only one.
LastPin == Strong = 1 /\ Weak = 0

----------------------------------------------------------------------------
(* Locking.                                                                *)

\* A thread takes a lock that is free or its own.
TakeLock(t) ==
    /\ Queue = 0 \/ ThreadID = t
    /\ Queue' = Queue + 1
    /\ ThreadID' = t

\* WaitLock::notWaiting() clears the flags.
Unflag(t) == removed' = removed \ {t}

\* LockObject() from AccessObject() and from object_free(): on success the
\* thread goes on with granted, otherwise with failed.  It does not go to sleep
\* on an object that is being removed.
Lock(t, asleep, granted, failed) ==
    \/ TakeLock(t) /\ t \notin removed /\ Continue(t, granted) /\ UNCHANGED removed
    \/ /\ Queue > 0 /\ ThreadID # t /\ Head(stack[t]) # asleep
       /\ Continue(t, IF collecting THEN failed ELSE <<asleep>>)
       /\ UNCHANGED lock
    \/ /\ t \in removed
       /\ Continue(t, failed)
       /\ Unflag(t)
       /\ UNCHANGED <<Queue, ThreadID>>

FailedAccessKeepsPin == <<"ready">>
\* A failing call of AccessObject() collects the object if it is the last.
FailedAccess == <<"unpin", "ready">>

MarkedAccessKeepsLock == FailedAccess
MarkedAccess == <<"release">> \o FailedAccess

\* The wait of AccessObject() is limited.
AccessTimeout(t) ==
    /\ At(t, "access_sleep")
    /\ stack' = [stack EXCEPT ![t] = FailedAccess]
    /\ Unflag(t)
    /\ UNCHANGED <<record, Flags, counts, Queue, ThreadID, block, clients>>

\* A collecting object with a record is refused to new callers.
Accessible == registered /\ ~Terminating /\ ~CollectOnUnlock /\ ~collecting

\* AccessObject(): the object is found and pinned under glmObjects.  msg_free()
\* begins with a call of it; the thread that runs the message loop has not
\* locked the object by then.
AccessObject(t, caller) ==
    /\ Accessible
    /\ locks[t] < MaxLocks
    /\ Begin(t, <<"access_lock">> \o caller)
    /\ Strong' = Strong + 1
    /\ UNCHANGED <<record, Flags, Weak, lock, block, clients>>

AccessLock(t) ==
    /\ At(t, "access_lock") \/ At(t, "access_sleep")
    /\ Lock(t, "access_sleep", <<"access_check">>, <<"access_failed">>)
    /\ UNCHANGED <<record, Flags, counts, block, clients>>

\* The object may have been marked before LockObject().
AccessCheck(t) ==
    /\ At(t, "access_check") \/ At(t, "access_failed")
    /\ IF At(t, "access_failed")
       THEN stack' = [stack EXCEPT ![t] = FailedAccess] /\ UNCHANGED locks
       ELSE IF collecting
       THEN stack' = [stack EXCEPT ![t] = MarkedAccess] /\ UNCHANGED locks
       ELSE /\ Continue(t, <<"unpin">>)
            /\ locks' = IF Len(stack[t]) > 1 THEN locks ELSE [locks EXCEPT ![t] = @ + 1]
    /\ UNCHANGED <<record, Flags, counts, lock, block, pins, weak>>

\* The caller gives a lock back, with ReleaseObject() or Object::unlock().
GiveBack(t, call) ==
    /\ locks[t] > 0
    /\ Begin(t, <<call>>)
    /\ locks' = [locks EXCEPT ![t] = @ - 1]
    /\ UNCHANGED <<record, Flags, counts, lock, block, pins, weak>>

\* unlock() leaves it to ReleaseObject() if that has anything to do.
Unlock(t) ==
    /\ At(t, "unlock")
    /\ Continue(t, IF Sleepers # {} \/ defined("FREE_ON_UNLOCK") THEN <<"release">> ELSE <<"decrement">>)
    /\ UNCHANGED <<record, Flags, counts, lock, block, clients>>

DecrementQueue(t) ==
    /\ At(t, "decrement")
    /\ Queue' = Queue - 1
    /\ Return(t)
    /\ UNCHANGED <<record, Flags, counts, ThreadID, removed, block, clients>>

FetchSub(t) ==
    /\ At(t, "release")
    /\ Queue' = Queue - 1
    /\ Continue(t, IF Queue > 1 THEN <<>> ELSE <<"wake">>)
    /\ UNCHANGED <<record, Flags, counts, ThreadID, removed, block, clients>>

\* Sleepers learn that the object is being removed, by its UID.
FlagSleepers(t) ==
    /\ At(t, "wake")
    /\ removed' = IF collecting /\ registered THEN removed \cup Sleepers ELSE removed
    /\ Continue(t, <<"collect">>)
    /\ UNCHANGED <<record, Flags, counts, Queue, ThreadID, block, clients>>

Unpinned == ~isPinned

\* ReleaseObject() collects an object that was marked while it was in use.
Collect(t) ==
    /\ At(t, "collect")
    /\ IF defined("FREE_ON_UNLOCK") /\ ~defined("FREE") /\ Unpinned
       THEN Flags' = Flags \ {"FREE_ON_UNLOCK"} /\ Continue(t, <<"free">>)
       ELSE Return(t) /\ UNCHANGED Flags
    /\ UNCHANGED <<record, counts, lock, block, clients>>

----------------------------------------------------------------------------
(* Pins.                                                                   *)

\* pin() by a thread that has the object locked.
pin(t) ==
    /\ Idle(t) /\ locks[t] > 0 /\ ~pins[t]
    /\ pins' = [pins EXCEPT ![t] = TRUE]
    /\ Strong' = Strong + 1
    /\ UNCHANGED <<record, Flags, Weak, lock, block, stack, locks, weak>>

\* SharedObjectAccess pins through a pointer that the thread can rely on.
SharedObjectAccess(t) ==
    /\ Shared
    /\ weak[t] /\ ~pins[t]
    /\ Begin(t, <<"shared">>)
    /\ Strong' = Strong + 1
    /\ UNCHANGED <<record, Flags, Weak, lock, block, clients>>

SharedCheck(t) ==
    /\ At(t, "shared")
    /\ IF collecting THEN Continue(t, <<"unpin">>) /\ UNCHANGED pins
       ELSE Return(t) /\ pins' = [pins EXCEPT ![t] = TRUE]
    /\ UNCHANGED <<record, Flags, counts, lock, block, locks, weak>>

\* unpin(true).
BeginUnpin(t) ==
    /\ pins[t]
    /\ Begin(t, <<"unpin", "ready">>)
    /\ pins' = [pins EXCEPT ![t] = FALSE]
    /\ UNCHANGED <<record, Flags, counts, lock, block, locks, weak>>

PinWeakObject(t) ==
    /\ Idle(t) /\ ~weak[t]
    /\ registered /\ ~collecting
    /\ weak' = [weak EXCEPT ![t] = TRUE]
    /\ Weak' = Weak + 1
    /\ UNCHANGED <<record, Flags, Strong, lock, block, stack, locks, pins>>

BeginUnpinWeak(t) ==
    /\ weak[t]
    /\ Begin(t, <<"unpinWeak">>)
    /\ weak' = [weak EXCEPT ![t] = FALSE]
    /\ UNCHANGED <<record, Flags, counts, lock, block, locks, pins>>

NeverLast == FALSE
\* The weak pin is the only one.
LastWeakPin == Weak = 1 /\ Strong = 0

\* The compare-exchange of unpin(), which saturates at zero.
unpin(t) ==
    /\ At(t, "unpin")
    /\ Strong' = IF isPinned THEN Strong - 1 ELSE Strong
    /\ Continue(t, IF LastPin THEN <<"last">> ELSE <<>>)
    /\ UNCHANGED <<record, Flags, Weak, lock, block, clients>>

unpinWeak(t) ==
    /\ At(t, "unpinWeak")
    /\ Weak' = Weak - 1
    /\ Continue(t, IF LastWeakPin THEN <<"last">> ELSE <<>>)
    /\ UNCHANGED <<record, Flags, Strong, lock, block, clients>>

\* Whoever dropped the last pin of a zombie releases its block; the flag is read
\* after the compare-exchange.
CheckZombie(t) ==
    /\ At(t, "last")
    /\ Continue(t, IF defined("ZOMBIE") THEN <<"zombie">> ELSE <<>>)
    /\ UNCHANGED <<record, Flags, counts, lock, block, clients>>

ReleaseZombie(t) ==
    /\ At(t, "zombie")
    /\ Continue(t, IF Strong = 0 /\ Weak = 0 THEN <<"erase">> ELSE <<>>)
    /\ UNCHANGED <<record, Flags, counts, lock, block, clients>>

free_object_block(t) ==
    /\ At(t, "erase") \/ At(t, "fast")
    /\ glZombies' = IF At(t, "erase") THEN FALSE ELSE glZombies
    /\ frees' = frees + 1
    /\ Return(t)
    /\ UNCHANGED <<record, Flags, counts, lock, clients>>

\* An unpinned, unlocked object that was marked is collected.
freeIfReady(t) ==
    /\ At(t, "ready")
    /\ Continue(t, IF Unpinned /\ Queue = 0 /\ defined("FREE_ON_UNLOCK") THEN <<"free">> ELSE <<>>)
    /\ UNCHANGED <<record, Flags, counts, lock, block, clients>>

----------------------------------------------------------------------------
(* FreeObject() and object_free().                                         *)

BeginFree(t) ==
    /\ registered
    /\ Begin(t, <<"free">>)
    /\ UNCHANGED <<record, Flags, counts, lock, block, clients>>

\* msg_free(): the object is locked; it goes whatever pins and locks it has.
msg_free(t) ==
    /\ At(t, "msg_free")
    /\ Flags' = Flags \cup {"PERMIT_TERMINATE"}
    /\ Continue(t, <<"free">>)
    /\ UNCHANGED <<record, counts, lock, block, clients>>

ClaimableTwice == registered
Claimable == registered /\ ~Terminating

FreeObject(t) ==
    /\ At(t, "free")
    /\ IF Claimable THEN Terminating' = TRUE /\ Continue(t, <<"free_lock">>)
       ELSE Return(t) /\ UNCHANGED Terminating
    /\ UNCHANGED <<registered, CollectOnUnlock, Flags, counts, lock, block, clients>>

\* object_free() locks the object through lock(), without a limit.
FreeLock(t) ==
    /\ At(t, "free_lock") \/ At(t, "free_sleep")
    /\ Lock(t, "free_sleep", <<"free_check">>, <<"denied">>)
    /\ UNCHANGED <<record, Flags, counts, block, clients>>

\* Its wait ends when the thread is told to stop, or would wait for itself.
FreeLockFails(t) ==
    /\ Interrupts /\ At(t, "free_sleep")
    /\ Continue(t, <<"denied">>)
    /\ Unflag(t)
    /\ UNCHANGED <<record, Flags, counts, Queue, ThreadID, block, clients>>

InUseWhenLocked == Queue > 1 /\ ~defined("PERMIT_TERMINATE")
InUse == (Queue > 1 \/ isPinned) /\ ~defined("PERMIT_TERMINATE")

FreeCheck(t) ==
    /\ At(t, "free_check")
    /\ Continue(t, IF InUse THEN <<"mark">>
                   ELSE IF defined("FREE") THEN <<"unlock", "refused">> ELSE <<"warn">>)
    /\ UNCHANGED <<record, Flags, counts, lock, block, clients>>

MarkForDeletion(t) ==
    /\ At(t, "mark")
    /\ Flags' = Flags \cup {"FREE_ON_UNLOCK"}
    /\ Continue(t, <<"unlock", "refused">>)
    /\ UNCHANGED <<record, counts, lock, block, clients>>

\* An object that is not marked may refuse to go.
FreeWarning(t, in_use) ==
    /\ At(t, "warn")
    /\ in_use => Veto
    /\ Continue(t, IF in_use /\ ~collecting THEN <<"unlock", "refused">> ELSE <<"begin">>)
    /\ UNCHANGED <<record, Flags, counts, lock, block, clients>>

BeginTermination(t) ==
    /\ At(t, "begin")
    /\ Strong' = Strong + 1
    /\ Flags' = (Flags \cup {"FREE"}) \ {"FREE_ON_UNLOCK"}
    /\ Continue(t, <<"teardown">>)
    /\ UNCHANGED <<record, Weak, lock, block, clients>>

\* The class, the subscriptions and the children are gone: so is the record.
Teardown(t) ==
    /\ At(t, "teardown")
    /\ registered' = FALSE
    /\ Continue(t, <<"unlock", "finish">>)
    /\ UNCHANGED <<Terminating, CollectOnUnlock, Flags, counts, lock, block, clients>>

BecomeZombie(t) ==
    /\ At(t, "finish")
    /\ Flags' = Flags \cup {"ZOMBIE"}
    /\ Continue(t, <<"pins">>)
    /\ UNCHANGED <<record, counts, lock, block, clients>>

\* If there is no other pin the block is released without further ado.
CheckPins(t) ==
    /\ At(t, "pins")
    /\ IF LastPin THEN Strong' = 0 /\ Continue(t, <<"fast">>)
       ELSE Continue(t, <<"emplace">>) /\ UNCHANGED Strong
    /\ UNCHANGED <<record, Flags, Weak, lock, block, clients>>

EmplaceZombie(t) ==
    /\ At(t, "emplace")
    /\ glZombies' = TRUE
    /\ Continue(t, <<"unpin">>)
    /\ UNCHANGED <<record, Flags, counts, lock, frees, clients>>

\* FreeObject() on an error: the claim is dropped; after ERR::InUse the record
\* of a marked object is marked too.
Refused(t) ==
    /\ At(t, "refused") \/ At(t, "denied")
    /\ CollectOnUnlock' = (CollectOnUnlock
                            \/ (registered /\ At(t, "refused") /\ defined("FREE_ON_UNLOCK")))
    /\ Terminating' = (Terminating /\ ~registered)
    /\ Return(t)
    /\ UNCHANGED <<registered, Flags, counts, lock, block, clients>>

----------------------------------------------------------------------------
\* The calls that a thread makes.
Call(t) ==
    \/ AccessObject(t, <<>>) \/ (Messages /\ locks[t] = 0 /\ AccessObject(t, <<"msg_free">>))
    \/ GiveBack(t, "release") \/ GiveBack(t, "unlock")
    \/ pin(t) \/ SharedObjectAccess(t) \/ BeginUnpin(t)
    \/ PinWeakObject(t) \/ BeginUnpinWeak(t)
    \/ BeginFree(t)

\* The rest of a call that has begun.
Step(t) ==
    \/ AccessTimeout(t) \/ AccessLock(t) \/ AccessCheck(t)
    \/ Unlock(t) \/ DecrementQueue(t) \/ FetchSub(t) \/ FlagSleepers(t) \/ Collect(t)
    \/ SharedCheck(t) \/ unpin(t) \/ unpinWeak(t)
    \/ CheckZombie(t) \/ ReleaseZombie(t) \/ free_object_block(t) \/ freeIfReady(t)
    \/ msg_free(t) \/ FreeObject(t) \/ FreeLock(t) \/ FreeCheck(t) \/ MarkForDeletion(t)
    \/ \E in_use \in BOOLEAN : FreeWarning(t, in_use)
    \/ BeginTermination(t) \/ Teardown(t) \/ BecomeZombie(t) \/ CheckPins(t)
    \/ EmplaceZombie(t) \/ Refused(t)

Next == \E t \in Threads : Call(t) \/ Step(t) \/ FreeLockFails(t)

Spec == Init /\ [][Next]_vars

\* Threads run, and give back the locks they have, whatever calls they make in
\* between.
FairSpec == Spec /\ \A t \in Threads :
    /\ WF_vars(Step(t))
    /\ SF_vars(\E call \in {"release", "unlock"} : GiveBack(t, call))

----------------------------------------------------------------------------
(* Properties.                                                             *)

Labels ==
    {"access_lock", "access_sleep", "access_check", "access_failed", "msg_free", "unlock",
     "decrement", "release", "wake", "collect", "shared", "unpin", "unpinWeak", "last",
     "zombie", "erase", "fast", "ready", "free", "free_lock", "free_sleep", "free_check",
     "denied", "refused", "mark", "warn", "begin", "teardown", "finish", "pins", "emplace"}

TypeOK ==
    /\ registered \in BOOLEAN /\ Terminating \in BOOLEAN /\ CollectOnUnlock \in BOOLEAN
    /\ Flags \subseteq {"FREE", "FREE_ON_UNLOCK", "PERMIT_TERMINATE", "ZOMBIE"}
    /\ Strong \in Nat /\ Weak \in Nat
    /\ Queue \in Nat
    /\ ThreadID \in Threads \cup {NoThread}
    /\ removed \subseteq Sleepers
    /\ glZombies \in BOOLEAN
    /\ frees \in Nat
    /\ stack \in [Threads -> Seq(Labels)]
    /\ locks \in [Threads -> 0..MaxLocks]
    /\ pins \in [Threads -> BOOLEAN]
    /\ weak \in [Threads -> BOOLEAN]

\* The calls that are at one of the given labels, each named by its thread and by
\* its height in the stack.
Height(s, i)        == s[Len(s) + 1 - i]
CallsIn(S, labels)  ==
    UNION {{<<t, i>> : i \in {j \in 1..Len(S[t]) : Height(S[t], j) \in labels}} : t \in Threads}
Calls(labels)       == CallsIn(stack, labels)

\* The labels at which a call has a pin or a lock of its own.
Pinning ==
    {"access_lock", "access_sleep", "access_check", "access_failed", "shared", "unpin",
     "teardown", "finish", "pins", "emplace"}
Locking ==
    {"access_check", "msg_free", "unlock", "decrement", "release", "free_check", "mark",
     "warn", "begin", "teardown"}

\* RefCount is exact on every path: it counts the pins of the callers, those of
\* calls of AccessObject() and SharedObjectAccess in progress, and that of the
\* terminator.  A pin too many would keep a header for ever, one too few would
\* release it under its users.
PinsCounted ==
    /\ Strong = Cardinality({t \in Threads : pins[t]}) + Cardinality(Calls(Pinning))
    /\ Weak = Cardinality({t \in Threads : weak[t]}) + Cardinality(Calls({"unpinWeak"}))

\* Queue is exact in the same way.
LocksOf(l) == UNION {{<<t, i>> : i \in 1..l[t]} : t \in Threads}

LocksCounted == Queue = Cardinality(LocksOf(locks)) + Cardinality(Calls(Locking))

\* The counters of the locks and pins.
LifeInv == TypeOK /\ LocksCounted /\ PinsCounted

\* An object is not terminated while a caller has it locked or strongly pinned.
InUseNotTerminated ==
    (\E t \in Threads : locks[t] > 0 \/ pins[t]) => ~defined("FREE")

\* FreeObject() has claimed the record, and has no lock.
Claimed == {"free_lock", "free_sleep", "refused", "denied"}

\* The header of an object stays allocated for as long as there is a pin on it,
\* and under a call that has a pin, a lock or a claim of its own; but not under
\* what ReleaseObject(), unpin() and unpinWeak() do after they gave it back.
HeaderOutlivesUsers == frees > 0 =>
    /\ \A t \in Threads : ~pins[t] /\ ~weak[t]
    /\ Calls(Pinning \cup Locking \cup Claimed \cup {"unpinWeak"}) = {}

Quiet == \A t \in Threads : Idle(t)

\* A zombie without pins does not linger.
ZombieReleased ==
    Quiet /\ defined("ZOMBIE") /\ (\A t \in Threads : ~pins[t] /\ ~weak[t])
        => frees > 0 /\ ~glZombies

\* FreeObject() returns, as long as those who have the object locked release it.
FreeReturns == \A t \in Threads :
    At(t, "free_lock") ~> ~(At(t, "free_lock") \/ At(t, "free_sleep"))

----------------------------------------------------------------------------
(* What one expects, mostly because the documentation says so, and the     *)
(* code does not keep in every case: the counterexamples are in the README.*)

Unused == \A t \in Threads : locks[t] = 0 /\ ~pins[t]

\* The block of an object is released exactly once, whichever side drops the
\* last pin.
ReleasedOnce == frees <= 1

\* ReleaseObject() reads SleepQueue and Flags after its fetch_sub, and unpin() and
\* freeIfReady() read Flags and RefCount after the compare-exchange.
HeaderOutlivesReleases == frees > 0 => Calls({"wake", "collect", "last", "ready"}) = {}

\* Destruction is deferred until the final lock or pin is released, and no
\* longer.
MarkedIsCollected == Quiet /\ Unused => ~(registered /\ defined("FREE_ON_UNLOCK"))

\* An object whose record is marked for collection does not escape it.
MarkedStaysMarked == Quiet /\ registered /\ CollectOnUnlock => defined("FREE_ON_UNLOCK")

\* When nobody has an object locked, it is unlocked.
LocksReturned == Quiet /\ Unused /\ registered => Queue = 0
============================================================================
