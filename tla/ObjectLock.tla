----------------------------- MODULE ObjectLock -----------------------------
(***************************************************************************)
(* Object locks and sleeping threads of the Kotuku core: LockObject() and  *)
(* ReleaseObject() (src/core/lib_locking.cpp), the inlined lock() and      *)
(* unlock() of Object (objects.h), the wait-lock table with its deadlock   *)
(* detector, and WaitTime() and WakeThread() (src/core/lib_functions.cpp). *)
(*                                                                         *)
(* Each access to Queue, ThreadID, SleepQueue or a thread record that      *)
(* another thread can come between is a step of its own; what is done      *)
(* under glmObjectLocking in one go is one step.  Atomic accesses are      *)
(* sequentially consistent and a weak compare-exchange does not fail       *)
(* spuriously.  Objects are not destroyed here (ObjectLife does that).     *)
(*                                                                         *)
(* A definition that stands right before another one under a longer name   *)
(* (GiveUpWithMutex before GiveUp) is a deviation from the code,           *)
(* there to confirm that the properties notice it.                         *)
(***************************************************************************)
EXTENDS Naturals, FiniteSets

CONSTANTS
    Threads, Objects,
    Entry,      \* the calls in use to lock: a subset of {"LockObject", "lock"}
    Exit,       \* and to unlock: a subset of {"ReleaseObject", "unlock"}
    Timeouts,   \* a subset of {"finite", "indefinite"}
    Relock,     \* may a thread lock an object that it has held before?
    Wakes,      \* is WakeThread() called, and WaitTime()?
    MainThread, \* the thread that runs the message loop, or NoThread
    MaxDepth,   \* bound on the nested locks of one thread on one object
    NoThread, NoObject

ASSUME LockAssumption ==
    /\ IsFiniteSet(Threads) /\ IsFiniteSet(Objects)
    /\ Entry \subseteq {"LockObject", "lock"}
    /\ Exit \subseteq {"ReleaseObject", "unlock"}
    /\ Timeouts \subseteq {"finite", "indefinite"}
    /\ Relock \in BOOLEAN /\ Wakes \in BOOLEAN
    /\ MaxDepth \in Nat \ {0}
    /\ NoThread \notin Threads
    /\ NoObject \notin Objects

VARIABLES
    Queue,              \* Object::Queue
    ThreadID,           \* Object::ThreadID
    SleepQueue,         \* Object::SleepQueue
    glmObjectLocking,   \* the thread that owns the mutex, or NoThread
    glWaitLocks,        \* the wait-lock of each thread
    state,              \* ThreadRecord::state
    interrupted,        \* ThreadRecord::interrupted
    waking,             \* threads that a WakeThread() saw paused and has yet to notify
    pc, target, timeout,\* where a thread is, the object it locks, how long it waits
    depth,              \* ghost: the locks on an object that calls granted to a thread
    used,               \* ghost: the objects a thread has held (if ~Relock)
    stopped             \* ghost: threads that were told to stop

words   == <<Queue, ThreadID, SleepQueue>>
tables  == <<glmObjectLocking, glWaitLocks>>
records == <<state, interrupted, waking, stopped>>
call    == <<pc, target, timeout>>
ghosts  == <<depth, used>>
vars    == <<words, tables, records, call, ghosts>>

NotWaiting == [WaitingForThreadID |-> NoThread, WaitingForResourceType |-> "none"]

Init ==
    /\ Queue = [o \in Objects |-> 0]
    /\ ThreadID = [o \in Objects |-> NoThread]
    /\ SleepQueue = [o \in Objects |-> 0]
    /\ glmObjectLocking = NoThread
    /\ glWaitLocks = [t \in Threads |-> NotWaiting]
    /\ state = [t \in Threads |-> "RUNNING"]
    /\ interrupted = [t \in Threads |-> FALSE]
    /\ waking = {}
    /\ stopped = {}
    /\ pc = [t \in Threads |-> "idle"]
    /\ target = [t \in Threads |-> NoObject]
    /\ timeout = [t \in Threads |-> "finite"]
    /\ depth = [t \in Threads |-> [o \in Objects |-> 0]]
    /\ used = [t \in Threads |-> {}]

----------------------------------------------------------------------------
(* Helpers.                                                                *)

At(t, label)   == pc[t] = label
Goto(t, label) == pc' = [pc EXCEPT ![t] = label]

\* The call returns to its caller.
Return(t) ==
    /\ Goto(t, "idle")
    /\ target' = [target EXCEPT ![t] = NoObject]
    /\ timeout' = [timeout EXCEPT ![t] = "finite"]

\* The call returns ERR::Okay: t holds one more lock on its object.
Granted(t) ==
    /\ depth' = [depth EXCEPT ![t][target[t]] = @ + 1]
    /\ Return(t)

AddQueue(o, n)      == Queue' = [Queue EXCEPT ![o] = @ + n]
TakeQueue(o)        == Queue' = [Queue EXCEPT ![o] = 1]
DropQueue(o)        == Queue' = [Queue EXCEPT ![o] = @ - 1]
SetThreadID(t)      == ThreadID' = [ThreadID EXCEPT ![target[t]] = t]
JoinSleepers(t)     == SleepQueue' = [SleepQueue EXCEPT ![target[t]] = @ + 1]
LeaveSleepers(t)    == SleepQueue' = [SleepQueue EXCEPT ![target[t]] = @ - 1]
SetWaitLock(t, w)   == glWaitLocks' = [glWaitLocks EXCEPT ![t] = w]

\* compare_exchange_strong(PAUSED, RUNNING).
Resume(t) == state' = [state EXCEPT ![t] = IF @ = "PAUSED" THEN "RUNNING" ELSE @]

\* The detector follows the recorded holders from holder on; it stops at a
\* thread that records none.
would_deadlock(requester, holder) ==
    LET next(u) == IF u = NoThread THEN NoThread ELSE glWaitLocks[u].WaitingForThreadID
        chain[n \in Nat] == IF n = 0 THEN holder ELSE next(chain[n - 1])
        asleep(u) == u \in Threads /\ glWaitLocks[u].WaitingForResourceType = "sleep"
    IN  \E n \in 0..(Cardinality(Threads) - 1) :
           /\ \A m \in 0..(n - 1) : chain[m] # requester
           /\ chain[n] = requester \/ asleep(chain[n])

----------------------------------------------------------------------------
(* Object::lock() and the quick path of LockObject().                      *)

BeginLock(t, o, entry, wait) ==
    /\ At(t, "idle")
    /\ depth[t][o] < MaxDepth
    /\ o \notin used[t]
    /\ Goto(t, IF entry = "lock" THEN "increment" ELSE "quick")
    /\ target' = [target EXCEPT ![t] = o]
    /\ timeout' = [timeout EXCEPT ![t] = wait]
    /\ UNCHANGED <<words, tables, records, ghosts>>

\* lock(): ++Queue IS 1.
IncrementQueue(t) ==
    /\ At(t, "increment")
    /\ AddQueue(target[t], 1)
    /\ Goto(t, IF Queue[target[t]] = 0 THEN "store" ELSE "owner")
    /\ UNCHANGED <<ThreadID, SleepQueue, tables, records, target, timeout, ghosts>>

\* lock(): a nested lock keeps the increment.
CheckOwner(t) ==
    /\ At(t, "owner")
    /\ IF ThreadID[target[t]] = t THEN Granted(t)
       ELSE Goto(t, "restore") /\ UNCHANGED <<target, timeout, depth>>
    /\ UNCHANGED <<words, tables, records, used>>

\* lock(): anybody else takes it back and calls LockObject().
RestoreQueue(t) ==
    /\ At(t, "restore")
    /\ DropQueue(target[t])
    /\ Goto(t, "quick")
    /\ UNCHANGED <<ThreadID, SleepQueue, tables, records, target, timeout, ghosts>>

FreeOrLast(o) == Queue[o] <= 1
Free(o) == Queue[o] = 0

QuickLock(t) ==
    /\ At(t, "quick")
    /\ IF Free(target[t])
       THEN TakeQueue(target[t]) /\ Goto(t, "store")
       ELSE Goto(t, "nested") /\ UNCHANGED Queue
    /\ UNCHANGED <<ThreadID, SleepQueue, tables, records, target, timeout, ghosts>>

StoreThreadID(t) ==
    /\ At(t, "store")
    /\ SetThreadID(t)
    /\ Granted(t)
    /\ UNCHANGED <<Queue, SleepQueue, tables, records, used>>

\* The test by which LockObject() recognises a nested call ...
NestedLock(t) ==
    /\ At(t, "nested")
    /\ Goto(t, IF ThreadID[target[t]] = t THEN "add" ELSE "prepare")
    /\ UNCHANGED <<words, tables, records, target, timeout, ghosts>>

\* ... and the count that it adds to the lock.
AddNested(t) ==
    /\ At(t, "add")
    /\ AddQueue(target[t], 1)
    /\ Granted(t)
    /\ UNCHANGED <<ThreadID, SleepQueue, tables, records, used>>

----------------------------------------------------------------------------
(* The sleeping path of LockObject().                                      *)

\* A thread in the stopping state may not wait for ever.
PrepareSleep(t) ==
    /\ At(t, "prepare")
    /\ timeout' = [timeout EXCEPT ![t] = IF state[t] = "STOPPING" THEN "finite" ELSE @]
    /\ JoinSleepers(t)
    /\ Goto(t, "mutex")
    /\ UNCHANGED <<Queue, ThreadID, tables, records, target, ghosts>>

LockMutex(t) ==
    /\ At(t, "mutex")
    /\ glmObjectLocking = NoThread
    /\ glmObjectLocking' = t
    /\ Goto(t, "init")
    /\ UNCHANGED <<words, glWaitLocks, records, target, timeout, ghosts>>

MutexTimeoutUncounted(t) ==
    /\ At(t, "mutex")
    /\ timeout[t] = "finite"
    /\ Return(t)
    /\ UNCHANGED <<words, tables, records, ghosts>>

\* try_lock_for() ran out: ERR::SystemLocked.
MutexTimeout(t) ==
    /\ At(t, "mutex")
    /\ timeout[t] = "finite"
    /\ LeaveSleepers(t)
    /\ Return(t)
    /\ UNCHANGED <<Queue, ThreadID, tables, records, ghosts>>

GiveUpWithMutex(t) ==
    /\ SetWaitLock(t, NotWaiting)
    /\ LeaveSleepers(t)
    /\ UNCHANGED glmObjectLocking
    /\ Return(t)

\* The thread leaves the sleeping path, with the mutex, and returns an error.
GiveUp(t) ==
    /\ SetWaitLock(t, NotWaiting)
    /\ LeaveSleepers(t)
    /\ glmObjectLocking' = NoThread
    /\ Return(t)

\* init_sleep() records the wait and refuses one that would deadlock; then the
\* thread calls itself paused.
init_sleep(t) ==
    /\ At(t, "init")
    /\ LET holder == ThreadID[target[t]] IN
       IF holder = t \/ would_deadlock(t, holder)
       THEN GiveUp(t) /\ UNCHANGED state
       ELSE /\ SetWaitLock(t, [WaitingForThreadID |-> holder, WaitingForResourceType |-> "object"])
            /\ state' = [state EXCEPT ![t] = "PAUSED"]
            /\ Goto(t, "attempt")
            /\ UNCHANGED <<SleepQueue, glmObjectLocking, target, timeout>>
    /\ UNCHANGED <<Queue, ThreadID, interrupted, waking, stopped, ghosts>>

Stopping(t) == interrupted[t] \/ state[t] = "STOPPING"

\* The head of the loop: interrupted or ready to try.
Attempt(t) ==
    /\ At(t, "attempt")
    /\ Goto(t, IF Stopping(t) THEN "failed" ELSE "try")
    /\ UNCHANGED <<words, tables, records, target, timeout, ghosts>>

\* The compare-exchange under the mutex; cvObjects.wait() releases the mutex.
TryLock(t) ==
    /\ At(t, "try")
    /\ IF Free(target[t])
       THEN TakeQueue(target[t]) /\ Goto(t, "taken") /\ UNCHANGED glmObjectLocking
       ELSE glmObjectLocking' = NoThread /\ Goto(t, "waiting") /\ UNCHANGED Queue
    /\ UNCHANGED <<ThreadID, SleepQueue, glWaitLocks, records, target, timeout, ghosts>>

TakenAfterSleep(t) ==
    /\ At(t, "taken")
    /\ SetWaitLock(t, NotWaiting)
    /\ SetThreadID(t)
    /\ LeaveSleepers(t)
    /\ Resume(t)
    /\ glmObjectLocking' = NoThread
    /\ Granted(t)
    /\ UNCHANGED <<Queue, interrupted, waking, stopped, used>>

\* The deadline passes, at the head of the loop or in wait_for().
Expire(t) ==
    /\ pc[t] \in {"attempt", "waiting"}
    /\ timeout[t] = "finite"
    /\ Goto(t, IF At(t, "attempt") THEN "failed" ELSE "expired")
    /\ UNCHANGED <<words, tables, records, target, timeout, ghosts>>

\* cvObjects.wait() returns with the mutex.
Reacquire(t) ==
    /\ pc[t] \in {"woken", "expired"}
    /\ glmObjectLocking = NoThread
    /\ glmObjectLocking' = t
    /\ Goto(t, IF At(t, "woken") THEN "attempt" ELSE "failed")
    /\ UNCHANGED <<words, glWaitLocks, records, target, timeout, ghosts>>

\* ERR::Cancelled consumes the interrupt; otherwise ERR::TimeOut.
FailedSleep(t) ==
    /\ At(t, "failed")
    /\ interrupted' = [interrupted EXCEPT ![t] = IF Stopping(t) THEN FALSE ELSE @]
    /\ Resume(t)
    /\ GiveUp(t)
    /\ UNCHANGED <<Queue, ThreadID, waking, stopped, ghosts>>

----------------------------------------------------------------------------
(* ReleaseObject() and Object::unlock().                                   *)

BeginUnlock(t, o, exit) ==
    /\ At(t, "idle")
    /\ depth[t][o] > 0
    /\ Goto(t, IF exit = "unlock" THEN "unlock" ELSE "release")
    /\ target' = [target EXCEPT ![t] = o]
    /\ UNCHANGED <<words, tables, records, timeout, ghosts>>

\* t gives one of its locks back.
Surrender(t) ==
    /\ depth' = [depth EXCEPT ![t][target[t]] = @ - 1]
    /\ used' = IF Relock \/ depth[t][target[t]] > 1 THEN used
               ELSE [used EXCEPT ![t] = @ \cup {target[t]}]
    /\ DropQueue(target[t])

\* unlock(): ReleaseObject() if somebody sleeps, else a plain decrement.
CheckSleepers(t) ==
    /\ At(t, "unlock")
    /\ Goto(t, IF SleepQueue[target[t]] > 0 THEN "release" ELSE "decrement")
    /\ UNCHANGED <<words, tables, records, target, timeout, ghosts>>

DecrementQueue(t) ==
    /\ At(t, "decrement")
    /\ Surrender(t)
    /\ Return(t)
    /\ UNCHANGED <<ThreadID, SleepQueue, tables, records>>

\* ReleaseObject(): fetch_sub() tells whether this was the last lock.
FetchSub(t) ==
    /\ At(t, "release")
    /\ Surrender(t)
    /\ IF Queue[target[t]] > 1 THEN Return(t)
       ELSE Goto(t, "wake") /\ UNCHANGED <<target, timeout>>
    /\ UNCHANGED <<ThreadID, SleepQueue, tables, records>>

HasManySleepers(o) == SleepQueue[o] > 1
HasSleepers(o) == SleepQueue[o] > 0

CheckWake(t) ==
    /\ At(t, "wake")
    /\ IF HasSleepers(target[t])
       THEN Goto(t, "notify") /\ UNCHANGED <<target, timeout>>
       ELSE Return(t)
    /\ UNCHANGED <<words, tables, records, ghosts>>

Notified(label) == IF label = "waiting" THEN "woken" ELSE label

\* cvObjects.notify_all() under the mutex; the condition is shared by all objects.
NotifyAll(t) ==
    /\ At(t, "notify")
    /\ glmObjectLocking = NoThread
    /\ pc' = [u \in Threads |-> IF u = t THEN "idle" ELSE Notified(pc[u])]
    /\ target' = [target EXCEPT ![t] = NoObject]
    /\ UNCHANGED <<words, tables, records, timeout, ghosts>>

----------------------------------------------------------------------------
(* WaitTime() and WakeThread(), and the main thread's indefinite sleep.    *)

WaitTime(t) ==
    /\ Wakes
    /\ At(t, "idle")
    /\ state[t] # "STOPPING"
    /\ Goto(t, "pause")
    /\ UNCHANGED <<words, tables, records, target, timeout, ghosts>>

Pause(t) ==
    /\ At(t, "pause")
    /\ state' = [state EXCEPT ![t] = "PAUSED"]
    /\ Goto(t, "doze")
    /\ UNCHANGED <<words, tables, interrupted, waking, stopped, target, timeout, ghosts>>

\* cv.wait_for() looks at its predicate before it blocks.
Doze(t) ==
    /\ At(t, "doze")
    /\ Goto(t, IF interrupted[t] THEN "rise" ELSE "dozing")
    /\ UNCHANGED <<words, tables, records, target, timeout, ghosts>>

WaitTimeExpires(t) ==
    /\ At(t, "dozing")
    /\ Goto(t, "rise")
    /\ UNCHANGED <<words, tables, records, target, timeout, ghosts>>

Rise(t) ==
    /\ At(t, "rise")
    /\ interrupted' = [interrupted EXCEPT ![t] = FALSE]
    /\ Resume(t)
    /\ Goto(t, "idle")
    /\ UNCHANGED <<words, tables, waking, stopped, target, timeout, ghosts>>

NeverPaused(t) == FALSE
Paused(t) == state[t] = "PAUSED"

\* WakeThread() under the mutex of the record ...
WakeThread(t, stop) ==
    /\ Wakes
    /\ waking' = IF Paused(t) THEN waking \cup {t} ELSE waking
    /\ interrupted' = [interrupted EXCEPT ![t] = TRUE]
    /\ state' = [state EXCEPT ![t] = IF stop THEN "STOPPING" ELSE @]
    /\ stopped' = IF stop THEN stopped \cup {t} ELSE stopped
    /\ UNCHANGED <<words, tables, call, ghosts>>

\* ... and its notifications after it: record->cv and cvObjects.
NotifyThread(t) ==
    /\ t \in waking
    /\ waking' = waking \ {t}
    /\ pc' = [u \in Threads |-> IF u = t /\ At(t, "dozing") THEN "rise" ELSE Notified(pc[u])]
    /\ UNCHANGED <<words, tables, state, interrupted, stopped, target, timeout, ghosts>>

\* sleep_task(): the main thread waits for a message without a limit.
register_sleep(t) ==
    /\ At(t, "idle") /\ t = MainThread
    /\ SetWaitLock(t, [WaitingForThreadID |-> NoThread, WaitingForResourceType |-> "sleep"])
    /\ Goto(t, "asleep")
    /\ UNCHANGED <<words, glmObjectLocking, records, target, timeout, ghosts>>

deregister_sleep(t) ==
    /\ At(t, "asleep")
    /\ SetWaitLock(t, NotWaiting)
    /\ Goto(t, "idle")
    /\ UNCHANGED <<words, glmObjectLocking, records, target, timeout, ghosts>>

----------------------------------------------------------------------------
\* The rest of a call that has begun, as far as it needs no mutex.
Step(t) ==
    \/ IncrementQueue(t) \/ CheckOwner(t) \/ RestoreQueue(t)
    \/ QuickLock(t) \/ StoreThreadID(t) \/ NestedLock(t) \/ AddNested(t) \/ PrepareSleep(t)
    \/ MutexTimeout(t) \/ init_sleep(t) \/ Attempt(t) \/ TryLock(t)
    \/ TakenAfterSleep(t) \/ FailedSleep(t)
    \/ CheckSleepers(t) \/ DecrementQueue(t) \/ FetchSub(t) \/ CheckWake(t)
    \/ Pause(t) \/ Doze(t) \/ WaitTimeExpires(t) \/ Rise(t)

\* The steps that wait for glmObjectLocking.
MutexStep(t) == LockMutex(t) \/ Reacquire(t) \/ NotifyAll(t)

Unlock(t) == \E o \in Objects, exit \in Exit : BeginUnlock(t, o, exit)

Next == \E t \in Threads :
    \/ \E o \in Objects, entry \in Entry, wait \in Timeouts : BeginLock(t, o, entry, wait)
    \/ Unlock(t)
    \/ Step(t)
    \/ MutexStep(t)
    \/ Expire(t)
    \/ WaitTime(t)
    \/ \E stop \in BOOLEAN : WakeThread(t, stop)
    \/ NotifyThread(t)
    \/ register_sleep(t)
    \/ deregister_sleep(t)

Spec == Init /\ [][Next]_vars

\* Threads run; glmObjectLocking, which is held for a few instructions at a
\* time, does not pass a waiting thread over for ever; time passes, and the
\* deadline of a call does not move.
Fairness == \A t \in Threads :
    /\ WF_vars(Step(t)) /\ WF_vars(NotifyThread(t))
    /\ SF_vars(MutexStep(t)) /\ SF_vars(Expire(t))

FairSpec == Spec /\ Fairness

\* Moreover a thread does not keep a lock for ever.
ReleasingSpec == FairSpec /\ \A t \in Threads : WF_vars(Unlock(t))

----------------------------------------------------------------------------
(* Properties.                                                             *)

\* The thread counts in Queue without holding a lock for it: the increment that
\* lock() takes back, or a lock that is taken and not yet granted.
Counting(t) == pc[t] \in {"owner", "restore", "store", "taken"}

\* Between SleepQueue.fetch_add() and fetch_sub().
Sleeping(t) == pc[t] \in {"mutex", "init", "attempt", "try", "taken", "waiting", "woken",
                          "expired", "failed"}

Labels ==
    {"idle", "increment", "owner", "restore", "quick", "store", "nested", "add", "prepare", "mutex",
     "init", "attempt", "try", "taken", "waiting", "woken", "expired", "failed", "unlock",
     "decrement", "release", "wake", "notify", "pause", "doze", "dozing", "rise", "asleep"}

WaitLock == [WaitingForThreadID : Threads \cup {NoThread},
             WaitingForResourceType : {"none", "object", "sleep"}]

TypeOK ==
    /\ Queue \in [Objects -> Nat]
    /\ ThreadID \in [Objects -> Threads \cup {NoThread}]
    /\ SleepQueue \in [Objects -> Nat]
    /\ glmObjectLocking \in Threads \cup {NoThread}
    /\ glWaitLocks \in [Threads -> WaitLock]
    /\ state \in [Threads -> {"RUNNING", "PAUSED", "STOPPING"}]
    /\ interrupted \in [Threads -> BOOLEAN]
    /\ waking \in SUBSET Threads
    /\ stopped \in SUBSET Threads
    /\ pc \in [Threads -> Labels]
    /\ target \in [Threads -> Objects \cup {NoObject}]
    /\ timeout \in [Threads -> {"finite", "indefinite"}]
    /\ depth \in [Threads -> [Objects -> Nat]]
    /\ used \in [Threads -> SUBSET Objects]

Holders(o) == {t \in Threads : depth[t][o] > 0}

\* A thread has an object from the moment at which it takes Queue.
Has(t, o) == depth[t][o] > 0 \/ (target[t] = o /\ pc[t] \in {"store", "taken"})

\* One thread at most has the object, and ThreadID names whoever holds a lock on it.
Orderly(o) == \A t \in Threads : Has(t, o) =>
    /\ \A u \in Threads : Has(u, o) => u = t
    /\ depth[t][o] > 0 => ThreadID[o] = t

\* The nested test of LockObject() or lock() took t, which holds no lock on o, for the
\* thread that does.
TakenForHolder(t, o) ==
    /\ pc[t] \in {"owner", "add"} /\ target[t] = o
    /\ depth[t][o] = 0 /\ depth'[t][o] = 1

\* LockObject(), lock(), ReleaseObject() and unlock() keep an object to one thread at a
\* time, whoever sleeps, times out, is interrupted or comes back to it; the one step by
\* which that can end is a nested test that reads a ThreadID left from an earlier lock.
ExclusionKept ==
    [][\A o \in Objects : Orderly(o) /\ ~Orderly(o)' =>
          \E t \in Threads : TakenForHolder(t, o)]_vars

\* The reasons for which an object is counted as locked: the locks of each
\* thread, and the counts that stand for no lock.
Tokens(o) ==
    {lock \in Threads \X (1..MaxDepth) : lock[2] <= depth[lock[1]][o]}
        \cup {<<t, 0>> : t \in {u \in Threads : Counting(u) /\ target[u] = o}}

\* Queue is exact: it counts the granted locks and the counts in transit, even
\* when two threads hold the object at once, so it returns to zero when all
\* locks have been released and never becomes negative.
QueueCounts == \A o \in Objects : Queue[o] = Cardinality(Tokens(o))

\* SleepQueue counts the threads on the sleeping path on all of its exits: a
\* thread that left it uncounted would go unnoticed by ReleaseObject(), one
\* counted for ever would send every unlock() through the mutex.
SleepersCounted == \A o \in Objects :
    SleepQueue[o] = Cardinality({t \in Threads : Sleeping(t) /\ target[t] = o})

\* The counters of the locks.
LockInv == TypeOK /\ QueueCounts /\ SleepersCounted

\* No lost wake-up: when a thread sleeps on an object that nobody has locked,
\* some thread is about to wake it, or about to lock the object and so to
\* release it later.
WakeUpOnDuty == \A t \in Threads :
    At(t, "waiting") /\ Queue[target[t]] = 0 =>
        \E u \in Threads : target[u] = target[t] /\ pc[u] \in {"wake", "notify", "quick"}

\* A thread that sleeps in WaitTime() with an interrupt pending is about to be
\* notified.
WaitTimeWakes == \A t \in Threads : At(t, "dozing") /\ interrupted[t] => t \in waking

\* Every call to LockObject() returns, with the lock or with an error: the nested
\* locks, the sleepers and the deadlines of others do not keep it for ever.
CallsReturn == \A t \in Threads : At(t, "increment") \/ At(t, "quick") ~> At(t, "idle")

----------------------------------------------------------------------------
(* What the documentation says and the code does not keep in every case:   *)
(* the counterexamples are described in the README.                        *)

\* LockObject() grants exclusive access to an object at thread level.
MutualExclusion == \A o \in Objects : \A t, u \in Holders(o) : t = u

\* A thread that sleeps in LockObject() with an interrupt pending is about to be
\* notified.
LockObjectWakes == \A t \in Threads : At(t, "waiting") /\ interrupted[t] => t \in waking

\* A thread that was told to stop stays in the stopping state, so that all its
\* future sleeps are cancelled.
StopIsPermanent == \A t \in stopped : state[t] = "STOPPING"

\* The threads in S sleep for ever, each on an object that only they hold.
Deadlocked(S) == \A t \in S :
    /\ At(t, "waiting") /\ timeout[t] = "indefinite"
    /\ Holders(target[t]) # {} /\ Holders(target[t]) \subseteq S

\* The detector leaves no deadlock among indefinite waits.
DeadlocksDetected == \A S \in SUBSET Threads \ {{}} : ~Deadlocked(S)
============================================================================
