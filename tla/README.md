# Kotuku core: TLA+ models and proofs

TLA+ models of the concurrent heart of the Kotuku core (`src/core` and the inline
functions of `include/kotuku/objects.h`): who may use, lock, free, notify and wait for
an object or a tracked resource, from several threads at once, and what the main
thread's message loop makes of timers, events and callbacks that call it again. TLC
checks the models on small instances; TLAPS proves most of the safety properties for
every value of the constants: any number of threads, clients, objects, resources, timers,
events, messages and nested calls (section 5).

Source paths below are relative to the repository (`src/core/lib_objects.cpp`);
`PROJECT.json` puts `src/` in front of them. `PROJECT.json` maps every definition
that models code to the lines it stands for.

    tlc -workers 4 -config MCObjectLock.cfg MCObjectLock     # a run
    tlapm ObjectLockProofs.tla                               # the proofs of a module

## 1. Inventory

Kotuku is an application framework: a core (objects, messages, threads, memory,
tasks, files), the Tiri scripting language (a LuaJIT derivative), and modules for
display, vector graphics, audio, network and documents. What is hard to get right
and hard to test is the core's object system: every module calls it, from any
thread, and its guarantees rest on several mutexes, on flags and counters changed
without them, and on the order in which they are read.

| Component | State | Operations | Hard because of |
|---|---|---|---|
| Resource registry, `lib_memory.cpp` | `glResources`: identifier, owner, address, manager, `PinCount`, `Terminating`, `CollectOnUnlock`; `ObjectRecord::Resources` | `TrackResource`, `AllocResource`, `UntrackResource`, `PinResource`, `UnpinResource`, `FreeResource`, `free_children` | the manager runs without the mutex and may refuse; deferral to the last unpin; ownership is kept twice |
| Object locks and sleeping threads, `lib_locking.cpp`, `objects.h`, `lib_functions.cpp` | `Queue`, `ThreadID`, `SleepQueue`, wait-locks, `ThreadRecord` | `LockObject`, `ReleaseObject`, `lock`, `unlock`, `WaitTime`, `WakeThread`, the deadlock detector | a lock-free fast path in two stores; wake-ups decided without the mutex; interrupts |
| Object life time, `lib_objects.cpp`, `lib_locking.cpp`, `objects.h` | `ObjectRecord`, `Flags`, `RefCount` (strong and weak), `Queue`, `glZombies` | `AccessObject`, `ReleaseObject`, `pin`, `unpin`, `pinWeak`, `unpinWeak`, `SharedObjectAccess`, `FreeObject`, `object_free`, `msg_free` | deferral recorded in three places, vetoes, zombies, recursion of release into free |
| Asynchronous actions, `lib_objects.cpp` | `glActionQueues`, `glActiveAsyncObjects`, `glCancelledAsyncObjects`, `glAsyncObjectThreads`, `NF::ASYNC_ACTIVE`, the `AsyncWait()` counter | `AsyncAction`, the worker thread, `msg_threadaction`, `dispatch_queued_action`, `drain_action_queue`, `AsyncCancel`, `AsyncWait`, `stop_async_actions` | workers, message loop, nested loops, cancellation and shutdown interleave |
| Action subscriptions, `lib_objects.cpp` | `glSubscriptions`, `NotifyFlags`, `glSubLock`, per thread `glSubReadOnly` and the lists of what is put off | `SubscribeAction`, `UnsubscribeAction`, the passes of `Action`, `NotifySubscribers` and `object_free`, the drain | callbacks change the list that is being walked, from nested passes; what they change is put off; two locks in opposite orders |
| Events, `lib_events.cpp` | `glEventList`, `glEventMask`, `glCallSignal`, `glEventListAltered` | `BroadcastEvent`, `SubscribeEvent`, `UnsubscribeEvent`, `msg_event` | callbacks change the list under the scan, free entries, and dispatch again |
| Timers, `lib_functions.cpp`, `lib_messages.cpp`, `lib_objects.cpp` | `glTimers`, `glTimerCycle` (8 bits), weak pins on subscribers and contexts | `SubscribeTimer`, `UpdateTimer`, the timer cycle of `ProcessMessages`, the end of an object | the lock is given back around each callback; nested cycles; removal and `object_free()` from other threads |
| Waiting for objects, `lib_messages.cpp` | `glWFOList`, `glWFOAnySignal`, `glWFOSignalReceived`, `NF::SIGNALLED` | `WaitForObjects`, `notify_signal_wfo`, `msg_waitforobjects` | signals and frees of other threads arrive late, as messages; old messages; locks that are not had; nested waits |
| Message queue, `lib_messages.cpp` | `glQueue`, handlers | `SendMessage`, `ProcessMessages` | nesting, batches |
| Object tree, `lib_objects.cpp` | `ObjectRecord::Children`, owner pointers | `NewObject`, `SetOwner`, `free_children` | ownership changes during destruction |
| Thread class, `classes/class_thread.cpp` | activity and results of a thread object | `Activate`, `Wait`, `Free` | a thread object freed while its routine runs |

The other components (tasks, files, compression, network, Tiri, display, audio, ...)
are listed in `PROJECT.json` with the reason why they are not modelled: sequential
conversions, I/O of the host, published protocols, or vendored code.

How the parts interact. `FreeObject()` defers while an object is locked or pinned;
the release of the last lock or pin calls it back (`ReleaseObject()`,
`freeIfReady()`), from inside the lock code. `object_free()` frees the resources and
children of the object (`free_children()`), drains its queue of asynchronous actions
and flags the sleepers on its lock. A worker of `AsyncAction()` locks its object with
`LockObject()` and tells the main thread by a message; the main thread runs the
callback under the object's lock and dispatches the next request. `AsyncCancel()` and
`stop_async_actions()` interrupt workers with `WakeThread()`.

`ProcessMessages()` of the main thread first runs the timer cycle, then takes a batch
of messages and calls their handlers: `msg_event()`, `msg_threadaction()`,
`msg_waitforobjects()`. Each of these runs callbacks that may call
`ProcessMessages()`, or `WaitForObjects()`, or `AsyncWait()`, again. `Action()` on any
thread notifies the object's subscribers under `glSubLock`; one of them is
`notify_signal_wfo()`, which turns a signal on another thread into a message.
`object_free()` notifies `AC::Free`, drops the subscriptions of the object and its
timers, and leaves the timers to the next cycle if it does not get their lock.

What makes each part correct:

* registry: a pin protects, one destroyer per record, nothing is freed twice, a
  deferred collection is never lost, the two views of ownership agree;
* locks: one holder, exact counters, no lost wake-up, every call returns;
* life time: no termination in use, exact pins and locks on every path, the header
  outlives its users and is released once, marked objects are collected (section 4 has
  the cases where that is not kept);
* asynchronous actions: one request of an object at a time and in order, each callback
  called exactly once, an active object is always being served, `AsyncWait()` neither
  early nor for ever, nothing is left after shutdown;
* subscriptions: a pass sees the list it began with, who has unsubscribed has no
  record, nothing that was put off is forgotten, notifications come back;
* events: each subscriber is called once per event, and whatever callbacks free is
  noticed, whatever they do to the list;
* timers: a routine is not entered twice, nor called twice in a cycle, the subscriber
  is alive and locked meanwhile, an entry in use stays, pins balance, orphans go;
* waits: `WaitForObjects()` returns neither before its objects are signalled nor
  sleeps on after that, although it learns of them late.

## 2. Modules

| Module | Models | Extends |
|---|---|---|
| `ResourceLifetime` | abstract: absent, live, doomed, dying resources and their pins | |
| `Resources` | the registry and the sweep of an owner; implements `ResourceLifetime` | |
| `ResourcesProofs` | theorems about `Resources` | `Resources`, `TLAPS` |
| `ObjectLock` | locks, sleepers, interrupts, the deadlock detector | |
| `ObjectLockProofs` | theorems about `ObjectLock` | `ObjectLock`, `TLAPS` |
| `ObjectLife` | access, pins, termination of one object | |
| `ObjectLifeProofs` | theorems about `ObjectLife` | `ObjectLife`, `TLAPS` |
| `AsyncActions` | asynchronous actions with the message loop they need | |
| `AsyncActionsProofs` | theorems about `AsyncActions` | `AsyncActions`, `TLAPS` |
| `Subscriptions` | action subscriptions and notification passes of any threads | |
| `SubscriptionsProofs` | theorems about `Subscriptions` | `Subscriptions`, `TLAPS` |
| `Events` | event subscriptions and the dispatch of `msg_event()` | |
| `EventsProofs` | theorems about `Events` | `Events`, `TLAPS` |
| `Timers` | timer subscriptions, nested timer cycles, the end of subscribers | |
| `TimersProofs` | theorems about `Timers` | `Timers`, `TLAPS` |
| `Waits` | `WaitForObjects()` against signals, frees and locks of others | |
| `WaitsProofs` | theorems about `Waits` | `Waits`, `TLAPS` |
| `MCResources`, `MCObjectLock`, `MCObjectLife`, `MCAsyncActions`, `MCSubscriptions`, `MCEvents`, `MCTimers`, `MCWaits` | instances for TLC | |

Convention: one action per critical section, or per access to a shared word that
another thread can come between. Mutexes that are held only within one action do not
appear; `glmObjectLocking`, which is waited for and given up by a condition variable,
does. A definition that stands right before another one under a longer name
(`FreeRegisteredTwice` before `FreeRegistered`) is a plausible deviation from the
code: replacing the one by the other must make a property fail.

### Resources

A *client* is an activity that calls the registry: a thread, or a manager that
re-enters the core. Each entry point is one action. Destruction is `FreeResource` or
the last `UnpinResource` (the claim), `FreeMemory` or `RunManager` (the manager,
without `glmResources`) and `RecordOutcome`. An owner is destroyed by `FreeObject`,
`free_children` (the snapshot), one `SweepResource` per resource and `EraseObject`.
`Disciplined = FALSE` lets callers register resources without address or for owners
that are being destroyed. Left out: the crash path (`glCrashStatus`) and the layout
of memory blocks.

### ObjectLock

A thread's position is `pc`. `QuickLock`, `StoreThreadID` and `NestedLock` are the fast path
(`lib_locking.cpp:451-466`), whose nested test and increment (`AddNested`) are two steps,
`PrepareSleep` to `FailedSleep` the sleeping path with its six exits, `FetchSub`, `CheckWake`
and `NotifyAll` the release; `IncrementQueue`, `CheckOwner`, `RestoreQueue`, `CheckSleepers`
and `DecrementQueue` are `lock()` and `unlock()` of `objects.h`; `Pause`, `Doze`, `Rise` are
`WaitTime()`. `WakeThread` and `NotifyThread` are the two halves of `WakeThread()`. `Queue` and
`ThreadID` are separate words, as in the code. Assumed: sequentially consistent atomics, a weak
compare-exchange does not fail spuriously, condition variables do not wake spuriously (each
would only lead to a retry that is modelled anyway). The main thread's sleep (`sleep_task()`)
is only modelled without a limit. Objects are not destroyed here.

### ObjectLife

One object, any number of threads. Each thread has a *stack* of labels, one per
function it is in, because releasing a lock or a pin may call `FreeObject()`, which
releases a lock itself. The lock is idealised (ObjectLock has the detail). Assumed:
a header read after its block was released yields its last contents; `msg_free()` is
only run by a thread that has no lock on the object; a user of `SharedObjectAccess`
relies on a weak pin; strong pins are given back with `unpin(true)`. With `Interrupts`, the wait
of `object_free()` for the lock may be broken off by `WakeThread()` or the deadlock detector
(`FreeLockFails`), also when the object is not marked. In
`BeginTermination` the terminator's pin, `FREE` and the clearing of `FREE_ON_UNLOCK`
are one step; the three reads of `freeIfReady()` are one step. Left out: the queue of
actions, subscriptions and timers that `object_free()` also drops, and the release of
zombies when the process ends.

### AsyncActions

A request is a number in the order of submission; its worker has the same number.
`Register` to `cleanup` are the worker; `FetchBatch`, `BreakMessage`, `LeaveLoop`,
`BeginCallback`, `EndCallback` are `ProcessMessages()` and `msg_threadaction()`, with a
stack of `frames` because `AsyncWait()` calls `ProcessMessages()` again; `Pop` to
`EndDispatch` are `dispatch_queued_action()` and `drain_action_queue()`. Assumed: every
request has a callback; a submission holds a pin, so an object is not freed within it;
an object is not freed while a worker is about to lock it (the documentation of
`AsyncAction()`, `lib_objects.cpp:1154`, makes that the caller's duty); only
`async_wait_callback()` sends `BREAK`; a batch of 30 messages never overflows; a
callback does not wait for its own object; thread identifiers are not reused. In the
drain path the object stays locked until `EndDispatch`, slightly longer than in the code.
`Hold` and `LetGo` stand for other code that keeps an object locked for seconds.
`stop_async_actions()` is `CloseSubmissions`, which takes the set of workers, and
`JoinThreads`, which waits for all of them. That this is the same set is
`SnapshotComplete`: `AsyncAction()` holds `glmAsyncActions` from its test of
`glAsyncActionsClosed` (`lib_objects.cpp:1196-1199`) until the worker is launched, and the
main thread, which closes submissions, is in no dispatch then.

### Subscriptions

A *topic* is an object and an action. Each thread has a stack of `calls` (`Action()`,
`NotifySubscribers()`, the end of an object); `object` and `lock` are the waits for the object
and for `glSubLock`, `routine` the code of the class that runs in between with the object
locked (the action's, or `FreeWarning()`), `next` and `callback` the pass, `drain` what follows
the outermost one, and `closing` the class's `Free()`, after which `object_free()` drops the
records (`Forget`). `glSubLock` is recursive: a thread owns it while one of its calls is in a
pass or a drain. A routine, a callback or a `Free()` may subscribe, unsubscribe, free
subscribers and begin calls. `glSubReadOnly` is the number of the thread's passes; while it is
not zero, changes go to `glDelayedSubscribe` and `glDelayedUnsubscribe`. `Without` has
`unsubscribe_from_object()`, which drops every record of an object whose last bit it clears.
`was` and `left` are ghosts. Left out: the callback filter of an unsubscription (a record is
known by its context) and the arguments of actions.

### Events

Everything runs on the main thread. A subscription is its address, which may be freed
and come back. `Called` is only compared with `glCallSignal`, which grows, so `called`
is the set of entries where the two are equal. `MsgEvent` begins a dispatch, `ScanPast`
and `ScanFinds` walk the list. `Granted` and `NotGranted` are the two ends of
`AccessObject()`. `CallbackReturns` looks at `glEventListAltered` (`lib_events.cpp:345`),
and `Unlocked` reads `event->Next` or starts again, which is a step of its own: at the end
of the block (`lib_events.cpp:347`) the object's lock is given back, which may destroy an
object that its callback marked, and that object's `Free()` may change the list. A
refusal gives back a pin, with the same effect, before the flag is looked at
(`RefusalReturns`). If the entry has been freed when its `Next` is read, the dispatch is at
`freed`, from where it may never return, or go on anywhere (`GoAstray`). `due` and
`astray` are ghosts: who is still owed a call, and whether the dispatch has gone on from
a freed entry. Event identifiers are a group and a name or wildcard.

### Timers

The list is the set of its identifiers: `SubscribeTimer()` numbers the entries and appends
them, so it is in their order. `loop` is the stack of `ProcessMessages()` calls. `BeginCycle`,
`LockTimers`, `Sweep`, `LockEntry`, `Dispatch`, `LockSubscriber`, `CallbackReturns` and
`Finish` are the timer cycle in the order of the code, each up to the next point where another
thread or a callback can act; what others do under `glmTimer` is one step. `LockTimers` may
time out. An object is live, marked, freeing or freed; `FreeBegins` and `FreeEnds` are the two
ends of `object_free()` on another thread (in between it holds the object's lock), and
`FreeEnds` may give up on `glmTimer`. An object that is marked is ended by whoever gives its
last lock back (`FreeResumes`); that may be the dispatcher itself in the `ReleaseObject()` that
follows a subscriber that is on its way out (`lib_messages.cpp:401`), which has `glmTimer` then
(`LockSubscriber`, `SubscriberEnded`). The clock advances in callbacks and between scans. Left
out: the alignment of rapid timers that share an interval, the shutdown, which skips the
timers, and the race on `Routine.Meta`, which `ProcessMessages()` reads after the unlock
(`lib_messages.cpp:411`): it is one step here.

### Waits

`calls` is the main thread's stack of `WaitForObjects()` and `ProcessMessages()` calls;
a handler's steps are steps made while the innermost call is a message loop. `Register`
takes the objects in any order, one per step, so that others can act in between;
`WaitGoesOn`, `WaitExpires`, `WaitIsOver` are the loop around `ProcessMessages()`,
`ProcessOnce` the call that is made in any case, `CleanUp` the end. `DeferredMessage`
is `msg_waitforobjects()` on a message of another thread, with its four outcomes:
signalled, gone, stale, not locked (sent again). A signal, and the end of an object,
are one step with the notification they make, since the object is locked meanwhile. An
object is live, claimed (`Terminating`), marked (`FREE_ON_UNLOCK`) or freed. Assumed: an
object that is passed to `WaitForObjects()` is not freed before it is registered (the
caller passes addresses), and, unless `Unready` is set, nobody keeps it locked or
marks it then. Left out: `TSTATE::STOPPING`, which ends every wait, errors of
`SubscribeAction()`, and Windows messages. A second subscription record of the same
wait would post a message twice; since the same comes of two signals, records are not
counted.

## 3. What TLC checks

| Run | Instance | Properties |
|---|---|---|
| `resources` | 2 clients, 2 resources, 1 owner, at most 2 pins, managers may refuse; fair; 33 456 states | `RegistryInv`, `PinProtects`, `OwnershipConsistent`, `PinnedRecordStable`, `ImplementsLifetime`, `DestructionCompletes` |
| `lock_safety` | 2 threads (one the main thread), 1 object, depth 2, all calls, interrupts, stops; 1 076 779 states | `LockInv` (`TypeOK`, `QueueCounts`, `SleepersCounted`), `WaitTimeWakes`, `ExclusionKept` |
| `lock_live` | 3 threads, 1 object, `LockObject()` and `ReleaseObject()`, each thread once, fair; 16 128 states | `WakeUpOnDuty`, `CallsReturn` |
| `life_safety` | 3 threads, depth 2, vetoes, locks denied by interrupts; no `MSGID::FREE`, no shared access; 424 682 states | `LifeInv` (`TypeOK`, `LocksCounted`), `InUseNotTerminated` |
| `life_forced` | 3 threads, depth 1, `MSGID::FREE` (overrides pins) and shared access; 652 188 states | `PinsCounted`, `HeaderOutlivesUsers`, `ZombieReleased` |
| `life_released_twice` | 2 threads: fails | `ReleasedOnce` |
| `async_safety` | 1 object, 3 requests, 2 threads that submit, one of them also cancels, frees, long locks, shutdown; 805 379 states | `AsyncInv` (`TypeOK`, `SnapshotComplete`, `ShutdownQuiet`), `Serialised`, `ActiveIsServed`, `FirstInFirstOut`, `CallbackAccounted` |
| `async_live` | 2 objects, 2 requests, main thread submits, cancels and waits, with time-outs that may or may not come; fair; 111 899 states | `WaitCovers`, `CallbackHappens`, `WaitReturns` |
| `subscriptions` | 2 threads, 2 objects, 2 actions (one is `AC::Free`), 2 subscribers that may be freed, 2 calls at a time, of two threads or nested; 1 055 250 states up to symmetry | `SubscriptionsInv` (`TypeOK`, `OneOwner` of `glSubLock`, `DelaysEndWithPass`), `PassUndisturbed`, `UnsubscribedHasNoRecord` |
| `events` | 3 addresses, 3 events in 2 groups, a wildcard, 2 messages; objects that are refused or end with the lock; fair; 777 826 states | `EventsInv` (`TypeOK`, `MaskAccurate`), `FreeNoticed`, `NoneLeftOut`, `NoneCalledTwice`, `DispatchesEnd` |
| `timers` | 2 timers of one object, in C and in a script, 2 nested loops, a cycle counter of one bit; fair; 55 766 states | `TimersInv` (`TypeOK`, `PinsBalanced`, `EntryInUseKept`), `NotReentered`, `SubscriberHeld`, `OncePerCycle`, `OrphansSwept` |
| `waits` | 2 objects, waits for both or for any, at most 2 messages of other threads; fair; 207 616 states | `WaitsInv` (`TypeOK`, `MonitoredIsHeard`), `NoEarlyReturn`, `WaitEnds` |

What the bounds leave room for. *Resources*: a destruction and a pin on the same record, and
another record to confuse it with; two pins reach the saturation of `PinCount` (more clients
and pins are in the theorems). *ObjectLock*: two threads are a holder and a contender with
every interleaving of their words, nested twice; three give a holder and two sleepers, of which
one wakes late. *ObjectLife*: three threads are a user, a terminator and whoever drops the last
pin; `MaxLocks = 2` gives nested locks. *AsyncActions*: three requests are one in flight and
two queued (order shows), two objects give a counter of two. With `Cancellers = {Main, c1}` the
invariants of `async_safety` hold as well (2.6 M states, two minutes); the listed run lets the
thread that the main thread does not wait for cancel. *Subscriptions*: two threads are a
notifier and one that changes or notifies meanwhile; two records show their order; two calls at
a time (`MaxCalls`) are two passes that contend, or a pass inside a routine, a pass or a
`Free()` of the same or of the other object. *Events*: three entries are the one that is
called, one before it and one after it, each of which may be freed and re-used. *Timers*: two
entries show what a restart of the scan skips; a counter of one bit (`CycleValues`) wraps with
every second nested cycle, as 256 of them do in the code. *Waits*: two objects are needed for
"all" and "any"; two messages are an old one and a new one. `MaxMessages`, `MaxRecords`,
`MaxDelayed`, `MaxNesting`, `MaxTimers`, `MaxTime` and `MaxCalls` appear in guards only.
`CHECK_DEADLOCK FALSE` where an instance may run out of things to do: all locks taken once, the
object gone, all requests made and served, all addresses or timer identifiers used up, all
objects freed.

`lock_live` is limited to `LockObject()`: `lock()` increments `Queue` before it knows
whether it may have the object, and threads that do this again and again can keep an
indefinite sleeper from ever seeing zero. There each thread takes the object once, which is
enough for a wake-up to get lost; threads that come back are in `lock_safety`, where
`ExclusionKept` says that exclusion ends in one way only: `MutualExclusion` itself does not
hold then (`MCObjectLockExclusion.cfg`). `life_safety`
excludes shared access and `MSGID::FREE` because the first breaks `InUseNotTerminated`
(below) and the second overrides pins by design. `life_forced` has no locks
broken off by interrupts, which break `HeaderOutlivesUsers` together with `MSGID::FREE`
(below). `async_live` excludes what
makes `AsyncWait()` hang (below). `events` does not nest dispatches, and `waits` has no
wait inside a wait and objects that can be locked when they are registered, for the
same reason. `subscriptions` is about safety; that its calls come back is checked in
`MCSubscriptionsLive.cfg`.

### Fairness

* `Resources`: weak for the steps of a started call and of a sweep; strong for the
  unpin that matches a pin, since a client between calls may do other things first.
* `ObjectLock`: weak for the steps of a running thread. Strong for taking
  `glmObjectLocking` (held for a few instructions at a time, no waiting thread is
  passed over for ever) and for the expiry of a deadline (it does not move, so the
  wait ends once it has passed, even if woken before). `ReleasingSpec` adds that a
  thread does not keep a lock for ever.
* `ObjectLife`: weak for started calls, but no wait is assumed to be broken off; strong for
  giving back a lock, whatever calls the thread makes in between.
* `AsyncActions`: weak for workers and users (actions return, a lock wait ends one way
  or the other); strong for the main thread, which comes back to process messages
  whatever its code does in between. A time-out of `AsyncWait()` may come at any time
  and is never relied on: `WaitReturns` is about the count and the BREAK message.
* `Events`: weak for the loop: the scan goes on, a callback and a `Free()` return. Nothing
  is assumed of a dispatch that has read a freed entry.
* `Timers`: weak for the steps of the dispatcher. Strong for getting `glmTimer` when it
  is tried for (200 ms, while nobody holds it longer than a few instructions), and for
  the return of a callback and of a nested loop, whatever they do before. An
  `object_free()` that has begun ends.
* `Waits`: weak for the main thread's steps, for giving back a lock; strong for the end
  of an object that has been claimed. No time-out of the outermost call is assumed to
  come, so that waits without one are included. `WaitEnds` assumes besides that objects
  are not signalled and not kept locked over and over again (`Calm`): a message loop
  that finds its queue filled each time it looks does not return.
* `Subscriptions` (`MCSubscriptionsLive.cfg` only): strong for threads, since locks are
  given back now and then, and routines, callbacks and `Free()` return.

### Further instances

These configurations are kept for the reader and can be run in the same way.

* `MCResourcesOrphan.cfg` with `ManagerErrors = {}`: `CleanedUpWithOwner` holds when
  managers never refuse and callers register resources properly.
* `MCAsyncActions.cfg` with two objects, waits in callbacks as well and two requests:
  `AsyncInv` and `WaitCovers` hold (611 236 states); they hold as well in the instance of
  `MCAsyncActionsNested.cfg` with three requests, where a loop in a callback takes its own
  batch while the outer loop still has one (30 023 states). `CancelDrains` (below) holds where
  only the main thread cancels, and `CallbackHappens` also with frees, long locks and
  time-outs.
* `MCSubscriptionsLive.cfg`: `CallsEnd`, each call comes back, where callbacks only
  call for their own object (95 509 states).
* `MCSubscriptions.cfg` with `MaxCalls = 3`: no error (4.9 M states, under six minutes).
* `MCTimers.cfg` with two objects and internal timers, safety only (1.2 M states).

## 4. Known divergences

Where the documentation says more than the code does, or a property that one would
expect fails in a larger instance. `ReleasedOnce` is the finding in `PROJECT.json`, with
the lines it contradicts.

| Instance | Property | What happens |
|---|---|---|
| `MCObjectLockExclusion.cfg` | `MutualExclusion` | `Queue` and `ThreadID` are stored in two steps and `ThreadID` is never cleared: a previous holder that calls between them takes the lock for its own and joins |
| `MCObjectLifeTwice.cfg` | `ReleasedOnce` | `unpinWeak()` drops the count and then reads `ZOMBIE`; a termination in between takes its fast path, and both release the block |
| `MCAsyncActionsDoomed.cfg` | `CancelDrains` | between the mark and the drain of `AsyncCancel()` on another thread, the main thread dispatches the next request and clears the mark; it runs in full |
| `MCResourcesOrphan.cfg` | `CleanedUpWithOwner` | `free_children()` drops the result of `FreeResource()` (`lib_objects.cpp:647`): a refused resource keeps an owner that no longer exists, contrary to `lib_memory.cpp:154` |
| `MCObjectLockLost.cfg` | `WakeUpOnDuty` | `unlock()` reads `SleepQueue` and then decrements `Queue` (`objects.h:376`): a thread that goes to sleep in between is not notified |
| `MCObjectLockDeadlock.cfg` | `DeadlocksDetected` | the holder that a sleeper records (`lib_locking.cpp:500`) is stale once the object changes hands, and a cycle goes unseen |
| `MCObjectLockStop.cfg` | `StopIsPermanent` | storing `PAUSED` (`lib_locking.cpp:502`) overwrites a `STOPPING` that came after the test, so not "all future sleep attempts" (`lib_functions.cpp:1305`) are cancelled |
| `MCObjectLockMissed.cfg` | `LockObjectWakes` | `WakeThread()` notifies `cvObjects` without `glmObjectLocking` (`lib_functions.cpp:1346`), between the test and the wait in `LockObject()` |
| `MCObjectLifeDeferred.cfg` | `MarkedIsCollected` | the last pin is dropped while the `FreeObject()` that defers still has its claim (`lib_objects.cpp:567`): the collection is refused and nobody tries again |
| `MCObjectLifeVeto.cfg` | `MarkedStaysMarked` | `ReleaseObject()` clears `FREE_ON_UNLOCK` before `FreeResource()` (`lib_locking.cpp:631`): a veto lets the object live while `AccessObject()` refuses it for ever |
| `MCObjectLife.cfg` with `HeaderOutlivesReleases` | `HeaderOutlivesReleases` | `ReleaseObject()` reads `SleepQueue` and `Flags` after it has given the lock up (`lib_locking.cpp:603-632`), and `unpin()` the flags after the count: another thread may lock, terminate and release the block in between (two threads are enough) |
| `MCObjectLifeForced.cfg` with `Interrupts = TRUE` | `HeaderOutlivesUsers`, `LocksReturned` | a destruction that does not get the lock (`lib_objects.cpp:350-351`) drops what its caller relied on: a forced free keeps its own lock and leaves `PERMIT_TERMINATE` behind, as with a veto (below), and one that came from a release has lost its mark |
| `MCObjectLifeShared.cfg` | `InUseNotTerminated` | `SharedObjectAccess` is granted between the pin test of `object_free()` and its `FREE` flag (`objects.h:985`) |
| `MCObjectLifeMessage.cfg` | `LocksReturned` | `msg_free()` keeps its lock when the free is refused (`lib_objects.cpp:229`) |
| `MCObjectLifeForced.cfg` with `Veto = TRUE` | `HeaderOutlivesUsers` | a forced free that the class refuses leaves `PERMIT_TERMINATE` behind, and the lock (`lib_objects.cpp:229`): its thread locks the object again, a later free terminates it under that lock, and the `ReleaseObject()` that gives it back runs on a header that has been released |
| `MCAsyncActionsInterrupt.cfg` | `CancelInterrupts` | `cleanup()` of a worker erases its successor from `glAsyncObjectThreads` (`lib_objects.cpp:838`), and nobody can interrupt it |
| `MCAsyncActionsRaced.cfg` | `WaitReturns` | a request between the removal from `glActiveAsyncObjects` and the clearing of `ASYNC_ACTIVE` (`lib_objects.cpp:690`) is not counted down |
| `MCAsyncActionsFreed.cfg` | `WaitReturns` | an action frees its object: the drain does not tell `AsyncWait()` (`lib_objects.cpp:764`) |
| `MCAsyncActionsNested.cfg` | `WaitReturns` | `AsyncWait()` in a callback cannot see the batch of the outer `ProcessMessages()` (`lib_messages.cpp:476`) |
| `MCAsyncActionsBusy.cfg` | `WaitReturns` | the object is locked for more than 3 seconds at dispatch (`lib_objects.cpp:687`): the count is never taken down |
| `MCSubscriptionsFlags.cfg` | `RecordsFlagged` | `NotifySubscribers()` takes back the bit of a topic without records while a subscription for it is put off; the record then comes without its bit, and `Action()` does not look for it |
| `MCSubscriptions.cfg` with `UnsubscribeTerminates` | `UnsubscribeTerminates` | the drain drops an unsubscription when `AccessObject()` fails for the object it concerns (`lib_objects.cpp:187`): the subscription stays, although `UnsubscribeAction()` "will terminate subscriptions" |
| `MCSubscriptions.cfg` with `NoOrphans` | `NoOrphans` | a callback subscribes to another object and then frees it: the subscription was put off and is registered by the drain, which tests its subscriber only (`lib_objects.cpp:173`), after `object_free()` dropped the object's records (`lib_objects.cpp:440`). Nobody erases the record, or gives back its pin on the subscriber |
| `MCSubscriptionsLive.cfg` with `Roams = TRUE` | `CallsEnd` | a callback, under `glSubLock`, waits for an object that another thread has locked while it waits for `glSubLock` (`lib_objects.cpp:1023`): neither goes on, except by the time-out of a lock that has one |
| `MCEventsNested.cfg` | `NoneLeftOut` | a callback that processes messages dispatches again: the inner call raises `glCallSignal` (`lib_events.cpp:327`), the outer one goes on with the new value, and takes those the inner one called for its own. With `FreeNoticed` as the property, the same instance shows the inner call resetting `glEventListAltered`, so that the outer one does not start again after its entry was freed |
| `MCEvents.cfg` with `FreedNotRead` or `EverybodyCalled` | `FreedNotRead`, `EverybodyCalled` | the callback's object is unlocked after the test of `glEventListAltered` (`lib_events.cpp:345-347`) and before `event->Next`: the `Free()` of an object that was marked meanwhile runs there and may free the entry, which is read, and subscribers behind it may be left out |
| `MCWaitsNested.cfg` | `WaitEndsUndisturbed` | "the state of the earlier call will be preserved" (`lib_messages.cpp:768`): a nested wait for the same object takes back the subscriptions of both when it times out (`lib_messages.cpp:879`), and the outer one never hears of the object; and a nested message loop consumes the empty message that ends the outer one |
| `MCWaitsUnready.cfg` | `NoEarlyReturn` | an object whose lock is not had in three seconds when the wait registers it is passed over (`lib_messages.cpp:823`), and the wait returns `Okay` without it. With `WaitsInv` instead: `SubscribeAction()` returns `Okay` without a record for an object that is marked (`lib_objects.cpp:2892`), which is then waited for in vain |
| `MCWaits.cfg` with `FailedFrees = TRUE` | `NoEarlyReturn` | `MarkedForDeletion` is taken for "its destruction is already guaranteed" (`lib_messages.cpp:140`), but `Terminating` is taken back when the object vetoes or is not locked (`lib_objects.cpp:581`) |
| `MCWaits.cfg` with `AnyTakesOne`, without fairness | `AnyTakesOne` | "ANY_SIGNAL must return after the first monitored object is signalled, leaving the other object untouched" (`tests/unit_tests_wait_for_objects.cpp`): a second signal of another thread in the same batch is consumed too |

Without a property: `UpdateTimer()` says that a timer with a zero interval is removed
in the next cycle; one that is in its callback is removed when it is next due.

## 5. What is proved

`ResourcesProofs` proves, for every value of the constants allowed by
`ConstantsAssumption` (`Clients` finite, `MaxPins` positive, distinct null values):

* `RegistryInvariant`: `Spec => []RegistryInv`, and from it
* `TypeCorrect`, `PinsProtect`, `OneDestroyer`, `FreedOnce`,
  `DeferredCollectionNotLost`, `ClaimsOwned`, `OwnershipIsConsistent`;
* `PinnedRecordsAreStable`: the action property `PinnedRecordStable`;
* `RegistryImplementsLifetime`: `Spec => ImplementsLifetime`, the refinement.

Why an inductive invariant. `PinProtects` speaks about the pins clients *hold*, the
code about a counter; so `RegistryInv` says that `PinCount` is the number of
holders. That nothing is freed twice needs that a record whose payload is gone is one
whose destroyer is about to record it; that the destroyer is alone needs that
`Terminating` excludes pins and belongs to one client. `RecordInv` collects these per
record, so that a step on one record leaves the others alone: each lemma `Inv...`
shows that one group of actions preserves it, `StepInv` combines them. Ownership is
an invariant relative to it (`OwnershipStep`). The refinement is shown per step in
`LifetimeStep`: registration is `Appear`, a claim is `Kill` or the `Release` that
ends a doomed life, `RecordOutcome` is `Die` or `Survive`, all else stutters.

`SubscriptionsProofs` proves, for any number of threads, objects, actions,
subscribers, records and nested calls (of `SubscriptionAssumption` only what `Scopes`
may hold is used):

* `PassCorrect`: `Spec => []PassInv`, and from it
* `PassesUndisturbed`: `Spec => []PassUndisturbed`;
* `DelaysApplied`: `Spec => [](OneOwner /\ DelaysEndWithPass)`;
* `RecordsCorrect`: `Spec => []RecordInv`, and from it
* `SubscriptionsCorrect`: `Spec => []SubscriptionsInv`;
* `NoneAfterLeaving`: `Spec => []UnsubscribedHasNoRecord`.

That a pass is not disturbed rests on two things a test does not see. First, a client may
be in a routine, a callback or a `Free()` of its thread, and below that in passes of other
calls. If one of its calls is in a pass, what it does is put off (`NotDelayed`); if none
is, it waits for the owner of `glSubLock`, and no thread has a pass then. Second,
`object_free()` drops records in the middle of other passes of its thread; they are of other
objects, since the thread has those locked and `FreeObject()` defers (`FreeAlone`,
`ForgetHarmless`). That nothing put off is left behind needs that the pass which sees
`glSubReadOnly` drop to zero has no other pass of its thread below it
(`OutermostIsAlone`), and that while the drain, which is the same call's, goes on, it is
the innermost call and nothing more is put off (`DrainIsOutermost`). These were checked on
the instance of the run first.

`UnsubscribedHasNoRecord` speaks of the moments when no pass runs, and is not inductive: in
a pass, one who has unsubscribed still has its record, and a subscription it made before
may still be put off, to be registered after all. `LeftInv`, the new part of `RecordInv`,
is what holds then: such a record, or one that is put off, is there only while some thread
has put off an unsubscription that ends it. This rests on the order of the code:
`drain_delayed_subscriptions()` adds first and removes afterwards, and what is done at once
is done while no thread has anything put off (`NobodyOwns`). Where `AccessObject()` fails in
the drain the word is not kept (`left`). TLC checked `LeftInv` on the instance of the run,
and on one with `AC::NIL` among the scopes, before it was proved. The proof needs of
`std::erase_if()` only that it leaves elements of the list. The model has it as `Those`,
which takes the k-th of the places to keep; that there is one needs a least number, found
by the library's well-founded order of finite sets, since induction is out of reach. TLC
found `Those` equal to `SelectSeq` on all short lists.

`ObjectLockProofs`, for any number of threads, objects and nested locks, with time-outs,
interrupts, stops and every mix of the two ways to lock and to unlock:

* `CountCorrect`: `Spec => []CountInv`, and from it `CountersExact` (`LockInv`: `Queue`
  and `SleepQueue` are exact) and `InterruptsNotified` (`WaitTimeWakes`);
* `OneHolderAtATime`: `Spec => ExclusionKept`, the action property;
* `NoWakeUpLost`: `"unlock" \notin Exit => (Spec => []WakeUpOnDuty)`.

`LockInv` is almost inductive, although the nested test may be fooled and let two threads
in: what is needed besides is where a call that is in progress may be (`Placed`) and that
a thread in `WaitTime()` is seen as paused by whoever interrupts it (`Alert`). Each action
changes the counters and what they count by the same amount. That there is one holder rests
on the name in `ThreadID`, which is never cleared. Threads that come back to an object are
the ordinary case, and nothing is assumed about them: `ExclusionKept` says that an object
which belongs to one thread, with its name in `ThreadID` (`Orderly`), goes on to, except
by the one step in which the nested test takes a thread without a lock for the holder
(`TakenForHolder`), because it read a name that is out of date. That step exists, which is
why `MutualExclusion` is not a theorem; `MCObjectLockExclusion.cfg` is the counterexample.
Likewise a free object with sleepers has somebody on the way to
wake them (`DutyInv`) as long as the count goes down before `SleepQueue` is read, which
`unlock()` does the other way round (`MCObjectLockLost.cfg`).

`ObjectLifeProofs`, for any number of threads, nested locks and pins, and calls inside
calls:

* `Counting`: `Spec => []CountInv`, and from it `PinsAreCounted` (`PinsCounted`: the strong
  and the weak count are exact) and `LockedByOne` (`OneHolder`), with forced frees, vetoes
  and shared access;
* `CountersExact`: `~Messages => (Spec => []LifeInv)`;
* `EndsOrderly`: `Spec => [](CountInv /\ EndInv)`, and from it `NoZombieLingers`
  (`ZombieReleased`), with all variants;
* `UsersKnown`: `(Messages => ~Veto /\ ~Interrupts) => (Spec => [](CountInv /\ EndInv /\
  HoldInv))`, and from it, under the same hypothesis, `HeaderKept` (`HeaderOutlivesUsers`), and
  `InUseKept`: `~Shared /\ ~Messages => (Spec => []InUseNotTerminated)`.

The counters are owed by callers and by the labels on the stacks of all threads, so the
proof counts pairs of a thread and a position (`Count`); a step replaces some labels on top
of one stack, and one lemma per kind of step gives the change of the count. With
`Messages` the lock count is only bounded from below: `msg_free()` may keep its lock
(`MCObjectLifeMessage.cfg`).

How terminations end is `EndInv`. One call at a time has the record claimed, on whichever
stack it is (`OneClaim`), and only an object without a record is a zombie (`ZombieLate`).
A zombie has a pin, has been released, or there is a call that is about to look at it
(`ZombieServed`): this is the argument that neither the last `unpinWeak()` nor the
terminator leaves the block to the other, and it takes both of them to be counted. That
not *both* release it does not follow, and is false (`MCObjectLifeTwice.cfg`).

Who may still be using the object is `HoldInv`. An object that a call has committed to
terminate, or has terminated, is unlocked and nobody is past the test of `AccessObject()`
(`UnusedInv`); unless the free is forced or there is `SharedObjectAccess`, nobody has it
strongly pinned either (`SharedInv`); a block is released without pins (`GoneInv`), and the
terminator's own lock is the last to go (`FinishInv`). The rest says what keeps this up when a
call fails: a thread that wants to lock an object whose termination is given up finds it marked
(`FlaggedInv`), and after `msg_free()`, which terminates what others have locked or pinned, the
thread that delivered the message keeps the lock until the end (`ForcedInv`, `DeliverInv`).
This last is what a refusal breaks, of the class or of the lock, hence the hypothesis `Messages
=> ~Veto /\ ~Interrupts`; section 4 has the counterexamples. `HeaderKept` is about pins and
about calls that have a pin, a lock or a claim of their own. It does not reach the end of
`ReleaseObject()`, `unpin()` and `unpinWeak()`, which read the header after they have given
that back: there it is false (`HeaderOutlivesReleases`, section 4). `InUseKept` leaves out the
two ways past the test of `object_free()`: a free by message, which is meant to be one, and
`SharedObjectAccess` (`MCObjectLifeShared.cfg`). TLC checked both invariants on instances of
two and three threads before they were proved.

`EventsProofs`, for any number of addresses, events, groups and messages:

* `ListCorrect` (`ListInv`) and `EventsTyped` (`EventsInv`: the mask is exact), however
  dispatches nest;
* `NothingFreedUnnoticed` (`FreeNoticed`), `EverybodyIsCalled` (`NoneLeftOut`) and
  `NobodyCalledTwice` for `MaxNesting = 1`, which is what `MCEventsNested.cfg` shows to be
  needed. They follow from `DispatchInv`: what is owed is what is subscribed and not called
  (`Owing`), and until the flag has been looked at the scan is at an entry of the list, or
  the list is marked as altered (`Reading`), with nobody owed behind it (`NonePassed`).

What happens between that look and `event->Next` is outside of the first theorem, and there
the code reads freed entries (`FreedNotRead`, section 4). The second has it as its
exception: it says that everybody is called unless the dispatch has gone on from such an
entry. The third has none.

`TimersProofs`, for any number of timers, objects, nested loops and cycles, without
hypotheses on the constants:

* `TimersCorrect` (`TimersInv`), `NoneReentered`, `SubscribersHeld`, `CalledOncePerCycle`,
  from `ServiceCorrect` (`Spec => []ServiceInv`).

A loop in its callback relies on its entry being in the list, locked, with a subscriber
that is alive: other loops and threads respect the `Locked` flag (`LoopsOK`), and entries
of two loops differ (`Apart`), as only unlocked ones are taken. That a cycle calls an
entry once does not rest on the cycle counter, which wraps: an entry that was called is
next due after the time that the cycle began with (`CalledLater`), whatever `UpdateTimer()`
does to it from a callback.

`WaitsProofs`, for any number of objects, messages and nested calls:

* `WaitCorrect`: `Spec => []WaitInv`;
* `WaitsCorrect`: `~Unready => (Spec => []WaitsInv)`;
* `NoneEarly`: `~Unready /\ ~FailedFrees => (Spec => []NoEarlyReturn)`.

`MCWaitsUnready.cfg` and `MCWaits.cfg` with `FailedFrees` show why: an object that cannot
be locked when it is registered is passed over, and a claim that comes to nothing is taken
for a free. Otherwise every object on a wait's list has a subscription, a message on its
way or a claim (`ReadyInv`), and one that is no longer on it has been signalled or has
gone (`AllTold`), for the outer waits up to what inner ones have disturbed (`OutersDisturbed`).

`AsyncActionsProofs`, for any number of objects, threads and requests, with cancellation,
time-outs, nested loops, frees, long locks and shutdown, under `AsyncAssumption`:

* `CoreAlways`: `Spec => []CoreInv`, and from it
* `OneAtATime` (`Serialised`), `NeverStranded` (`ActiveIsServed`), `ServedInOrder`
  (`FirstInFirstOut`) and `NeitherLostNorTwice` (`CallbackAccounted`);
* `WaitsAlways`: `Spec => [](CoreInv /\ WaitInv)`, and from it `QuietAtTheEnd` (`AsyncInv`:
  nothing is left after the shutdown, and no worker is launched after it took its snapshot)
  and `WaitIsOver`, the action property `WaitCovers`.

The invariant is about *stores*: lists under names. A callback waits in a queue, with a
submitter, a worker or the main thread's launch, in a message of `glQueue` or of the
batch of a loop, or in a list that was drained; `CallbackInv` says that each request is in
at most one of these lists, at one place (`Apart`), and in one until its callback has been
called. The same is said of the objects that are being served (`ServeInv`: a submission,
a worker, or a completion that is posted or not yet dispatched), with
`glActiveAsyncObjects` as what they add up to. `OrderInv` adds that whatever is served is
older than what is queued. Every action moves elements from one list to another, takes
one out or puts a new one in; one lemma per kind of move shows that the lists stay
disjoint, and one per action says which move it makes. `ControlInv` says where the main
thread's frames may be, that loops nest once, and what a user in a call works on.

`WaitInv` is about `AsyncWait()`. A request that is queued has not had a worker (`FreshInv`);
no object is freed under a worker that is about to lock it or has it locked (`LockInv`).
`CounterInv` bounds `glAsyncWaitCounter`: from below
by the targets that are still active, plus one while the main thread is between taking one off
`glActiveAsyncObjects` and counting it down, from above by the targets and the requests
launched for them. The two do not meet, as `MCAsyncActionsRaced.cfg` and its like show:
the count may stay too high for ever, and then the wait times out; it is never too low, and
that is what `WaitCovers` needs. `CoverInv` then says that a loop is told to break only when
nothing the wait covers is outstanding, and that no other loop takes that message. The
counting is where the number of objects has to be finite.

Only liveness is model-checked and not proved (`DestructionCompletes`, `CallsReturn`,
`CallbackHappens`, `WaitReturns`, `DispatchesEnd`, `OrphansSwept`, `WaitEnds`): it is
outside the reach of the prover.

## 6. Not modelled

Message batches that are full, reuse of thread identifiers by the host, overflow of the 8-bit
`Queue` and `SleepQueue` (128 nested locks or sleepers), what a read of a released header may
return beyond its last contents, destruction under `glmObjectLocking` (see the plan), what a
class's `Free()` does to timers while `ReleaseObject()` ends a subscriber under `glmTimer`, the
race on `Routine.Meta` of a timer, the end of the task within a wait or a message loop
(`AsyncActions` has the shutdown), and the components listed as such in `PROJECT.json`. Most of
the repository is of that kind: a compiler and virtual machine, a vector rasteriser, parsers,
codecs, vendored libraries, drivers and protocols, whose behaviour is the computation of data
and not the order of steps.

## 7. Plan

1. A composition of `ObjectLock` and `ObjectLife`: the real lock under the life
   time, with `ReleaseObject()` that destroys an object while it holds
   `glmObjectLocking` (`lib_locking.cpp:624`).
2. The message queue as a component of its own, and `Waits` over `Subscriptions`
   instead of its abstraction of them.
3. The object tree with `SetOwner()` and `free_children()`, composed with `Resources`.
4. The `Thread` class; then the states of a `NetSocket` with its write queue.
