---------------------------- MODULE AsyncActions ----------------------------
(***************************************************************************)
(* Asynchronous actions of the Kotuku core (src/core/lib_objects.cpp):     *)
(* AsyncAction() starts a worker thread for an object or queues the        *)
(* request behind the one in flight; the worker posts THREAD_ACTION; the   *)
(* main thread takes it in ProcessMessages() (lib_messages.cpp), runs the  *)
(* callback and dispatches the next request.  With AsyncCancel(),          *)
(* AsyncWait(), objects that are freed meanwhile, and stop_async_actions().*)
(*                                                                         *)
(* Every section of the code under glmActionQueue is one step, so is each  *)
(* access to the object's lock, flag or message queue that other threads   *)
(* can come between.  A request is a number, given out in the order in     *)
(* which AsyncAction() enters requests under glmActionQueue; its worker    *)
(* has the same number.  Each request has a callback, arguments are left   *)
(* out, and the message batch of ProcessMessages() (30) is never full.     *)
(*                                                                         *)
(* A definition that stands right before another one under a longer name   *)
(* is a deviation from the code, there to confirm that the properties      *)
(* notice it.                                                              *)
(***************************************************************************)
EXTENDS Integers, Sequences, SequencesExt, FiniteSets

CONSTANTS
    Objects,
    Callers,      \* threads, other than the main one, that use the interface
    Main,
    MaxRequests,  \* bound on the calls of AsyncAction()
    Submitters,   \* who calls AsyncAction(): Main, Callers
    Cancellers,   \* who calls AsyncCancel()
    WaitsIn,      \* where AsyncWait() is called: "code", "callback"
    Timeouts,     \* may AsyncWait() time out?
    Frees,        \* may an object be freed?
    Busy,         \* may another thread keep an object locked for seconds?
    Shutdowns,    \* may the process stop?
    None

ASSUME AsyncAssumption ==
    /\ Main \notin Callers /\ MaxRequests \in Nat
    /\ Submitters \subseteq Callers \cup {Main}
    /\ Cancellers \subseteq Callers \cup {Main}
    /\ WaitsIn \subseteq {"code", "callback"}
    /\ {Timeouts, Frees, Busy, Shutdowns} \subseteq BOOLEAN
    /\ None \notin Objects \cup Callers \cup {Main} \cup Nat
    /\ IsFiniteSet(Objects) /\ (Callers \cup {Main}) \cap Nat = {}

Requests == 1 .. MaxRequests
Users    == Callers \cup {Main}

VARIABLES
    glActiveAsyncObjects, glActionQueues, glCancelledAsyncObjects,
    glAsyncObjectThreads,   \* the worker registered for each object
    ASYNC_ACTIVE,           \* the objects that have NF::ASYNC_ACTIVE
    object,                 \* "alive", "marked" (to be freed) or "gone"
    holder,                 \* who has each object's lock
    target,                 \* the object of each request, None before it is made
    worker,                 \* where the worker of each request is
    STOPPING,               \* workers whose state is TSTATE::STOPPING
    glQueue,                \* the messages
    frames,                 \* the ProcessMessages() calls of the main thread, inner ones last
    glAsyncWaiting, glAsyncWaitTargets, glAsyncWaitCounter,
    state,                  \* glTaskState and glAsyncActionsClosed
    pc, job,                \* what each user of the interface is doing
    callbacks, covered, doomed  \* history, for the properties

tables  == <<glActiveAsyncObjects, glActionQueues, glCancelledAsyncObjects>>
objects == <<object, holder>>
threads == <<worker, STOPPING, glAsyncObjectThreads>>
wait    == <<glAsyncWaiting, glAsyncWaitTargets, glAsyncWaitCounter, covered>>
users   == <<pc, job>>
history == <<callbacks, doomed>>
vars == <<tables, ASYNC_ACTIVE, objects, target, threads, glQueue, frames,
          wait, state, users, history>>

NoJob == [object |-> None, thread |-> None, running |-> {}, drained |-> <<>>]

Init ==
    /\ glActiveAsyncObjects = {} /\ glCancelledAsyncObjects = {}
    /\ glActionQueues = [o \in Objects |-> <<>>]
    /\ glAsyncObjectThreads = [o \in Objects |-> None]
    /\ ASYNC_ACTIVE = {}
    /\ object = [o \in Objects |-> "alive"]
    /\ holder = [o \in Objects |-> None]
    /\ target = [r \in Requests |-> None]
    /\ worker = [r \in Requests |-> "none"]
    /\ STOPPING = {}
    /\ glQueue = <<>> /\ frames = <<>>
    /\ glAsyncWaiting = FALSE /\ glAsyncWaitTargets = {} /\ glAsyncWaitCounter = 0
    /\ state = "running"
    /\ pc = [u \in Users |-> "idle"] /\ job = [u \in Users |-> NoJob]
    /\ callbacks = [r \in Requests |-> 0] /\ covered = {} /\ doomed = {}

----------------------------------------------------------------------------
(* Helpers.                                                                *)

\* ThreadActionMessage.
Completion(r)   == [request |-> r, DispatchNext |-> TRUE]
Notice(r)       == [request |-> r, DispatchNext |-> FALSE]
BREAK           == [request |-> None, DispatchNext |-> FALSE]
Notices(drained) == [i \in DOMAIN drained |-> Notice(drained[i])]

SendMessages(msgs) == glQueue' = glQueue \o msgs

\* AsyncAction() keeps glmActionQueue while it calls async_wait_callback(), and
\* glmAsyncActions from the test of glAsyncActionsClosed to the launch of the worker.
glmActionQueue == \A u \in Users : pc[u] # "submitting"

\* glActiveAsyncObjects and the like, for an object that has nothing in flight.
ForgetObject(o) ==
    /\ glActiveAsyncObjects' = glActiveAsyncObjects \ {o}
    /\ glCancelledAsyncObjects' = glCancelledAsyncObjects \ {o}
    /\ glActionQueues' = [glActionQueues EXCEPT ![o] = <<>>]

WaitedFor(o) == glAsyncWaiting /\ o \in glAsyncWaitTargets

NoneCounted == glAsyncWaitCounter = 0
\* break_wait: nothing is left after this one.
LastCounted == glAsyncWaitCounter' = 0

async_wait_callback(o, change) ==
    /\ UNCHANGED <<glAsyncWaiting, glAsyncWaitTargets, covered>>
    /\ glAsyncWaitCounter' = IF WaitedFor(o) THEN glAsyncWaitCounter + change
                                             ELSE glAsyncWaitCounter
    /\ SendMessages(IF WaitedFor(o) /\ LastCounted THEN <<BREAK>> ELSE <<>>)

\* object_free() drains the queue of the object on behalf of any thread.
object_free(o) ==
    /\ glmActionQueue
    /\ object' = [object EXCEPT ![o] = "gone"]
    /\ ForgetObject(o)
    /\ SendMessages(Notices(glActionQueues[o]))

\* ReleaseObject(): a marked object is freed with its last lock.
ReleaseObject(o) ==
    /\ holder' = [holder EXCEPT ![o] = None]
    /\ \/ object[o] = "marked" /\ object_free(o)
       \/ object[o] # "marked" /\ UNCHANGED <<object, tables, glQueue>>

\* The main thread: the frame of its innermost ProcessMessages() call, and the
\* message in hand.
Top     == Last(frames)
Message == Head(Top.batch)
Object  == target[Message.request]
MainAt(label) == pc[Main] = "idle" /\ frames # <<>> /\ Top.at = label
SetTop(f)     == frames' = [frames EXCEPT ![Len(frames)] = f]
Goto(label)   == SetTop([Top EXCEPT !.at = label])
NextMessage   == SetTop([Top EXCEPT !.at = "loop", !.batch = Tail(@),
                                    !.next = None, !.locked = FALSE])

\* AccessObject() by the main thread.
Accessible(o) == object[o] = "alive" /\ holder[o] \in {None, Main}

\* User code runs in u.  The main thread runs it outside ProcessMessages() and
\* in callbacks.
Runs(u) == /\ pc[u] = "idle"
           /\ u = Main => /\ frames # <<>> => Top.at = "callback"
                         /\ state \notin {"closed", "done"}

----------------------------------------------------------------------------
(* AsyncAction().                                                          *)

AlwaysOpen == TRUE
\* Submissions end with the shutdown.
Open == state \notin {"closed", "done"}

push_front(queue, r) == <<r>> \o queue
push_back(queue, r)  == Append(queue, r)

\* SharedObjectAccess must be granted.
AsyncAction(u, o) ==
    /\ Open /\ u \in Submitters /\ Runs(u) /\ glmActionQueue
    /\ object[o] = "alive"
    /\ \E r \in Requests :
           /\ target[r] = None /\ \A q \in 1 .. r - 1 : target[q] # None
           /\ target' = [target EXCEPT ![r] = o]
           /\ \/ /\ o \in glActiveAsyncObjects
                 /\ glActionQueues' = [glActionQueues EXCEPT ![o] = push_back(@, r)]
                 /\ UNCHANGED <<glActiveAsyncObjects, ASYNC_ACTIVE, users>>
              \/ /\ o \notin glActiveAsyncObjects
                 /\ glActiveAsyncObjects' = glActiveAsyncObjects \cup {o}
                 /\ ASYNC_ACTIVE' = ASYNC_ACTIVE \cup {o}
                 /\ pc' = [pc EXCEPT ![u] = "submitting"]
                 /\ job' = [job EXCEPT ![u] = [NoJob EXCEPT !.object = o, !.thread = r]]
                 /\ UNCHANGED glActionQueues
    /\ UNCHANGED <<glCancelledAsyncObjects, objects, threads, glQueue, frames,
                   wait, state, history>>

CountNew(o)     == async_wait_callback(o, 1)

\* The new activity is counted for AsyncWait(), and the worker launched.
Launch(u) ==
    /\ pc[u] = "submitting"
    /\ CountNew(job[u].object)
    /\ worker' = [worker EXCEPT ![job[u].thread] = "start"]
    /\ pc' = [pc EXCEPT ![u] = "idle"] /\ job' = [job EXCEPT ![u] = NoJob]
    /\ UNCHANGED <<tables, ASYNC_ACTIVE, objects, target, STOPPING,
                   glAsyncObjectThreads, frames, state, history>>

----------------------------------------------------------------------------
(* The worker thread of launch_async_thread().                             *)

is_stopping(r)  == r \in STOPPING \/ state \in {"closed", "done"}
is_cancelled(r) == target[r] \in glCancelledAsyncObjects

WorkerAt(r, label) == worker[r] = label
WorkerGoto(r, label) == worker' = [worker EXCEPT ![r] = label]
WorkerElsewhere == UNCHANGED <<ASYNC_ACTIVE, target, frames, wait, state, users>>

Register(r) ==
    /\ WorkerAt(r, "start") /\ glmActionQueue
    /\ glAsyncObjectThreads' = [glAsyncObjectThreads EXCEPT ![target[r]] = r]
    /\ WorkerGoto(r, "registered")
    /\ WorkerElsewhere /\ UNCHANGED <<tables, objects, STOPPING, glQueue, history>>

GiveUpSilently(r) == WorkerGoto(r, "cleanup")
GiveUp(r)         == WorkerGoto(r, "send")

CheckStop(r) ==
    /\ WorkerAt(r, "registered") /\ glmActionQueue
    /\ \/ (is_stopping(r) \/ is_cancelled(r)) /\ GiveUp(r)
       \/ ~is_stopping(r) /\ ~is_cancelled(r) /\ WorkerGoto(r, "lock")
    /\ WorkerElsewhere
    /\ UNCHANGED <<tables, objects, STOPPING, glAsyncObjectThreads, glQueue, history>>

\* LockObject() succeeds, or times out while somebody else has the lock.
LockObject(r) ==
    /\ WorkerAt(r, "lock")
    /\ LET o == target[r]
       IN \/ /\ holder[o] = None
             /\ holder' = [holder EXCEPT ![o] = r]
             /\ WorkerGoto(r, "locked")
          \/ holder[o] # None /\ WorkerGoto(r, "send") /\ UNCHANGED holder
    /\ WorkerElsewhere
    /\ UNCHANGED <<tables, object, STOPPING, glAsyncObjectThreads, glQueue, history>>

BeginAction(r) ==
    /\ WorkerAt(r, "locked") /\ glmActionQueue
    /\ \/ /\ is_stopping(r) \/ is_cancelled(r)
          /\ WorkerGoto(r, "release")
       \/ /\ ~is_stopping(r) /\ ~is_cancelled(r)
          /\ WorkerGoto(r, "action")
    /\ WorkerElsewhere
    /\ UNCHANGED <<tables, objects, STOPPING, glAsyncObjectThreads, glQueue, history>>

EndAction(r) ==
    /\ WorkerAt(r, "action") /\ WorkerGoto(r, "release")
    /\ WorkerElsewhere
    /\ UNCHANGED <<tables, objects, STOPPING, glAsyncObjectThreads, glQueue, history>>

EndWork(r) ==
    /\ WorkerAt(r, "release") /\ ReleaseObject(target[r])
    /\ WorkerGoto(r, "send")
    /\ WorkerElsewhere
    /\ UNCHANGED <<STOPPING, glAsyncObjectThreads, history>>

SendCompletion(r) ==
    /\ WorkerAt(r, "send") /\ SendMessages(<<Completion(r)>>)
    /\ WorkerGoto(r, "cleanup")
    /\ WorkerElsewhere
    /\ UNCHANGED <<tables, objects, STOPPING, glAsyncObjectThreads, history>>

\* The thread leaves the table, and deregisters.
cleanup(r) ==
    /\ WorkerAt(r, "cleanup") /\ glmActionQueue
    /\ glAsyncObjectThreads' = [glAsyncObjectThreads EXCEPT ![target[r]] = None]
    /\ WorkerGoto(r, "finished")
    /\ STOPPING' = STOPPING \ {r}
    /\ WorkerElsewhere /\ UNCHANGED <<tables, objects, glQueue, history>>

----------------------------------------------------------------------------
(* ProcessMessages() on the main thread.                                   *)

Frame(loop) == [loop |-> loop, breaking |-> FALSE, batch |-> <<>>, at |-> "loop",
                locked |-> FALSE, next |-> None, drained |-> <<>>]

MainElsewhere == UNCHANGED <<target, STOPPING, glAsyncObjectThreads, users>>

\* The event loop is entered to process messages that are there.
EventLoop ==
    /\ Runs(Main) /\ frames = <<>> /\ glQueue # <<>>
    /\ frames' = <<Frame("events")>>
    /\ MainElsewhere
    /\ UNCHANGED <<tables, ASYNC_ACTIVE, objects, worker, glQueue, wait, state, history>>

FetchBatch ==
    /\ MainAt("loop") /\ Top.batch = <<>> /\ glQueue # <<>>
    /\ SetTop([Top EXCEPT !.batch = glQueue])
    /\ glQueue' = <<>>
    /\ MainElsewhere
    /\ UNCHANGED <<tables, ASYNC_ACTIVE, objects, worker, wait, state, history>>

BreakMessage ==
    /\ MainAt("loop") /\ Top.batch # <<>> /\ Message = BREAK
    /\ SetTop([Top EXCEPT !.batch = Tail(@), !.breaking = @ \/ Top.loop = "wait"])
    /\ MainElsewhere
    /\ UNCHANGED <<tables, ASYNC_ACTIVE, objects, worker, glQueue, wait, state, history>>

EndWait ==
    /\ glAsyncWaiting' = FALSE /\ glAsyncWaitTargets' = {}
    /\ glAsyncWaitCounter' = 0 /\ covered' = {}

\* The loop ends when no message is left and it is told to break, has timed
\* out, or the process stops.  The event loop returns when it likes.
Drained   == MainAt("loop") /\ Top.batch = <<>> /\ glQueue = <<>>
ToldToEnd == Top.breaking \/ Top.loop = "events" \/ state = "stopping"

LeaveLoop ==
    /\ Drained /\ (ToldToEnd \/ Timeouts)
    /\ frames' = Front(frames)
    /\ IF Top.loop = "wait" THEN EndWait ELSE UNCHANGED wait
    /\ MainElsewhere
    /\ UNCHANGED <<tables, ASYNC_ACTIVE, objects, worker, glQueue, state, history>>

\* msg_threadaction() up to the callback: a C routine has the object locked, or
\* is told that it does not exist; a script is called without.
BeginCallback ==
    /\ MainAt("loop") /\ Top.batch # <<>> /\ Message # BREAK
    /\ callbacks' = [callbacks EXCEPT ![Message.request] = @ + 1]
    /\ doomed' = doomed \ {Message.request}
    /\ \/ /\ Accessible(Object) /\ holder[Object] = None
          /\ holder' = [holder EXCEPT ![Object] = Main]
          /\ SetTop([Top EXCEPT !.at = "callback", !.locked = TRUE])
       \/ Goto("callback") /\ UNCHANGED holder
    /\ MainElsewhere
    /\ UNCHANGED <<tables, ASYNC_ACTIVE, object, worker, glQueue, wait, state>>

\* After the callback, release of the lock and on to the dispatch, if any.
EndCallback ==
    /\ MainAt("callback")
    /\ IF Top.locked THEN ReleaseObject(Object)
                     ELSE UNCHANGED <<objects, tables, glQueue>>
    /\ IF Message.DispatchNext
       THEN SetTop([Top EXCEPT !.at = "dispatch", !.locked = FALSE])
       ELSE NextMessage
    /\ MainElsewhere
    /\ UNCHANGED <<ASYNC_ACTIVE, worker, wait, state, history>>

----------------------------------------------------------------------------
(* dispatch_queued_action().                                               *)

DispatchElsewhere == MainElsewhere /\ UNCHANGED <<state, history>>

Pop ==
    /\ MainAt("dispatch") /\ glmActionQueue /\ state # "stopping"
    /\ glCancelledAsyncObjects' = glCancelledAsyncObjects \ {Object}
    /\ \/ /\ glActionQueues[Object] = <<>>
          /\ glActiveAsyncObjects' = glActiveAsyncObjects \ {Object}
          /\ Goto("clear") /\ UNCHANGED glActionQueues
       \/ /\ glActionQueues[Object] # <<>>
          /\ SetTop([Top EXCEPT !.at = "launch", !.next = Head(glActionQueues[Object])])
          /\ glActionQueues' = [glActionQueues EXCEPT ![Object] = Tail(@)]
          /\ UNCHANGED glActiveAsyncObjects
    /\ DispatchElsewhere
    /\ UNCHANGED <<ASYNC_ACTIVE, objects, worker, glQueue, wait>>

\* Nothing is dispatched while the process stops.
StopDispatch ==
    /\ MainAt("dispatch") /\ state = "stopping" /\ Goto("drain")
    /\ DispatchElsewhere
    /\ UNCHANGED <<tables, ASYNC_ACTIVE, objects, worker, glQueue, wait>>

\* The object is locked for the launch.
AccessForLaunch ==
    /\ MainAt("launch") /\ Accessible(Object)
    /\ SetTop([Top EXCEPT !.at = "check", !.locked = (holder[Object] = None)])
    /\ holder' = [holder EXCEPT ![Object] = Main]
    /\ DispatchElsewhere
    /\ UNCHANGED <<tables, ASYNC_ACTIVE, object, worker, glQueue, wait>>

DropMessages(o)  == <<Notice(Top.next)>> \o Notices(glActionQueues[o])

\* It cannot be: the action and all that are queued fail.
DropQueue ==
    /\ MainAt("launch") /\ ~Accessible(Object) /\ glmActionQueue
    /\ SendMessages(DropMessages(Object))
    /\ ForgetObject(Object)
    /\ NextMessage
    /\ DispatchElsewhere
    /\ UNCHANGED <<ASYNC_ACTIVE, objects, worker, wait>>

LaunchNext ==
    /\ MainAt("check") /\ object[Object] = "alive"
    /\ worker' = [worker EXCEPT ![Top.next] = "start"]
    /\ IF Top.locked THEN ReleaseObject(Object)
                     ELSE UNCHANGED <<objects, tables, glQueue>>
    /\ NextMessage
    /\ DispatchElsewhere /\ UNCHANGED <<ASYNC_ACTIVE, wait>>

\* The object was marked for deletion since it was locked.
RefuseLaunch ==
    /\ MainAt("check") /\ object[Object] # "alive"
    /\ SendMessages(<<Notice(Top.next)>>)
    /\ Goto("drain")
    /\ DispatchElsewhere
    /\ UNCHANGED <<tables, ASYNC_ACTIVE, objects, worker, wait>>

\* drain_action_queue(ObjectID): takes the queue,
DrainQueue ==
    /\ MainAt("drain") /\ glmActionQueue
    /\ SetTop([Top EXCEPT !.at = "clear", !.drained = glActionQueues[Object]])
    /\ ForgetObject(Object)
    /\ DispatchElsewhere
    /\ UNCHANGED <<ASYNC_ACTIVE, objects, worker, glQueue, wait>>

\* clears ASYNC_ACTIVE under the object's lock, as dispatch_queued_action() does
\* when the queue is empty,
ClearFlag ==
    /\ MainAt("clear")
    /\ \/ /\ Accessible(Object) /\ Object \in ASYNC_ACTIVE
          /\ ASYNC_ACTIVE' = ASYNC_ACTIVE \ {Object}
          /\ SetTop([Top EXCEPT !.at = "count", !.locked = @ \/ holder[Object] = None])
          /\ holder' = [holder EXCEPT ![Object] = Main]
       \/ /\ ~Accessible(Object) \/ Object \notin ASYNC_ACTIVE
          /\ Goto("notify") /\ UNCHANGED <<ASYNC_ACTIVE, holder>>
    /\ DispatchElsewhere /\ UNCHANGED <<tables, object, worker, glQueue, wait>>

\* tells AsyncWait(),
CountDown ==
    /\ MainAt("count") /\ async_wait_callback(Object, -1) /\ Goto("notify")
    /\ DispatchElsewhere
    /\ UNCHANGED <<tables, ASYNC_ACTIVE, objects, worker>>

\* and posts the callbacks of what it took.
Notify ==
    /\ MainAt("notify")
    /\ SendMessages(Notices(Top.drained))
    /\ SetTop([Top EXCEPT !.at = "unlock", !.drained = <<>>])
    /\ DispatchElsewhere
    /\ UNCHANGED <<tables, ASYNC_ACTIVE, objects, worker, wait>>

EndDispatch ==
    /\ MainAt("unlock")
    /\ IF Top.locked THEN ReleaseObject(Object)
                     ELSE UNCHANGED <<objects, tables, glQueue>>
    /\ NextMessage
    /\ DispatchElsewhere /\ UNCHANGED <<ASYNC_ACTIVE, worker, wait>>

----------------------------------------------------------------------------
(* AsyncCancel().                                                          *)

CancelElsewhere == UNCHANGED <<ASYNC_ACTIVE, objects, target, worker,
                              glAsyncObjectThreads, frames, wait, state>>

\* The action in flight is cancelled, and its thread looked up.
AsyncCancel(u, o) ==
    /\ u \in Cancellers /\ Runs(u) /\ glmActionQueue
    /\ glCancelledAsyncObjects' =
          glCancelledAsyncObjects \cup ({o} \cap glActiveAsyncObjects)
    /\ pc' = [pc EXCEPT ![u] = "wake"]
    /\ job' = [job EXCEPT ![u] = [object |-> o, thread |-> glAsyncObjectThreads[o],
          running |-> {r \in Requests : target[r] = o /\ worker[r] = "action"},
          drained |-> <<>>]]
    /\ doomed' = doomed \cup Range(glActionQueues[o])
    /\ CancelElsewhere
    /\ UNCHANGED <<glActiveAsyncObjects, glActionQueues, STOPPING, glQueue, callbacks>>

\* WakeThread() finds the thread unless it has deregistered.
WakeWorker(u) ==
    /\ pc[u] = "wake"
    /\ pc' = [pc EXCEPT ![u] = "drain"]
    /\ STOPPING' = STOPPING \cup
          {r \in Requests : r = job[u].thread /\ worker[r] # "finished"}
    /\ CancelElsewhere /\ UNCHANGED <<tables, job, glQueue, history>>

LeaveQueue(o) == UNCHANGED tables
\* The object stays active when only its queue is drained.
TakeQueue(o) ==
    /\ glActionQueues' = [glActionQueues EXCEPT ![o] = <<>>]
    /\ UNCHANGED <<glActiveAsyncObjects, glCancelledAsyncObjects>>

\* drain_action_queue(ObjectID, false, true).
DrainCancelled(u) ==
    /\ pc[u] = "drain" /\ glmActionQueue
    /\ pc' = [pc EXCEPT ![u] = "notify"]
    /\ job' = [job EXCEPT ![u].drained = glActionQueues[job[u].object]]
    /\ TakeQueue(job[u].object)
    /\ CancelElsewhere /\ UNCHANGED <<STOPPING, glQueue, history>>

NotifyCancelled(u) ==
    /\ pc[u] = "notify"
    /\ SendMessages(Notices(job[u].drained))
    /\ pc' = [pc EXCEPT ![u] = "idle"] /\ job' = [job EXCEPT ![u] = NoJob]
    /\ CancelElsewhere /\ UNCHANGED <<tables, STOPPING, history>>

----------------------------------------------------------------------------
(* AsyncWait(), by the main thread.                                        *)

InWorker(r) == worker[r] \notin {"none", "cleanup", "finished"}

\* The requests for an object that have yet to be executed or cancelled.
Outstanding(o) ==
    Range(glActionQueues[o])
      \cup {r \in Requests : target[r] = o /\ InWorker(r) /\ worker[r] # "send"}
      \cup {frames[i].next : i \in {j \in DOMAIN frames :
                 frames[j].at \in {"launch", "check"} /\ target[frames[j].next] = o}}

OnePending(targets) == 1
Pending(targets)    == Cardinality(targets \cap glActiveAsyncObjects)

\* It returns at once, and changes nothing, unless a target is active.  A callback
\* does not wait for its own object, which goes on only after its return.
AsyncWait(targets) ==
    /\ Runs(Main) /\ ~glAsyncWaiting /\ glmActionQueue
    /\ (IF frames = <<>> THEN "code" ELSE "callback") \in WaitsIn
    /\ frames # <<>> => Object \notin targets
    /\ targets \cap glActiveAsyncObjects # {}
    /\ glAsyncWaiting' = TRUE
    /\ glAsyncWaitTargets' = targets
    /\ glAsyncWaitCounter' = Pending(targets)
    /\ covered' = UNION {Outstanding(o) : o \in targets}
    /\ frames' = Append(frames, Frame("wait"))
    /\ MainElsewhere
    /\ UNCHANGED <<tables, ASYNC_ACTIVE, objects, worker, glQueue, state, history>>

----------------------------------------------------------------------------
(* What other code does to the objects, and the end of the process.        *)

Elsewhere == UNCHANGED <<ASYNC_ACTIVE, target, threads, frames, wait, users, history>>

\* FreeObject() by any thread.  The worker itself may free its object, but the
\* caller must see to it that no worker is about to lock the object.  A free
\* that meets the pin of a submission is taken to come after it.
Free(o) ==
    /\ Frees /\ object[o] = "alive"
    /\ \A r \in Requests :
          target[r] = o => worker[r] \notin {"start", "registered", "lock"}
    /\ \A u \in Users : job[u].object = o => pc[u] # "submitting"
    /\ \/ holder[o] = None /\ object_free(o)
       \/ /\ holder[o] # None
          /\ object' = [object EXCEPT ![o] = "marked"]
          /\ UNCHANGED <<tables, glQueue>>
    /\ Elsewhere /\ UNCHANGED <<holder, state>>

\* A thread keeps the object locked, longer than the 3 seconds that
\* ScopedObjectLock waits.
Hold(u, o) ==
    /\ Busy /\ u # Main /\ Runs(u) /\ object[o] = "alive" /\ holder[o] = None
    /\ holder' = [holder EXCEPT ![o] = u]
    /\ Elsewhere /\ UNCHANGED <<tables, object, glQueue, state>>

LetGo(u, o) ==
    /\ u # Main /\ holder[o] = u /\ ReleaseObject(o)
    /\ Elsewhere /\ UNCHANGED state

\* glTaskState becomes TSTATE::STOPPING.
StopTask ==
    /\ Shutdowns /\ state = "running" /\ state' = "stopping"
    /\ Elsewhere /\ UNCHANGED <<tables, objects, glQueue>>

\* stop_async_actions() refuses submissions from now on, takes the set of
\* workers, and asks every one of them to stop,
CloseSubmissions ==
    /\ state = "stopping" /\ Runs(Main) /\ frames = <<>> /\ glmActionQueue
    /\ state' = "closed"
    /\ Elsewhere /\ UNCHANGED <<tables, objects, glQueue>>

\* joins them all and clears what is queued.  No worker is launched after the
\* set was taken (SnapshotComplete): those that it holds are those that are left.
JoinThreads ==
    /\ state = "closed" /\ glmActionQueue
    /\ \A r \in Requests : worker[r] \in {"none", "finished"}
    /\ state' = "done"
    /\ glActiveAsyncObjects' = {} /\ glCancelledAsyncObjects' = {}
    /\ glActionQueues' = [o \in Objects |-> <<>>]
    /\ glAsyncObjectThreads' = [o \in Objects |-> None]
    /\ UNCHANGED <<ASYNC_ACTIVE, objects, target, worker, STOPPING, glQueue,
                   frames, wait, users, history>>

----------------------------------------------------------------------------

WorkerStep(r) ==
    \/ Register(r) \/ CheckStop(r) \/ LockObject(r) \/ BeginAction(r)
    \/ EndAction(r) \/ EndWork(r) \/ SendCompletion(r) \/ cleanup(r)

MainStep ==
    \/ EventLoop \/ FetchBatch \/ BreakMessage \/ LeaveLoop
    \/ BeginCallback \/ EndCallback
    \/ Pop \/ StopDispatch \/ AccessForLaunch \/ DropQueue \/ LaunchNext
    \/ RefuseLaunch \/ DrainQueue \/ ClearFlag \/ CountDown \/ Notify \/ EndDispatch

UserStep(u) ==
    \/ Launch(u) \/ WakeWorker(u) \/ DrainCancelled(u) \/ NotifyCancelled(u)
    \/ \E o \in Objects : LetGo(u, o)

Next ==
    \/ \E r \in Requests : WorkerStep(r)
    \/ MainStep
    \/ \E u \in Users : UserStep(u)
    \/ \E u \in Users, o \in Objects :
          AsyncAction(u, o) \/ AsyncCancel(u, o) \/ Hold(u, o)
    \/ \E targets \in SUBSET Objects : AsyncWait(targets)
    \/ \E o \in Objects : Free(o)
    \/ StopTask \/ CloseSubmissions \/ JoinThreads

Spec == Init /\ [][Next]_vars

\* Every thread makes progress: actions and callbacks return, a lock wait ends
\* one way or the other, and the main thread, whatever its code does in between,
\* comes back to process messages.  A time-out may come, and is not relied on.
OnlyTimesOut == Drained /\ ~ToldToEnd

FairSpec ==
    /\ Spec
    /\ \A r \in Requests : WF_vars(WorkerStep(r))
    /\ SF_vars(MainStep /\ ~OnlyTimesOut)
    /\ \A u \in Users : WF_vars(UserStep(u))

----------------------------------------------------------------------------
(* Properties.                                                             *)

Messages == [request : Requests \cup {None}, DispatchNext : BOOLEAN]

\* The type invariant.
TypeOK ==
    /\ glActiveAsyncObjects \subseteq Objects
    /\ glCancelledAsyncObjects \subseteq Objects
    /\ \A o \in Objects : Range(glActionQueues[o]) \subseteq Requests
    /\ glAsyncObjectThreads \in [Objects -> Requests \cup {None}]
    /\ ASYNC_ACTIVE \subseteq Objects
    /\ object \in [Objects -> {"alive", "marked", "gone"}]
    /\ holder \in [Objects -> Requests \cup Users \cup {None}]
    /\ target \in [Requests -> Objects \cup {None}]
    /\ worker \in [Requests -> {"none", "start", "registered", "lock", "locked",
                        "action", "release", "send", "cleanup", "finished"}]
    /\ STOPPING \subseteq Requests
    /\ Range(glQueue) \subseteq Messages
    /\ \A i \in DOMAIN frames : Range(frames[i].batch) \subseteq Messages
    /\ Len(frames) \in 0 .. 2
    /\ glAsyncWaiting \in BOOLEAN /\ glAsyncWaitTargets \subseteq Objects
    /\ glAsyncWaitCounter \in 0 .. Cardinality(Objects) + MaxRequests
    /\ state \in {"running", "stopping", "closed", "done"}
    /\ pc \in [Users -> {"idle", "submitting", "wake", "drain", "notify"}]
    /\ covered \subseteq Requests /\ doomed \subseteq Requests
    /\ callbacks \in [Requests -> Nat]

\* The completions that have yet to be dispatched, those the main thread has in
\* hand included.
Undispatched(o) ==
    {r \in Requests : target[r] = o /\
        \/ Completion(r) \in Range(glQueue)
        \/ \E i \in DOMAIN frames : \E n \in DOMAIN frames[i].batch :
              /\ frames[i].batch[n] = Completion(r)
              /\ n = 1 => frames[i].at \in {"loop", "callback", "dispatch", "launch",
                                           "check", "drain"}}

Workers(o) == {r \in Requests : target[r] = o /\ InWorker(r)}

\* Requests for one object are never served together: from the start of a
\* worker to the end of the callback and the dispatch that follows, there is no
\* other worker and no other completion for the object.
Serialised ==
    \A o \in Objects : Cardinality(Workers(o)) + Cardinality(Undispatched(o)) <= 1

\* An object that counts as active is being served, so that what is queued
\* behind it will be dispatched; and nothing is served or queued for an object
\* that does not count as active.
ActiveIsServed ==
    \A o \in Objects : object[o] = "alive" /\ state # "done" =>
        /\ o \in glActiveAsyncObjects <=>
              \/ Workers(o) \cup Undispatched(o) # {}
              \/ \E u \in Users : pc[u] = "submitting" /\ job[u].object = o
        /\ glActionQueues[o] # <<>> => o \in glActiveAsyncObjects

\* The requests for an object are executed in the order in which they were made:
\* none is left behind in the queue, or starts after a later one.
FirstInFirstOut ==
    \A r \in Requests : InWorker(r) =>
        \A q \in Range(glActionQueues[target[r]]) : q > r

\* Everywhere a callback that has yet to be called may be waiting: in a queue, with
\* a submitter or a worker, in a message that is not in hand, with the main thread
\* between the queue and the launch, or in a list that was drained.
Unseen(frame) == IF frame.at = "loop" THEN frame.batch ELSE Tail(frame.batch)

Posted(messages, r) == {n \in DOMAIN messages : messages[n].request = r}
Listed(list, r)     == {n \in DOMAIN list : list[n] = r}

Places(r) ==
    ({"queue"} \X Listed(glActionQueues[target[r]], r))
      \cup ({"submitter"} \X {u \in Users : pc[u] = "submitting" /\ job[u].thread = r})
      \cup ({"worker"} \X {q \in {r} : InWorker(q)})
      \cup ({"posted"} \X Posted(glQueue, r))
      \cup (UNION {{<<"batch", i>>} \X Posted(Unseen(frames[i]), r) : i \in DOMAIN frames})
      \cup ({"next"} \X {i \in DOMAIN frames :
                 frames[i].at \in {"launch", "check"} /\ frames[i].next = r})
      \cup (UNION {{<<"drained", i>>} \X Listed(frames[i].drained, r) : i \in DOMAIN frames})
      \cup (UNION {{<<"cancelled", u>>} \X Listed(job[u].drained, r) : u \in Users})

\* The callback of a request is neither lost nor called twice, whoever drains the
\* queue: until it is called it is in exactly one place, afterwards in none.
CallbackAccounted == state # "done" =>
    \A r \in Requests : target[r] # None =>
        Cardinality(Places(r)) + callbacks[r] = 1

\* AsyncWait() returns ERR::Okay only when no request that was outstanding when
\* it was called is queued or executing any more.
WaitCovers ==
    [][glAsyncWaiting /\ ~glAsyncWaiting' /\ Top.breaking =>
          \A o \in Objects : covered \cap Outstanding(o) = {}]_vars

\* stop_async_actions() takes the set of workers once (lib_objects.cpp:56): when
\* it does so and ever after, no request is on its way to a worker, neither in
\* AsyncAction(), by any thread, nor in msg_threadaction().
SnapshotComplete ==
    state \in {"closed", "done"} =>
        /\ \A u \in Users : pc[u] # "submitting"
        /\ \A i \in DOMAIN frames : frames[i].at \notin {"launch", "check"}

\* Once stop_async_actions() has returned, no worker runs, and nothing is queued
\* or active.
ShutdownQuiet ==
    state = "done" =>
        /\ \A r \in Requests : worker[r] \in {"none", "finished"}
        /\ glActiveAsyncObjects = {}
        /\ \A o \in Objects : glActionQueues[o] = <<>>

\* What stop_async_actions() relies on and leaves behind.
AsyncInv == TypeOK /\ SnapshotComplete /\ ShutdownQuiet

\* Every request has its callback called, cancelled or not.
CallbackHappens == \A r \in Requests : target[r] # None ~> callbacks[r] > 0

\* AsyncWait() returns.
WaitReturns == glAsyncWaiting ~> ~glAsyncWaiting

----------------------------------------------------------------------------
(* What the documentation says and the code does not keep in every case:   *)
(* the counterexamples are described in the README.                        *)

\* AsyncCancel() interrupts the action in flight: once it has called
\* WakeThread(), the workers it found executing are stopping.
CancelInterrupts ==
    \A u \in Users : pc[u] \in {"drain", "notify"} =>
        \A r \in job[u].running : worker[r] = "action" => r \in STOPPING

\* What is queued when AsyncCancel() is called is never executed.
CancelDrains == \A r \in doomed : worker[r] # "action"
=============================================================================
