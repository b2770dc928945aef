------------------------------- MODULE Timers -------------------------------
(***************************************************************************)
(* The timer service of the Kotuku core: SubscribeTimer() and              *)
(* UpdateTimer() (src/core/lib_functions.cpp), the timer cycle of          *)
(* ProcessMessages() (src/core/lib_messages.cpp) on the main thread, and   *)
(* the part of object_free() (src/core/lib_objects.cpp) that drops the     *)
(* timers of an object.                                                    *)
(*                                                                         *)
(* glmTimer is held by the main thread while it scans the list and is      *)
(* given back around each callback; what other threads do under it is one  *)
(* step.  An object is live, marked (FREE_ON_UNLOCK), freeing (FREE, the   *)
(* freeing thread has its lock) or freed.  Scanning takes no time: the     *)
(* clock advances in callbacks and between the scans, and current_time is  *)
(* "now".  The alignment of timers that share a short interval is left     *)
(* out, and so is the shutdown, which skips the timers.                    *)
(*                                                                         *)
(* A definition that stands right before another one under a longer name   *)
(* is a deviation from the code, there to confirm that the properties      *)
(* notice it.                                                              *)
(***************************************************************************)
EXTENDS Integers, Sequences, FiniteSets, SequencesExt

CONSTANTS
    MaxTimers,      \* bound on the subscriptions (glTimerID)
    Objects, None,
    Forms,          \* what each subscription may be: [subscriber, context, script]
    Intervals,      \* of subscriptions and of ChangeTimer()
    Easings,        \* of EaseTimer()
    CycleValues,    \* glTimerCycle has 8 bits: 256
    MaxTime,        \* bound on the clock
    MaxNesting      \* bound on the ProcessMessages() that are nested

ASSUME TimerAssumption ==
    /\ None \notin Objects /\ MaxTimers \in Nat
    /\ Forms \in [1..MaxTimers -> SUBSET [subscriber : Objects \cup {None},
                       context : Objects \cup {None}, script : BOOLEAN]]
    /\ Intervals \cup Easings \subseteq Nat \ {0}
    /\ CycleValues \in Nat \ {0} /\ MaxTime \in Nat /\ MaxNesting \in Nat \ {0}

Timers == 1..MaxTimers

VARIABLES
    glTimers,       \* the identifiers of the entries, in whose order the list is
    timer,          \* the entry of each identifier
    glTimerID,      \* the last identifier that was handed out
    glTimerCycle,
    pins,           \* per object: the weak pins that timers hold on it
    state,          \* per object: live, marked, freeing or freed
    locked,         \* the objects that the dispatcher has locked
    loop,           \* the running calls of ProcessMessages(), the innermost last
    now             \* PreciseTime()

vars == <<glTimers, timer, glTimerID, glTimerCycle, pins, state, locked, loop, now>>
entries == <<glTimers, timer, glTimerID, pins>>
objects == <<state, locked>>

(* What is due after the clock's bound is never due. *)
Time(t) == IF t <= MaxTime THEN t ELSE MaxTime + 1

terminating(o) == o # None /\ state[o] \in {"freeing", "freed"}
collecting(o) == o # None /\ state[o] # "live"
Form(i) == timer[i].form
Subscriber(i) == Form(i).subscriber
Orphaned(i) == terminating(Subscriber(i))
Stale(i) == timer[i].defined /\ terminating(Form(i).context)

Steps == {"cycle", "try", "scan", "dispatch", "lock", "ended", "callback", "finish",
          "messages"}
Loop == [step : Steps, at : Timers \cup {0}, cycle_time : Nat,
         terminate : BOOLEAN, ran : SUBSET Timers]     \* ran is a ghost

Inner == Last(loop)
In(step) == loop # <<>> /\ Inner.step = step
At == Inner.at
InnerBecomes(f) == loop' = Append(Front(loop), f)
GoesTo(s) == InnerBecomes([Inner EXCEPT !.step = s])

HoldsTimers == loop # <<>> /\ Inner.step \in {"scan", "dispatch", "lock", "ended"}
ClientRuns == loop = <<>> \/ In("callback") \/ In("messages")

(* The pins of entries on an object: one on the subscriber and one on the  *)
(* context of the routine, while that is defined.                          *)
Subscribed(o, S) == {i \in S : Subscriber(i) = o}
Routines(o, S) == {i \in S : timer[i].defined /\ Form(i).context = o}
Pins(o, S) == Cardinality(Subscribed(o, S)) + Cardinality(Routines(o, S))

NoTimer == [form |-> [subscriber |-> None, context |-> None, script |-> FALSE],
            Interval |-> 0, PendingInterval |-> 0, NextCall |-> 0,
            Cycle |-> 0, Locked |-> FALSE, defined |-> FALSE]

Erase(gone) ==
    /\ glTimers' = glTimers \ gone
    /\ pins' = [o \in Objects |-> pins[o] - Pins(o, gone)]
    /\ timer' = [i \in Timers |-> IF i \in gone THEN NoTimer ELSE timer[i]]
    /\ UNCHANGED glTimerID

Init == /\ glTimers = {} /\ glTimerID = 0
        /\ timer = [i \in Timers |-> NoTimer]
        /\ glTimerCycle = 1 % CycleValues
        /\ pins = [o \in Objects |-> 0]
        /\ state = [o \in Objects |-> "live"]
        /\ locked = {}
        /\ loop = <<>>
        /\ now = 0

-----------------------------------------------------------------------------
(* The client's calls.  Another thread waits for glmTimer, or gives up.    *)

SubscribeTimer(f, interval) ==
    LET i == glTimerID + 1 IN
    /\ ~HoldsTimers
    /\ i \in Timers /\ f \in Forms[i]
    /\ ~collecting(f.subscriber) /\ ~terminating(f.context)
    /\ glTimers' = glTimers \cup {i}
    /\ timer' = [timer EXCEPT ![i] =
          [form |-> f, Interval |-> interval, PendingInterval |-> 0,
           NextCall |-> Time(now + interval), Locked |-> FALSE, defined |-> TRUE,
           Cycle |-> (glTimerCycle + CycleValues - 1) % CycleValues]]
    /\ glTimerID' = i
    /\ pins' = [o \in Objects |-> pins[o] + (IF f.subscriber = o THEN 1 ELSE 0)
                                          + (IF f.context = o THEN 1 ELSE 0)]
    /\ UNCHANGED <<glTimerCycle, objects, loop, now>>

(* A positive interval applies at once. *)
ChangeTimer(i, interval) ==
    /\ ~HoldsTimers /\ i \in glTimers
    /\ timer' = [timer EXCEPT ![i].Interval = interval,
                              ![i].NextCall = Time(now + interval)]
    /\ UNCHANGED <<glTimers, glTimerID, pins, glTimerCycle, objects, loop, now>>

(* A negative one applies at once if it is shorter, and otherwise when the *)
(* timer has been called once more.                                        *)
Eased(e, interval) ==
    LET next == Time(now + interval) IN
    IF interval > e.Interval THEN [e EXCEPT !.PendingInterval = interval]
    ELSE [e EXCEPT !.Interval = interval, !.PendingInterval = 0,
                   !.NextCall = IF next < @ THEN next ELSE @]

EaseTimer(i, interval) ==
    /\ ~HoldsTimers /\ i \in glTimers
    /\ timer' = [timer EXCEPT ![i] = Eased(@, interval)]
    /\ UNCHANGED <<glTimers, glTimerID, pins, glTimerCycle, objects, loop, now>>

(* An interval of zero removes the timer; one that is in its callback      *)
(* loses its routine, and the dispatcher removes it later.                 *)
ClearRoutine(i) == [timer EXCEPT ![i].defined = FALSE]

RemoveTimer(i) ==
    /\ ~HoldsTimers /\ i \in glTimers
    /\ \/ /\ timer[i].Locked
          /\ pins' = [o \in Objects |->
                IF timer[i].defined /\ o = Form(i).context THEN pins[o] - 1 ELSE pins[o]]
          /\ timer' = ClearRoutine(i)
          /\ UNCHANGED <<glTimers, glTimerID>>
       \/ /\ ~timer[i].Locked
          /\ Erase({i})
    /\ UNCHANGED <<glTimerCycle, objects, loop, now>>

-----------------------------------------------------------------------------
(* The end of an object.                                                   *)

(* object_free() drops the entries that no dispatcher is at. *)
UnlockedOf(o) == {i \in glTimers : Subscriber(i) = o /\ ~timer[i].Locked}
AllOf(o) == {i \in glTimers : Subscriber(i) = o}
Abandoned(o) == UnlockedOf(o)

(* FreeResource() by another thread.  If the object is locked, the end is  *)
(* left to the ReleaseObject() of the one who has it: of the dispatcher,   *)
(* or of a third thread, unless the dispatcher locks the object before     *)
(* that one's FreeResource() does.                                         *)
FreeBegins(o) ==
    /\ state[o] = "live"
    /\ \/ state' = [state EXCEPT ![o] = "marked"]
       \/ o \notin locked /\ state' = [state EXCEPT ![o] = "freeing"]
    /\ UNCHANGED <<entries, glTimerCycle, locked, loop, now>>

FreeResumes(o) ==
    /\ state[o] = "marked" /\ o \notin locked
    /\ state' = [state EXCEPT ![o] = "freeing"]
    /\ UNCHANGED <<entries, glTimerCycle, locked, loop, now>>

(* It drops the timers, unless glmTimer is not to be had for a second. *)
FreeEnds(o) ==
    /\ state[o] = "freeing"
    /\ state' = [state EXCEPT ![o] = "freed"]
    /\ \/ ~HoldsTimers /\ Erase(Abandoned(o))
       \/ HoldsTimers /\ UNCHANGED entries
    /\ UNCHANGED <<glTimerCycle, locked, loop, now>>

(* FreeResource() by code on the main thread. *)
FreeByMain(o) ==
    /\ ClientRuns /\ state[o] = "live"
    /\ \/ /\ state' = [state EXCEPT ![o] = "marked"]
          /\ UNCHANGED entries
       \/ /\ o \notin locked
          /\ state' = [state EXCEPT ![o] = "freed"]
          /\ Erase(Abandoned(o))
    /\ UNCHANGED <<glTimerCycle, locked, loop, now>>

-----------------------------------------------------------------------------
(* The loop of ProcessMessages().                                          *)

NoFrame == [step |-> "cycle", at |-> 0, cycle_time |-> 0,
            terminate |-> FALSE, ran |-> {}]

ProcessMessages ==
    /\ ClientRuns /\ Len(loop) < MaxNesting
    /\ loop' = Append(loop, NoFrame)
    /\ UNCHANGED <<entries, glTimerCycle, objects, now>>

BeginCycle ==
    /\ In("cycle")
    /\ glTimerCycle' = (glTimerCycle + 1) % CycleValues
    /\ InnerBecomes([Inner EXCEPT !.step = "try", !.cycle_time = now, !.ran = {}])
    /\ UNCHANGED <<entries, objects, now>>

NeverSwept(i) == FALSE
Swept(i) == ~timer[i].Locked /\ Orphaned(i)

ReentersLocked(i) == /\ timer[i].NextCall <= Inner.cycle_time
                     /\ timer[i].Cycle # glTimerCycle
Due(i) == /\ timer[i].NextCall <= Inner.cycle_time
          /\ timer[i].Cycle # glTimerCycle
          /\ ~timer[i].Locked

(* The scan goes on at the next entry that it has something to do with, and *)
(* messages are handled after the last.                                    *)
Concerns(i) == Swept(i) \/ Due(i)
HandleMessages == InnerBecomes([NoFrame EXCEPT !.step = "messages"])
ScanAfter(i) ==
    LET next == {j \in glTimers : i < j /\ Concerns(j)} IN
    \/ next = {} /\ HandleMessages
    \/ \E j \in next : /\ \A k \in next : j <= k
                      /\ InnerBecomes([Inner EXCEPT !.step = "scan", !.at = j])
ScanOn == ScanAfter(At)

(* glmTimer.try_lock_for() may fail: the timers wait for the next cycle. *)
LockTimers ==
    /\ In("try")
    /\ ScanAfter(0) \/ HandleMessages
    /\ UNCHANGED <<entries, glTimerCycle, objects, now>>

Sweep ==
    /\ In("scan")
    /\ Swept(At) \/ Stale(At)
    /\ Erase({At})
    /\ ScanOn
    /\ UNCHANGED <<glTimerCycle, objects, now>>

(* The next call is due an interval later, or on the next cycle if that    *)
(* has gone by already.                                                    *)
NextCallKept(next) == next
NextCall(next) == IF next <= now THEN now + 1 ELSE Time(next)

LockEntry ==
    LET e == timer[At]
        interval == IF e.PendingInterval # 0 THEN e.PendingInterval
                    ELSE e.Interval IN
    /\ In("scan")
    /\ ~Swept(At) /\ ~Stale(At)
    /\ timer' = [timer EXCEPT ![At] =
          [e EXCEPT !.Interval = interval, !.PendingInterval = 0,
                    !.NextCall = NextCall(e.NextCall + interval),
                    !.Cycle = glTimerCycle, !.Locked = TRUE]]
    /\ GoesTo("dispatch")
    /\ UNCHANGED <<glTimers, glTimerID, pins, glTimerCycle, objects, now>>

(* The entry is done without a callback: it is erased, or only unlocked.  *)
Unlock(i) == [timer EXCEPT ![i].Locked = FALSE]

Discard == Erase({At}) /\ ScanOn /\ UNCHANGED objects
PassOver == /\ timer' = Unlock(At) /\ ScanOn
            /\ UNCHANGED <<glTimers, glTimerID, pins, objects>>
Calls(lock) ==
    /\ InnerBecomes([Inner EXCEPT !.step = "callback", !.ran = @ \cup {At}])
    /\ locked' = locked \cup lock
    /\ UNCHANGED <<entries, state>>

Dispatch ==
    LET s == Subscriber(At) IN
    /\ In("dispatch")
    /\ \/ Orphaned(At) /\ Discard
       \/ collecting(s) /\ ~Orphaned(At) /\ PassOver
       \/ ~collecting(s) /\ ~timer[At].defined /\ Discard
       \/ /\ ~collecting(s) /\ timer[At].defined
          /\ IF s # None /\ ~Form(At).script
             THEN GoesTo("lock") /\ UNCHANGED <<entries, objects>>
             ELSE Calls({})
    /\ UNCHANGED <<glTimerCycle, now>>

(* LockObject() waits for fifty milliseconds at most, and the header of a  *)
(* freed object does not refuse it: the object is looked at again under    *)
(* the lock.  If it was marked meanwhile, ReleaseObject() ends it here and *)
(* now: glmTimer, which the dispatcher has, is recursive.                  *)
RevalidatesNever(s) == FALSE
Revalidates(s) == collecting(s)

LockSubscriber ==
    LET s == Subscriber(At) IN
    /\ In("lock")
    /\ \/ PassOver
       \/ /\ state[s] = "marked" /\ s \notin locked
          /\ state' = [state EXCEPT ![s] = "freed"]
          /\ Erase(Abandoned(s))
          /\ GoesTo("ended")
          /\ UNCHANGED locked
       \/ state[s] # "freeing" /\ ~Revalidates(s) /\ Calls({s})
    /\ UNCHANGED <<glTimerCycle, now>>

SubscriberEnded ==
    /\ In("ended")
    /\ PassOver
    /\ UNCHANGED <<glTimerCycle, now>>

(* The callback returns, with ERR::Terminate or without.  ReleaseObject()  *)
(* runs the end of the subscriber that was left to it.                     *)
Outer(s) == \E n \in 1..Len(loop) - 1 :
    loop[n].step = "callback" /\ Subscriber(loop[n].at) = s
              /\ ~Form(loop[n].at).script

CallbackReturns ==
    LET s == Subscriber(At)
        last == s \in locked /\ ~Form(At).script /\ ~Outer(s) IN
    /\ In("callback")
    /\ \E t \in BOOLEAN : InnerBecomes([Inner EXCEPT !.step = "finish", !.terminate = t])
    /\ locked' = IF last THEN locked \ {s} ELSE locked
    /\ IF last /\ state[s] = "marked"
       THEN state' = [state EXCEPT ![s] = "freed"] /\ Erase(Abandoned(s))
       ELSE UNCHANGED <<entries, state>>
    /\ UNCHANGED <<glTimerCycle, now>>

(* glmTimer is locked again, the entry is unlocked or erased, and the list *)
(* is scanned from its head.                                               *)
Finish ==
    /\ In("finish")
    /\ InnerBecomes([Inner EXCEPT !.step = "try", !.at = 0, !.terminate = FALSE])
    /\ IF Inner.terminate THEN Erase({At})
       ELSE timer' = Unlock(At) /\ UNCHANGED <<glTimers, glTimerID, pins>>
    /\ UNCHANGED <<glTimerCycle, objects, now>>

(* Messages have been handled; the loop goes on or ends. *)
NextCycle ==
    /\ In("messages")
    /\ GoesTo("cycle")
    /\ UNCHANGED <<entries, glTimerCycle, objects, now>>

Leave ==
    /\ In("messages")
    /\ loop' = Front(loop)
    /\ UNCHANGED <<entries, glTimerCycle, objects, now>>

Tick ==
    /\ now < MaxTime /\ ~HoldsTimers
    /\ now' = now + 1
    /\ UNCHANGED <<entries, glTimerCycle, objects, loop>>

-----------------------------------------------------------------------------
Dispatcher == \/ BeginCycle \/ LockTimers \/ Sweep \/ LockEntry
              \/ Dispatch \/ LockSubscriber \/ SubscriberEnded
              \/ CallbackReturns \/ Finish
              \/ NextCycle \/ Leave

Client == \/ \E f \in UNION Range(Forms), n \in Intervals : SubscribeTimer(f, n)
          \/ \E i \in Timers, n \in Intervals : ChangeTimer(i, n)
          \/ \E i \in Timers, n \in Easings : EaseTimer(i, n)
          \/ \E i \in Timers : RemoveTimer(i)
          \/ \E o \in Objects : FreeBegins(o) \/ FreeByMain(o)

Next == Client \/ (\E o \in Objects : FreeResumes(o) \/ FreeEnds(o)) \/ ProcessMessages
          \/ Dispatcher \/ Tick

Spec == Init /\ [][Next]_vars

(* The main thread processes messages for as long as it runs, and every    *)
(* handler returns; a lock that is not held for good is had in the end,    *)
(* and the end of an object does not stop half way.                        *)
Step == \/ ProcessMessages /\ loop = <<>>
        \/ BeginCycle \/ Sweep \/ LockEntry \/ Dispatch \/ LockSubscriber
        \/ SubscriberEnded \/ Finish

FairSpec ==
    /\ Spec
    /\ WF_vars(Step)
    /\ SF_vars(In("try") /\ ScanAfter(0) /\ LockTimers)
    /\ \A n \in 1..MaxNesting : SF_vars(Len(loop) = n /\ (CallbackReturns \/ Leave))
    /\ \A o \in Objects : WF_vars(FreeEnds(o))

-----------------------------------------------------------------------------
Runs(n) == loop[n].step = "callback"
Running(n) == loop[n].at

TypeOK ==
    /\ glTimers \subseteq 1..glTimerID /\ glTimerID \in 0..MaxTimers
    /\ \A i \in glTimers :
         /\ timer[i].form \in Forms[i]
         /\ {timer[i].Interval, timer[i].PendingInterval}
              \subseteq Intervals \cup Easings \cup {0}
         /\ timer[i].NextCall \in Nat
         /\ timer[i].Cycle \in 0..CycleValues - 1
         /\ timer[i].Locked \in BOOLEAN /\ timer[i].defined \in BOOLEAN
    /\ glTimerCycle \in 0..CycleValues - 1
    /\ pins \in [Objects -> Nat]
    /\ state \in [Objects -> {"live", "marked", "freeing", "freed"}]
    /\ locked \subseteq Objects
    /\ loop \in Seq(Loop)
    /\ now \in 0..MaxTime

(* The weak pins on an object are those of the entries in the list: no     *)
(* path that ends an entry forgets one, or takes one back twice.           *)
PinsBalanced == \A o \in Objects : pins[o] = Pins(o, glTimers)

(* "A locked timer is mid-callback" (ProcessMessages()): a routine that     *)
(* processes messages is not entered again from there.                     *)
NotReentered == \A m, n \in DOMAIN loop :
    m # n /\ Runs(m) /\ Runs(n) => Running(m) # Running(n)

(* The dispatcher's iterator stays valid: the entry that a loop, at any    *)
(* depth, is working on stays in the list until that loop ends it,         *)
(* whatever its callback, another thread or the end of an object does.     *)
EntryInUseKept == \A n \in DOMAIN loop :
    loop[n].step \in {"dispatch", "lock", "ended", "callback", "finish"} =>
        Running(n) \in glTimers /\ timer[Running(n)].Locked

(* The timer list as every loop finds it again after its callback. *)
TimersInv == TypeOK /\ PinsBalanced /\ EntryInUseKept

(* A routine in C runs with its subscriber locked, and the subscriber is   *)
(* not terminated before it returns, even if it is freed from another      *)
(* thread while the dispatcher waits for the lock.                         *)
SubscriberHeld == \A n \in DOMAIN loop :
    Runs(n) /\ ~Form(Running(n)).script /\ Subscriber(Running(n)) # None =>
        Subscriber(Running(n)) \in locked /\ ~terminating(Subscriber(Running(n)))

(* "Each timer runs at most once per cycle irrespective of nesting"        *)
(* (ProcessMessages()), although every callback restarts the scan.         *)
OncePerCycle == [][\A n \in DOMAIN loop \cap DOMAIN loop' :
    loop[n].step # "callback" /\ loop'[n].step = "callback" =>
        loop'[n].at \notin loop[n].ran]_vars

(* The entries of a terminated subscriber go, and with them the pins that  *)
(* keep its header, even if object_free() did not get the timer lock.      *)
OrphansSwept == \A i \in Timers :
    i \in glTimers /\ Orphaned(i) ~> i \notin glTimers
=============================================================================
