------------------------------- MODULE Waits -------------------------------
(***************************************************************************)
(* WaitForObjects() of the Kotuku core (src/core/lib_messages.cpp): the    *)
(* main thread processes messages until objects are signalled or freed, by *)
(* a handler of its own or by another thread.  Only the main thread may    *)
(* change glWFOList; other threads post the object's identifier to it.     *)
(*                                                                         *)
(* An object is live, claimed (FreeObject() has set Terminating), marked   *)
(* (FREE_ON_UNLOCK: it will be freed) or freed (FREE is set and nobody is  *)
(* given access any more).  A signal or the end of an object is one step   *)
(* with the notifications it makes, since the object is locked meanwhile.  *)
(* The main thread's calls are a stack; code of the application runs       *)
(* outside of any call and in the handlers (of messages, timers) that a    *)
(* message loop calls.  Objects that are passed to WaitForObjects() are    *)
(* not freed before they have been registered: the caller passes           *)
(* addresses.                                                              *)
(*                                                                         *)
(* A definition that stands right before another one under a longer name   *)
(* is a deviation from the code, there to confirm that the properties      *)
(* notice it.                                                              *)
(***************************************************************************)
EXTENDS Naturals, Sequences, FiniteSets, SequencesExt

CONSTANTS
    Objects, Nobody,
    Lists,          \* what is waited for: sets of objects
    FailedFrees,    \* may the claim of an object that is waited for come to nothing?
    Unready,        \* may others lock or mark objects that await registration?
    MaxMessages,    \* bound on the messages that other threads post
    MaxCalls        \* bound on the main thread's stack; with 2 no handler calls back

ASSUME WaitsAssumption ==
    /\ Nobody \notin Objects /\ Lists \subseteq SUBSET Objects
    /\ {FailedFrees, Unready} \subseteq BOOLEAN
    /\ MaxMessages \in Nat /\ MaxCalls \in Nat

VARIABLES
    state,          \* per object: live, claimed, marked or freed
    signalled,      \* the objects with NF::SIGNALLED
    subscribed,     \* the objects with records of notify_signal_wfo()
    held,           \* the objects that another thread keeps locked for long
    glQueue,        \* WAIT_FOR_OBJECTS messages: an object, or Nobody (no payload)
    glWFOList, glWFOAnySignal, glWFOSignalReceived,
    calls           \* the main thread's calls, the innermost last

vars == <<state, signalled, subscribed, held, glQueue, glWFOList, glWFOAnySignal,
          glWFOSignalReceived, calls>>
object == <<state, signalled, subscribed, held>>
wait == <<glWFOList, glWFOAnySignal, glWFOSignalReceived>>

(* A call of WaitForObjects() or ProcessMessages().  due and disturbed are *)
(* ghosts: what has not been signalled since the call began, and whether   *)
(* messages have been processed in between by a handler.                   *)
WaitCall == [kind : {"wait"}, step : {"register", "loop", "last", "clean"},
             objects : SUBSET Objects, todo : SUBSET Objects,
             any : BOOLEAN, error : {"Okay", "Timeout"},
             list : SUBSET Objects, anySignal : BOOLEAN, received : BOOLEAN,
             due : SUBSET Objects, disturbed : BOOLEAN]
LoopCall == [kind : {"loop"}, limit : {"zero", "some"},
             batch : Seq(Objects \cup {Nobody}), ended : BOOLEAN]

Inner == Last(calls)
Is(kind) == calls # <<>> /\ Inner.kind = kind
InnerBecomes(c) == calls' = Append(Front(calls), c)
ClientRuns == calls = <<>> \/ Is("loop")

Waiting == {n \in DOMAIN calls : calls[n].kind = "wait"}
Innermost(n) == \A k \in Waiting : k <= n
Unregistered == UNION {calls[n].todo : n \in Waiting}
Awaited == UNION {calls[n].objects : n \in Waiting}

Init == /\ state = [o \in Objects |-> "live"]
        /\ signalled = {}
        /\ subscribed = {}
        /\ held = {}
        /\ glQueue = <<>>
        /\ glWFOList = {} /\ glWFOAnySignal = FALSE /\ glWFOSignalReceived = FALSE
        /\ calls = <<>>

-----------------------------------------------------------------------------
(* Signals and ends of objects.                                            *)

Granted(o) == state[o] = "live" /\ o \notin held
Gone(o) == state[o] # "live"

Due(stack, o) == [n \in DOMAIN stack |->
    IF stack[n].kind = "wait" THEN [stack[n] EXCEPT !.due = @ \ {o}] ELSE stack[n]]

Silently(o) == UNCHANGED <<subscribed, glQueue, wait>>

(* notify_signal_wfo() on another thread posts a message.  (A second record *)
(* posts it again, like a second signal.)                                  *)
Outstanding == Len(glQueue) + Len(FlattenSeq(
    [n \in DOMAIN calls |-> IF calls[n].kind = "loop" THEN calls[n].batch ELSE <<>>]))
Post(o) ==
    /\ o \in subscribed => Outstanding < MaxMessages
    /\ glQueue' = IF o \in subscribed THEN Append(glQueue, o) ELSE glQueue
    /\ UNCHANGED wait

(* The object leaves the list; is the wait over? *)
StillMonitored(o) == glWFOList
Remaining(o) == glWFOList \ {o}
Over(list) == glWFOAnySignal \/ list = {}

(* notify_signal_wfo() on the main thread. *)
Hears(o) == o \in subscribed \cap glWFOList
Notify(o) ==
    /\ glWFOList' = Remaining(o)
    /\ subscribed' = subscribed \ {o}
    /\ IF Over(glWFOList')
       THEN glWFOSignalReceived' = TRUE /\ glQueue' = Append(glQueue, Nobody)
       ELSE UNCHANGED <<glWFOSignalReceived, glQueue>>
    /\ UNCHANGED glWFOAnySignal

SignalByThread(o) ==
    /\ state[o] # "freed"
    /\ signalled' = signalled \cup {o}
    /\ Post(o)
    /\ calls' = Due(calls, o)
    /\ UNCHANGED <<state, subscribed, held>>

SignalByMain(o) ==
    /\ ClientRuns
    /\ state[o] # "freed" /\ o \notin held
    /\ \/ Hears(o) /\ Notify(o) /\ signalled' = signalled \ {o}
       \/ ~Hears(o) /\ Silently(o) /\ signalled' = signalled \cup {o}
    /\ calls' = Due(calls, o)
    /\ UNCHANGED <<state, held>>

(* FreeObject() on another thread claims the object; it frees it when it   *)
(* has the lock, or leaves that to whoever has it locked or pinned.        *)
Claim(o) ==
    /\ state[o] = "live" /\ (o \in Unregistered => Unready)
    /\ state' = [state EXCEPT ![o] = "claimed"]
    /\ UNCHANGED <<signalled, subscribed, held, glQueue, wait, calls>>

ClaimFails(o) ==
    /\ state[o] = "claimed" /\ (o \in Awaited => FailedFrees)
    /\ state' = [state EXCEPT ![o] = "live"]
    /\ UNCHANGED <<signalled, subscribed, held, glQueue, wait, calls>>

Mark(o) ==
    /\ state[o] = "claimed"
    /\ state' = [state EXCEPT ![o] = "marked"]
    /\ calls' = Due(calls, o)
    /\ UNCHANGED <<signalled, subscribed, held, glQueue, wait>>

FreeByThread(o) ==
    /\ state[o] \in {"claimed", "marked"} /\ o \notin held \cup Unregistered
    /\ state' = [state EXCEPT ![o] = "freed"]
    /\ Post(o)
    /\ subscribed' = subscribed \ {o}
    /\ calls' = Due(calls, o)
    /\ UNCHANGED <<signalled, held>>

FreeByMain(o) ==
    /\ ClientRuns
    /\ state[o] \in {"live", "marked"} /\ o \notin held \cup Unregistered
    /\ state' = [state EXCEPT ![o] = "freed"]
    /\ \/ Hears(o) /\ Notify(o)
       \/ ~Hears(o) /\ subscribed' = subscribed \ {o} /\ UNCHANGED <<glQueue, wait>>
    /\ calls' = Due(calls, o)
    /\ UNCHANGED <<signalled, held>>

(* Another thread keeps an object locked for seconds. *)
Hold(o) ==
    /\ state[o] # "freed" /\ o \notin held /\ (o \in Unregistered => Unready)
    /\ held' = held \cup {o}
    /\ UNCHANGED <<state, signalled, subscribed, glQueue, wait, calls>>

LetGo(o) ==
    /\ o \in held
    /\ held' = held \ {o}
    /\ UNCHANGED <<state, signalled, subscribed, glQueue, wait, calls>>

-----------------------------------------------------------------------------
(* WaitForObjects().                                                       *)

MayCall == ClientRuns /\ Len(calls) + 2 <= MaxCalls

Disturbed == [n \in DOMAIN calls |->
    IF calls[n].kind = "wait" THEN [calls[n] EXCEPT !.disturbed = TRUE] ELSE calls[n]]

WaitForObjects(objects, any) ==
    /\ MayCall
    /\ \A o \in objects : state[o] = "live" /\ (o \in held => Unready)
    /\ calls' = Append(Disturbed,
           [kind |-> "wait", step |-> "register", objects |-> objects, todo |-> objects,
            any |-> any, error |-> "Okay",
            list |-> glWFOList, anySignal |-> glWFOAnySignal,
            received |-> glWFOSignalReceived, due |-> objects, disturbed |-> FALSE])
    /\ glWFOList' = {} /\ glWFOAnySignal' = any /\ glWFOSignalReceived' = FALSE
    /\ UNCHANGED <<object, glQueue>>

At(step) == Is("wait") /\ Inner.step = step

(* An object is locked and looked at; one whose lock is not had in three   *)
(* seconds is passed over.  SubscribeAction() ignores a marked object.     *)
Register(o) ==
    LET done == [Inner EXCEPT !.todo = @ \ {o}] IN
    /\ At("register") /\ ~glWFOSignalReceived
    /\ o \in Inner.todo
    /\ \/ /\ o \in held
          /\ InnerBecomes(done)
          /\ UNCHANGED <<signalled, subscribed, wait>>
       \/ /\ o \notin held /\ o \in signalled
          /\ signalled' = signalled \ {o}
          /\ glWFOSignalReceived' = glWFOAnySignal
          /\ InnerBecomes([done EXCEPT !.due = @ \ {o}])
          /\ UNCHANGED <<subscribed, glWFOList, glWFOAnySignal>>
       \/ /\ o \notin held /\ o \notin signalled
          /\ subscribed' = subscribed \cup ({o} \ {p \in Objects : state[p] = "marked"})
          /\ glWFOList' = glWFOList \cup {o}
          /\ InnerBecomes(done)
          /\ UNCHANGED <<signalled, glWFOAnySignal, glWFOSignalReceived>>
    /\ UNCHANGED <<state, held, glQueue>>

Registered ==
    /\ At("register")
    /\ Inner.todo = {} \/ glWFOSignalReceived
    /\ InnerBecomes([Inner EXCEPT !.todo = {},
           !.step = IF ~glWFOSignalReceived /\ glWFOList # {} THEN "loop" ELSE "last"])
    /\ UNCHANGED <<object, glQueue, wait>>

NewLoop(limit) == [kind |-> "loop", limit |-> limit, batch |-> <<>>, ended |-> FALSE]

WaitGoesOn ==
    /\ At("loop")
    /\ ~glWFOSignalReceived /\ glWFOList # {} /\ Inner.error = "Okay"
    /\ calls' = Append(calls, NewLoop("some"))
    /\ UNCHANGED <<object, glQueue, wait>>

WaitExpires ==
    /\ At("loop")
    /\ ~glWFOSignalReceived /\ glWFOList # {} /\ Inner.error = "Okay"
    /\ InnerBecomes([Inner EXCEPT !.error = "Timeout"])
    /\ UNCHANGED <<object, glQueue, wait>>

WaitIsOver ==
    /\ At("loop")
    /\ glWFOSignalReceived \/ glWFOList = {} \/ Inner.error # "Okay"
    /\ InnerBecomes([Inner EXCEPT !.step = "clean"])
    /\ UNCHANGED <<object, glQueue, wait>>

(* Messages are processed at least once. *)
ProcessOnce ==
    /\ At("last")
    /\ calls' = Append(Append(Front(calls), [Inner EXCEPT !.step = "clean"]), NewLoop("zero"))
    /\ UNCHANGED <<object, glQueue, wait>>

(* The subscriptions that are left are taken back, as far as the objects   *)
(* can be locked, and the state of the outer call is restored.             *)
CleanUp ==
    /\ At("clean")
    /\ subscribed' = subscribed \ {o \in glWFOList : Granted(o)}
    /\ glWFOList' = Inner.list
    /\ glWFOAnySignal' = Inner.anySignal
    /\ glWFOSignalReceived' = Inner.received
    /\ calls' = Front(calls)
    /\ UNCHANGED <<state, signalled, held, glQueue>>

-----------------------------------------------------------------------------
(* ProcessMessages().                                                      *)

ProcessMessages ==
    /\ MayCall
    /\ calls' = Append(Disturbed, NewLoop("some"))
    /\ UNCHANGED <<object, glQueue, wait>>

FetchBatch ==
    /\ Is("loop") /\ Inner.batch = <<>> /\ glQueue # <<>>
    /\ InnerBecomes([Inner EXCEPT !.batch = glQueue])
    /\ glQueue' = <<>>
    /\ UNCHANGED <<object, wait>>

(* A message without payload, and one that names an object nobody waits    *)
(* for any more.                                                           *)
EmptyMessage ==
    /\ Is("loop") /\ Inner.batch # <<>> /\ Head(Inner.batch) = Nobody
    /\ InnerBecomes([Inner EXCEPT !.batch = Tail(@), !.ended = TRUE])
    /\ UNCHANGED <<object, glQueue, wait>>

StaleMessage ==
    /\ Is("loop") /\ Inner.batch # <<>>
    /\ Head(Inner.batch) \notin glWFOList \cup {Nobody}
    /\ InnerBecomes([Inner EXCEPT !.batch = Tail(@)])
    /\ UNCHANGED <<object, glQueue, wait>>

(* Another thread's message about an object that is waited for: whether it *)
(* still is signalled or at its end is found out now.                      *)
AlwaysSignalled(o) == Granted(o)
Signalled(o) == Granted(o) /\ o \in signalled

RequeueForgotten(o) == glQueue
Requeue(o) == Append(glQueue, o)

DeferredMessage ==
    LET o == Head(Inner.batch)
        came == Signalled(o) \/ Gone(o)
        list == IF came THEN Remaining(o) ELSE glWFOList
        over == came /\ Over(list) IN
    /\ Is("loop") /\ Inner.batch # <<>>
    /\ o \in glWFOList
    /\ glWFOList' = list
    /\ subscribed' = IF Signalled(o) THEN subscribed \ {o} ELSE subscribed
    /\ signalled' = IF Signalled(o) THEN signalled \ {o} ELSE signalled
    /\ glQueue' = IF Granted(o) \/ Gone(o) THEN glQueue ELSE Requeue(o)
    /\ glWFOSignalReceived' = (glWFOSignalReceived \/ over)
    /\ InnerBecomes([Inner EXCEPT !.batch = Tail(@), !.ended = @ \/ over])
    /\ UNCHANGED <<state, held, glWFOAnySignal>>

(* The loop ends when the queue is empty: because a handler said so, its   *)
(* time is over, or (ended by a BREAK message) for no reason of its own.   *)
Return(error) ==
    calls' = IF Len(calls) > 1 /\ calls[Len(calls) - 1].kind = "wait"
             THEN [Front(calls) EXCEPT ![Len(calls) - 1].error = error]
             ELSE Front(calls)

Idle == Is("loop") /\ Inner.batch = <<>> /\ glQueue = <<>>

LoopEnds ==
    /\ Idle /\ (Inner.ended \/ Inner.limit = "zero")
    /\ Return("Okay")
    /\ UNCHANGED <<object, glQueue, wait>>

LoopExpires ==
    /\ Idle /\ Inner.limit = "some" /\ ~Inner.ended
    /\ Return("Timeout")
    /\ UNCHANGED <<object, glQueue, wait>>

LoopBreaks ==
    /\ Idle
    /\ Return("Okay")
    /\ UNCHANGED <<object, glQueue, wait>>

-----------------------------------------------------------------------------
Main == \/ \E o \in Objects : Register(o)
        \/ Registered \/ WaitGoesOn \/ WaitIsOver \/ ProcessOnce \/ CleanUp
        \/ FetchBatch \/ EmptyMessage \/ StaleMessage \/ DeferredMessage
        \/ LoopEnds

Client == \/ \E o \in Objects : SignalByMain(o) \/ FreeByMain(o)
          \/ \E l \in Lists, any \in BOOLEAN : WaitForObjects(l, any)
          \/ ProcessMessages

Thread(o) == \/ SignalByThread(o) \/ Claim(o) \/ ClaimFails(o) \/ Mark(o)
             \/ FreeByThread(o) \/ Hold(o)

Next == \/ Main \/ Client \/ WaitExpires \/ LoopExpires \/ LoopBreaks
        \/ \E o \in Objects : Thread(o) \/ LetGo(o)

Spec == Init /\ [][Next]_vars

(* The main thread goes on, whatever its handlers do meanwhile, and an     *)
(* object is not locked for ever; one that is to be freed is freed.        *)
(* Nothing says that the time-out of the outer call ever comes: a wait     *)
(* without one is among the behaviours.                                    *)
FairSpec ==
    /\ Spec
    /\ WF_vars(Main)
    /\ SF_vars(LoopExpires /\ Len(calls) > 2)
    /\ \A o \in Objects : WF_vars(LetGo(o)) /\ SF_vars(FreeByThread(o))

-----------------------------------------------------------------------------
TypeOK ==
    /\ state \in [Objects -> {"live", "claimed", "marked", "freed"}]
    /\ signalled \subseteq Objects /\ held \subseteq Objects
    /\ subscribed \subseteq Objects
    /\ glQueue \in Seq(Objects \cup {Nobody})
    /\ glWFOList \subseteq Objects
    /\ glWFOAnySignal \in BOOLEAN /\ glWFOSignalReceived \in BOOLEAN
    /\ calls \in Seq(WaitCall \cup LoopCall)

(* Whatever is waited for would be heard of: the innermost wait is         *)
(* subscribed to each object of its list that has not ended.               *)
MonitoredIsHeard ==
    \A n \in Waiting : Innermost(n) /\ ~calls[n].disturbed =>
        \A o \in glWFOList : state[o] # "freed" => o \in subscribed

(* The list of objects that are waited for and their subscriptions agree. *)
WaitsInv == TypeOK /\ MonitoredIsHeard

Came(c) == c.objects \ {o \in c.due : state[o] = "live"}
Satisfied(c) == IF c.any THEN Came(c) # {} ELSE Came(c) = c.objects

(* "By default, this function will only return once ALL of the objects are *)
(* signalled or a time-out occurs": when a wait ends without an error, all *)
(* its objects, or one, have been signalled or come to their end since it  *)
(* began, or had a signal pending; an old message does not count.          *)
NoEarlyReturn ==
    \A n \in Waiting :
        calls[n].step = "clean" /\ calls[n].error = "Okay" /\ calls[n].objects # {} =>
            Satisfied(calls[n])

(* A wait comes back when it has what it waits for, with or without a      *)
(* time-out, if no handler has processed messages in between and objects   *)
(* are not signalled, or kept locked, over and over again.                 *)
Outer == calls[1]
InWait == calls # <<>> /\ Outer.kind = "wait"
Calm == <>[][\A o \in Objects : ~SignalByThread(o) /\ ~Hold(o)]_vars
WaitEnds ==
    Calm => (InWait /\ ~Outer.disturbed /\ Satisfied(Outer) ~> ~InWait \/ Outer.disturbed)

(* "the state of the earlier call will be preserved so that it will not be *)
(* affected by subsequent calls": it comes back in any case, as long as    *)
(* its handlers do not make calls for ever.                                *)
FewCalls == <>[][~ProcessMessages
                 /\ \A l \in Lists, any \in BOOLEAN : ~WaitForObjects(l, any)]_vars
WaitEndsUndisturbed == Calm /\ FewCalls => (InWait /\ Satisfied(Outer) ~> ~InWait)

(* "ANY_SIGNAL must return after the first monitored object is signalled,  *)
(* leaving the other object untouched" (the tests): once the wait is over, *)
(* it takes no further signal.                                             *)
AnyTakesOne ==
    [][glWFOAnySignal /\ glWFOSignalReceived /\ calls # <<>> /\ calls' # <<>>
         /\ Is("loop") => signalled \subseteq signalled']_vars
=============================================================================
