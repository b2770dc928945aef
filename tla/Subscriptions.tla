--------------------------- MODULE Subscriptions ---------------------------
(***************************************************************************)
(* Action subscriptions of the Kotuku core (src/core/lib_objects.cpp):     *)
(* SubscribeAction(), UnsubscribeAction(), the notification passes of      *)
(* Action(), NotifySubscribers() and object_free(), and what is put off    *)
(* until the outermost pass of a thread ends.                              *)
(*                                                                         *)
(* A topic is an object and an action.  A thread keeps a stack of calls;   *)
(* from a callback it may call anything again.  glSubLock is recursive:    *)
(* the thread that has a call in a pass, or in the drain after it, owns    *)
(* it.  A call holds its object's lock, as Action() does, from its         *)
(* "routine" step on.  What is done under glSubLock without a wait or a    *)
(* callback is one step.  The callback filter of an unsubscription is left *)
(* out: a record is known by its context.                                  *)
(*                                                                         *)
(* A definition that stands right before another one under a longer name   *)
(* is a deviation from the code, there to confirm that the properties      *)
(* notice it.                                                              *)
(***************************************************************************)
EXTENDS Naturals, Sequences, FiniteSets, SequencesExt, FiniteSetsExt

CONSTANTS
    Threads, Objects,
    Actions,        \* the actions that are subscribed to
    Free,           \* the action AC::Free, if it is among them
    Nil,            \* AC::NIL: all actions, in an unsubscription
    Scopes,         \* what unsubscriptions name: of Actions \cup {Nil}
    Contexts,       \* the objects that subscribe
    Kinds,          \* the calls in use: of "Action", "NotifySubscribers", "free"
    ContextsEnd,    \* are subscribers freed?
    Roams,          \* may a callback call for another object than its own?
    MaxRecords,     \* bound on the records, a thread's own that are put off included
    MaxDelayed,     \* bound on the unsubscriptions that a thread has put off
    MaxCalls        \* bound on the calls that run at a time, nested ones included

ASSUME SubscriptionAssumption ==
    /\ IsFiniteSet(Threads)
    /\ Kinds \subseteq {"Action", "NotifySubscribers", "free"}
    /\ Nil \notin Actions /\ Scopes \subseteq Actions \cup {Nil}
    /\ ContextsEnd \in BOOLEAN /\ Roams \in BOOLEAN
    /\ {MaxRecords, MaxDelayed, MaxCalls} \subseteq Nat

Topics == Objects \X Actions
TopicsOf(o) == {o} \X Actions

VARIABLES
    glSubscriptions,        \* the records of each topic, oldest first
    NotifyFlags,            \* the topics whose bit is set in their object
    glDelayedSubscribe,     \* per thread: [topic, context], in order
    glDelayedUnsubscribe,   \* per thread: [object, action, context]
    calls,                  \* per thread: the calls, the innermost last
    freed,                  \* the contexts that are terminating (NF::FREE)
    collecting,             \* the objects that are
    left                    \* ghost: [topic, context] of the contexts whose last
                            \* word on a topic was to unsubscribe, unless that failed

vars == <<glSubscriptions, NotifyFlags, glDelayedSubscribe,
          glDelayedUnsubscribe, calls, freed, collecting, left>>

Record == [context : Contexts, stale : BOOLEAN]
Steps == {"object", "routine", "lock", "next", "callback", "drain", "closing"}
Call == [kind : Kinds, topic : Topics, step : Steps, at : Nat,
         stale_found : BOOLEAN,
         was : Seq(Contexts)]   \* ghost: the contexts when the pass began

ContextsOf(list) == [i \in DOMAIN list |-> list[i].context]
Inner(t) == Last(calls[t])
In(t, step) == calls[t] # <<>> /\ Inner(t).step = step

(* Code of the application runs: on its own, in the routine of an action,  *)
(* in a callback, or in a class's Free().                                  *)
ClientRuns(t) ==
    calls[t] = <<>> \/ In(t, "routine") \/ In(t, "callback") \/ In(t, "closing")

Reading(c) == c.step \in {"next", "callback"}
glSubReadOnly(t) == Cardinality({i \in DOMAIN calls[t] : Reading(calls[t][i])})

OwnsSubLock(t) ==
    \E i \in DOMAIN calls[t] : calls[t][i].step \in {"next", "callback", "drain"}
SubLockIsFor(t) == \A u \in Threads \ {t} : ~OwnsSubLock(u)

LocksObject(t, o) ==
    \E i \in DOMAIN calls[t] : calls[t][i].topic[1] = o /\ calls[t][i].step # "object"
ObjectIsFor(t, o) == \A u \in Threads \ {t} : ~LocksObject(u, o)

InnerBecomes(t, c) == calls' = [calls EXCEPT ![t] = [@ EXCEPT ![Len(@)] = c]]
Returns(t) == calls' = [calls EXCEPT ![t] = Front(@)]
registry == <<glSubscriptions, NotifyFlags>>
delayed  == <<glDelayedSubscribe, glDelayedUnsubscribe>>
ends     == <<freed, collecting>>

Init == /\ glSubscriptions = [p \in Topics |-> <<>>]
        /\ NotifyFlags = {}
        /\ glDelayedSubscribe = [t \in Threads |-> <<>>]
        /\ glDelayedUnsubscribe = [t \in Threads |-> <<>>]
        /\ calls = [t \in Threads |-> <<>>]
        /\ freed = {} /\ collecting = {}
        /\ left = {}

-----------------------------------------------------------------------------
(* Changes of the registry.                                                *)

(* std::erase_if(): what passes the test stays, in its order.  This is     *)
(* SelectSeq(), defined by the places and not along the list.              *)
PlaceOf(k, places) == CHOOSE i \in places : Cardinality(places \cap 1..i) = k
Only(list, places) == [k \in 1..Cardinality(places) |-> list[PlaceOf(k, places)]]
Those(list, Test(_)) == Only(list, {i \in DOMAIN list : Test(list[i])})

New(c)   == [context |-> c, stale |-> FALSE]
Stale(r) == [context |-> r.context, stale |-> TRUE]

Records(t) == FoldSet(LAMBDA p, n : n + Len(glSubscriptions[p]),
                      Len(glDelayedSubscribe[t]), Topics)

DelayNever(t) == FALSE
Delay(t) == glSubReadOnly(t) > 0

SubscribeAction(t, p, c) ==
    /\ ClientRuns(t)
    /\ p[1] \notin collecting /\ c \notin freed
    /\ Records(t) < MaxRecords
    /\ \/ /\ Delay(t)
          /\ glDelayedSubscribe' = [glDelayedSubscribe EXCEPT ![t] =
                                       Append(@, [topic |-> p, context |-> c])]
          /\ UNCHANGED glSubscriptions
       \/ /\ ~Delay(t)
          /\ SubLockIsFor(t)
          /\ glSubscriptions' = [glSubscriptions EXCEPT ![p] = Append(@, New(c))]
          /\ UNCHANGED glDelayedSubscribe
    /\ NotifyFlags' = NotifyFlags \cup {p}
    /\ left' = left \ {<<p, c>>}
    /\ UNCHANGED <<glDelayedUnsubscribe, calls, ends>>

Affected(o, a) == IF a = Nil THEN TopicsOf(o) ELSE {<<o, a>>}

(* unsubscribe_from_object(): an object whose last bit is cleared loses    *)
(* all of its records.                                                     *)
Without(o, a, c) ==
    LET Other(r) == r.context # c
        kept == [p \in Topics |-> IF p \in Affected(o, a)
                                  THEN Those(glSubscriptions[p], Other)
                                  ELSE glSubscriptions[p]]
        emptied == {p \in Affected(o, a) : glSubscriptions[p] # <<>> /\ kept[p] = <<>>}
        flags == NotifyFlags \ emptied
    IN  [flags |-> flags,
         lists |-> IF emptied # {} /\ flags \cap TopicsOf(o) = {}
                   THEN [p \in Topics |-> IF p[1] = o THEN <<>> ELSE kept[p]]
                   ELSE kept]

Unsubscribe(o, a, c) ==
    /\ glSubscriptions' = Without(o, a, c).lists
    /\ NotifyFlags' = Without(o, a, c).flags

UnsubscribeAction(t, o, a, c) ==
    /\ ClientRuns(t)
    /\ o \in collecting => LocksObject(t, o)
    /\ c \notin freed
    /\ \/ /\ Delay(t)
          /\ Len(glDelayedUnsubscribe[t]) < MaxDelayed
          /\ glDelayedUnsubscribe' = [glDelayedUnsubscribe EXCEPT ![t] =
                 Append(@, [object |-> o, action |-> a, context |-> c])]
          /\ UNCHANGED registry
       \/ /\ ~Delay(t)
          /\ SubLockIsFor(t)
          /\ Unsubscribe(o, a, c)
          /\ UNCHANGED glDelayedUnsubscribe
    /\ left' = left \cup (Affected(o, a) \X {c})
    /\ UNCHANGED <<glDelayedSubscribe, calls, ends>>

(* A subscriber is freed without having unsubscribed. *)
FreeContext(t, c) ==
    /\ ContextsEnd /\ ClientRuns(t)
    /\ freed' = freed \cup {c}
    /\ UNCHANGED <<registry, delayed, calls, collecting, left>>

-----------------------------------------------------------------------------
(* A call: Action() on an object, its class's own NotifySubscribers(), or  *)
(* its end.  The last notifies of AC::Free.                                *)

CallBegins(t, kind, p) ==
    /\ ClientRuns(t)
    /\ FoldSet(LAMBDA u, n : n + Len(calls[u]), 0, Threads) < MaxCalls
    /\ p[1] \notin collecting
    /\ calls[t] # <<>> /\ ~Roams => p[1] = Inner(t).topic[1]
    /\ (kind = "free") <=> (p[2] = Free)
    /\ kind = "free" => ~LocksObject(t, p[1])
    /\ calls' = [calls EXCEPT ![t] = Append(@,
           [kind |-> kind, topic |-> p, step |-> "object", at |-> 1,
            stale_found |-> FALSE, was |-> <<>>])]
    /\ UNCHANGED <<registry, delayed, ends, left>>

(* The object is locked, unless it is terminating by now, and the routine  *)
(* of its class is called: that of the action, code that calls             *)
(* NotifySubscribers() later on, or FreeWarning().                         *)
TakeObject(t) ==
    LET c == Inner(t)
        o == c.topic[1] IN
    /\ In(t, "object")
    /\ \/ /\ o \in collecting
          /\ Returns(t)
       \/ /\ o \notin collecting
          /\ ObjectIsFor(t, o)
          /\ InnerBecomes(t, [c EXCEPT !.step = "routine"])
    /\ UNCHANGED <<registry, delayed, ends, left>>

(* Nobody is left to be notified: an action is over, while object_free()   *)
(* goes on to the class's Free().                                          *)
PassOver(t) ==
    LET c == Inner(t) IN
    IF c.kind = "free" THEN InnerBecomes(t, [c EXCEPT !.step = "closing"]) ELSE Returns(t)

(* A call that finds its bit clear has nobody to notify, and one whose     *)
(* routine answers that it has done so (ERR::Notified), or that the object *)
(* is in use (FreeWarning()), has not to.                                  *)
RoutineReturns(t) ==
    LET c == Inner(t) IN
    /\ In(t, "routine")
    /\ \/ /\ \/ c.topic \in NotifyFlags /\ InnerBecomes(t, [c EXCEPT !.step = "lock"])
             \/ c.topic \notin NotifyFlags /\ PassOver(t)
          /\ collecting' = IF c.kind = "free" THEN collecting \cup {c.topic[1]} ELSE collecting
       \/ Returns(t) /\ UNCHANGED collecting
    /\ UNCHANGED <<registry, delayed, freed, left>>

(* glSubLock is taken and the pass begins.  NotifySubscribers() takes back *)
(* a bit for which it finds no record.                                     *)
TakeSubLock(t) ==
    LET c == Inner(t)
        list == glSubscriptions[c.topic] IN
    /\ In(t, "lock")
    /\ SubLockIsFor(t)
    /\ \/ /\ list # <<>>
          /\ InnerBecomes(t, [c EXCEPT !.step = "next", !.was = ContextsOf(list)])
          /\ UNCHANGED NotifyFlags
       \/ /\ list = <<>>
          /\ NotifyFlags' = IF c.kind = "Action" THEN NotifyFlags ELSE NotifyFlags \ {c.topic}
          /\ PassOver(t)
    /\ UNCHANGED <<glSubscriptions, delayed, ends, left>>

(* The pass is at a record: it marks it if its subscriber has been freed,  *)
(* and runs the callback otherwise.                                        *)
Visit(t) ==
    LET c == Inner(t)
        list == glSubscriptions[c.topic] IN
    /\ In(t, "next") /\ c.at <= Len(list)
    /\ IF list[c.at].context \in freed
       THEN /\ glSubscriptions' = [glSubscriptions EXCEPT ![c.topic] =
                                       [list EXCEPT ![c.at] = Stale(@)]]
            /\ InnerBecomes(t, [c EXCEPT !.at = @ + 1, !.stale_found = TRUE])
       ELSE /\ InnerBecomes(t, [c EXCEPT !.step = "callback"])
            /\ UNCHANGED glSubscriptions
    /\ UNCHANGED <<NotifyFlags, delayed, ends, left>>

CallbackReturns(t) ==
    /\ In(t, "callback")
    /\ InnerBecomes(t, [Inner(t) EXCEPT !.step = "next", !.at = @ + 1])
    /\ UNCHANGED <<registry, delayed, ends, left>>

-----------------------------------------------------------------------------
(* The end of a pass: the outermost one sweeps the stale records of its    *)
(* topic, applies the subscriptions that were put off, and goes on with    *)
(* the unsubscriptions.                                                    *)

Fresh(r) == ~r.stale
Swept(c) == IF c.stale_found THEN Those(glSubscriptions[c.topic], Fresh)
            ELSE glSubscriptions[c.topic]

Lives(e) == e.context \notin freed
AddDelayed(t, lists) ==
    LET Added(p) == Those(glDelayedSubscribe[t],
                          LAMBDA e : e.topic = p /\ Lives(e))
    IN  [p \in Topics |-> lists[p] \o
            [i \in DOMAIN Added(p) |-> New(Added(p)[i].context)]]

OutermostMissed(t) == glSubReadOnly(t) = 0
Outermost(t) == glSubReadOnly(t) = 1

PassEnds(t) ==
    LET c == Inner(t) IN
    /\ In(t, "next") /\ c.at > Len(glSubscriptions[c.topic])
    /\ \/ /\ ~Outermost(t)
          /\ PassOver(t)
          /\ UNCHANGED <<registry, delayed>>
       \/ /\ Outermost(t)
          /\ glSubscriptions' =
                 AddDelayed(t, [glSubscriptions EXCEPT ![c.topic] = Swept(c)])
          /\ NotifyFlags' = IF c.stale_found /\ Swept(c) = <<>>
                            THEN NotifyFlags \ {c.topic} ELSE NotifyFlags
          /\ glDelayedSubscribe' = [glDelayedSubscribe EXCEPT ![t] = <<>>]
          /\ InnerBecomes(t, [c EXCEPT !.step = "drain"])
          /\ UNCHANGED glDelayedUnsubscribe
    /\ UNCHANGED <<ends, left>>

(* An unsubscription is taken from the list.  For another object than the  *)
(* one of the pass it needs AccessObject(), which fails if that object is  *)
(* terminating or stays locked for three seconds.                          *)
GivesUp(t, e) == e.object \in collecting \/ ~ObjectIsFor(t, e.object)

DrainCurrent(t, e) == Last(Inner(t).was)
DrainContextOf(t, e) == e.context

Drain(t) ==
    LET e == Head(glDelayedUnsubscribe[t]) IN
    /\ In(t, "drain") /\ glDelayedUnsubscribe[t] # <<>>
    /\ glDelayedUnsubscribe' = [glDelayedUnsubscribe EXCEPT ![t] = Tail(@)]
    /\ \/ /\ \/ e.object = Inner(t).topic[1]
             \/ e.object \notin collecting /\ ObjectIsFor(t, e.object)
          /\ Unsubscribe(e.object, e.action, DrainContextOf(t, e))
          /\ UNCHANGED left
       \/ /\ e.object # Inner(t).topic[1]
          /\ GivesUp(t, e)
          /\ left' = left \ (Affected(e.object, e.action) \X {e.context})
          /\ UNCHANGED registry
    /\ UNCHANGED <<glDelayedSubscribe, calls, ends>>

DrainEnds(t) ==
    /\ In(t, "drain") /\ glDelayedUnsubscribe[t] = <<>>
    /\ PassOver(t)
    /\ UNCHANGED <<registry, delayed, ends, left>>

(* The class's Free() has returned: object_free() drops the records of the *)
(* object, if its flags say that there are any.                            *)
Forget(t) ==
    LET o == Inner(t).topic[1]
        flagged == NotifyFlags \cap TopicsOf(o) # {} IN
    /\ In(t, "closing")
    /\ flagged => SubLockIsFor(t)
    /\ glSubscriptions' = [p \in Topics |-> IF flagged /\ p[1] = o THEN <<>>
                                            ELSE glSubscriptions[p]]
    /\ Returns(t)
    /\ UNCHANGED <<NotifyFlags, delayed, ends, left>>

-----------------------------------------------------------------------------
Progress(t) == \/ TakeObject(t) \/ RoutineReturns(t) \/ TakeSubLock(t)
               \/ Visit(t) \/ CallbackReturns(t) \/ PassEnds(t) \/ Drain(t)
               \/ DrainEnds(t) \/ Forget(t)

Client(t) ==
    \/ \E p \in Topics, c \in Contexts : SubscribeAction(t, p, c)
    \/ \E o \in Objects, a \in Scopes, c \in Contexts :
          UnsubscribeAction(t, o, a, c)
    \/ \E c \in Contexts : FreeContext(t, c)
    \/ \E k \in Kinds, p \in Topics : CallBegins(t, k, p)

Next == \E t \in Threads : Progress(t) \/ Client(t)

Spec == Init /\ [][Next]_vars

(* A thread is scheduled, a callback and a routine return, and the wait    *)
(* for a lock that is given back now and then is not in vain for ever.     *)
FairSpec ==
    /\ Spec
    /\ \A t \in Threads :
         /\ SF_vars(Progress(t))
         /\ \A n \in 1..MaxCalls :
               SF_vars(/\ Len(calls[t]) = n
                       /\ RoutineReturns(t) \/ CallbackReturns(t) \/ Forget(t))

-----------------------------------------------------------------------------
(* The variables keep their shapes (struct subscription, unsubscription,   *)
(* ActionSubscription and NotifyFlags).                                    *)
TypeOK ==
    /\ glSubscriptions \in [Topics -> Seq(Record)]
    /\ NotifyFlags \subseteq Topics
    /\ glDelayedSubscribe \in
          [Threads -> Seq([topic : Topics, context : Contexts])]
    /\ glDelayedUnsubscribe \in
          [Threads -> Seq([object : Objects, action : Scopes,
                           context : Contexts])]
    /\ calls \in [Threads -> Seq(Call)]
    /\ freed \subseteq Contexts /\ collecting \subseteq Objects
    /\ left \subseteq Topics \X Contexts

(* One thread at a time is in a pass or in its drain, where it reads and   *)
(* changes glSubscriptions: the lock is kept through all of the callbacks. *)
OneOwner == \A t, u \in Threads : OwnsSubLock(t) /\ OwnsSubLock(u) => t = u

(* What a pass iterates over stays what it was when the pass began, record *)
(* by record, whatever its callbacks, the passes nested in them and other  *)
(* threads do: each subscriber that was there is reached once, in order,   *)
(* and no iterator of an erased list is used.                              *)
PassUndisturbed ==
    \A t \in Threads : \A i \in DOMAIN calls[t] :
        Reading(calls[t][i]) =>
            ContextsOf(glSubscriptions[calls[t][i].topic]) = calls[t][i].was

(* A context whose last word on a topic was UnsubscribeAction() has no     *)
(* record there once the passes are over, except where AccessObject()      *)
(* failed in the drain: the change was put off and applied for the context *)
(* that asked, not for the one that runs when it is applied.               *)
UnsubscribedHasNoRecord ==
    (\A t \in Threads : ~OwnsSubLock(t)) =>
        \A x \in left : x[2] \notin Range(ContextsOf(glSubscriptions[x[1]]))

(* UnsubscribeAction() "will terminate subscriptions" (lib_objects.cpp):   *)
(* when one that was put off is taken from the list, it has been applied.  *)
UnsubscribeTerminates ==
    [][\A t \in Threads : Len(glDelayedUnsubscribe'[t]) < Len(glDelayedUnsubscribe[t]) =>
        LET e == Head(glDelayedUnsubscribe[t]) IN
        \A p \in Affected(e.object, e.action) :
            e.context \notin Range(ContextsOf(glSubscriptions'[p]))]_vars

(* A change that was put off is not forgotten with the thread: it waits    *)
(* only while a pass or its drain runs, so that no later pass of the       *)
(* thread applies it under another object.                                 *)
DelaysEndWithPass ==
    \A t \in Threads : ~OwnsSubLock(t) =>
        glDelayedSubscribe[t] = <<>> /\ glDelayedUnsubscribe[t] = <<>>

(* The bookkeeping of the passes as it is between any two steps. *)
SubscriptionsInv == TypeOK /\ OneOwner /\ DelaysEndWithPass

(* "a callback each time that an action is executed": outside of a pass, a *)
(* topic that has a record has its bit set, or Action() would not look.    *)
RecordsFlagged ==
    (\A t \in Threads : ~OwnsSubLock(t)) =>
        \A p \in Topics : glSubscriptions[p] # <<>> => p \in NotifyFlags

(* object_free() drops the records of the object: a terminated object has  *)
(* none, for nobody would erase them.  Fails where a callback subscribes to *)
(* an object and frees it in the same pass: the drain comes after the end. *)
NoOrphans ==
    (\A t \in Threads : calls[t] = <<>>) =>
        \A p \in Topics : p[1] \in collecting => glSubscriptions[p] = <<>>

(* Every call comes back: the threads that wait for glSubLock and for      *)
(* objects never wait for each other in a circle.                          *)
CallsEnd == \A t \in Threads : calls[t] # <<>> ~> calls[t] = <<>>
=============================================================================
