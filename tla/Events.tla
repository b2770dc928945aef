------------------------------- MODULE Events -------------------------------
(***************************************************************************)
(* System events of the Kotuku core (src/core/lib_events.cpp): the list of *)
(* subscriptions, the mask of groups that somebody listens to, and         *)
(* msg_event(), which calls the subscribers of one event from the message  *)
(* loop while their callbacks change the list under it and may process     *)
(* further messages, and so further events, themselves.                    *)
(*                                                                         *)
(* Everything here runs on the main thread.  A subscription is known by    *)
(* its address: an address that was freed may be allocated again.  An      *)
(* eventsub's Called is only ever compared with glCallSignal, which only   *)
(* grows, so `called' is the set of entries where the two are equal.       *)
(*                                                                         *)
(* A definition that stands right before another one under a longer name   *)
(* is a deviation from the code, there to confirm that the properties      *)
(* notice it.                                                              *)
(***************************************************************************)
EXTENDS Naturals, Sequences, SequencesExt

CONSTANTS
    Subscriptions,  \* the addresses of event subscriptions
    Groups, Names,  \* an event has a group and a name
    EventIDs,       \* the events that are broadcast: a subset of [group, name]
    Filters,        \* what is subscribed to: the name may be Wildcard
    Wildcard, None,
    MaxMessages,    \* bound on the EVENT messages that wait
    MaxNesting      \* bound on the dispatches that are nested in callbacks

ASSUME EventAssumption ==
    /\ Wildcard \notin Names /\ None \notin Subscriptions /\ None \notin Filters
    /\ EventIDs \subseteq [group : Groups, name : Names]
    /\ Filters \subseteq [group : Groups, name : Names \cup {Wildcard}]
    /\ MaxMessages \in Nat \ {0} /\ MaxNesting \in Nat \ {0}

VARIABLES
    glEventList,        \* the subscriptions, the newest first
    EventID,            \* what the holder of each handle subscribed to, or None
    called,             \* the subscriptions whose Called is glCallSignal
    glEventListAltered,
    glEventMask,        \* the groups whose bit is set
    messages,           \* the EVENT messages in the queue
    dispatch,           \* the running calls of msg_event(), the innermost last
    closed              \* has the Core freed the list?

vars == <<glEventList, EventID, called, glEventListAltered, glEventMask,
          messages, dispatch, closed>>

Live == Range(glEventList)
Position(s) == CHOOSE i \in DOMAIN glEventList : glEventList[i] = s
Held == {s \in Subscriptions : EventID[s] # None}

(* (event_msg->EventID & event->EventMask) IS event->EventID *)
Matches(e, s) == /\ EventID[s].group = e.group
                 /\ EventID[s].name \in {e.name, Wildcard}

-----------------------------------------------------------------------------
(* A call of msg_event(): the event, the entry it is at and what it does.  *)
(* "refused" is the failing end of AccessObject(), which gives its pin     *)
(* back; "restart" and "onward" are the end of the block, where the lock   *)
(* of the callback's object is given back; "freed" is a read of a freed    *)
(* entry's Next.  Two ghosts: the subscribers it owes a call (those of the *)
(* event that were there when it began, have not been called and have not  *)
(* left), and whether it has gone on from a freed entry.                   *)

Steps == {"scan", "lock", "refused", "callback", "restart", "onward", "freed"}
Frame == [event : EventIDs, at : Subscriptions \cup {None}, step : Steps,
          due : SUBSET Subscriptions, astray : BOOLEAN]

Inner == Last(dispatch)
In(step) == dispatch # <<>> /\ Inner.step = step
InnerBecomes(f) == dispatch' = Append(Front(dispatch), f)

(* Code of the application runs: outside of any dispatch, in a callback,   *)
(* or in the Free() of an object whose last lock or pin is given back.     *)
ClientSteps == {"callback", "refused", "restart", "onward"}
ClientRuns == dispatch # <<>> => Inner.step \in ClientSteps

Init == /\ glEventList = <<>>
        /\ EventID = [s \in Subscriptions |-> None]
        /\ called = {}
        /\ glEventListAltered = FALSE
        /\ glEventMask = {}
        /\ messages = <<>>
        /\ dispatch = <<>>
        /\ closed = FALSE

-----------------------------------------------------------------------------
BroadcastEvent(e) ==
    /\ ClientRuns
    /\ Len(messages) < MaxMessages
    /\ messages' = IF e.group \in glEventMask THEN Append(messages, e) ELSE messages
    /\ UNCHANGED <<glEventList, EventID, called, glEventListAltered,
                   glEventMask, dispatch, closed>>

(* A new subscription counts as called by the dispatch that is running. *)
CalledUnset(s) == called' = called
CalledSet(s) == called' = called \cup {s}

SubscribeEvent(s, f) ==
    /\ ClientRuns /\ ~closed
    /\ s \notin Held
    /\ glEventList' = <<s>> \o glEventList
    /\ EventID' = [EventID EXCEPT ![s] = f]
    /\ glEventMask' = glEventMask \cup {f.group}
    /\ CalledSet(s)
    /\ UNCHANGED <<glEventListAltered, messages, dispatch, closed>>

ClearMaskAlways(s, rest) == glEventMask \ {EventID[s].group}
ClearMask(s, rest) ==
    IF \E t \in Range(rest) : EventID[t].group = EventID[s].group
    THEN glEventMask ELSE glEventMask \ {EventID[s].group}

AlteredUnset == glEventListAltered
Altered == TRUE

Unlink(s) == RemoveAt(glEventList, Position(s))

(* A handle that is given back when the list is empty, freed by the Core,  *)
(* is ignored.                                                             *)
UnsubscribeEvent(s) ==
    /\ ClientRuns
    /\ s \in Held
    /\ EventID' = [EventID EXCEPT ![s] = None]
    /\ \/ /\ glEventList = <<>>
          /\ UNCHANGED <<glEventList, glEventMask, called, glEventListAltered,
                         dispatch>>
       \/ /\ glEventList # <<>>
          /\ glEventList' = Unlink(s)
          /\ glEventMask' = ClearMask(s, glEventList')
          /\ called' = called \ {s}
          /\ glEventListAltered' = Altered
          /\ dispatch' = [i \in DOMAIN dispatch |->
                             [dispatch[i] EXCEPT !.due = @ \ {s}]]
    /\ UNCHANGED <<messages, closed>>

(* free_events(), when the Core closes: the handles stay with their holders *)
FreeEvents ==
    /\ dispatch = <<>> /\ ~closed
    /\ glEventList' = <<>>
    /\ called' = {}
    /\ closed' = TRUE
    /\ UNCHANGED <<EventID, glEventListAltered, glEventMask, messages, dispatch>>

-----------------------------------------------------------------------------
First == IF glEventList = <<>> THEN None ELSE Head(glEventList)
After(s) == IF Position(s) < Len(glEventList) THEN glEventList[Position(s) + 1] ELSE None

(* ProcessMessages() takes an EVENT message; ++glCallSignal forgets who    *)
(* was called.  A nested call finds the messages that came after the batch *)
(* of the outer one, which may have taken any number of them.              *)
SignalKept == called' = called
RaiseSignal == called' = {}

MsgEvent ==
    /\ ClientRuns
    /\ Len(dispatch) < MaxNesting
    /\ \E i \in DOMAIN messages :
         /\ dispatch = <<>> => i = 1
         /\ messages' = RemoveAt(messages, i)
         /\ dispatch' = Append(dispatch,
              [event |-> messages[i], at |-> First, step |-> "scan",
               due |-> {s \in Live : Matches(messages[i], s)}, astray |-> FALSE])
    /\ RaiseSignal
    /\ UNCHANGED <<glEventList, EventID, glEventListAltered, glEventMask, closed>>

(* The entry is not for this event or was called: on to the next one. *)
ScanPast ==
    /\ In("scan") /\ Inner.at # None
    /\ Inner.at \in called \/ ~Matches(Inner.event, Inner.at)
    /\ InnerBecomes([Inner EXCEPT !.at = After(Inner.at)])
    /\ UNCHANGED <<glEventList, EventID, called, glEventListAltered, glEventMask,
                   messages, closed>>

CalledForgotten(s) == called' = called
SetCalled(s) == called' = called \cup {s}

(* A listener: it is marked, and its object is locked for the callback. *)
ScanFinds ==
    /\ In("scan") /\ Inner.at # None
    /\ Inner.at \notin called /\ Matches(Inner.event, Inner.at)
    /\ SetCalled(Inner.at)
    /\ glEventListAltered' = FALSE
    /\ InnerBecomes([Inner EXCEPT !.step = "lock", !.due = @ \ {Inner.at}])
    /\ UNCHANGED <<glEventList, EventID, glEventMask, messages, closed>>

Restart == InnerBecomes([Inner EXCEPT !.at = First, !.step = "scan"])

(* event = event->Next *)
GoOn == InnerBecomes(IF Inner.at \in Live
                     THEN [Inner EXCEPT !.at = After(Inner.at), !.step = "scan"]
                     ELSE [Inner EXCEPT !.step = "freed"])

(* AccessObject(): the object is locked; or it is gone, or another thread  *)
(* kept it for three seconds, and what AccessObject() had pinned is given  *)
(* back, which may end the object.                                         *)
Granted ==
    /\ In("lock")
    /\ InnerBecomes([Inner EXCEPT !.step = "callback"])
    /\ UNCHANGED <<glEventList, EventID, called, glEventListAltered, glEventMask,
                   messages, closed>>

NotGranted ==
    /\ In("lock")
    /\ InnerBecomes([Inner EXCEPT !.step = "refused"])
    /\ UNCHANGED <<glEventList, EventID, called, glEventListAltered, glEventMask,
                   messages, closed>>

RefusalReturns ==
    /\ In("refused")
    /\ IF glEventListAltered THEN Restart ELSE GoOn
    /\ UNCHANGED <<glEventList, EventID, called, glEventListAltered, glEventMask,
                   messages, closed>>

(* What the callback did to the list is looked at while its object is      *)
(* still locked.                                                           *)
CallbackReturns ==
    /\ In("callback")
    /\ InnerBecomes([Inner EXCEPT !.step =
                         IF glEventListAltered THEN "restart" ELSE "onward"])
    /\ UNCHANGED <<glEventList, EventID, called, glEventListAltered, glEventMask,
                   messages, closed>>

(* ~ScopedObjectLock() has given the lock back.  That ends an object that  *)
(* was marked for it, and nobody looks at what its Free() did to the list. *)
Unlocked ==
    /\ \/ In("restart") /\ Restart
       \/ In("onward") /\ GoOn
    /\ UNCHANGED <<glEventList, EventID, called, glEventListAltered, glEventMask,
                   messages, closed>>

(* The Next of a freed entry: the build may crash or loop (the dispatch    *)
(* stays at "freed"), or find an old pointer to any entry, or none.        *)
GoAstray ==
    /\ In("freed")
    /\ \E x \in Live \cup {None} :
         InnerBecomes([Inner EXCEPT !.at = x, !.step = "scan", !.astray = TRUE])
    /\ UNCHANGED <<glEventList, EventID, called, glEventListAltered, glEventMask,
                   messages, closed>>

DispatchEnds ==
    /\ In("scan") /\ Inner.at = None
    /\ dispatch' = Front(dispatch)
    /\ UNCHANGED <<glEventList, EventID, called, glEventListAltered, glEventMask,
                   messages, closed>>

-----------------------------------------------------------------------------
Loop == ScanPast \/ ScanFinds \/ Granted \/ NotGranted \/ RefusalReturns
          \/ CallbackReturns \/ Unlocked \/ DispatchEnds

Next == \/ \E e \in EventIDs : BroadcastEvent(e)
        \/ \E s \in Subscriptions, f \in Filters : SubscribeEvent(s, f)
        \/ \E s \in Subscriptions : UnsubscribeEvent(s)
        \/ FreeEvents \/ MsgEvent \/ Loop \/ GoAstray

Spec == Init /\ [][Next]_vars

(* The loop goes on, and a callback, or a Free(), returns. *)
FairSpec == Spec /\ WF_vars(Loop)

-----------------------------------------------------------------------------
(* The variables keep their shapes, and the list has no entry twice        *)
(* (SubscribeEvent(), UnsubscribeEvent()).                                 *)
TypeOK ==
    /\ glEventList \in Seq(Subscriptions) /\ IsInjective(glEventList)
    /\ EventID \in [Subscriptions -> Filters \cup {None}]
    /\ called \subseteq Subscriptions
    /\ glEventListAltered \in BOOLEAN /\ closed \in BOOLEAN
    /\ glEventMask \subseteq Groups
    /\ messages \in Seq(EventIDs)
    /\ dispatch \in Seq(Frame)

(* Until the Core closes, the bit of a group is set exactly when somebody  *)
(* is subscribed to an event of the group, so that BroadcastEvent() sends  *)
(* nothing in vain and holds back nothing.                                 *)
MaskAccurate == ~closed => glEventMask = {EventID[s].group : s \in Live}

(* The list of subscriptions with its mask. *)
EventsInv == TypeOK /\ MaskAccurate

(* Whatever a callback frees, or a failing AccessObject(), is noticed: if  *)
(* msg_event() does not start again, the entry that it is at is in the     *)
(* list when the callback returns, or its Next is read after the refusal.  *)
FreeNoticed ==
    [][/\ In("callback") /\ In("onward")' => Inner.at \in Live
       /\ In("refused") => ~In("freed")']_vars

(* A subscriber is called each time that the event is broadcast: when a    *)
(* dispatch is over, none that was subscribed when it began and still is   *)
(* has been left out, whatever the callbacks did to the list, unless the   *)
(* dispatch went on from an entry that the end of its block had freed.     *)
NoneLeftOut ==
    [][Len(dispatch') < Len(dispatch) => Inner.astray \/ Inner.due = {}]_vars

(* A dispatch calls only those it owes a call: nobody twice, and nobody    *)
(* who subscribed after it began, in an old entry's memory or not.         *)
NoneCalledTwice ==
    [][In("scan") /\ In("lock")' => Inner.at \in Inner.due]_vars

(* However its callbacks change the list, a dispatch comes to its end, or  *)
(* reads an entry that was freed: each restart of its scan has one         *)
(* subscriber more behind it.                                              *)
DispatchesEnd == dispatch # <<>> ~> dispatch = <<>> \/ In("freed")

-----------------------------------------------------------------------------
(* What the code does not keep: the lock is given back after the list was  *)
(* looked at and before event->Next is read, and a Free() that runs then   *)
(* may free the entry.                                                     *)

(* msg_event() never reads an entry that was freed. *)
FreedNotRead == \A i \in DOMAIN dispatch : dispatch[i].step # "freed"

(* Every dispatch that ends has called everybody: SubscribeEvent() says    *)
(* that the function "will be called each time that the event is           *)
(* broadcast".                                                             *)
EverybodyCalled == [][Len(dispatch') < Len(dispatch) => Inner.due = {}]_vars
=============================================================================
