------------------------ MODULE SubscriptionsProofs ------------------------
(***************************************************************************)
(* Subscriptions, for any number of threads, objects, actions, subscribers *)
(* and nested calls: one thread at a time is in a pass, what a pass reads  *)
(* is left alone until it ends, what it puts off is applied with it, and   *)
(* who unsubscribes last has no record when the passes are over.           *)
(*                                                                         *)
(* The passes come first (PassInv), for which the types of the calls are   *)
(* enough, and then the records (RecordInv).  That a filtered list is of   *)
(* what the list was takes the least of a set of numbers, which is found   *)
(* by the well-founded order of the finite sets: there is no induction.    *)
(***************************************************************************)
EXTENDS Subscriptions, FiniteSetTheorems, SequenceTheorems, WellFoundedInduction, TLAPS

\* A call whose snapshot is one of W.
CallOf(W) == [kind : Kinds, topic : Topics, step : Steps, at : Nat,
              stale_found : BOOLEAN, was : W]

CallsTyped == \E W : calls \in [Threads -> Seq(CallOf(W))]

DomainsKept ==
    /\ DOMAIN glSubscriptions = Topics
    /\ DOMAIN glDelayedSubscribe = Threads
    /\ DOMAIN glDelayedUnsubscribe = Threads

\* Calls are nested in routines, callbacks and ends of objects.
ClientSteps == {"routine", "callback", "closing"}
Nested == \A t \in Threads : \A i \in DOMAIN calls[t] :
    /\ i < Len(calls[t]) => calls[t][i].step \in ClientSteps
    /\ calls[t][i].step = "closing" => calls[t][i].kind = "free"

\* The drain belongs to the outermost pass, and the subscriptions that were put
\* off are registered by then.
DrainIsOutermost == \A t \in Threads : \A i \in DOMAIN calls[t] :
    calls[t][i].step = "drain" =>
        /\ \A j \in DOMAIN calls[t] : ~Reading(calls[t][j])
        /\ glDelayedSubscribe[t] = <<>>

\* An object does not end in a pass of its own: its thread has it locked.
FreeAlone == \A t \in Threads : \A i, j \in DOMAIN calls[t] :
    j < i /\ calls[t][i].kind = "free" => calls[t][j].topic[1] # calls[t][i].topic[1]

Shape == CallsTyped /\ DomainsKept /\ Nested /\ FreeAlone

PassInv == Shape /\ DrainIsOutermost /\ OneOwner /\ DelaysEndWithPass /\ PassUndisturbed

-----------------------------------------------------------------------------
\* glSubReadOnly counts the passes that a thread is in.
LEMMA ReadOnlyCounts ==
    ASSUME CallsTyped, NEW t \in Threads
    PROVE  /\ glSubReadOnly(t) > 0 <=> \E i \in DOMAIN calls[t] : Reading(calls[t][i])
           /\ glSubReadOnly(t) = 1 => \A i, j \in DOMAIN calls[t] :
                 Reading(calls[t][i]) /\ Reading(calls[t][j]) => i = j
           /\ (\E i : {j \in DOMAIN calls[t] : Reading(calls[t][j])} = {i}) => glSubReadOnly(t) = 1
<1> DEFINE R == {i \in DOMAIN calls[t] : Reading(calls[t][i])}
<1>1. IsFiniteSet(1..Len(calls[t])) /\ DOMAIN calls[t] = 1..Len(calls[t])
  <2>1. Len(calls[t]) \in Nat /\ DOMAIN calls[t] = 1..Len(calls[t])
    BY DEF CallsTyped
  <2>2. QED
    BY <2>1, FS_Interval
<1>2. IsFiniteSet(R)
  BY <1>1, FS_Subset
<1>3. /\ Cardinality(R) \in Nat
      /\ Cardinality(R) = 0 <=> R = {}
  BY <1>2, FS_CardinalityType, FS_EmptySet
<1>4. Cardinality(R) = 1 <=> \E x : R = {x}
  BY <1>2, FS_Singleton
<1>5. QED
  BY <1>3, <1>4 DEF glSubReadOnly

\* What a client may change at once, no pass is reading.
LEMMA NotDelayed ==
    ASSUME PassInv, NEW t \in Threads, ClientRuns(t), ~Delay(t), SubLockIsFor(t)
    PROVE  \A u \in Threads : \A i \in DOMAIN calls[u] : ~Reading(calls[u][i])
<1>1. \A i \in DOMAIN calls[t] : ~Reading(calls[t][i])
  BY ReadOnlyCounts DEF PassInv, Shape, Delay
<1>2. QED
  BY <1>1 DEF SubLockIsFor, OwnsSubLock, Reading

-----------------------------------------------------------------------------
\* The stack of a thread is a sequence, and its innermost call the last of it.
LEMMA Stack ==
    ASSUME CallsTyped, NEW t \in Threads
    PROVE  /\ Len(calls[t]) \in Nat
           /\ DOMAIN calls[t] = 1..Len(calls[t])
           /\ calls[t] # <<>> <=> Len(calls[t]) > 0
           /\ calls[t] # <<>> => Len(calls[t]) \in DOMAIN calls[t]
           /\ Inner(t) = calls[t][Len(calls[t])]
           /\ \A i \in DOMAIN calls[t] :
                 /\ calls[t][i].kind \in Kinds /\ calls[t][i].topic \in Topics
                 /\ calls[t][i].at \in Nat /\ calls[t][i].step \in Steps
                 /\ calls[t][i].stale_found \in BOOLEAN
           /\ calls[t] # <<>> => \E W : Inner(t) \in CallOf(W)
<1>1. PICK W : calls \in [Threads -> Seq(CallOf(W))]
  BY DEF CallsTyped
<1>2. calls[t] \in Seq(CallOf(W))
  BY <1>1
<1>3. \A i \in DOMAIN calls[t] : calls[t][i] \in CallOf(W)
  BY <1>2
<1>4. QED
  BY <1>2, <1>3 DEF Inner, Last, CallOf

\* InnerBecomes() replaces the innermost call and nothing else.
LEMMA InnerReplaced ==
    ASSUME CallsTyped, NEW t \in Threads, calls[t] # <<>>, NEW W1, NEW c \in CallOf(W1),
           InnerBecomes(t, c)
    PROVE  /\ CallsTyped'
           /\ \A u \in Threads \ {t} : calls'[u] = calls[u]
           /\ Len(calls'[t]) = Len(calls[t])
           /\ DOMAIN calls'[t] = DOMAIN calls[t]
           /\ calls'[t][Len(calls[t])] = c
           /\ \A i \in DOMAIN calls[t] : i # Len(calls[t]) => calls'[t][i] = calls[t][i]
<1>1. PICK W : calls \in [Threads -> Seq(CallOf(W))]
  BY DEF CallsTyped
<1> DEFINE s  == [calls[t] EXCEPT ![Len(calls[t])] = c]
           W2 == W \cup W1
<1>2. /\ calls' = [calls EXCEPT ![t] = s]
      /\ calls'[t] = s
      /\ \A u \in Threads \ {t} : calls'[u] = calls[u]
  BY <1>1 DEF InnerBecomes
<1>3. /\ calls[t] \in Seq(CallOf(W)) /\ Len(calls[t]) \in 1..Len(calls[t])
      /\ Len(calls[t]) \in Nat /\ DOMAIN calls[t] = 1..Len(calls[t])
  BY <1>1, Stack
<1>4. CallOf(W) \subseteq CallOf(W2) /\ c \in CallOf(W2)
  BY DEF CallOf
<1>6. \A u \in Threads : calls[u] \in Seq(CallOf(W2))
  <2>1. \A u \in Threads : calls[u] \in Seq(CallOf(W))
    BY <1>1
  <2>2. QED
    BY <1>4, <2>1, SeqMonotonic
<1>5. s \in Seq(CallOf(W2)) /\ Len(s) = Len(calls[t]) /\ DOMAIN s = DOMAIN calls[t]
  <2>1. calls[t] \in Seq(CallOf(W2))
    BY <1>6
  <2>2. QED
    BY <1>3, <1>4, <2>1, ExceptSeq
<1>7. calls' \in [Threads -> Seq(CallOf(W2))]
  BY <1>1, <1>2, <1>5, <1>6
<1>8. QED
  BY <1>2, <1>3, <1>5, <1>7 DEF CallsTyped

\* Returns() removes the innermost call and nothing else.
LEMMA InnerReturned ==
    ASSUME CallsTyped, NEW t \in Threads, calls[t] # <<>>, Returns(t)
    PROVE  /\ CallsTyped'
           /\ \A u \in Threads \ {t} : calls'[u] = calls[u]
           /\ Len(calls'[t]) = Len(calls[t]) - 1
           /\ DOMAIN calls'[t] = 1..(Len(calls[t]) - 1)
           /\ \A i \in DOMAIN calls'[t] :
                 i \in DOMAIN calls[t] /\ i # Len(calls[t]) /\ calls'[t][i] = calls[t][i]
<1>1. PICK W : calls \in [Threads -> Seq(CallOf(W))]
  BY DEF CallsTyped
<1> DEFINE s == SubSeq(calls[t], 1, Len(calls[t]) - 1)
<1>2. /\ calls' = [calls EXCEPT ![t] = s]
      /\ calls'[t] = s
      /\ \A u \in Threads \ {t} : calls'[u] = calls[u]
  BY <1>1 DEF Returns, Front
<1>3. /\ calls[t] \in Seq(CallOf(W)) /\ Len(calls[t]) \in 1..Len(calls[t])
      /\ Len(calls[t]) \in Nat /\ DOMAIN calls[t] = 1..Len(calls[t])
  BY <1>1, Stack
<1>4. /\ s \in Seq(CallOf(W)) /\ Len(s) = Len(calls[t]) - 1
      /\ DOMAIN s = 1..(Len(calls[t]) - 1)
      /\ \A i \in 1..(Len(calls[t]) - 1) : s[i] = calls[t][i]
  BY <1>3
<1>5. calls' \in [Threads -> Seq(CallOf(W))]
  BY <1>1, <1>2, <1>4
<1>6. QED
  BY <1>2, <1>3, <1>4, <1>5 DEF CallsTyped

\* A call that begins becomes the innermost one.
LEMMA InnerBegun ==
    ASSUME CallsTyped, NEW t \in Threads, NEW W1, NEW c \in CallOf(W1),
           calls' = [calls EXCEPT ![t] = Append(@, c)]
    PROVE  /\ CallsTyped'
           /\ \A u \in Threads \ {t} : calls'[u] = calls[u]
           /\ Len(calls'[t]) = Len(calls[t]) + 1
           /\ DOMAIN calls'[t] = 1..(Len(calls[t]) + 1)
           /\ calls'[t][Len(calls'[t])] = c
           /\ \A i \in DOMAIN calls[t] : calls'[t][i] = calls[t][i]
<1>1. PICK W : calls \in [Threads -> Seq(CallOf(W))]
  BY DEF CallsTyped
<1> DEFINE s  == Append(calls[t], c)
           W2 == W \cup W1
<1>2. /\ calls' = [calls EXCEPT ![t] = s]
      /\ calls'[t] = s
      /\ \A u \in Threads \ {t} : calls'[u] = calls[u]
  BY <1>1
<1>3. /\ calls[t] \in Seq(CallOf(W)) /\ Len(calls[t]) \in Nat
      /\ DOMAIN calls[t] = 1..Len(calls[t])
  BY <1>1, Stack
<1>4. CallOf(W) \subseteq CallOf(W2) /\ c \in CallOf(W2)
  BY DEF CallOf
<1>5. \A u \in Threads : calls[u] \in Seq(CallOf(W2))
  <2>1. \A u \in Threads : calls[u] \in Seq(CallOf(W))
    BY <1>1
  <2>2. QED
    BY <1>4, <2>1, SeqMonotonic
<1>6. /\ s \in Seq(CallOf(W2)) /\ Len(s) = Len(calls[t]) + 1
      /\ DOMAIN s = 1..(Len(calls[t]) + 1)
      /\ s[Len(calls[t]) + 1] = c
      /\ \A i \in 1..Len(calls[t]) : s[i] = calls[t][i]
  <2>1. calls[t] \in Seq(CallOf(W2))
    BY <1>5
  <2>2. QED
    BY <1>3, <1>4, <2>1
<1>7. calls' \in [Threads -> Seq(CallOf(W2))]
  BY <1>1, <1>2, <1>5, <1>6
<1>8. QED
  BY <1>2, <1>3, <1>6, <1>7 DEF CallsTyped

-----------------------------------------------------------------------------
\* The shape of the stacks is kept by each way in which they change.
LEMMA ShapeReplaced ==
    ASSUME Shape, DomainsKept', NEW t \in Threads, calls[t] # <<>>,
           NEW W1, NEW c \in CallOf(W1), InnerBecomes(t, c),
           c.kind = Inner(t).kind, c.topic = Inner(t).topic,
           c.step = "closing" => c.kind = "free"
    PROVE  Shape'
<1>1. CallsTyped' /\ CallsTyped
  BY InnerReplaced DEF Shape
<1>2. /\ \A u \in Threads \ {t} : calls'[u] = calls[u]
      /\ Len(calls'[t]) = Len(calls[t]) /\ DOMAIN calls'[t] = DOMAIN calls[t]
      /\ \A i \in DOMAIN calls[t] : i # Len(calls[t]) => calls'[t][i] = calls[t][i]
      /\ \A i \in DOMAIN calls[t] : /\ calls'[t][i].kind = calls[t][i].kind
                                   /\ calls'[t][i].topic = calls[t][i].topic
      /\ calls'[t][Len(calls[t])] = c
  <2>1. calls'[t][Len(calls[t])] = c
    BY <1>1, InnerReplaced
  <2>2. Inner(t) = calls[t][Len(calls[t])]
    BY <1>1, Stack
  <2>3. /\ \A u \in Threads \ {t} : calls'[u] = calls[u]
        /\ Len(calls'[t]) = Len(calls[t]) /\ DOMAIN calls'[t] = DOMAIN calls[t]
        /\ \A i \in DOMAIN calls[t] : i # Len(calls[t]) => calls'[t][i] = calls[t][i]
    BY <1>1, InnerReplaced
  <2>4. QED
    BY <2>1, <2>2, <2>3
<1>3. Nested'
  BY <1>2 DEF Shape, Nested
<1>4. ASSUME NEW u \in Threads, NEW i \in DOMAIN calls'[u], NEW j \in DOMAIN calls'[u],
             j < i, calls'[u][i].kind = "free"
      PROVE  calls'[u][j].topic[1] # calls'[u][i].topic[1]
  <2>1. CASE u = t
    BY <1>2, <1>4, <2>1 DEF Shape, FreeAlone
  <2>2. CASE u # t
    BY <1>2, <1>4, <2>2 DEF Shape, FreeAlone
  <2>3. QED
    BY <2>1, <2>2
<1>5. FreeAlone'
  BY <1>4 DEF FreeAlone
<1>6. QED
  BY <1>1, <1>3, <1>5 DEF Shape

LEMMA ShapeReturned ==
    ASSUME Shape, DomainsKept', NEW t \in Threads, calls[t] # <<>>, Returns(t)
    PROVE  Shape'
<1>1. CallsTyped' /\ CallsTyped
  BY InnerReturned DEF Shape
<1>2. /\ \A u \in Threads \ {t} : calls'[u] = calls[u]
      /\ Len(calls[t]) \in Nat /\ Len(calls'[t]) = Len(calls[t]) - 1
      /\ DOMAIN calls[t] = 1..Len(calls[t])
      /\ DOMAIN calls'[t] = 1..(Len(calls[t]) - 1)
      /\ \A i \in DOMAIN calls'[t] : i \in DOMAIN calls[t] /\ calls'[t][i] = calls[t][i]
  BY <1>1, Stack, InnerReturned
<1>3. ASSUME NEW u \in Threads, NEW i \in DOMAIN calls'[u]
      PROVE  /\ i < Len(calls'[u]) => calls'[u][i].step \in ClientSteps
             /\ calls'[u][i].step = "closing" => calls'[u][i].kind = "free"
  <2>1. CASE u = t
    <3>1. i < Len(calls[t]) /\ i \in DOMAIN calls[t] /\ calls'[t][i] = calls[t][i]
      BY <1>2, <1>3, <2>1
    <3>2. QED
      BY <2>1, <3>1 DEF Shape, Nested
  <2>2. CASE u # t
    BY <1>2, <1>3, <2>2 DEF Shape, Nested
  <2>3. QED
    BY <2>1, <2>2
<1>4. ASSUME NEW u \in Threads, NEW i \in DOMAIN calls'[u], NEW j \in DOMAIN calls'[u],
             j < i, calls'[u][i].kind = "free"
      PROVE  calls'[u][j].topic[1] # calls'[u][i].topic[1]
  <2>1. CASE u = t
    <3>1. /\ i \in DOMAIN calls[t] /\ calls'[t][i] = calls[t][i]
          /\ j \in DOMAIN calls[t] /\ calls'[t][j] = calls[t][j]
      BY <1>2, <1>4, <2>1
    <3>2. QED
      BY <1>4, <2>1, <3>1 DEF Shape, FreeAlone
  <2>2. CASE u # t
    BY <1>2, <1>4, <2>2 DEF Shape, FreeAlone
  <2>3. QED
    BY <2>1, <2>2
<1>5. Nested' /\ FreeAlone'
  BY <1>3, <1>4 DEF Nested, FreeAlone
<1>6. QED
  BY <1>1, <1>5 DEF Shape

\* One owner remains if the thread that moves has waited for its turn.
LEMMA OwnerMoves ==
    ASSUME OneOwner, NEW t \in Threads, \A u \in Threads \ {t} : calls'[u] = calls[u],
           OwnsSubLock(t)' => OwnsSubLock(t) \/ SubLockIsFor(t)
    PROVE  OneOwner'
<1>1. \A u \in Threads \ {t} : OwnsSubLock(u)' <=> OwnsSubLock(u)
  BY DEF OwnsSubLock
<1>2. QED
  BY <1>1 DEF OneOwner, SubLockIsFor

\* Nothing but calls below the innermost one is left when it returns.
LEMMA OwnerReturned ==
    ASSUME CallsTyped, NEW t \in Threads, calls[t] # <<>>, Returns(t)
    PROVE  OwnsSubLock(t)' => OwnsSubLock(t)
  BY InnerReturned DEF OwnsSubLock

\* The pass of the innermost call is the outermost one if no call below it has one.
LEMMA OutermostIsAlone ==
    ASSUME CallsTyped, NEW t \in Threads, calls[t] # <<>>, Reading(Inner(t))
    PROVE  Outermost(t) <=> \A j \in DOMAIN calls[t] : j # Len(calls[t]) => ~Reading(calls[t][j])
<1> DEFINE n == Len(calls[t])
<1>1. n \in DOMAIN calls[t] /\ Reading(calls[t][n])
  BY Stack
<1>2. ASSUME \A j \in DOMAIN calls[t] : j # n => ~Reading(calls[t][j]) PROVE Outermost(t)
  <2>1. {j \in DOMAIN calls[t] : Reading(calls[t][j])} = {n}
    BY <1>1, <1>2
  <2>2. QED
    BY <2>1, ReadOnlyCounts DEF Outermost
<1>3. ASSUME Outermost(t) PROVE \A j \in DOMAIN calls[t] : j # n => ~Reading(calls[t][j])
  BY <1>1, <1>3, ReadOnlyCounts DEF Outermost
<1>4. QED
  BY <1>2, <1>3

\* A pass goes on undisturbed where the lists of the topics keep their contexts
\* and a snapshot is only taken of the list as it is.
LEMMA ListsKept ==
    ASSUME Shape, PassUndisturbed, NEW t \in Threads,
           \A u \in Threads \ {t} : calls'[u] = calls[u],
           \A p \in Topics : ContextsOf(glSubscriptions'[p]) = ContextsOf(glSubscriptions[p]),
           \A i \in DOMAIN calls'[t] : Reading(calls'[t][i]) =>
               \/ /\ i \in DOMAIN calls[t] /\ Reading(calls[t][i])
                  /\ calls'[t][i].topic = calls[t][i].topic
                  /\ calls'[t][i].was = calls[t][i].was
               \/ /\ calls'[t][i].topic \in Topics
                  /\ calls'[t][i].was = ContextsOf(glSubscriptions[calls'[t][i].topic])
    PROVE  PassUndisturbed'
<1>1. SUFFICES ASSUME NEW u \in Threads, NEW i \in DOMAIN calls'[u], Reading(calls'[u][i])
               PROVE  ContextsOf(glSubscriptions'[calls'[u][i].topic]) = calls'[u][i].was
  BY DEF PassUndisturbed, Reading, ContextsOf
<1>2. CASE u = t
  <2>1. CASE /\ calls'[t][i].topic \in Topics
             /\ calls'[t][i].was = ContextsOf(glSubscriptions[calls'[t][i].topic])
    BY <1>2, <2>1
  <2>2. CASE /\ i \in DOMAIN calls[t] /\ Reading(calls[t][i])
             /\ calls'[t][i].topic = calls[t][i].topic
             /\ calls'[t][i].was = calls[t][i].was
    <3>1. calls[t][i].topic \in Topics
      BY <2>2, Stack DEF Shape
    <3>2. QED
      BY <1>2, <2>2, <3>1 DEF PassUndisturbed
  <2>3. QED
    BY <1>1, <1>2, <2>1, <2>2
<1>3. CASE u # t
  <2>1. calls'[u] = calls[u] /\ calls[u][i].topic \in Topics
    BY <1>1, <1>3, Stack DEF Shape
  <2>2. QED
    BY <1>1, <1>3, <2>1 DEF PassUndisturbed
<1>4. QED
  BY <1>2, <1>3

\* The end of an object drops its records.  Passes of the thread itself are of
\* other objects, and other threads have none.
LEMMA ForgetHarmless ==
    ASSUME Shape, PassUndisturbed, NEW t \in Threads, Forget(t)
    PROVE  PassUndisturbed' /\ DOMAIN glSubscriptions' = Topics
<1> DEFINE n == Len(calls[t])
           c == Inner(t)
           flagged == NotifyFlags \cap TopicsOf(c.topic[1]) # {}
<1>1. /\ calls[t] # <<>> /\ c.step = "closing" /\ Returns(t)
      /\ flagged => SubLockIsFor(t)
      /\ glSubscriptions' = [p \in Topics |-> IF flagged /\ p[1] = c.topic[1] THEN <<>>
                                              ELSE glSubscriptions[p]]
  BY DEF Forget, In
<1>2. /\ n \in Nat /\ DOMAIN calls[t] = 1..n /\ n \in DOMAIN calls[t] /\ c = calls[t][n]
  BY <1>1, Stack DEF Shape
<1>3. c.kind = "free"
  BY <1>1, <1>2 DEF Shape, Nested
<1>4. /\ \A u \in Threads \ {t} : calls'[u] = calls[u]
      /\ \A i \in DOMAIN calls'[t] : i \in 1..n /\ i # n /\ calls'[t][i] = calls[t][i]
  BY <1>1, <1>2, InnerReturned DEF Shape
<1>5. /\ DOMAIN glSubscriptions' = Topics
      /\ \A p \in Topics : ~flagged \/ p[1] # c.topic[1] =>
            glSubscriptions'[p] = glSubscriptions[p]
  BY <1>1
<1>6. flagged => \A u \in Threads \ {t} : \A i \in DOMAIN calls[u] : ~Reading(calls[u][i])
  BY <1>1 DEF SubLockIsFor, OwnsSubLock, Reading
<1> HIDE DEF flagged
<1>7. ASSUME NEW u \in Threads, NEW i \in DOMAIN calls'[u], Reading(calls'[u][i])
      PROVE  ContextsOf(glSubscriptions'[calls'[u][i].topic]) = calls'[u][i].was
  <2>1. i \in DOMAIN calls[u] /\ calls'[u][i] = calls[u][i] /\ (u = t => i < n)
    BY <1>2, <1>4, <1>7
  <2>2. calls[u][i].topic \in Topics
    BY <2>1, Stack DEF Shape
  <2>3. ~flagged \/ calls[u][i].topic[1] # c.topic[1]
    <3>1. CASE u = t
      BY <1>2, <1>3, <2>1, <3>1 DEF Shape, FreeAlone
    <3>2. CASE u # t
      BY <1>6, <1>7, <2>1, <3>2
    <3>3. QED
      BY <3>1, <3>2
  <2>4. glSubscriptions'[calls[u][i].topic] = glSubscriptions[calls[u][i].topic]
    BY <1>5, <2>2, <2>3
  <2>5. QED
    BY <1>7, <2>1, <2>4 DEF PassUndisturbed
<1>8. PassUndisturbed'
  BY <1>7 DEF PassUndisturbed, Reading, ContextsOf
<1>9. QED
  BY <1>5, <1>8

-----------------------------------------------------------------------------
\* The actions, one by one.

\* A change of the registry is made at once only if nobody reads it.
LEMMA ChangeStep ==
    ASSUME PassInv, NEW t \in Threads, ClientRuns(t), UNCHANGED calls,
           DomainsKept',
           \/ Delay(t) /\ UNCHANGED glSubscriptions
           \/ ~Delay(t) /\ SubLockIsFor(t) /\ UNCHANGED delayed,
           \A u \in Threads \ {t} : /\ glDelayedSubscribe'[u] = glDelayedSubscribe[u]
                                   /\ glDelayedUnsubscribe'[u] = glDelayedUnsubscribe[u]
    PROVE  PassInv'
<1>1. Shape' /\ OneOwner'
  BY DEF PassInv, Shape, CallsTyped, Nested, FreeAlone, OneOwner, OwnsSubLock
<1>2. PassUndisturbed'
  <2>1. CASE Delay(t) /\ UNCHANGED glSubscriptions
    <3>1. \A p : ContextsOf(glSubscriptions'[p]) = ContextsOf(glSubscriptions[p])
      BY <2>1
    <3>2. QED
      BY <3>1, ListsKept DEF PassInv
  <2>2. CASE ~Delay(t) /\ SubLockIsFor(t) /\ UNCHANGED delayed
    BY <2>2, NotDelayed DEF PassUndisturbed, Reading
  <2>3. QED
    BY <2>1, <2>2
<1>3. Delay(t) => /\ OwnsSubLock(t)
                  /\ \A i \in DOMAIN calls[t] : calls[t][i].step # "drain"
  <2>1. ASSUME Delay(t) PROVE \E i \in DOMAIN calls[t] : Reading(calls[t][i])
    BY <2>1, ReadOnlyCounts DEF PassInv, Shape, Delay
  <2>2. QED
    BY <2>1 DEF PassInv, DrainIsOutermost, OwnsSubLock, Reading
<1>4. DelaysEndWithPass' /\ DrainIsOutermost'
  <2>1. CASE Delay(t) /\ UNCHANGED glSubscriptions
    BY <1>3, <2>1 DEF PassInv, DelaysEndWithPass, DrainIsOutermost, OwnsSubLock, Reading
  <2>2. CASE ~Delay(t) /\ SubLockIsFor(t) /\ UNCHANGED delayed
    BY <2>2 DEF PassInv, DelaysEndWithPass, DrainIsOutermost, OwnsSubLock, Reading, delayed
  <2>3. QED
    BY <2>1, <2>2
<1>5. QED
  BY <1>1, <1>2, <1>4 DEF PassInv

LEMMA SubscribeStep ==
    ASSUME PassInv, NEW t \in Threads, NEW p \in Topics, NEW c \in Contexts,
           SubscribeAction(t, p, c)
    PROVE  PassInv'
<1>1. /\ DomainsKept'
      /\ \/ Delay(t) /\ UNCHANGED glSubscriptions
         \/ ~Delay(t) /\ SubLockIsFor(t) /\ UNCHANGED delayed
      /\ \A u \in Threads \ {t} : /\ glDelayedSubscribe'[u] = glDelayedSubscribe[u]
                                 /\ glDelayedUnsubscribe'[u] = glDelayedUnsubscribe[u]
  BY DEF SubscribeAction, PassInv, Shape, DomainsKept, delayed
<1>2. QED
  BY <1>1, ChangeStep DEF SubscribeAction

LEMMA UnsubscribeDomain ==
    ASSUME NEW o, NEW a, NEW c, Unsubscribe(o, a, c)
    PROVE  DOMAIN glSubscriptions' = Topics
  BY DEF Unsubscribe, Without

LEMMA UnsubscribeStep ==
    ASSUME PassInv, NEW t \in Threads, NEW o \in Objects, NEW a \in Scopes, NEW c \in Contexts,
           UnsubscribeAction(t, o, a, c)
    PROVE  PassInv'
<1>1. /\ DomainsKept'
      /\ \/ Delay(t) /\ UNCHANGED glSubscriptions
         \/ ~Delay(t) /\ SubLockIsFor(t) /\ UNCHANGED delayed
      /\ \A u \in Threads \ {t} : /\ glDelayedSubscribe'[u] = glDelayedSubscribe[u]
                                 /\ glDelayedUnsubscribe'[u] = glDelayedUnsubscribe[u]
  BY UnsubscribeDomain DEF UnsubscribeAction, PassInv, Shape, DomainsKept, delayed, registry
<1>2. QED
  BY <1>1, ChangeStep DEF UnsubscribeAction

\* The innermost call goes on.  It keeps glSubLock, unless a call below it has it or
\* nothing is put off any more.
LEMMA InnerMoves ==
    ASSUME PassInv, NEW t \in Threads, calls[t] # <<>>, NEW W1, NEW c \in CallOf(W1),
           InnerBecomes(t, c), c.kind = Inner(t).kind, c.topic = Inner(t).topic,
           c.step = "closing" => c.kind = "free",
           DomainsKept', UNCHANGED delayed, c.step # "drain",
           \/ Reading(c)
           \/ \E j \in DOMAIN calls[t] : j # Len(calls[t]) /\ Reading(calls[t][j])
           \/ glDelayedSubscribe[t] = <<>> /\ glDelayedUnsubscribe[t] = <<>>,
           Reading(c) =>
               \/ Reading(Inner(t)) /\ c.was = Inner(t).was
               \/ SubLockIsFor(t) /\ c.was = ContextsOf(glSubscriptions[c.topic]),
           \A p \in Topics : ContextsOf(glSubscriptions'[p]) = ContextsOf(glSubscriptions[p])
    PROVE  PassInv'
<1> DEFINE n == Len(calls[t])
<1>1. /\ n \in DOMAIN calls[t] /\ Inner(t) = calls[t][n] /\ c.topic \in Topics
      /\ n \in Nat /\ DOMAIN calls[t] = 1..n
      /\ \A u \in Threads \ {t} : calls'[u] = calls[u]
      /\ Len(calls'[t]) = n /\ DOMAIN calls'[t] = DOMAIN calls[t]
      /\ calls'[t][n] = c
      /\ \A i \in DOMAIN calls[t] : i # n => calls'[t][i] = calls[t][i]
  BY Stack, InnerReplaced DEF PassInv, Shape, CallOf
<1>2. Shape'
  BY ShapeReplaced DEF PassInv
<1>3. OwnsSubLock(t)' \/ (glDelayedSubscribe[t] = <<>> /\ glDelayedUnsubscribe[t] = <<>>)
  BY <1>1 DEF OwnsSubLock, Reading
<1>4. \A i \in DOMAIN calls'[t] : calls'[t][i].step # "drain"
  <2>1. \A i \in DOMAIN calls[t] : i # n => i < n
    BY <1>1
  <2> HIDE DEF n
  <2>2. \A i \in DOMAIN calls[t] : i # n => calls[t][i].step # "drain"
    BY <2>1 DEF PassInv, Shape, Nested, ClientSteps, n
  <2>3. QED
    BY <1>1, <2>2
<1> HIDE DEF n
<1>5. OneOwner'
  <2>1. OwnsSubLock(t)' => OwnsSubLock(t) \/ SubLockIsFor(t)
    BY <1>1, <1>4 DEF OwnsSubLock, Reading
  <2>2. QED
    BY <1>1, <2>1, OwnerMoves DEF PassInv
<1>6. DelaysEndWithPass'
  BY <1>1, <1>3 DEF PassInv, DelaysEndWithPass, OwnsSubLock, delayed
<1>7. DrainIsOutermost'
  BY <1>1, <1>4 DEF PassInv, DrainIsOutermost, Reading, delayed
<1>8. \A i \in DOMAIN calls'[t] : Reading(calls'[t][i]) =>
        \/ /\ i \in DOMAIN calls[t] /\ Reading(calls[t][i])
           /\ calls'[t][i].topic = calls[t][i].topic
           /\ calls'[t][i].was = calls[t][i].was
        \/ /\ calls'[t][i].topic \in Topics
           /\ calls'[t][i].was = ContextsOf(glSubscriptions[calls'[t][i].topic])
  BY <1>1
<1>9. PassUndisturbed'
  BY <1>1, <1>8, ListsKept DEF PassInv
<1>10. QED
  BY <1>2, <1>5, <1>6, <1>7, <1>9 DEF PassInv

\* Where a call that has not got glSubLock is the innermost, a call below it is in a
\* pass, or nothing is put off.
LEMMA BelowOwns ==
    ASSUME PassInv, NEW t \in Threads, calls[t] # <<>>,
           Inner(t).step \in {"object", "routine", "lock", "closing"}
    PROVE  \/ \E j \in DOMAIN calls[t] : j # Len(calls[t]) /\ Reading(calls[t][j])
           \/ glDelayedSubscribe[t] = <<>> /\ glDelayedUnsubscribe[t] = <<>>
<1> DEFINE n == Len(calls[t])
<1>1. n \in Nat /\ DOMAIN calls[t] = 1..n /\ Inner(t) = calls[t][n]
  BY Stack DEF PassInv, Shape
<1>2. CASE OwnsSubLock(t)
  <2>1. PICK j \in DOMAIN calls[t] : calls[t][j].step \in {"next", "callback", "drain"}
    BY <1>2 DEF OwnsSubLock
  <2>2. j # n
    BY <1>1, <2>1
  <2>3. j < n
    BY <1>1, <2>1, <2>2
  <2> HIDE DEF n
  <2>4. calls[t][j].step \in ClientSteps
    BY <2>1, <2>3 DEF PassInv, Shape, Nested, n
  <2>5. Reading(calls[t][j])
    BY <2>1, <2>4 DEF Reading, ClientSteps
  <2>6. QED
    BY <2>1, <2>2, <2>5 DEF n
<1>3. CASE ~OwnsSubLock(t)
  BY <1>3 DEF PassInv, DelaysEndWithPass
<1>4. QED
  BY <1>2, <1>3

\* A call that reads goes on reading, and one that does not has not got glSubLock.
LEMMA InnerStep ==
    ASSUME PassInv, NEW t \in Threads, calls[t] # <<>>, NEW W1, NEW c \in CallOf(W1),
           InnerBecomes(t, c), c.kind = Inner(t).kind, c.topic = Inner(t).topic,
           c.step = "closing" => c.kind = "free",
           DomainsKept', UNCHANGED delayed,
           Inner(t).step # "drain", c.step # "drain",
           Reading(Inner(t)) => Reading(c),
           Reading(c) =>
               \/ Reading(Inner(t)) /\ c.was = Inner(t).was
               \/ SubLockIsFor(t) /\ c.was = ContextsOf(glSubscriptions[c.topic]),
           \A p \in Topics : ContextsOf(glSubscriptions'[p]) = ContextsOf(glSubscriptions[p])
    PROVE  PassInv'
<1>1. Inner(t).step \in Steps
  BY Stack DEF PassInv, Shape
<1>2. \/ Reading(c)
      \/ \E j \in DOMAIN calls[t] : j # Len(calls[t]) /\ Reading(calls[t][j])
      \/ glDelayedSubscribe[t] = <<>> /\ glDelayedUnsubscribe[t] = <<>>
  BY <1>1, BelowOwns DEF Reading, Steps
<1>3. QED
  BY <1>2, InnerMoves

\* The innermost call returns.
LEMMA ReturnStep ==
    ASSUME PassInv, NEW t \in Threads, calls[t] # <<>>, Returns(t),
           DomainsKept', UNCHANGED delayed, PassUndisturbed',
           OwnsSubLock(t)' \/ (glDelayedSubscribe[t] = <<>> /\ glDelayedUnsubscribe[t] = <<>>)
    PROVE  PassInv'
<1>1. /\ \A u \in Threads \ {t} : calls'[u] = calls[u]
      /\ Len(calls[t]) \in Nat /\ DOMAIN calls[t] = 1..Len(calls[t])
      /\ Len(calls'[t]) = Len(calls[t]) - 1
      /\ DOMAIN calls'[t] = 1..(Len(calls[t]) - 1)
      /\ \A i \in DOMAIN calls'[t] :
             i \in DOMAIN calls[t] /\ i # Len(calls[t]) /\ calls'[t][i] = calls[t][i]
  BY Stack, InnerReturned DEF PassInv, Shape
<1>2. Shape'
  BY ShapeReturned DEF PassInv
<1>3. OneOwner'
  BY <1>1, OwnerMoves, OwnerReturned DEF PassInv, Shape
<1>4. DelaysEndWithPass'
  BY <1>1 DEF PassInv, DelaysEndWithPass, OwnsSubLock, delayed
<1>5. \A i \in DOMAIN calls'[t] : calls'[t][i].step # "drain"
  <2>1. \A i \in DOMAIN calls'[t] : i \in DOMAIN calls[t] /\ i < Len(calls[t])
    BY <1>1
  <2>2. QED
    BY <1>1, <2>1 DEF PassInv, Shape, Nested, ClientSteps
<1>6. DrainIsOutermost'
  BY <1>1, <1>5 DEF PassInv, DrainIsOutermost, Reading, delayed
<1>7. QED
  BY <1>2, <1>3, <1>4, <1>6 DEF PassInv

\* A call that has not got glSubLock leaves the passes below it as they are.
LEMMA ReturnBeforePass ==
    ASSUME PassInv, NEW t \in Threads, calls[t] # <<>>, Returns(t),
           Inner(t).step \in {"object", "routine", "lock", "closing"}, DomainsKept',
           UNCHANGED delayed, PassUndisturbed'
    PROVE  PassInv'
<1>1. /\ DOMAIN calls[t] = 1..Len(calls[t]) /\ Len(calls[t]) \in Nat
      /\ Inner(t) = calls[t][Len(calls[t])]
      /\ DOMAIN calls'[t] = 1..(Len(calls[t]) - 1)
      /\ \A i \in DOMAIN calls'[t] : calls'[t][i] = calls[t][i]
  BY Stack, InnerReturned DEF PassInv, Shape
<1>2. OwnsSubLock(t) => OwnsSubLock(t)'
  <2>1. ASSUME NEW i \in DOMAIN calls[t], calls[t][i].step \in {"next", "callback", "drain"}
        PROVE  i \in DOMAIN calls'[t]
    BY <1>1, <2>1
  <2>2. QED
    BY <1>1, <2>1 DEF OwnsSubLock
<1>3. QED
  BY <1>2, ReturnStep DEF PassInv, DelaysEndWithPass

\* Where nobody is left to be notified, an action returns, and the end of an object
\* goes on to the class's Free().
LEMMA PassOverStep ==
    ASSUME PassInv, NEW t \in Threads, calls[t] # <<>>, PassOver(t), DomainsKept',
           UNCHANGED <<glSubscriptions, delayed>>,
           \/ \E j \in DOMAIN calls[t] : j # Len(calls[t]) /\ Reading(calls[t][j])
           \/ glDelayedSubscribe[t] = <<>> /\ glDelayedUnsubscribe[t] = <<>>
    PROVE  PassInv'
<1> DEFINE c == Inner(t)
           d == [c EXCEPT !.step = "closing"]
<1>1. PICK W : c \in CallOf(W)
  BY Stack DEF PassInv, Shape
<1>2. CASE c.kind = "free" /\ InnerBecomes(t, d)
  <2>1. d \in CallOf(W) /\ d.kind = c.kind /\ d.topic = c.topic /\ d.step = "closing"
    <3> HIDE DEF c
    <3>1. QED
      BY <1>1 DEF CallOf, Steps
  <2> HIDE DEF d
  <2>2. QED
    BY <1>2, <2>1, InnerMoves DEF Reading
<1>3. CASE Returns(t)
  <2>1. /\ \A u \in Threads \ {t} : calls'[u] = calls[u]
        /\ DOMAIN calls[t] = 1..Len(calls[t]) /\ Len(calls[t]) \in Nat
        /\ DOMAIN calls'[t] = 1..(Len(calls[t]) - 1)
        /\ \A i \in DOMAIN calls'[t] : i \in DOMAIN calls[t] /\ calls'[t][i] = calls[t][i]
    BY <1>3, Stack, InnerReturned DEF PassInv, Shape
  <2>2. PassUndisturbed'
    BY <2>1, ListsKept DEF PassInv
  <2>3. OwnsSubLock(t)' \/ (glDelayedSubscribe[t] = <<>> /\ glDelayedUnsubscribe[t] = <<>>)
    <3>1. \A j \in DOMAIN calls[t] : j # Len(calls[t]) => j \in DOMAIN calls'[t]
      BY <2>1
    <3>2. QED
      BY <2>1, <3>1 DEF OwnsSubLock, Reading
  <2>4. QED
    BY <1>3, <2>2, <2>3, ReturnStep
<1>4. QED
  BY <1>2, <1>3 DEF PassOver

LEMMA BeginStep ==
    ASSUME PassInv, NEW t \in Threads, NEW k \in Kinds, NEW p \in Topics, CallBegins(t, k, p)
    PROVE  PassInv'
<1> DEFINE n == Len(calls[t])
<1>1. PICK c \in CallOf({<<>>}) :
        /\ calls' = [calls EXCEPT ![t] = Append(@, c)]
        /\ c.kind = k /\ c.topic = p /\ c.step = "object"
  <2> DEFINE d == [kind |-> k, topic |-> p, step |-> "object", at |-> 1,
                   stale_found |-> FALSE, was |-> <<>>]
  <2>1. d \in CallOf({<<>>}) /\ d.kind = k /\ d.topic = p /\ d.step = "object"
    BY DEF CallOf, Steps
  <2>2. calls' = [calls EXCEPT ![t] = Append(@, d)]
    BY DEF CallBegins
  <2> HIDE DEF d
  <2>3. QED
    BY <2>1, <2>2
<1>2. CallsTyped /\ CallsTyped'
  BY <1>1, InnerBegun DEF PassInv, Shape
<1>3. /\ n \in Nat /\ DOMAIN calls[t] = 1..n
      /\ \A u \in Threads \ {t} : calls'[u] = calls[u]
      /\ Len(calls'[t]) = n + 1 /\ DOMAIN calls'[t] = 1..(n + 1)
      /\ calls'[t][n + 1] = c
      /\ \A i \in 1..n : calls'[t][i] = calls[t][i]
  <2>1. n \in Nat /\ DOMAIN calls[t] = 1..n
    BY <1>2, Stack
  <2>2. /\ \A u \in Threads \ {t} : calls'[u] = calls[u]
        /\ Len(calls'[t]) = n + 1 /\ DOMAIN calls'[t] = 1..(n + 1)
        /\ \A i \in DOMAIN calls[t] : calls'[t][i] = calls[t][i]
    BY <1>1, <1>2, InnerBegun, Zenon
  <2>3. calls'[t][Len(calls'[t])] = c
    BY <1>1, <1>2, InnerBegun, ZenonT(90)
  <2> HIDE DEF n
  <2>4. QED
    BY <2>1, <2>2, <2>3
<1>4. \A i \in 1..n : calls[t][i].step \in ClientSteps
  <2>1. n > 0 => calls[t][n].step \in ClientSteps
    BY <1>2, Stack DEF CallBegins, ClientRuns, In, ClientSteps
  <2>2. \A i \in 1..n : i = n \/ i < n
    BY <1>3
  <2>3. QED
    BY <1>3, <2>1, <2>2 DEF PassInv, Shape, Nested
<1> HIDE DEF n
<1>5. Nested'
  <2>1. ASSUME NEW i \in DOMAIN calls'[t]
        PROVE  /\ i < Len(calls'[t]) => calls'[t][i].step \in ClientSteps
               /\ calls'[t][i].step = "closing" => calls'[t][i].kind = "free"
    <3>1. i = n + 1 \/ (i \in 1..n /\ i \in DOMAIN calls[t] /\ calls'[t][i] = calls[t][i])
      BY <1>3, <2>1
    <3>2. CASE i = n + 1
      BY <1>1, <1>3, <3>2
    <3>3. CASE i \in 1..n /\ i \in DOMAIN calls[t] /\ calls'[t][i] = calls[t][i]
      BY <1>4, <3>3 DEF PassInv, Shape, Nested
    <3>4. QED
      BY <3>1, <3>2, <3>3
  <2>2. QED
    BY <1>3, <2>1 DEF PassInv, Shape, Nested
<1>6. FreeAlone'
  <2>1. ASSUME NEW i \in DOMAIN calls'[t], NEW j \in DOMAIN calls'[t], j < i,
               calls'[t][i].kind = "free"
        PROVE  calls'[t][j].topic[1] # calls'[t][i].topic[1]
    <3>1. j \in 1..n /\ (i \in 1..n \/ i = n + 1)
      BY <1>3, <2>1
    <3>2. CASE i \in 1..n
      <4>1. /\ i \in DOMAIN calls[t] /\ j \in DOMAIN calls[t]
            /\ calls'[t][i] = calls[t][i] /\ calls'[t][j] = calls[t][j]
        BY <1>3, <3>1, <3>2
      <4>2. QED
        BY <2>1, <4>1 DEF PassInv, Shape, FreeAlone
    <3>3. CASE i = n + 1
      <4>1. ~LocksObject(t, p[1])
        BY <1>1, <1>3, <2>1, <3>3 DEF CallBegins
      <4>2. calls[t][j].topic[1] # p[1]
        BY <1>3, <1>4, <3>1, <4>1 DEF LocksObject, ClientSteps
      <4>3. QED
        BY <1>1, <1>3, <3>1, <3>3, <4>2
    <3>4. QED
      BY <3>1, <3>2, <3>3
  <2>2. ASSUME NEW u \in Threads \ {t}, NEW i \in DOMAIN calls'[u], NEW j \in DOMAIN calls'[u],
               j < i, calls'[u][i].kind = "free"
        PROVE  calls'[u][j].topic[1] # calls'[u][i].topic[1]
    BY <1>3, <2>2 DEF PassInv, Shape, FreeAlone
  <2>3. QED
    BY <2>1, <2>2 DEF FreeAlone
<1>7. Shape'
  BY <1>2, <1>5, <1>6 DEF PassInv, Shape, DomainsKept, CallBegins, registry, delayed
<1>8. OwnsSubLock(t)' <=> OwnsSubLock(t)
  <2>1. \A i \in DOMAIN calls'[t] : i \in 1..n \/ (i = n + 1 /\ calls'[t][i].step = "object")
    BY <1>1, <1>3
  <2>2. 1..n \subseteq DOMAIN calls'[t]
    BY <1>3
  <2>3. QED
    BY <1>3, <2>1, <2>2 DEF OwnsSubLock
<1>9. OneOwner'
  BY <1>3, <1>8, OwnerMoves DEF PassInv
<1>10. DelaysEndWithPass'
  BY <1>3, <1>8 DEF PassInv, DelaysEndWithPass, OwnsSubLock, CallBegins, delayed
<1>11. \A i \in DOMAIN calls'[t] : calls'[t][i].step # "drain"
  <2>1. \A i \in DOMAIN calls'[t] : i \in 1..n \/ i = n + 1
    BY <1>3
  <2>2. QED
    BY <1>1, <1>3, <1>4, <2>1 DEF ClientSteps
<1>12. DrainIsOutermost'
  BY <1>3, <1>11 DEF PassInv, DrainIsOutermost, Reading, CallBegins, delayed
<1>13. PassUndisturbed'
  <2>1. \A i \in DOMAIN calls'[t] : Reading(calls'[t][i]) =>
          /\ i \in DOMAIN calls[t] /\ Reading(calls[t][i])
          /\ calls'[t][i].topic = calls[t][i].topic
          /\ calls'[t][i].was = calls[t][i].was
    <3>1. \A i \in DOMAIN calls'[t] : i \in 1..n \/ (i = n + 1 /\ calls'[t][i].step = "object")
      BY <1>1, <1>3
    <3>2. QED
      BY <1>3, <3>1 DEF Reading
  <2>2. UNCHANGED glSubscriptions
    BY DEF CallBegins, registry
  <2>3. QED
    BY <1>3, <2>1, <2>2, ListsKept DEF PassInv
<1>14. QED
  BY <1>7, <1>9, <1>10, <1>12, <1>13 DEF PassInv

\* The innermost call and its innermost step.
LEMMA InnerTyped ==
    ASSUME PassInv, NEW t \in Threads, NEW step, In(t, step)
    PROVE  /\ calls[t] # <<>> /\ Inner(t).step = step /\ Inner(t).topic \in Topics
           /\ \E W : Inner(t) \in CallOf(W)
  BY Stack DEF PassInv, Shape, In

\* An owner's step is under way.
LEMMA InnerOwns ==
    ASSUME PassInv, NEW t \in Threads, calls[t] # <<>>,
           Inner(t).step \in {"next", "callback", "drain"}
    PROVE  OwnsSubLock(t)
  BY Stack DEF PassInv, Shape, OwnsSubLock

LEMMA TakeObjectStep ==
    ASSUME PassInv, NEW t \in Threads, TakeObject(t)
    PROVE  PassInv'
<1> DEFINE c == Inner(t)
<1>1. In(t, "object") /\ UNCHANGED <<registry, delayed>>
  BY DEF TakeObject
<1>2. /\ calls[t] # <<>> /\ c.step = "object" /\ c.topic \in Topics
  BY <1>1, InnerTyped
<1>3. PICK W : c \in CallOf(W)
  BY <1>1, InnerTyped
<1>4. DomainsKept' /\ UNCHANGED <<glSubscriptions, delayed>>
  BY <1>1 DEF PassInv, Shape, DomainsKept, registry, delayed
<1>5. CASE InnerBecomes(t, [c EXCEPT !.step = "routine"])
  <2> DEFINE d == [c EXCEPT !.step = "routine"]
  <2>1. d \in CallOf(W) /\ d.kind = c.kind /\ d.topic = c.topic /\ d.step = "routine"
    BY <1>3 DEF CallOf, Steps
  <2> HIDE DEF c, d
  <2>2. QED
    BY <1>2, <1>4, <1>5, <2>1, InnerStep DEF Reading, ContextsOf, c, d
<1>6. CASE Returns(t)
  <2>1. PassUndisturbed'
    <3>1. /\ \A u \in Threads \ {t} : calls'[u] = calls[u]
          /\ \A i \in DOMAIN calls'[t] : i \in DOMAIN calls[t] /\ calls'[t][i] = calls[t][i]
      BY <1>2, <1>6, InnerReturned DEF PassInv, Shape
    <3>2. QED
      BY <1>4, <3>1, ListsKept DEF PassInv
  <2>2. QED
    BY <1>2, <1>4, <1>6, <2>1, ReturnBeforePass
<1>7. QED
  BY <1>5, <1>6 DEF TakeObject

LEMMA RoutineReturnsStep ==
    ASSUME PassInv, NEW t \in Threads, RoutineReturns(t)
    PROVE  PassInv'
<1> DEFINE c == Inner(t)
           d == [c EXCEPT !.step = "lock"]
<1>1. In(t, "routine") /\ UNCHANGED <<registry, delayed>>
  BY DEF RoutineReturns
<1>2. /\ calls[t] # <<>> /\ c.step = "routine" /\ c.topic \in Topics
  BY <1>1, InnerTyped
<1>3. PICK W : c \in CallOf(W)
  BY <1>1, InnerTyped
<1>4. DomainsKept' /\ UNCHANGED <<glSubscriptions, delayed>>
  BY <1>1 DEF PassInv, Shape, DomainsKept, registry, delayed
<1>5. CASE InnerBecomes(t, d)
  <2>1. d \in CallOf(W) /\ d.kind = c.kind /\ d.topic = c.topic /\ d.step = "lock"
    <3> HIDE DEF c
    <3>1. QED
      BY <1>3 DEF CallOf, Steps
  <2> HIDE DEF c, d
  <2>2. QED
    BY <1>2, <1>4, <1>5, <2>1, InnerStep DEF Reading, ContextsOf, c, d
<1>6. CASE PassOver(t)
  BY <1>2, <1>4, <1>6, BelowOwns, PassOverStep
<1>7. CASE Returns(t)
  <2>1. /\ \A u \in Threads \ {t} : calls'[u] = calls[u]
        /\ \A i \in DOMAIN calls'[t] : i \in DOMAIN calls[t] /\ calls'[t][i] = calls[t][i]
    BY <1>2, <1>7, InnerReturned DEF PassInv, Shape
  <2>2. PassUndisturbed'
    BY <1>4, <2>1, ListsKept DEF PassInv
  <2>3. QED
    BY <1>2, <1>4, <1>7, <2>2, ReturnBeforePass
<1>8. QED
  BY <1>5, <1>6, <1>7 DEF RoutineReturns

LEMMA TakeSubLockStep ==
    ASSUME PassInv, NEW t \in Threads, TakeSubLock(t)
    PROVE  PassInv'
<1> DEFINE c == Inner(t)
           list == glSubscriptions[c.topic]
           d == [c EXCEPT !.step = "next", !.was = ContextsOf(list)]
<1>1. In(t, "lock") /\ SubLockIsFor(t) /\ UNCHANGED <<glSubscriptions, delayed>>
  BY DEF TakeSubLock
<1>2. /\ calls[t] # <<>> /\ c.step = "lock" /\ c.topic \in Topics
  BY <1>1, InnerTyped
<1>3. PICK W : c \in CallOf(W)
  BY <1>1, InnerTyped
<1>4. CASE InnerBecomes(t, d)
  <2>1. /\ d \in CallOf({ContextsOf(list)}) /\ d.kind = c.kind /\ d.topic = c.topic
        /\ d.step = "next" /\ d.was = ContextsOf(list)
    BY <1>3 DEF CallOf, Steps
  <2>2. DomainsKept' /\ UNCHANGED glSubscriptions
    BY <1>1 DEF PassInv, Shape, DomainsKept, delayed
  <2> HIDE DEF d
  <2>3. QED
    BY <1>1, <1>2, <1>4, <2>1, <2>2, InnerStep DEF Reading
<1>5. CASE PassOver(t)
  <2>1. DomainsKept'
    BY <1>1 DEF PassInv, Shape, DomainsKept, delayed
  <2>2. QED
    BY <1>1, <1>2, <1>5, <2>1, BelowOwns, PassOverStep
<1>6. QED
  BY <1>4, <1>5 DEF TakeSubLock

LEMMA VisitStep ==
    ASSUME PassInv, NEW t \in Threads, Visit(t)
    PROVE  PassInv'
<1> DEFINE c == Inner(t)
           list == glSubscriptions[c.topic]
<1>1. In(t, "next") /\ UNCHANGED delayed
  BY DEF Visit
<1>2. /\ calls[t] # <<>> /\ c.step = "next" /\ c.topic \in Topics
  BY <1>1, InnerTyped
<1>3. PICK W : c \in CallOf(W)
  BY <1>1, InnerTyped
<1>4. PICK d \in CallOf(W) : /\ InnerBecomes(t, d)
                             /\ d.kind = c.kind /\ d.topic = c.topic /\ d.was = c.was
                             /\ d.step \in {"next", "callback"}
  <2>1. [c EXCEPT !.at = @ + 1, !.stale_found = TRUE] \in CallOf(W)
    <3> HIDE DEF c
    <3>1. c.at + 1 \in Nat
      BY <1>3 DEF CallOf
    <3>2. QED
      BY <1>3, <3>1 DEF CallOf
  <2>2. [c EXCEPT !.step = "callback"] \in CallOf(W)
    BY <1>3 DEF CallOf, Steps
  <2>3. QED
    BY <1>2, <1>3, <2>1, <2>2 DEF Visit, CallOf
<1>5. /\ DOMAIN glSubscriptions' = Topics
      /\ \A p \in Topics : ContextsOf(glSubscriptions'[p]) = ContextsOf(glSubscriptions[p])
  <2>1. CASE UNCHANGED glSubscriptions
    BY <2>1 DEF PassInv, Shape, DomainsKept
  <2>2. CASE glSubscriptions' = [glSubscriptions EXCEPT ![c.topic] =
                                    [list EXCEPT ![c.at] = Stale(@)]]
    <3> DEFINE marked == [list EXCEPT ![c.at] = Stale(list[c.at])]
    <3>1. /\ DOMAIN glSubscriptions' = Topics
          /\ glSubscriptions'[c.topic] = marked
          /\ \A p \in Topics : p # c.topic => glSubscriptions'[p] = glSubscriptions[p]
      <4> HIDE DEF c
      <4>1. DOMAIN glSubscriptions = Topics
        BY DEF PassInv, Shape, DomainsKept
      <4>2. glSubscriptions' = [glSubscriptions EXCEPT ![c.topic] = marked]
        BY <2>2
      <4> HIDE DEF marked
      <4>3. QED
        BY <1>2, <4>1, <4>2
    <3>2. DOMAIN marked = DOMAIN list /\ \A i \in DOMAIN list : marked[i].context = list[i].context
      BY DEF Stale
    <3>3. ContextsOf(marked) = ContextsOf(list)
      BY <3>2 DEF ContextsOf
    <3>4. QED
      BY <3>1, <3>3
  <2>3. QED
    BY <2>1, <2>2 DEF Visit
<1>6. DomainsKept'
  BY <1>1, <1>5 DEF PassInv, Shape, DomainsKept, delayed
<1>7. QED
  BY <1>1, <1>2, <1>4, <1>5, <1>6, InnerStep DEF Reading

LEMMA CallbackReturnsStep ==
    ASSUME PassInv, NEW t \in Threads, CallbackReturns(t)
    PROVE  PassInv'
<1> DEFINE c == Inner(t)
           d == [c EXCEPT !.step = "next", !.at = @ + 1]
<1>1. In(t, "callback") /\ UNCHANGED <<registry, delayed>> /\ InnerBecomes(t, d)
  BY DEF CallbackReturns
<1>2. /\ calls[t] # <<>> /\ c.step = "callback" /\ c.topic \in Topics
  BY <1>1, InnerTyped
<1>3. PICK W : c \in CallOf(W)
  BY <1>1, InnerTyped
<1>4. /\ d \in CallOf(W) /\ d.kind = c.kind /\ d.topic = c.topic
      /\ d.step = "next" /\ d.was = c.was
  <2> HIDE DEF c
  <2>1. c.at + 1 \in Nat
    BY <1>3 DEF CallOf
  <2>2. QED
    BY <1>3, <2>1 DEF CallOf, Steps
<1>5. DomainsKept' /\ UNCHANGED glSubscriptions
  BY <1>1 DEF PassInv, Shape, DomainsKept, registry, delayed
<1> HIDE DEF d
<1>6. QED
  BY <1>1, <1>2, <1>4, <1>5, InnerStep DEF Reading

LEMMA PassEndsStep ==
    ASSUME PassInv, NEW t \in Threads, PassEnds(t)
    PROVE  PassInv'
<1> DEFINE c == Inner(t)
           d == [c EXCEPT !.step = "drain"]
           n == Len(calls[t])
<1>1. In(t, "next")
  BY DEF PassEnds
<1>2. /\ calls[t] # <<>> /\ c.step = "next" /\ c.topic \in Topics /\ OwnsSubLock(t)
  BY <1>1, InnerTyped, InnerOwns
<1>3. PICK W : c \in CallOf(W)
  BY <1>1, InnerTyped
<1>4. /\ n \in Nat /\ n > 0 /\ DOMAIN calls[t] = 1..n /\ c = calls[t][n]
      /\ Outermost(t) <=> \A j \in DOMAIN calls[t] : j # n => ~Reading(calls[t][j])
  BY <1>2, Stack, OutermostIsAlone DEF PassInv, Shape, Reading
<1>5. CASE ~Outermost(t) /\ PassOver(t) /\ UNCHANGED <<registry, delayed>>
  <2>1. DomainsKept' /\ UNCHANGED <<glSubscriptions, delayed>>
    BY <1>5 DEF PassInv, Shape, DomainsKept, registry, delayed
  <2>2. QED
    BY <1>2, <1>4, <1>5, <2>1, PassOverStep
<1>6. CASE /\ Outermost(t) /\ InnerBecomes(t, d) /\ DOMAIN glSubscriptions' = Topics
           /\ glDelayedSubscribe' = [glDelayedSubscribe EXCEPT ![t] = <<>>]
           /\ UNCHANGED glDelayedUnsubscribe
  <2>1. d \in CallOf(W) /\ d.kind = c.kind /\ d.topic = c.topic /\ d.step = "drain"
    <3> HIDE DEF c
    <3>1. QED
      BY <1>3 DEF CallOf, Steps
  <2> HIDE DEF d
  <2>2. DomainsKept'
    BY <1>6 DEF PassInv, Shape, DomainsKept
  <2>3. Shape'
    BY <1>2, <1>6, <2>1, <2>2, ShapeReplaced DEF PassInv
  <2>4. /\ \A u \in Threads \ {t} : calls'[u] = calls[u]
        /\ DOMAIN calls'[t] = DOMAIN calls[t] /\ n \in DOMAIN calls[t] /\ calls'[t][n] = d
        /\ \A i \in DOMAIN calls[t] : i # n => calls'[t][i] = calls[t][i]
    BY <1>2, <1>4, <1>6, <2>1, InnerReplaced DEF PassInv, Shape
  <2> HIDE DEF n
  <2>4a. \A i \in DOMAIN calls'[t] : ~Reading(calls'[t][i])
    BY <1>4, <1>6, <2>1, <2>4 DEF Reading
  <2>5. OneOwner'
    BY <1>2, <2>4, OwnerMoves DEF PassInv
  <2>6. OwnsSubLock(t)'
    BY <2>1, <2>4 DEF OwnsSubLock
  <2>7. DelaysEndWithPass'
    BY <1>6, <2>4, <2>6 DEF PassInv, DelaysEndWithPass, OwnsSubLock, Shape, DomainsKept
  <2>8. DrainIsOutermost'
    BY <1>6, <2>4, <2>4a DEF PassInv, DrainIsOutermost, Shape, DomainsKept, Reading
  <2>9. \A u \in Threads : \A i \in DOMAIN calls'[u] : ~Reading(calls'[u][i])
    BY <2>5, <2>6, <2>4a DEF OneOwner, OwnsSubLock, Reading
  <2>10. PassUndisturbed'
    BY <2>9 DEF PassUndisturbed, Reading
  <2>11. QED
    BY <2>3, <2>5, <2>7, <2>8, <2>10 DEF PassInv
<1>7. QED
  BY <1>5, <1>6 DEF PassEnds, AddDelayed

\* The thread of a drain has no pass, and no other thread has one.
LEMMA DrainReadsNothing ==
    ASSUME PassInv, NEW t \in Threads, In(t, "drain")
    PROVE  /\ OwnsSubLock(t) /\ glDelayedSubscribe[t] = <<>>
           /\ \A u \in Threads : \A i \in DOMAIN calls[u] : ~Reading(calls[u][i])
<1>1. /\ calls[t] # <<>> /\ Inner(t).step = "drain" /\ OwnsSubLock(t)
  BY InnerTyped, InnerOwns
<1>2. Len(calls[t]) \in DOMAIN calls[t] /\ Inner(t) = calls[t][Len(calls[t])]
  BY <1>1, Stack DEF PassInv, Shape
<1>3. /\ glDelayedSubscribe[t] = <<>>
      /\ \A i \in DOMAIN calls[t] : ~Reading(calls[t][i])
  BY <1>1, <1>2 DEF PassInv, DrainIsOutermost
<1>4. \A u \in Threads \ {t} : ~OwnsSubLock(u)
  BY <1>1 DEF PassInv, OneOwner
<1>5. QED
  BY <1>1, <1>3, <1>4 DEF OwnsSubLock, Reading

LEMMA DrainStep ==
    ASSUME PassInv, NEW t \in Threads, Drain(t)
    PROVE  PassInv'
<1>1. In(t, "drain") /\ UNCHANGED <<glDelayedSubscribe, calls>>
      /\ glDelayedUnsubscribe' = [glDelayedUnsubscribe EXCEPT ![t] = Tail(@)]
  BY DEF Drain
<1>2. DOMAIN glSubscriptions' = Topics
  BY UnsubscribeDomain DEF Drain, PassInv, Shape, DomainsKept, registry
<1>3. Shape'
  BY <1>1, <1>2 DEF PassInv, Shape, DomainsKept, CallsTyped, Nested, FreeAlone
<1>4. OneOwner' /\ DrainIsOutermost'
  BY <1>1 DEF PassInv, OneOwner, OwnsSubLock, DrainIsOutermost, Reading
<1>5. DelaysEndWithPass'
  <2>1. OwnsSubLock(t)
    BY <1>1, DrainReadsNothing
  <2>2. QED
    BY <1>1, <2>1 DEF PassInv, DelaysEndWithPass, OwnsSubLock, Shape, DomainsKept
<1>6. PassUndisturbed'
  BY <1>1, DrainReadsNothing DEF PassUndisturbed, Reading
<1>7. QED
  BY <1>3, <1>4, <1>5, <1>6 DEF PassInv

LEMMA DrainEndsStep ==
    ASSUME PassInv, NEW t \in Threads, DrainEnds(t)
    PROVE  PassInv'
<1>1. /\ In(t, "drain") /\ glDelayedUnsubscribe[t] = <<>> /\ PassOver(t)
      /\ UNCHANGED <<registry, delayed>>
  BY DEF DrainEnds
<1>2. calls[t] # <<>> /\ glDelayedSubscribe[t] = <<>>
  BY <1>1, InnerTyped, DrainReadsNothing
<1>3. DomainsKept' /\ UNCHANGED <<glSubscriptions, delayed>>
  BY <1>1 DEF PassInv, Shape, DomainsKept, registry, delayed
<1>4. QED
  BY <1>1, <1>2, <1>3, PassOverStep

LEMMA ForgetStep ==
    ASSUME PassInv, NEW t \in Threads, Forget(t)
    PROVE  PassInv'
<1>1. In(t, "closing") /\ Returns(t) /\ UNCHANGED delayed
  BY DEF Forget
<1>2. calls[t] # <<>> /\ Inner(t).step = "closing"
  BY <1>1, InnerTyped
<1>3. PassUndisturbed' /\ DOMAIN glSubscriptions' = Topics
  BY ForgetHarmless DEF PassInv
<1>4. DomainsKept'
  BY <1>1, <1>3 DEF PassInv, Shape, DomainsKept, delayed
<1>5. QED
  BY <1>1, <1>2, <1>3, <1>4, ReturnBeforePass

LEMMA OtherStep ==
    ASSUME PassInv, UNCHANGED <<registry, delayed, calls>>
    PROVE  PassInv'
  BY DEF PassInv, Shape, DomainsKept, CallsTyped, Nested, FreeAlone, OneOwner, OwnsSubLock,
         DrainIsOutermost, DelaysEndWithPass, PassUndisturbed, Reading, ContextsOf,
         registry, delayed

-----------------------------------------------------------------------------
LEMMA PassInit == Init => PassInv
<1> SUFFICES ASSUME Init PROVE PassInv
  OBVIOUS
<1>1. \A t \in Threads : calls[t] = <<>> /\ DOMAIN calls[t] = {}
  BY DEF Init
<1>2. calls \in [Threads -> Seq(CallOf({}))]
  BY DEF Init
<1>3. Shape
  BY <1>1, <1>2 DEF Init, Shape, CallsTyped, DomainsKept, Nested, FreeAlone
<1>4. OneOwner /\ DrainIsOutermost /\ DelaysEndWithPass /\ PassUndisturbed
  BY <1>1 DEF Init, OneOwner, OwnsSubLock, DrainIsOutermost, DelaysEndWithPass, PassUndisturbed
<1>5. QED
  BY <1>3, <1>4 DEF PassInv

LEMMA PassStep == PassInv /\ [Next]_vars => PassInv'
<1> SUFFICES ASSUME PassInv, [Next]_vars PROVE PassInv'
  OBVIOUS
<1>1. ASSUME NEW t \in Threads, Progress(t) PROVE PassInv'
  BY <1>1, TakeObjectStep, RoutineReturnsStep, TakeSubLockStep, VisitStep,
     CallbackReturnsStep, PassEndsStep, DrainStep, DrainEndsStep, ForgetStep DEF Progress
<1>2. ASSUME NEW t \in Threads, Client(t) PROVE PassInv'
  <2>1. ASSUME NEW c \in Contexts, FreeContext(t, c) PROVE PassInv'
    BY <2>1, OtherStep DEF FreeContext
  <2>2. QED
    BY <1>2, <2>1, SubscribeStep, UnsubscribeStep, BeginStep DEF Client
<1>3. CASE UNCHANGED vars
  BY <1>3, OtherStep DEF vars, registry, delayed
<1>4. QED
  BY <1>1, <1>2, <1>3 DEF Next

THEOREM PassCorrect == Spec => []PassInv
<1>1. QED
  BY PassInit, PassStep, PTL DEF Spec

\* Whatever the callbacks of a pass do - subscribe, unsubscribe, notify again, end
\* other objects - and whatever other threads do meanwhile, every pass of every
\* thread finds the list that it began with (Action(), NotifySubscribers()).
THEOREM PassesUndisturbed == Spec => []PassUndisturbed
<1>1. PassInv => PassUndisturbed
  BY DEF PassInv
<1>2. QED
  BY <1>1, PassCorrect, PTL

\* glSubLock has one owner, and no change that SubscribeAction() or
\* UnsubscribeAction() put off outlives the pass that it was put off for.
THEOREM DelaysApplied == Spec => [](OneOwner /\ DelaysEndWithPass)
<1>1. PassInv => OneOwner /\ DelaysEndWithPass
  BY DEF PassInv
<1>2. QED
  BY <1>1, PassCorrect, PTL
\* A set of numbers has a least one: the intervals up to them are well-founded.
LEMMA Least ==
    ASSUME NEW S \in SUBSET Nat, S # {}
    PROVE  \E n \in S : \A m \in S : n <= m
<1> DEFINE T == {1..n : n \in S}
<1>1. \A n \in Nat : IsFiniteSet(1..n) /\ 1..n \in SUBSET Nat
  BY FS_Interval
<1>2. T \subseteq FiniteSubsetsOf(Nat) /\ T # {}
  BY <1>1 DEF FiniteSubsetsOf
<1>3. \E x \in T : \A y \in T : ~(<<y, x>> \in StrictSubsetOrdering(Nat))
  <2> HIDE DEF T
  <2>1. QED
    BY <1>2, FS_StrictSubsetOrderingWellFounded, WFMin
<1>4. PICK n \in S : \A m \in S : ~(<<1..m, 1..n>> \in StrictSubsetOrdering(Nat))
  BY <1>3
<1>5. ASSUME NEW m \in S, m < n PROVE FALSE
  <2>1. 1..m \subseteq 1..n /\ n \in 1..n /\ n \notin 1..m
    BY <1>5
  <2>2. <<1..m, 1..n>> \in StrictSubsetOrdering(Nat)
    BY <1>1, <2>1 DEF StrictSubsetOrdering
  <2>3. QED
    BY <1>4, <2>2
<1>6. QED
  BY <1>5

\* Of a set of places, there is one that is the k-th.
LEMMA PlaceExists ==
    ASSUME NEW n \in Nat, NEW places \in SUBSET (1..n), NEW k \in 1..Cardinality(places)
    PROVE  PlaceOf(k, places) \in places
<1> DEFINE count(i) == Cardinality(places \cap 1..i)
           S == {i \in Nat : count(i) >= k}
<1>1. \A i \in Nat : IsFiniteSet(places \cap 1..i) /\ count(i) \in Nat
  <2>1. \A i \in Nat : IsFiniteSet(1..i)
    BY FS_Interval
  <2>2. \A i \in Nat : IsFiniteSet(places \cap 1..i)
    BY <2>1, FS_Intersection
  <2>3. QED
    BY <2>2, FS_CardinalityType
<1>2. n \in S
  <2>1. places \cap 1..n = places
    OBVIOUS
  <2>2. k <= count(n)
    BY <1>1, <2>1
  <2>3. QED
    BY <2>2
<1>3. PICK i \in S : \A m \in S : i <= m
  BY <1>2, Least
<1>4. i > 0
  <2>1. places \cap 1..0 = {}
    OBVIOUS
  <2>2. count(0) = 0
    BY <2>1, FS_EmptySet
  <2>3. QED
    BY <2>2
<1>5. i \in Nat /\ i - 1 \in Nat /\ count(i - 1) < k /\ k <= count(i)
  BY <1>1, <1>3, <1>4
<1>6. CASE i \in places
  <2>1. /\ places \cap 1..i = (places \cap 1..(i - 1)) \cup {i}
        /\ i \notin places \cap 1..(i - 1)
    BY <1>4, <1>6
  <2>2. count(i) = count(i - 1) + 1
    BY <1>1, <1>5, <2>1, FS_AddElement
  <2>3. count(i) = k
    BY <1>1, <1>5, <2>2
  <2>4. QED
    BY <1>6, <2>3 DEF PlaceOf
<1>7. CASE i \notin places
  <2>1. places \cap 1..i = places \cap 1..(i - 1)
    BY <1>4, <1>7
  <2>2. QED
    BY <1>1, <1>5, <2>1
<1>8. QED
  BY <1>6, <1>7

\* The elements at some places of a list are of the list.
LEMMA OnlyThese ==
    ASSUME NEW S, NEW s \in Seq(S), NEW places \in SUBSET DOMAIN s
    PROVE  /\ Only(s, places) \in Seq(S)
           /\ \A k \in DOMAIN Only(s, places) : \E i \in places : Only(s, places)[k] = s[i]
<1>1. places \in SUBSET (1..Len(s)) /\ Len(s) \in Nat
  OBVIOUS
<1>2. Cardinality(places) \in Nat
  <2>1. IsFiniteSet(1..Len(s))
    BY <1>1, FS_Interval
  <2>2. QED
    BY <1>1, <2>1, FS_Subset, FS_CardinalityType
<1>3. \A k \in 1..Cardinality(places) : PlaceOf(k, places) \in places
  BY <1>1, PlaceExists
<1>4. \A i \in places : s[i] \in S
  OBVIOUS
<1>5. PICK o : o = Only(s, places)
  OBVIOUS
<1>6. /\ o = [k \in 1..Cardinality(places) |-> o[k]]
      /\ \A k \in 1..Cardinality(places) : o[k] = s[PlaceOf(k, places)]
  BY <1>5 DEF Only
<1>7. ASSUME NEW k \in 1..Cardinality(places)
      PROVE  o[k] \in S /\ \E i \in places : o[k] = s[i]
  <2>1. PICK i : i = PlaceOf(k, places)
    OBVIOUS
  <2>2. i \in places /\ o[k] = s[i]
    BY <1>3, <1>6, <2>1
  <2>3. QED
    BY <1>4, <2>2
<1>8. o \in Seq(S) /\ DOMAIN o = 1..Cardinality(places)
  BY <1>2, <1>6, <1>7
<1>9. QED
  BY <1>5, <1>7, <1>8
-----------------------------------------------------------------------------
\* The context c has a record of the topic p, or will have one.
Recorded(p, c) == \E n \in DOMAIN glSubscriptions[p] : glSubscriptions[p][n].context = c
PutOff(t, p, c) == \E n \in DOMAIN glDelayedSubscribe[t] :
    glDelayedSubscribe[t][n].topic = p /\ glDelayedSubscribe[t][n].context = c

\* It will have none, once the unsubscriptions that were put off are applied.
Ends(e, p, c) == p \in Affected(e.object, e.action) /\ e.context = c
EndsSoon(t, p, c) ==
    \E n \in DOMAIN glDelayedUnsubscribe[t] : Ends(glDelayedUnsubscribe[t][n], p, c)

\* One whose last word was to unsubscribe has a record only until it is heard.
LeftInv == \A p \in Topics, c \in Contexts :
    <<p, c>> \in left /\ (Recorded(p, c) \/ \E t \in Threads : PutOff(t, p, c)) =>
        \E t \in Threads : EndsSoon(t, p, c)

Adding  == [topic : Topics, context : Contexts]
Leaving == [object : Objects, action : Scopes, context : Contexts]

RecordsTyped == glSubscriptions \in [Topics -> Seq(Record)] /\ NotifyFlags \subseteq Topics
DelaysTyped ==
    /\ glDelayedSubscribe \in [Threads -> Seq(Adding)]
    /\ glDelayedUnsubscribe \in [Threads -> Seq(Leaving)]
StacksTyped == calls \in [Threads -> Seq(Call)]
SetsTyped ==
    freed \subseteq Contexts /\ collecting \subseteq Objects /\ left \subseteq Topics \X Contexts

Typed == RecordsTyped /\ DelaysTyped /\ StacksTyped /\ SetsTyped

LEMMA TypedIs == Typed <=> TypeOK
  BY DEF Typed, TypeOK, RecordsTyped, DelaysTyped, StacksTyped, SetsTyped, Adding, Leaving

RecordInv == PassInv /\ Typed /\ LeftInv

-----------------------------------------------------------------------------
\* What changes of the registry leave, and what they add.

\* No topic has a record of a context that had none before.
Fewer == \A p \in Topics : \A c : Recorded(p, c)' => Recorded(p, c)

\* The list t is of records, and of contexts of the list s.
Of(t, s) == t \in Seq(Record) /\ \A k \in DOMAIN t : \E i \in DOMAIN s : t[k].context = s[i].context

LEMMA OfThese ==
    ASSUME NEW s \in Seq(Record), NEW places \in SUBSET DOMAIN s
    PROVE  Of(Only(s, places), s)
  BY OnlyThese DEF Of

LEMMA OfItself == ASSUME NEW s \in Seq(Record) PROVE Of(s, s) /\ Of(<<>>, s)
  BY DEF Of

LEMMA FewerOf ==
    ASSUME DOMAIN glSubscriptions' = Topics,
           glSubscriptions' = [p \in Topics |-> glSubscriptions'[p]],
           \A p \in Topics : Of(glSubscriptions'[p], glSubscriptions[p])
    PROVE  Fewer /\ glSubscriptions' \in [Topics -> Seq(Record)]
<1>1. Fewer
  BY DEF Fewer, Recorded, Of
<1>2. \A p \in Topics : glSubscriptions'[p] \in Seq(Record)
  BY DEF Of
<1>3. QED
  BY <1>1, <1>2

\* An unsubscription names topics.
LEMMA AffectedTopics ==
    ASSUME NEW o \in Objects, NEW a \in Scopes
    PROVE  Affected(o, a) \subseteq Topics
  BY SubscriptionAssumption DEF Affected, Topics, TopicsOf

\* unsubscribe_from_object() leaves no record of the context, and adds none.
LEMMA UnsubscribeLists ==
    ASSUME RecordsTyped, NEW o \in Objects, NEW a \in Scopes, NEW c, Unsubscribe(o, a, c)
    PROVE  /\ RecordsTyped' /\ Fewer
           /\ \A p \in Affected(o, a) : ~Recorded(p, c)'
<1> DEFINE places(p) == {i \in DOMAIN glSubscriptions[p] : glSubscriptions[p][i].context # c}
           kept == [p \in Topics |-> IF p \in Affected(o, a) THEN Only(glSubscriptions[p], places(p))
                                     ELSE glSubscriptions[p]]
<1>1. /\ NotifyFlags' \subseteq NotifyFlags
      /\ \/ glSubscriptions' = [p \in Topics |-> IF p[1] = o THEN <<>> ELSE kept[p]]
         \/ glSubscriptions' = kept
  BY DEF Unsubscribe, Without, Those
<1>2. \A p \in Topics : glSubscriptions'[p] = <<>> \/ glSubscriptions'[p] = kept[p]
  BY <1>1
<1>3. glSubscriptions' = [p \in Topics |-> glSubscriptions'[p]] /\ DOMAIN glSubscriptions' = Topics
  BY <1>1
<1>4. \A p \in Topics : glSubscriptions[p] \in Seq(Record) /\ places(p) \in SUBSET DOMAIN glSubscriptions[p]
  BY DEF RecordsTyped
<1>5. ASSUME NEW p \in Topics
      PROVE  /\ Of(kept[p], glSubscriptions[p])
             /\ p \in Affected(o, a) => \A k \in DOMAIN kept[p] : kept[p][k].context # c
  <2>1. CASE p \in Affected(o, a)
    <3>1. kept[p] = Only(glSubscriptions[p], places(p))
      BY <2>1
    <3>2. \A k \in DOMAIN Only(glSubscriptions[p], places(p)) :
             Only(glSubscriptions[p], places(p))[k].context # c
      BY <1>4, OnlyThese
    <3>3. Of(Only(glSubscriptions[p], places(p)), glSubscriptions[p])
      <4> HIDE DEF places
      <4>1. QED
        BY <1>4, OfThese
    <3> HIDE DEF kept, places
    <3>4. QED
      BY <3>1, <3>2, <3>3
  <2>2. CASE p \notin Affected(o, a)
    BY <1>4, <2>2, OfItself
  <2>3. QED
    BY <2>1, <2>2
<1> HIDE DEF kept
<1>6. \A p \in Topics : Of(glSubscriptions'[p], glSubscriptions[p])
  BY <1>2, <1>4, <1>5, OfItself
<1>7. Fewer /\ glSubscriptions' \in [Topics -> Seq(Record)]
  BY <1>3, <1>6, FewerOf
<1>8. \A p \in Affected(o, a) : ~Recorded(p, c)'
  BY <1>2, <1>5, AffectedTopics DEF Recorded
<1>9. QED
  BY <1>1, <1>7, <1>8 DEF RecordsTyped

\* object_free() drops the lists of an object whole.
LEMMA ForgetLists ==
    ASSUME RecordsTyped, NEW t, Forget(t)
    PROVE  glSubscriptions' \in [Topics -> Seq(Record)] /\ Fewer
<1>1. \/ glSubscriptions' = glSubscriptions
      \/ glSubscriptions' = [p \in Topics |-> IF p[1] = Inner(t).topic[1] THEN <<>>
                                          ELSE glSubscriptions[p]]
  BY DEF Forget, RecordsTyped
<1>2. glSubscriptions' = [p \in Topics |-> glSubscriptions'[p]] /\ DOMAIN glSubscriptions' = Topics
  BY <1>1 DEF RecordsTyped
<1>3. \A p \in Topics : Of(glSubscriptions'[p], glSubscriptions[p])
  <2>1. \A p \in Topics : glSubscriptions'[p] = <<>> \/ glSubscriptions'[p] = glSubscriptions[p]
    BY <1>1
  <2>2. QED
    BY <2>1, OfItself DEF RecordsTyped
<1>4. QED
  BY <1>2, <1>3, FewerOf

\* sweep_stale_subscriptions() leaves records of the list.
LEMMA SweptList ==
    ASSUME RecordsTyped, NEW c, c.topic \in Topics
    PROVE  Of(Swept(c), glSubscriptions[c.topic])
<1> DEFINE list == glSubscriptions[c.topic]
           places == {i \in DOMAIN list : ~list[i].stale}
<1>1. list \in Seq(Record)
  BY DEF RecordsTyped
<1>2. Swept(c) = Only(list, places) \/ Swept(c) = list
  BY DEF Swept, Those, Fresh
<1>3. Of(Only(list, places), list) /\ Of(list, list)
  BY <1>1, OfThese, OfItself
<1>4. QED
  BY <1>2, <1>3

\* drain_delayed_subscriptions() adds records of what was put off.
LEMMA AddedList ==
    ASSUME DelaysTyped, NEW t \in Threads, NEW lists, NEW p \in Topics, lists[p] \in Seq(Record)
    PROVE  /\ AddDelayed(t, lists)[p] \in Seq(Record)
           /\ \A k \in DOMAIN AddDelayed(t, lists)[p] :
                 LET c == AddDelayed(t, lists)[p][k].context
                 IN  PutOff(t, p, c) \/ \E i \in DOMAIN lists[p] : lists[p][i].context = c
<1> DEFINE put == glDelayedSubscribe[t]
           places == {i \in DOMAIN put : put[i].topic = p /\ put[i].context \notin freed}
           added == Only(put, places)
           new == [i \in DOMAIN added |-> New(added[i].context)]
<1>1. put \in Seq(Adding) /\ places \in SUBSET DOMAIN put
  BY DEF DelaysTyped
<1>2. AddDelayed(t, lists)[p] = lists[p] \o new
  BY DEF AddDelayed, Those, Lives
<1>3. added \in Seq(Adding) /\ \A k \in DOMAIN added : \E i \in places : added[k] = put[i]
  <2> HIDE DEF put, places
  <2>1. QED
    BY <1>1, OnlyThese
<1>4. \A k \in DOMAIN added : PutOff(t, p, added[k].context) /\ added[k].context \in Contexts
  <2>1. ASSUME NEW i \in places PROVE PutOff(t, p, put[i].context) /\ put[i].context \in Contexts
    <3>1. i \in DOMAIN put /\ put[i].topic = p
      OBVIOUS
    <3>2. put[i] \in Adding
      BY <1>1, <3>1
    <3>3. QED
      BY <3>1, <3>2 DEF PutOff, Adding
  <2> HIDE DEF added, places, put
  <2>2. SUFFICES ASSUME NEW k \in DOMAIN added
                 PROVE  PutOff(t, p, added[k].context) /\ added[k].context \in Contexts
    OBVIOUS
  <2>3. PICK i \in places : added[k] = put[i]
    BY <1>3
  <2>4. added[k].context = put[i].context
    BY <2>3
  <2>5. QED
    BY <2>1, <2>4
<1> HIDE DEF added
<1>5. new \in Seq(Record) /\ \A k \in DOMAIN new : PutOff(t, p, new[k].context)
  <2>1. /\ Len(added) \in Nat /\ DOMAIN added = 1..Len(added)
        /\ \A k \in DOMAIN added : new[k].context = added[k].context /\ new[k] \in Record
    BY <1>3, <1>4 DEF New, Record
  <2>2. new \in [1..Len(added) -> Record]
    BY <2>1
  <2>3. new \in Seq(Record) /\ DOMAIN new = DOMAIN added
    BY <2>1, <2>2
  <2> HIDE DEF new
  <2>4. QED
    BY <1>4, <2>1, <2>3
<1> HIDE DEF new
<1>6. PICK s : s = lists[p] \o new
  OBVIOUS
<1>7. /\ s \in Seq(Record) /\ Len(lists[p]) \in Nat /\ Len(s) = Len(lists[p]) + Len(new)
      /\ \A k \in 1..Len(s) : s[k] = IF k <= Len(lists[p]) THEN lists[p][k] ELSE new[k - Len(lists[p])]
  BY <1>5, <1>6
<1>8. ASSUME NEW k \in DOMAIN s
      PROVE  PutOff(t, p, s[k].context) \/ \E i \in DOMAIN lists[p] : lists[p][i].context = s[k].context
  <2>1. k \in 1..Len(s)
    BY <1>7
  <2>2. CASE k <= Len(lists[p])
    BY <1>7, <2>1, <2>2
  <2>3. CASE ~(k <= Len(lists[p]))
    <3>1. k - Len(lists[p]) \in 1..Len(new) /\ s[k] = new[k - Len(lists[p])]
      BY <1>5, <1>7, <2>1, <2>3
    <3>2. QED
      BY <1>5, <3>1
  <2>4. QED
    BY <2>2, <2>3
<1>9. QED
  BY <1>2, <1>6, <1>7, <1>8

\* The stack of a thread is of calls as they are.
LEMMA StacksBecome ==
    ASSUME Typed, NEW t \in Threads, calls[t] # <<>>, NEW c \in Call, InnerBecomes(t, c)
    PROVE  StacksTyped'
<1> DEFINE s == calls[t]
           u == [s EXCEPT ![Len(s)] = c]
<1>1. calls \in [Threads -> Seq(Call)] /\ calls' = [calls EXCEPT ![t] = u]
  BY DEF Typed, StacksTyped, InnerBecomes
<1>2. s \in Seq(Call) /\ Len(s) \in 1..Len(s)
  BY <1>1
<1>3. u \in Seq(Call)
  <2> HIDE DEF s
  <2>1. QED
    BY <1>2, ExceptSeq
<1> HIDE DEF u
<1>4. QED
  BY <1>1, <1>3 DEF StacksTyped

LEMMA StacksReturn ==
    ASSUME Typed, NEW t \in Threads, calls[t] # <<>>, Returns(t)
    PROVE  StacksTyped'
<1> DEFINE s == calls[t]
           u == SubSeq(s, 1, Len(s) - 1)
<1>1. calls \in [Threads -> Seq(Call)] /\ calls' = [calls EXCEPT ![t] = u]
  BY DEF Typed, StacksTyped, Returns, Front
<1>2. s \in Seq(Call) /\ Len(s) \in 1..Len(s)
  BY <1>1
<1>3. u \in Seq(Call)
  <2> HIDE DEF s
  <2>1. QED
    BY <1>2
<1> HIDE DEF u
<1>4. QED
  BY <1>1, <1>3 DEF StacksTyped

\* The innermost call is one.
LEMMA InnerIsCall ==
    ASSUME Typed, NEW t \in Threads, NEW step, In(t, step)
    PROVE  /\ calls[t] # <<>> /\ Inner(t) \in Call /\ Inner(t).topic \in Topics
           /\ Inner(t).step = step /\ Inner(t).at \in Nat
<1>1. calls[t] # <<>> /\ Inner(t).step = step
  BY DEF In
<1>2. calls[t] \in Seq(Call)
  BY DEF Typed, StacksTyped
<1>3. Inner(t) \in Call
  BY <1>1, <1>2 DEF Inner, Last
<1>4. QED
  BY <1>1, <1>3 DEF Call

\* Nothing is said anew: the invariant stays where there are no more records, and
\* no more words to unsubscribe.
LEMMA LeftKept ==
    ASSUME LeftInv, Fewer, UNCHANGED delayed, left' \subseteq left
    PROVE  LeftInv'
<1>1. \A t, p, c : PutOff(t, p, c)' <=> PutOff(t, p, c)
  BY DEF PutOff, delayed
<1>2. \A t, p, c : EndsSoon(t, p, c)' <=> EndsSoon(t, p, c)
  BY DEF EndsSoon, Ends, delayed
<1>3. QED
  BY <1>1, <1>2 DEF LeftInv, Fewer

LEMMA SameRecords == ASSUME UNCHANGED glSubscriptions PROVE Fewer
  BY DEF Fewer, Recorded

\* What is not put off is done while nobody has glSubLock.
LEMMA NobodyOwns ==
    ASSUME PassInv, NEW t \in Threads, ClientRuns(t), ~Delay(t), SubLockIsFor(t)
    PROVE  \A u \in Threads : glDelayedSubscribe[u] = <<>> /\ glDelayedUnsubscribe[u] = <<>>
<1>1. \A i \in DOMAIN calls[t] : ~Reading(calls[t][i])
  BY ReadOnlyCounts DEF PassInv, Shape, Delay
<1>2. \A i \in DOMAIN calls[t] : calls[t][i].step # "drain"
  <2>1. DOMAIN calls[t] = 1..Len(calls[t]) /\ Len(calls[t]) \in Nat
    BY Stack DEF PassInv, Shape
  <2>2. calls[t] # <<>> => calls[t][Len(calls[t])].step # "drain"
    BY Stack DEF PassInv, Shape, ClientRuns, In
  <2>3. \A i \in DOMAIN calls[t] : calls[t] # <<>> /\ (i < Len(calls[t]) \/ i = Len(calls[t]))
    BY <2>1
  <2>4. QED
    BY <2>2, <2>3 DEF PassInv, Shape, Nested, ClientSteps
<1>3. ~OwnsSubLock(t)
  BY <1>1, <1>2 DEF OwnsSubLock, Reading
<1>4. QED
  BY <1>3 DEF SubLockIsFor, PassInv, DelaysEndWithPass

\* What is added to a list is its last.
LEMMA Appended ==
    ASSUME NEW S, NEW s \in Seq(S), NEW x
    PROVE  /\ Len(s) \in Nat /\ DOMAIN s = 1..Len(s)
           /\ DOMAIN Append(s, x) = 1..(Len(s) + 1)
           /\ Append(s, x)[Len(s) + 1] = x
           /\ \A n \in DOMAIN s : n \in DOMAIN Append(s, x) /\ Append(s, x)[n] = s[n]
           /\ \A n \in DOMAIN Append(s, x) :
                 Append(s, x)[n] = x \/ (n \in DOMAIN s /\ Append(s, x)[n] = s[n])
           /\ x \in S => Append(s, x) \in Seq(S)
<1>1. Len(s) \in Nat /\ DOMAIN s = 1..Len(s)
  OBVIOUS
<1>2. PICK u : u = [n \in 1..(Len(s) + 1) |-> IF n = Len(s) + 1 THEN x ELSE s[n]]
  OBVIOUS
<1>3. /\ Len(Append(s, x)) = Len(s) + 1 /\ DOMAIN Append(s, x) = 1..(Len(s) + 1)
      /\ \A n \in 1..(Len(s) + 1) : Append(s, x)[n] = IF n = Len(s) + 1 THEN x ELSE s[n]
  <2>1. s \in Seq(S \cup {x}) /\ x \in S \cup {x}
    BY SeqMonotonic
  <2>2. QED
    BY <2>1
<1>4. x \in S => Append(s, x) \in Seq(S)
  OBVIOUS
<1>5. QED
  BY <1>1, <1>3, <1>4

-----------------------------------------------------------------------------
\* The actions, one by one.

LEMMA SubscribeRecords ==
    ASSUME RecordInv, NEW t \in Threads, NEW p \in Topics, NEW c \in Contexts,
           SubscribeAction(t, p, c)
    PROVE  Typed' /\ LeftInv'
<1> DEFINE e == [topic |-> p, context |-> c]
<1>1. /\ left' = left \ {<<p, c>>} /\ NotifyFlags' = NotifyFlags \cup {p}
      /\ UNCHANGED <<glDelayedUnsubscribe, calls, freed, collecting>>
  BY DEF SubscribeAction, ends
<1>2. Typed
  BY DEF RecordInv
<1>3. StacksTyped' /\ SetsTyped' /\ NotifyFlags' \subseteq Topics
  BY <1>1, <1>2 DEF Typed, StacksTyped, SetsTyped, RecordsTyped
<1>4. \A u, q, d : EndsSoon(u, q, d)' <=> EndsSoon(u, q, d)
  BY <1>1 DEF EndsSoon, Ends
<1>5. CASE /\ glDelayedSubscribe' = [glDelayedSubscribe EXCEPT ![t] = Append(@, e)]
           /\ UNCHANGED glSubscriptions
  <2>1. glDelayedSubscribe[t] \in Seq(Adding) /\ e \in Adding /\ DOMAIN glDelayedSubscribe = Threads
    BY <1>2 DEF Typed, DelaysTyped, Adding
  <2>2. glDelayedSubscribe'[t] = Append(glDelayedSubscribe[t], e)
    BY <1>5, <2>1
  <2>3. \A u \in Threads : u # t => glDelayedSubscribe'[u] = glDelayedSubscribe[u]
    BY <1>5, <2>1
  <2>4. RecordsTyped' /\ DelaysTyped'
    <3> HIDE DEF e
    <3>1. Append(glDelayedSubscribe[t], e) \in Seq(Adding)
      BY <2>1
    <3>2. QED
      BY <1>1, <1>2, <1>3, <1>5, <3>1 DEF Typed, RecordsTyped, DelaysTyped
  <2>5. ASSUME NEW u \in Threads, NEW q, NEW d, <<q, d>> # <<p, c>>, PutOff(u, q, d)'
        PROVE  PutOff(u, q, d)
    <3>1. CASE u = t
      <4>1. PICK n \in DOMAIN glDelayedSubscribe'[t] :
               glDelayedSubscribe'[t][n].topic = q /\ glDelayedSubscribe'[t][n].context = d
        BY <2>5, <3>1 DEF PutOff
      <4>2. glDelayedSubscribe'[t][n] # e
        BY <2>5, <4>1
      <4> HIDE DEF e
      <4>3. n \in DOMAIN glDelayedSubscribe[t] /\ glDelayedSubscribe'[t][n] = glDelayedSubscribe[t][n]
        BY <2>1, <2>2, <4>2, Appended
      <4>4. QED
        BY <3>1, <4>1, <4>3 DEF PutOff
    <3>2. CASE u # t
      BY <2>3, <2>5, <3>2 DEF PutOff
    <3>3. QED
      BY <3>1, <3>2
  <2>6. \A q, d : Recorded(q, d)' <=> Recorded(q, d)
    BY <1>5 DEF Recorded
  <2>7. LeftInv'
    <3>1. SUFFICES ASSUME NEW q \in Topics, NEW d \in Contexts, <<q, d>> \in left',
                          Recorded(q, d)' \/ \E u \in Threads : PutOff(u, q, d)'
                   PROVE  \E u \in Threads : EndsSoon(u, q, d)'
      BY DEF LeftInv
    <3>2. <<q, d>> \in left /\ <<q, d>> # <<p, c>>
      BY <1>1, <3>1
    <3>3. Recorded(q, d) \/ \E u \in Threads : PutOff(u, q, d)
      BY <2>5, <2>6, <3>1, <3>2
    <3>4. QED
      BY <1>4, <3>2, <3>3 DEF RecordInv, LeftInv
  <2>8. QED
    BY <1>3, <2>4, <2>7 DEF Typed
<1>6. CASE /\ glSubscriptions' = [glSubscriptions EXCEPT ![p] = Append(@, New(c))]
           /\ UNCHANGED glDelayedSubscribe
  <2>1. /\ glSubscriptions[p] \in Seq(Record) /\ New(c) \in Record /\ New(c).context = c
        /\ DOMAIN glSubscriptions = Topics
    BY <1>2 DEF Typed, RecordsTyped, New, Record
  <2>2. glSubscriptions'[p] = Append(glSubscriptions[p], New(c))
    BY <1>6, <2>1
  <2>3. \A q \in Topics : q # p => glSubscriptions'[q] = glSubscriptions[q]
    BY <1>6, <2>1
  <2>4. RecordsTyped' /\ DelaysTyped'
    <3>1. Append(glSubscriptions[p], New(c)) \in Seq(Record)
      BY <2>1
    <3>2. QED
      BY <1>1, <1>2, <1>3, <1>6, <3>1 DEF Typed, RecordsTyped, DelaysTyped
  <2>5. ASSUME NEW q \in Topics, NEW d, <<q, d>> # <<p, c>>, Recorded(q, d)'
        PROVE  Recorded(q, d)
    <3>1. CASE q = p
      <4>1. PICK n \in DOMAIN glSubscriptions'[p] : glSubscriptions'[p][n].context = d
        BY <2>5, <3>1 DEF Recorded
      <4>2. glSubscriptions'[p][n] # New(c)
        BY <2>1, <2>5, <3>1, <4>1
      <4>3. n \in DOMAIN glSubscriptions[p] /\ glSubscriptions'[p][n] = glSubscriptions[p][n]
        BY <2>1, <2>2, <4>2, Appended
      <4>4. QED
        BY <3>1, <4>1, <4>3 DEF Recorded
    <3>2. CASE q # p
      BY <2>3, <2>5, <3>2 DEF Recorded
    <3>3. QED
      BY <3>1, <3>2
  <2>6. \A u, q, d : PutOff(u, q, d)' <=> PutOff(u, q, d)
    BY <1>6 DEF PutOff
  <2>7. LeftInv'
    <3>1. SUFFICES ASSUME NEW q \in Topics, NEW d \in Contexts, <<q, d>> \in left',
                          Recorded(q, d)' \/ \E u \in Threads : PutOff(u, q, d)'
                   PROVE  \E u \in Threads : EndsSoon(u, q, d)'
      BY DEF LeftInv
    <3>2. <<q, d>> \in left /\ <<q, d>> # <<p, c>>
      BY <1>1, <3>1
    <3>3. Recorded(q, d) \/ \E u \in Threads : PutOff(u, q, d)
      BY <2>5, <2>6, <3>1, <3>2
    <3>4. QED
      BY <1>4, <3>2, <3>3 DEF RecordInv, LeftInv
  <2>8. QED
    BY <1>3, <2>4, <2>7 DEF Typed
<1>7. QED
  BY <1>5, <1>6 DEF SubscribeAction

LEMMA UnsubscribeRecords ==
    ASSUME RecordInv, NEW t \in Threads, NEW o \in Objects, NEW a \in Scopes, NEW c \in Contexts,
           UnsubscribeAction(t, o, a, c)
    PROVE  Typed' /\ LeftInv'
<1> DEFINE e == [object |-> o, action |-> a, context |-> c]
<1>1. /\ left' = left \cup (Affected(o, a) \X {c}) /\ ClientRuns(t)
      /\ UNCHANGED <<glDelayedSubscribe, calls, freed, collecting>>
  BY DEF UnsubscribeAction, ends
<1>2. Typed /\ PassInv
  BY DEF RecordInv
<1>3. StacksTyped' /\ SetsTyped'
  BY <1>1, <1>2, AffectedTopics DEF Typed, StacksTyped, SetsTyped
<1>4. \A u, q, d : PutOff(u, q, d)' <=> PutOff(u, q, d)
  BY <1>1 DEF PutOff
<1>5. CASE /\ glDelayedUnsubscribe' = [glDelayedUnsubscribe EXCEPT ![t] = Append(@, e)]
           /\ UNCHANGED registry
  <2>1. glDelayedUnsubscribe[t] \in Seq(Leaving) /\ e \in Leaving /\ DOMAIN glDelayedUnsubscribe = Threads
    BY <1>2 DEF Typed, DelaysTyped, Leaving
  <2>2. glDelayedUnsubscribe'[t] = Append(glDelayedUnsubscribe[t], e)
    BY <1>5, <2>1
  <2>3. \A u \in Threads : u # t => glDelayedUnsubscribe'[u] = glDelayedUnsubscribe[u]
    BY <1>5, <2>1
  <2>4. RecordsTyped' /\ DelaysTyped'
    <3> HIDE DEF e
    <3>1. Append(glDelayedUnsubscribe[t], e) \in Seq(Leaving)
      BY <2>1
    <3>2. QED
      BY <1>1, <1>2, <1>5, <3>1 DEF Typed, RecordsTyped, DelaysTyped, registry
  <2>5. \A q, d : Recorded(q, d)' <=> Recorded(q, d)
    BY <1>5 DEF Recorded, registry
  <2>6. ASSUME NEW u \in Threads, NEW q, NEW d, EndsSoon(u, q, d)
        PROVE  EndsSoon(u, q, d)'
    <3>1. PICK n \in DOMAIN glDelayedUnsubscribe[u] : Ends(glDelayedUnsubscribe[u][n], q, d)
      BY <2>6 DEF EndsSoon
    <3>2. n \in DOMAIN glDelayedUnsubscribe'[u] /\ glDelayedUnsubscribe'[u][n] = glDelayedUnsubscribe[u][n]
      <4> HIDE DEF e
      <4>1. CASE u = t
        BY <2>1, <2>2, <3>1, <4>1, Appended
      <4>2. QED
        BY <2>3, <3>1, <4>1
    <3>3. QED
      BY <3>1, <3>2 DEF EndsSoon, Ends
  <2>7. ASSUME NEW q \in Affected(o, a) PROVE EndsSoon(t, q, c)'
    <3>1. \E n \in DOMAIN glDelayedUnsubscribe'[t] : glDelayedUnsubscribe'[t][n] = e
      <4> HIDE DEF e
      <4>1. Len(glDelayedUnsubscribe[t]) + 1 \in 1..(Len(glDelayedUnsubscribe[t]) + 1)
        BY <2>1
      <4>2. QED
        BY <2>1, <2>2, <4>1, Appended
    <3>2. Ends(e, q, c)
      BY DEF Ends
    <3> HIDE DEF e
    <3>3. QED
      BY <3>1, <3>2 DEF EndsSoon, Ends
  <2>8. LeftInv'
    <3>1. SUFFICES ASSUME NEW q \in Topics, NEW d \in Contexts, <<q, d>> \in left',
                          Recorded(q, d)' \/ \E u \in Threads : PutOff(u, q, d)'
                   PROVE  \E u \in Threads : EndsSoon(u, q, d)'
      BY DEF LeftInv
    <3>2. <<q, d>> \in left \/ (q \in Affected(o, a) /\ d = c)
      BY <1>1, <3>1
    <3>3. Recorded(q, d) \/ \E u \in Threads : PutOff(u, q, d)
      BY <1>4, <2>5, <3>1
    <3>4. QED
      BY <2>6, <2>7, <3>2, <3>3 DEF RecordInv, LeftInv
  <2>9. QED
    BY <1>3, <2>4, <2>8 DEF Typed
<1>6. CASE ~Delay(t) /\ SubLockIsFor(t) /\ Unsubscribe(o, a, c) /\ UNCHANGED glDelayedUnsubscribe
  <2>1. \A u \in Threads : glDelayedSubscribe[u] = <<>> /\ glDelayedUnsubscribe[u] = <<>>
    BY <1>1, <1>2, <1>6, NobodyOwns
  <2>2. RecordsTyped' /\ Fewer /\ \A p \in Affected(o, a) : ~Recorded(p, c)'
    BY <1>2, <1>6, UnsubscribeLists DEF Typed
  <2>3. DelaysTyped'
    BY <1>1, <1>2, <1>6 DEF Typed, DelaysTyped
  <2>4. \A u \in Threads : \A q, d : ~PutOff(u, q, d) /\ ~EndsSoon(u, q, d)
    BY <2>1 DEF PutOff, EndsSoon
  <2>5. LeftInv'
    <3>1. SUFFICES ASSUME NEW q \in Topics, NEW d \in Contexts, <<q, d>> \in left',
                          Recorded(q, d)' \/ \E u \in Threads : PutOff(u, q, d)'
                   PROVE  FALSE
      BY DEF LeftInv
    <3>2. Recorded(q, d)' /\ Recorded(q, d)
      BY <1>4, <2>2, <2>4, <3>1 DEF Fewer
    <3>3. <<q, d>> \in left
      BY <1>1, <2>2, <3>1, <3>2
    <3>4. QED
      BY <2>4, <3>2, <3>3 DEF RecordInv, LeftInv
  <2>6. QED
    BY <1>3, <2>2, <2>3, <2>5 DEF Typed
<1>7. QED
  BY <1>5, <1>6 DEF UnsubscribeAction

\* The actions that leave the registry and the lists alone.
LEMMA ElsewhereRecords ==
    ASSUME RecordInv, UNCHANGED <<registry, delayed, left>>, StacksTyped',
           freed' \subseteq Contexts, collecting' \subseteq Objects
    PROVE  Typed' /\ LeftInv'
<1>1. Fewer
  BY SameRecords DEF registry
<1>2. LeftInv'
  BY <1>1, LeftKept DEF RecordInv
<1>3. QED
  BY <1>2 DEF RecordInv, Typed, RecordsTyped, DelaysTyped, SetsTyped, registry, delayed

LEMMA FreeRecords ==
    ASSUME RecordInv, NEW t \in Threads, NEW c \in Contexts, FreeContext(t, c)
    PROVE  Typed' /\ LeftInv'
<1>1. UNCHANGED <<registry, delayed, calls, collecting, left>> /\ freed' = freed \cup {c}
  BY DEF FreeContext
<1>2. /\ StacksTyped' /\ freed' \subseteq Contexts /\ collecting' \subseteq Objects
  BY <1>1 DEF RecordInv, Typed, StacksTyped, SetsTyped
<1>3. QED
  BY <1>1, <1>2, ElsewhereRecords

LEMMA BeginRecords ==
    ASSUME RecordInv, NEW t \in Threads, NEW kind \in Kinds, NEW p \in Topics, CallBegins(t, kind, p)
    PROVE  Typed' /\ LeftInv'
<1> DEFINE c == [kind |-> kind, topic |-> p, step |-> "object", at |-> 1,
                 stale_found |-> FALSE, was |-> <<>>]
<1>1. calls' = [calls EXCEPT ![t] = Append(@, c)] /\ UNCHANGED <<registry, delayed, freed, collecting, left>>
  BY DEF CallBegins, ends
<1>2. c \in Call
  BY DEF Call, Steps
<1> HIDE DEF c
<1>3. calls \in [Threads -> Seq(Call)] /\ Append(calls[t], c) \in Seq(Call)
  BY <1>2 DEF RecordInv, Typed, StacksTyped
<1>4. StacksTyped'
  BY <1>1, <1>3 DEF StacksTyped
<1>5. QED
  BY <1>1, <1>4, ElsewhereRecords DEF RecordInv, Typed, SetsTyped

LEMMA StacksPassOver ==
    ASSUME Typed, NEW t \in Threads, calls[t] # <<>>, Inner(t) \in Call, PassOver(t)
    PROVE  StacksTyped'
<1> DEFINE c == Inner(t)
           d == [c EXCEPT !.step = "closing"]
<1>1. d \in Call
  <2> HIDE DEF c
  <2>1. QED
    BY DEF Call, Steps, c
<1>2. Returns(t) \/ InnerBecomes(t, d)
  BY DEF PassOver
<1> HIDE DEF d
<1>3. QED
  BY <1>1, <1>2, StacksBecome, StacksReturn

LEMMA TakeObjectRecords ==
    ASSUME RecordInv, NEW t \in Threads, TakeObject(t)
    PROVE  Typed' /\ LeftInv'
<1> DEFINE c == Inner(t)
           d == [c EXCEPT !.step = "routine"]
<1>1. /\ In(t, "object") /\ UNCHANGED <<registry, delayed, freed, collecting, left>>
      /\ Returns(t) \/ InnerBecomes(t, d)
  BY DEF TakeObject, ends
<1>2. Typed /\ calls[t] # <<>> /\ c \in Call
  BY <1>1, InnerIsCall DEF RecordInv
<1>3. d \in Call
  <2> HIDE DEF c
  <2>1. QED
    BY <1>2 DEF Call, Steps
<1> HIDE DEF d
<1>4. StacksTyped'
  BY <1>1, <1>2, <1>3, StacksBecome, StacksReturn
<1>5. QED
  BY <1>1, <1>2, <1>4, ElsewhereRecords DEF Typed, SetsTyped

LEMMA RoutineReturnsRecords ==
    ASSUME RecordInv, NEW t \in Threads, RoutineReturns(t)
    PROVE  Typed' /\ LeftInv'
<1> DEFINE c == Inner(t)
           d == [c EXCEPT !.step = "lock"]
<1>1. /\ In(t, "routine") /\ UNCHANGED <<registry, delayed, freed, left>>
      /\ Returns(t) \/ PassOver(t) \/ InnerBecomes(t, d)
      /\ collecting' \subseteq collecting \cup {c.topic[1]}
  BY DEF RoutineReturns
<1>2. Typed /\ calls[t] # <<>> /\ c \in Call /\ c.topic \in Topics
  BY <1>1, InnerIsCall DEF RecordInv
<1>3. d \in Call
  <2> HIDE DEF c
  <2>1. QED
    BY <1>2 DEF Call, Steps
<1> HIDE DEF d
<1>4. StacksTyped'
  BY <1>1, <1>2, <1>3, StacksBecome, StacksReturn, StacksPassOver
<1>5. collecting' \subseteq Objects /\ freed' \subseteq Contexts
  <2> HIDE DEF c
  <2>1. c.topic[1] \in Objects
    BY <1>2 DEF Topics
  <2>2. QED
    BY <1>1, <1>2, <2>1 DEF Typed, SetsTyped
<1>6. QED
  BY <1>1, <1>4, <1>5, ElsewhereRecords

LEMMA CallbackRecords ==
    ASSUME RecordInv, NEW t \in Threads, CallbackReturns(t)
    PROVE  Typed' /\ LeftInv'
<1> DEFINE c == Inner(t)
           d == [c EXCEPT !.step = "next", !.at = @ + 1]
<1>1. /\ In(t, "callback") /\ UNCHANGED <<registry, delayed, freed, collecting, left>> /\ InnerBecomes(t, d)
  BY DEF CallbackReturns, ends
<1>2. Typed /\ calls[t] # <<>> /\ c \in Call /\ c.at \in Nat
  BY <1>1, InnerIsCall DEF RecordInv
<1>3. d \in Call
  <2> HIDE DEF c
  <2>1. c.at + 1 \in Nat
    BY <1>2
  <2>2. QED
    BY <1>2, <2>1 DEF Call, Steps
<1> HIDE DEF d
<1>4. StacksTyped'
  BY <1>1, <1>2, <1>3, StacksBecome
<1>5. QED
  BY <1>1, <1>2, <1>4, ElsewhereRecords DEF Typed, SetsTyped

\* The actions that take records away, or mark them.
LEMMA FewerRecords ==
    ASSUME RecordInv, UNCHANGED <<delayed, freed, collecting, left>>, StacksTyped',
           glSubscriptions' \in [Topics -> Seq(Record)], Fewer, NotifyFlags' \subseteq NotifyFlags
    PROVE  Typed' /\ LeftInv'
<1>1. LeftInv'
  BY LeftKept DEF RecordInv
<1>2. QED
  BY <1>1 DEF RecordInv, Typed, RecordsTyped, DelaysTyped, SetsTyped, delayed

LEMMA TakeSubLockRecords ==
    ASSUME RecordInv, NEW t \in Threads, TakeSubLock(t)
    PROVE  Typed' /\ LeftInv'
<1> DEFINE c == Inner(t)
           list == glSubscriptions[c.topic]
           d == [c EXCEPT !.step = "next", !.was = ContextsOf(list)]
<1>1. In(t, "lock") /\ UNCHANGED <<glSubscriptions, delayed, freed, collecting, left>>
  BY DEF TakeSubLock, ends
<1>2. Typed /\ calls[t] # <<>> /\ c \in Call /\ c.topic \in Topics
  BY <1>1, InnerIsCall DEF RecordInv
<1>3. CASE InnerBecomes(t, d) /\ UNCHANGED NotifyFlags
  <2>1. list \in Seq(Record)
    BY <1>2 DEF Typed, RecordsTyped
  <2>2. ContextsOf(list) \in Seq(Contexts)
    <3> HIDE DEF list
    <3>1. /\ Len(list) \in Nat /\ DOMAIN list = 1..Len(list)
          /\ \A i \in 1..Len(list) : list[i] \in Record
      BY <2>1
    <3>2. \A i \in 1..Len(list) : list[i].context \in Contexts
      BY <3>1 DEF Record
    <3>3. QED
      BY <3>1, <3>2 DEF ContextsOf
  <2>3. d \in Call
    <3> HIDE DEF c, list
    <3>1. QED
      BY <1>2, <2>2 DEF Call, Steps
  <2> HIDE DEF d
  <2>4. StacksTyped'
    BY <1>2, <1>3, <2>3, StacksBecome
  <2>5. QED
    BY <1>1, <1>2, <1>3, <2>4, ElsewhereRecords DEF Typed, SetsTyped, registry
<1>4. CASE PassOver(t) /\ NotifyFlags' \subseteq NotifyFlags
  <2>1. StacksTyped'
    BY <1>2, <1>4, StacksPassOver
  <2>2. glSubscriptions' \in [Topics -> Seq(Record)] /\ Fewer
    BY <1>1, <1>2, SameRecords DEF Typed, RecordsTyped
  <2>3. QED
    BY <1>1, <1>4, <2>1, <2>2, FewerRecords
<1>5. QED
  BY <1>3, <1>4 DEF TakeSubLock

LEMMA VisitRecords ==
    ASSUME RecordInv, NEW t \in Threads, Visit(t)
    PROVE  Typed' /\ LeftInv'
<1> DEFINE c == Inner(t)
           list == glSubscriptions[c.topic]
           marked == [list EXCEPT ![c.at] = Stale(list[c.at])]
           d == [c EXCEPT !.at = @ + 1, !.stale_found = TRUE]
           e == [c EXCEPT !.step = "callback"]
<1>1. In(t, "next") /\ UNCHANGED <<NotifyFlags, delayed, freed, collecting, left>>
  BY DEF Visit, ends
<1>2. Typed /\ calls[t] # <<>> /\ c \in Call /\ c.topic \in Topics /\ c.at \in Nat
  BY <1>1, InnerIsCall DEF RecordInv
<1>3. d \in Call /\ e \in Call
  <2> HIDE DEF c
  <2>1. c.at + 1 \in Nat
    BY <1>2
  <2>2. QED
    BY <1>2, <2>1 DEF Call, Steps
<1>4. CASE /\ glSubscriptions' = [glSubscriptions EXCEPT ![c.topic] = marked]
           /\ InnerBecomes(t, d)
  <2>1. list \in Seq(Record) /\ glSubscriptions \in [Topics -> Seq(Record)]
    BY <1>2 DEF Typed, RecordsTyped
  <2>2. Of(marked, list)
    <3>1. Len(list) \in Nat /\ DOMAIN list = 1..Len(list) /\ DOMAIN marked = DOMAIN list
      BY <2>1
    <3>2. \A i \in 1..Len(list) : marked[i].context = list[i].context /\ marked[i] \in Record
      <4>1. \A i \in 1..Len(list) : list[i] \in Record
        BY <2>1
      <4>2. \A i \in 1..Len(list) : Stale(list[i]).context = list[i].context /\ Stale(list[i]) \in Record
        BY <4>1 DEF Stale, Record
      <4>3. \A i \in 1..Len(list) : marked[i] = IF i = c.at THEN Stale(list[i]) ELSE list[i]
        OBVIOUS
      <4> HIDE DEF marked, list, c
      <4>4. QED
        BY <4>1, <4>2, <4>3
    <3> HIDE DEF marked, list
    <3>3. marked = [i \in 1..Len(list) |-> marked[i]]
      BY <3>1 DEF marked
    <3>4. marked \in Seq(Record)
      BY <3>1, <3>2, <3>3
    <3>5. QED
      BY <3>1, <3>2, <3>4 DEF Of
  <2> HIDE DEF marked
  <2>3. /\ glSubscriptions'[c.topic] = marked
        /\ \A p \in Topics : p # c.topic => glSubscriptions'[p] = glSubscriptions[p]
        /\ DOMAIN glSubscriptions' = Topics /\ glSubscriptions' = [p \in Topics |-> glSubscriptions'[p]]
    <3> HIDE DEF c
    <3>1. QED
      BY <1>2, <1>4, <2>1
  <2>4. \A p \in Topics : Of(glSubscriptions'[p], glSubscriptions[p])
    <3>1. \A p \in Topics : Of(glSubscriptions[p], glSubscriptions[p])
      BY <2>1, OfItself
    <3>2. QED
      BY <2>2, <2>3, <3>1
  <2>5. Fewer /\ glSubscriptions' \in [Topics -> Seq(Record)]
    BY <2>3, <2>4, FewerOf
  <2> HIDE DEF d
  <2>6. StacksTyped'
    BY <1>2, <1>3, <1>4, StacksBecome
  <2>7. QED
    BY <1>1, <2>5, <2>6, FewerRecords
<1>5. CASE InnerBecomes(t, e) /\ UNCHANGED glSubscriptions
  <2> HIDE DEF e
  <2>1. StacksTyped'
    BY <1>2, <1>3, <1>5, StacksBecome
  <2>2. QED
    BY <1>1, <1>2, <1>5, <2>1, ElsewhereRecords DEF Typed, SetsTyped, registry
<1>6. QED
  BY <1>4, <1>5 DEF Visit

LEMMA DrainEndsRecords ==
    ASSUME RecordInv, NEW t \in Threads, DrainEnds(t)
    PROVE  Typed' /\ LeftInv'
<1>1. /\ In(t, "drain") /\ PassOver(t)
      /\ UNCHANGED <<registry, delayed, freed, collecting, left>>
  BY DEF DrainEnds, ends
<1>2. Typed /\ calls[t] # <<>> /\ Inner(t) \in Call
  BY <1>1, InnerIsCall DEF RecordInv
<1>3. StacksTyped'
  BY <1>1, <1>2, StacksPassOver
<1>4. QED
  BY <1>1, <1>2, <1>3, ElsewhereRecords DEF Typed, SetsTyped

LEMMA ForgetRecords ==
    ASSUME RecordInv, NEW t \in Threads, Forget(t)
    PROVE  Typed' /\ LeftInv'
<1>1. /\ In(t, "closing") /\ Returns(t)
      /\ UNCHANGED <<NotifyFlags, delayed, freed, collecting, left>>
  BY DEF Forget, ends
<1>2. Typed /\ calls[t] # <<>>
  BY <1>1, InnerIsCall DEF RecordInv
<1>3. StacksTyped'
  BY <1>1, <1>2, StacksReturn
<1>4. glSubscriptions' \in [Topics -> Seq(Record)] /\ Fewer
  BY <1>2, ForgetLists DEF Typed
<1>5. QED
  BY <1>1, <1>3, <1>4, FewerRecords

LEMMA PassEndsRecords ==
    ASSUME RecordInv, NEW t \in Threads, PassEnds(t)
    PROVE  Typed' /\ LeftInv'
<1> DEFINE c == Inner(t)
           d == [c EXCEPT !.step = "drain"]
           lists == [glSubscriptions EXCEPT ![c.topic] = Swept(c)]
<1>1. In(t, "next") /\ UNCHANGED <<glDelayedUnsubscribe, freed, collecting, left>>
  BY DEF PassEnds, ends, delayed
<1>2. Typed /\ calls[t] # <<>> /\ c \in Call /\ c.topic \in Topics
  BY <1>1, InnerIsCall DEF RecordInv
<1>3. CASE PassOver(t) /\ UNCHANGED <<registry, delayed>>
  <2>1. StacksTyped'
    BY <1>2, <1>3, StacksPassOver
  <2>2. QED
    BY <1>1, <1>2, <1>3, <2>1, ElsewhereRecords DEF Typed, SetsTyped
<1>4. CASE /\ glSubscriptions' = AddDelayed(t, lists) /\ NotifyFlags' \subseteq NotifyFlags
           /\ glDelayedSubscribe' = [glDelayedSubscribe EXCEPT ![t] = <<>>]
           /\ InnerBecomes(t, d)
  <2>1. d \in Call
    <3> HIDE DEF c
    <3>1. QED
      BY <1>2 DEF Call, Steps
  <2> HIDE DEF d
  <2>2. StacksTyped'
    BY <1>2, <1>4, <2>1, StacksBecome
  <2>3. DelaysTyped /\ RecordsTyped
    BY <1>2 DEF Typed
  <2>4. DelaysTyped'
    BY <1>1, <1>4, <2>3 DEF DelaysTyped
  <2>5. \A p \in Topics : Of(lists[p], glSubscriptions[p])
    <3>1. Of(Swept(c), glSubscriptions[c.topic])
      BY <1>2, <2>3, SweptList
    <3>2. \A p \in Topics : lists[p] = IF p = c.topic THEN Swept(c) ELSE glSubscriptions[p]
      BY <2>3 DEF RecordsTyped
    <3>3. \A p \in Topics : Of(glSubscriptions[p], glSubscriptions[p])
      BY <2>3, OfItself DEF RecordsTyped
    <3> HIDE DEF lists, c
    <3>4. QED
      BY <3>1, <3>2, <3>3
  <2> HIDE DEF lists
  <2>6. /\ DOMAIN glSubscriptions' = Topics
        /\ glSubscriptions' = [p \in Topics |-> glSubscriptions'[p]]
    BY <1>4 DEF AddDelayed
  <2>7. ASSUME NEW p \in Topics
        PROVE  /\ glSubscriptions'[p] \in Seq(Record)
               /\ \A x : Recorded(p, x)' => Recorded(p, x) \/ PutOff(t, p, x)
    <3>1. lists[p] \in Seq(Record) /\ \A k \in DOMAIN lists[p] : Recorded(p, lists[p][k].context)
      BY <2>5 DEF Of, Recorded
    <3>2. /\ AddDelayed(t, lists)[p] \in Seq(Record)
          /\ \A k \in DOMAIN AddDelayed(t, lists)[p] :
                LET x == AddDelayed(t, lists)[p][k].context
                IN  PutOff(t, p, x) \/ \E i \in DOMAIN lists[p] : lists[p][i].context = x
      BY <2>3, <3>1, AddedList
    <3>3. glSubscriptions'[p] = AddDelayed(t, lists)[p]
      BY <1>4
    <3>4. ASSUME NEW x, Recorded(p, x)' PROVE Recorded(p, x) \/ PutOff(t, p, x)
      <4>1. PICK k \in DOMAIN glSubscriptions'[p] : glSubscriptions'[p][k].context = x
        BY <3>4 DEF Recorded
      <4>2. PutOff(t, p, x) \/ \E i \in DOMAIN lists[p] : lists[p][i].context = x
        BY <3>2, <3>3, <4>1
      <4>3. QED
        BY <3>1, <4>2
    <3>5. QED
      BY <3>2, <3>3, <3>4
  <2>8. RecordsTyped'
    BY <1>4, <2>3, <2>6, <2>7 DEF RecordsTyped
  <2>9. ASSUME NEW u \in Threads, NEW p, NEW x, PutOff(u, p, x)' PROVE PutOff(u, p, x)
    <3>1. glDelayedSubscribe'[u] = IF u = t THEN <<>> ELSE glDelayedSubscribe[u]
      BY <1>4, <2>3 DEF DelaysTyped
    <3>2. QED
      BY <2>9, <3>1 DEF PutOff
  <2>10. \A u, p, x : EndsSoon(u, p, x)' <=> EndsSoon(u, p, x)
    BY <1>1 DEF EndsSoon, Ends
  <2>11. LeftInv'
    <3>1. SUFFICES ASSUME NEW p \in Topics, NEW x \in Contexts, <<p, x>> \in left',
                          Recorded(p, x)' \/ \E u \in Threads : PutOff(u, p, x)'
                   PROVE  \E u \in Threads : EndsSoon(u, p, x)'
      BY DEF LeftInv
    <3>2. Recorded(p, x) \/ \E u \in Threads : PutOff(u, p, x)
      BY <2>7, <2>9, <3>1
    <3>3. <<p, x>> \in left
      BY <1>1, <3>1
    <3>4. QED
      BY <2>10, <3>2, <3>3 DEF RecordInv, LeftInv
  <2>12. QED
    BY <1>1, <1>2, <2>2, <2>4, <2>8, <2>11 DEF Typed, SetsTyped
<1>5. QED
  BY <1>3, <1>4 DEF PassEnds, delayed

\* What is left of a list when its first is taken.
LEMMA Taken ==
    ASSUME NEW S, NEW s \in Seq(S), s # <<>>
    PROVE  /\ Tail(s) \in Seq(S) /\ Head(s) \in S
           /\ \A n \in DOMAIN s : s[n] = Head(s) \/ \E m \in DOMAIN Tail(s) : Tail(s)[m] = s[n]
           /\ \A m \in DOMAIN Tail(s) : \E n \in DOMAIN s : Tail(s)[m] = s[n]
<1>1. /\ Len(s) \in Nat /\ Len(s) > 0 /\ DOMAIN s = 1..Len(s) /\ Head(s) = s[1]
      /\ Tail(s) \in Seq(S) /\ Len(Tail(s)) = Len(s) - 1 /\ DOMAIN Tail(s) = 1..(Len(s) - 1)
      /\ \A m \in 1..(Len(s) - 1) : Tail(s)[m] = s[m + 1]
  OBVIOUS
<1>2. Head(s) \in S
  BY <1>1
<1>3. \A n \in DOMAIN s : n = 1 \/ (n - 1 \in 1..(Len(s) - 1) /\ (n - 1) + 1 = n)
  BY <1>1
<1>4. \A m \in 1..(Len(s) - 1) : m + 1 \in 1..Len(s)
  BY <1>1
<1>5. QED
  BY <1>1, <1>2, <1>3, <1>4

LEMMA DrainRecords ==
    ASSUME RecordInv, NEW t \in Threads, Drain(t)
    PROVE  Typed' /\ LeftInv'
<1> DEFINE list == glDelayedUnsubscribe[t]
           e == Head(list)
<1>1. /\ In(t, "drain") /\ list # <<>>
      /\ glDelayedUnsubscribe' = [glDelayedUnsubscribe EXCEPT ![t] = Tail(@)]
      /\ UNCHANGED <<glDelayedSubscribe, calls, freed, collecting>>
      /\ \/ Unsubscribe(e.object, e.action, e.context) /\ UNCHANGED left
         \/ /\ left' = left \ (Affected(e.object, e.action) \X {e.context})
            /\ UNCHANGED registry
  BY DEF Drain, DrainContextOf, ends
<1>2. Typed /\ PassInv
  BY DEF RecordInv
<1>3. /\ glDelayedUnsubscribe \in [Threads -> Seq(Leaving)] /\ list \in Seq(Leaving)
  BY <1>2 DEF Typed, DelaysTyped
<1>4. /\ Tail(list) \in Seq(Leaving) /\ e \in Leaving
      /\ \A n \in DOMAIN list : list[n] = e \/ \E m \in DOMAIN Tail(list) : Tail(list)[m] = list[n]
  <2> HIDE DEF list
  <2>1. QED
    BY <1>1, <1>3, Taken
<1>5. /\ glDelayedUnsubscribe'[t] = Tail(list)
      /\ \A u \in Threads : u # t => glDelayedUnsubscribe'[u] = glDelayedUnsubscribe[u]
  BY <1>1, <1>3
<1>6. e.object \in Objects /\ e.action \in Scopes /\ e.context \in Contexts
  <2> HIDE DEF e
  <2>1. QED
    BY <1>4 DEF Leaving
<1>7. DelaysTyped' /\ StacksTyped'
  <2>1. Tail(glDelayedUnsubscribe[t]) \in Seq(Leaving)
    BY <1>4
  <2>2. QED
    BY <1>1, <1>2, <1>3, <2>1 DEF Typed, DelaysTyped, StacksTyped
<1>8. SetsTyped'
  BY <1>1, <1>2 DEF Typed, SetsTyped
<1>9. /\ RecordsTyped' /\ Fewer
      /\ \A p, x : Ends(e, p, x) => ~(<<p, x>> \in left' /\ Recorded(p, x)')
      /\ left' \subseteq left
  <2>1. CASE Unsubscribe(e.object, e.action, e.context) /\ UNCHANGED left
    <3> HIDE DEF e
    <3>1. PICK o \in Objects, a \in Scopes, d \in Contexts : o = e.object /\ a = e.action /\ d = e.context
      BY <1>6
    <3>2. Unsubscribe(o, a, d) /\ RecordsTyped
      BY <1>2, <2>1, <3>1 DEF Typed
    <3>3. RecordsTyped' /\ Fewer /\ \A p \in Affected(o, a) : ~Recorded(p, d)'
      BY <3>2, UnsubscribeLists
    <3>4. \A p, x : Ends(e, p, x) => p \in Affected(o, a) /\ x = d
      BY <3>1 DEF Ends
    <3>5. QED
      BY <2>1, <3>3, <3>4
  <2>2. CASE /\ left' = left \ (Affected(e.object, e.action) \X {e.context})
             /\ UNCHANGED registry
    <3>1. Fewer
      BY <2>2, SameRecords DEF registry
    <3> HIDE DEF e
    <3>2. QED
      BY <1>2, <2>2, <3>1 DEF Typed, RecordsTyped, registry, Ends
  <2>3. QED
    BY <1>1, <2>1, <2>2
<1>10. \A u \in Threads : glDelayedSubscribe[u] = <<>>
  <2>1. OwnsSubLock(t) /\ glDelayedSubscribe[t] = <<>>
    BY <1>1, <1>2, DrainReadsNothing
  <2>2. \A u \in Threads \ {t} : ~OwnsSubLock(u)
    BY <1>2, <2>1 DEF PassInv, OneOwner
  <2>3. QED
    BY <1>2, <2>1, <2>2 DEF PassInv, DelaysEndWithPass
<1>11. \A u \in Threads : \A p, x : ~PutOff(u, p, x)'
  BY <1>1, <1>10 DEF PutOff
<1>12. ASSUME NEW u \in Threads, NEW p \in Topics, NEW x \in Contexts, EndsSoon(u, p, x), ~Ends(e, p, x)
       PROVE  EndsSoon(u, p, x)'
  <2>1. PICK n \in DOMAIN glDelayedUnsubscribe[u] : Ends(glDelayedUnsubscribe[u][n], p, x)
    BY <1>12 DEF EndsSoon
  <2>2. \E m \in DOMAIN glDelayedUnsubscribe'[u] : glDelayedUnsubscribe'[u][m] = glDelayedUnsubscribe[u][n]
    <3>1. CASE u = t
      <4>1. list[n] # e
        BY <1>12, <2>1, <3>1
      <4>2. PICK m \in DOMAIN Tail(list) : Tail(list)[m] = list[n]
        <5> HIDE DEF e
        <5>1. QED
          BY <1>4, <2>1, <3>1, <4>1
      <4>3. QED
        BY <1>5, <3>1, <4>2
    <3>2. CASE u # t
      BY <1>5, <2>1, <3>2
    <3>3. QED
      BY <3>1, <3>2
  <2>3. QED
    BY <2>1, <2>2 DEF EndsSoon, Ends
<1> HIDE DEF e
<1>13. LeftInv'
  <2>1. SUFFICES ASSUME NEW p \in Topics, NEW x \in Contexts, <<p, x>> \in left',
                        Recorded(p, x)' \/ \E u \in Threads : PutOff(u, p, x)'
                 PROVE  \E u \in Threads : EndsSoon(u, p, x)'
    BY DEF LeftInv
  <2>2. Recorded(p, x)' /\ Recorded(p, x) /\ <<p, x>> \in left
    BY <1>9, <1>11, <2>1 DEF Fewer
  <2>3. PICK u \in Threads : EndsSoon(u, p, x)
    BY <2>2 DEF RecordInv, LeftInv
  <2>4. ~Ends(e, p, x)
    BY <1>9, <2>1, <2>2
  <2>5. QED
    BY <1>12, <2>3, <2>4
<1>14. QED
  BY <1>7, <1>8, <1>9, <1>13 DEF Typed

-----------------------------------------------------------------------------
LEMMA RecordInit == Init => RecordInv
<1> SUFFICES ASSUME Init PROVE RecordInv
  OBVIOUS
<1>1. PassInv
  BY PassInit
<1>2. Typed
  BY DEF Init, Typed, RecordsTyped, DelaysTyped, StacksTyped, SetsTyped
<1>3. LeftInv
  BY DEF Init, LeftInv
<1>4. QED
  BY <1>1, <1>2, <1>3 DEF RecordInv

LEMMA RecordStep == RecordInv /\ [Next]_vars => RecordInv'
<1> SUFFICES ASSUME RecordInv, [Next]_vars PROVE RecordInv'
  OBVIOUS
<1>1. ASSUME NEW t \in Threads, Progress(t) PROVE Typed' /\ LeftInv'
  BY <1>1, TakeObjectRecords, RoutineReturnsRecords, TakeSubLockRecords, VisitRecords,
     CallbackRecords, PassEndsRecords, DrainRecords, DrainEndsRecords, ForgetRecords DEF Progress
<1>2. ASSUME NEW t \in Threads, Client(t) PROVE Typed' /\ LeftInv'
  BY <1>2, SubscribeRecords, UnsubscribeRecords, FreeRecords, BeginRecords DEF Client
<1>3. CASE UNCHANGED vars
  <2>1. StacksTyped' /\ freed' \subseteq Contexts /\ collecting' \subseteq Objects
    BY <1>3 DEF RecordInv, Typed, StacksTyped, SetsTyped, vars
  <2>2. UNCHANGED <<registry, delayed, left>>
    BY <1>3 DEF vars, registry, delayed
  <2>3. Typed' /\ LeftInv'
    BY <2>1, <2>2, ElsewhereRecords
  <2>4. QED
    BY <2>3, PassStep DEF RecordInv
<1>4. PassInv'
  BY PassStep DEF RecordInv
<1>5. QED
  BY <1>1, <1>2, <1>3, <1>4 DEF Next, RecordInv

\* Where a context has unsubscribed last, it has a record, or one that is put off,
\* only while an unsubscription that ends it is put off too: the changes of a pass
\* are applied in an order that leaves the last word to UnsubscribeAction().
THEOREM RecordsCorrect == Spec => []RecordInv
<1>1. QED
  BY RecordInit, RecordStep, PTL DEF Spec

\* The registry, the flags and the lists of what was put off keep their shapes,
\* glSubLock has one owner, and the lists are empty outside of a pass.
THEOREM SubscriptionsCorrect == Spec => []SubscriptionsInv
<1>1. RecordInv => SubscriptionsInv
  BY TypedIs DEF RecordInv, PassInv, SubscriptionsInv
<1>2. QED
  BY <1>1, RecordsCorrect, PTL

\* UnsubscribeAction() is the last word: once the passes are over, no record is
\* left of a context that has unsubscribed, in whatever callback it did so.
THEOREM NoneAfterLeaving == Spec => []UnsubscribedHasNoRecord
<1>1. RecordInv => UnsubscribedHasNoRecord
  <2> SUFFICES ASSUME RecordInv, \A t \in Threads : ~OwnsSubLock(t), NEW x \in left
               PROVE  x[2] \notin Range(ContextsOf(glSubscriptions[x[1]]))
    BY DEF UnsubscribedHasNoRecord
  <2>1. x[1] \in Topics /\ x[2] \in Contexts /\ x = <<x[1], x[2]>>
    BY DEF RecordInv, Typed, SetsTyped
  <2>2. \A t \in Threads : ~EndsSoon(t, x[1], x[2])
    BY DEF RecordInv, PassInv, DelaysEndWithPass, EndsSoon
  <2>3. ~Recorded(x[1], x[2])
    BY <2>1, <2>2 DEF RecordInv, LeftInv
  <2>4. QED
    BY <2>3 DEF Recorded, Range, ContextsOf
<1>2. QED
  BY <1>1, RecordsCorrect, PTL
=============================================================================
