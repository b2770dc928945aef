---------------------------- MODULE TimersProofs ----------------------------
(***************************************************************************)
(* Timers, for any subscriptions, objects, nesting and clock: the weak     *)
(* pins balance, a loop keeps the entry that it works on, no routine is    *)
(* re-entered or called twice in a cycle, and a routine in C has its       *)
(* subscriber locked and alive.                                            *)
(***************************************************************************)
EXTENDS Timers, FiniteSetTheorems, SequenceTheorems, TLAPS

\* What an entry of the list, or what is left of one, looks like.
Lengths == Intervals \cup Easings \cup {0}
AnyForm == [subscriber : Objects \cup {None}, context : Objects \cup {None}, script : BOOLEAN]
Entry == [form : AnyForm, Interval : Lengths, PendingInterval : Lengths, NextCall : Nat,
          Cycle : 0..CycleValues - 1, Locked : BOOLEAN, defined : BOOLEAN]

\* The list and the pins of its entries.
ListTyped ==
    /\ glTimerID \in 0..MaxTimers /\ glTimers \subseteq 1..glTimerID
    /\ timer \in [Timers -> Entry]
    /\ \A i \in glTimers : timer[i].form \in Forms[i]
    /\ pins \in [Objects -> Nat]
EntriesInv == ListTyped /\ PinsBalanced

\* The objects, the clock and the loops.
RestTyped ==
    /\ glTimerCycle \in 0..CycleValues - 1
    /\ state \in [Objects -> {"live", "marked", "freeing", "freed"}]
    /\ locked \subseteq Objects
    /\ loop \in Seq(Loop)
    /\ now \in 0..MaxTime

Working == {"dispatch", "lock", "ended", "callback", "finish"}

\* The entry that a loop is working on is in the list and locked; the one that
\* the scan has stopped at is in the list, and is not locked.
AtItsEntry(f) ==
    /\ f.step \in Working => f.at \in glTimers /\ timer[f.at].Locked
    /\ f.step = "scan" => /\ f.at \in glTimers /\ ~timer[f.at].Locked
                          /\ Orphaned(f.at) \/ timer[f.at].NextCall <= f.cycle_time
    /\ f.step = "lock" => Subscriber(f.at) \in Objects

\* An entry that has been called in the cycle is not due again in it, and so is
\* one that is about to be called.
CalledLater(f) ==
    /\ f.cycle_time <= now /\ f.ran \subseteq 1..glTimerID
    /\ \A i \in f.ran : i \in glTimers => timer[i].NextCall > f.cycle_time
    /\ f.step \in {"dispatch", "lock"} => f.at \notin f.ran
    /\ f.step \in {"dispatch", "lock", "callback"} => timer[f.at].NextCall > f.cycle_time

\* A routine in C keeps its subscriber locked and alive.
Guarded(f) == f.step = "callback" /\ ~Form(f.at).script /\ Subscriber(f.at) # None
Holds(f) == Guarded(f) => Subscriber(f.at) \in locked /\ ~terminating(Subscriber(f.at))

LoopOK(f) == AtItsEntry(f) /\ CalledLater(f) /\ Holds(f)
LoopsOK == \A n \in 1..Len(loop) : LoopOK(loop[n])

\* Only the innermost loop is outside of a callback and of a message handler.
Nested == \A n \in 1..Len(loop) : n < Len(loop) => loop[n].step \in {"callback", "messages"}

\* No two loops work on one entry.
Apart == \A m, n \in 1..Len(loop) :
    m # n /\ loop[m].step \in Working /\ loop[n].step \in Working => loop[m].at # loop[n].at

LoopsInv == LoopsOK /\ Nested /\ Apart
ServiceInv == EntriesInv /\ RestTyped /\ LoopsInv

-----------------------------------------------------------------------------
(* Sequences.                                                              *)

\* The innermost loop.
LEMMA Innermost ==
    ASSUME loop \in Seq(Loop), loop # <<>>
    PROVE  /\ Len(loop) \in Nat \ {0} /\ Len(loop) \in 1..Len(loop) /\ DOMAIN loop = 1..Len(loop)
           /\ Inner = loop[Len(loop)] /\ Inner \in Loop /\ At = Inner.at
  BY DEF Inner, Last, At

LEMMA WithoutLast ==
    ASSUME NEW S, NEW q \in Seq(S), q # <<>>
    PROVE  /\ Front(q) \in Seq(S) /\ Len(Front(q)) = Len(q) - 1
           /\ \A i \in 1..(Len(q) - 1) : Front(q)[i] = q[i]
<1> DEFINE n == Len(q) - 1
           p == SubSeq(q, 1, n)
<1>1. n \in Nat /\ \A i \in 1..n : q[i] \in S
  OBVIOUS
<1> HIDE DEF n
<1>2. /\ p \in Seq(S) /\ Len(p) = IF 1 <= n THEN n - 1 + 1 ELSE 0
      /\ \A i \in 1..(n - 1 + 1) : p[i] = q[1 + i - 1]
  BY <1>1, SubSeqProperties
<1>3. Front(q) = p
  BY DEF Front, n
<1> HIDE DEF p
<1>4. n - 1 + 1 = n /\ \A i \in 1..n : 1 + i - 1 = i
  BY <1>1
<1>5. Len(p) = n
  BY <1>1, <1>2
<1>6. QED
  BY <1>2, <1>3, <1>4, <1>5 DEF n

LEMMA InnerReplaced ==
    ASSUME loop \in Seq(Loop), loop # <<>>, NEW f \in Loop, InnerBecomes(f)
    PROVE  /\ loop' \in Seq(Loop) /\ loop' # <<>> /\ Len(loop') = Len(loop)
           /\ loop'[Len(loop)] = f
           /\ \A i \in 1..(Len(loop) - 1) : loop'[i] = loop[i]
<1>1. Len(loop) \in Nat \ {0}
  OBVIOUS
<1>2. /\ Front(loop) \in Seq(Loop) /\ Len(Front(loop)) = Len(loop) - 1
      /\ \A i \in 1..(Len(loop) - 1) : Front(loop)[i] = loop[i]
  BY WithoutLast
<1>3. loop' = Append(Front(loop), f)
  BY DEF InnerBecomes
<1>4. /\ Append(Front(loop), f) \in Seq(Loop)
      /\ Len(Append(Front(loop), f)) = Len(Front(loop)) + 1
      /\ Append(Front(loop), f)[Len(Front(loop)) + 1] = f
      /\ \A i \in 1..Len(Front(loop)) : Append(Front(loop), f)[i] = Front(loop)[i]
  BY <1>2, AppendProperties
<1>5. /\ loop' \in Seq(Loop) /\ Len(loop') = Len(loop)
      /\ loop'[Len(loop)] = f
      /\ \A i \in 1..(Len(loop) - 1) : loop'[i] = Front(loop)[i]
  BY <1>1, <1>2, <1>3, <1>4
<1>6. QED
  BY <1>1, <1>2, <1>5

LEMMA LoopBegun ==
    ASSUME loop \in Seq(Loop), NEW f \in Loop, loop' = Append(loop, f)
    PROVE  /\ loop' \in Seq(Loop) /\ Len(loop') = Len(loop) + 1 /\ Len(loop) \in Nat
           /\ loop'[Len(loop) + 1] = f
           /\ \A i \in 1..Len(loop) : loop'[i] = loop[i]
  BY AppendProperties

LEMMA LoopLeft ==
    ASSUME loop \in Seq(Loop), loop # <<>>, loop' = Front(loop)
    PROVE  /\ loop' \in Seq(Loop) /\ Len(loop') = Len(loop) - 1 /\ Len(loop) \in Nat \ {0}
           /\ \A i \in 1..(Len(loop) - 1) : loop'[i] = loop[i]
<1>1. Len(loop) \in Nat \ {0}
  OBVIOUS
<1>2. QED
  BY <1>1, WithoutLast

-----------------------------------------------------------------------------
(* The list and the weak pins of its entries.                              *)

\* The identifier of no entry.
Nobody == 0

\* An entry of the list.
Listed == \A i \in glTimers :
    /\ i \in Timers /\ i \in 1..glTimerID /\ i # Nobody /\ timer[i] \in Entry /\ timer[i].NextCall \in Nat
    /\ timer[i].form \in Forms[i] /\ timer[i].form \in AnyForm
    /\ Subscriber(i) \in Objects \cup {None} /\ Form(i).context \in Objects \cup {None}

LEMMA ListedNow == ListTyped => Listed
<1>1. SUFFICES ASSUME ListTyped, NEW i \in glTimers
               PROVE  /\ i \in Timers /\ i \in 1..glTimerID /\ i # Nobody /\ timer[i] \in Entry
                      /\ timer[i].NextCall \in Nat /\ timer[i].form \in Forms[i]
                      /\ timer[i].form \in AnyForm
                      /\ Subscriber(i) \in Objects \cup {None} /\ Form(i).context \in Objects \cup {None}
  BY DEF Listed
<1>2. i \in Timers /\ i \in 1..glTimerID /\ i # Nobody
  BY <1>1, TimerAssumption DEF ListTyped, Timers, Nobody
<1>3. timer[i] \in Entry
  BY <1>1, <1>2 DEF ListTyped
<1>4. timer[i].NextCall \in Nat /\ timer[i].form \in AnyForm
  BY <1>3 DEF Entry
<1>5. Subscriber(i) \in Objects \cup {None} /\ Form(i).context \in Objects \cup {None}
  BY <1>4 DEF AnyForm, Subscriber, Form
<1>6. QED
  BY <1>1, <1>2, <1>3, <1>4, <1>5 DEF ListTyped

LEMMA ListedNext == (ListTyped => Listed)'
<1>1. ListTyped => Listed
  BY ListedNow
<1>2. QED
  BY <1>1, PTL

\* The entries are finitely many.
LEMMA Finitely ==
    ASSUME ListTyped, NEW S \in SUBSET glTimers, NEW o
    PROVE  /\ IsFiniteSet(glTimers) /\ IsFiniteSet(S)
           /\ IsFiniteSet(Subscribed(o, S)) /\ IsFiniteSet(Routines(o, S))
           /\ Pins(o, S) \in Nat
<1>1. IsFiniteSet(1..glTimerID)
  BY FS_Interval DEF ListTyped
<1>2. IsFiniteSet(glTimers)
  BY <1>1, FS_Subset DEF ListTyped
<1>3. IsFiniteSet(S)
  BY <1>2, FS_Subset
<1>4. Subscribed(o, S) \in SUBSET S /\ Routines(o, S) \in SUBSET S
  BY DEF Subscribed, Routines
<1>5. IsFiniteSet(Subscribed(o, S)) /\ IsFiniteSet(Routines(o, S))
  BY <1>3, <1>4, FS_Subset
<1>6. Cardinality(Subscribed(o, S)) \in Nat /\ Cardinality(Routines(o, S)) \in Nat
  BY <1>5, FS_CardinalityType
<1>7. QED
  BY <1>2, <1>3, <1>5, <1>6 DEF Pins

\* What a set of entries leaves behind when it goes.
LEMMA PinsWithout ==
    ASSUME ListTyped, NEW S \in SUBSET glTimers, NEW o
    PROVE  Pins(o, glTimers \ S) = Pins(o, glTimers) - Pins(o, S)
<1>1. /\ IsFiniteSet(Subscribed(o, glTimers)) /\ IsFiniteSet(Routines(o, glTimers))
      /\ IsFiniteSet(Subscribed(o, S)) /\ IsFiniteSet(Routines(o, S))
  BY Finitely
<1>2. /\ Subscribed(o, glTimers \ S) = Subscribed(o, glTimers) \ Subscribed(o, S)
      /\ Subscribed(o, glTimers) \cap Subscribed(o, S) = Subscribed(o, S)
  BY DEF Subscribed
<1>3. /\ Routines(o, glTimers \ S) = Routines(o, glTimers) \ Routines(o, S)
      /\ Routines(o, glTimers) \cap Routines(o, S) = Routines(o, S)
  BY DEF Routines
<1> DEFINE A == Subscribed(o, glTimers)
           B == Subscribed(o, S)
           C == Routines(o, glTimers)
           D == Routines(o, S)
<1>4. /\ Cardinality(A \ B) = Cardinality(A) - Cardinality(A \cap B)
      /\ Cardinality(C \ D) = Cardinality(C) - Cardinality(C \cap D)
  BY <1>1, FS_Difference
<1>5. /\ Cardinality(A) \in Nat /\ Cardinality(B) \in Nat
      /\ Cardinality(C) \in Nat /\ Cardinality(D) \in Nat
  BY <1>1, FS_CardinalityType
<1>6. /\ Cardinality(Subscribed(o, glTimers \ S)) = Cardinality(A) - Cardinality(B)
      /\ Cardinality(Routines(o, glTimers \ S)) = Cardinality(C) - Cardinality(D)
  BY <1>2, <1>3, <1>4
<1> HIDE DEF A, B, C, D
<1>7. /\ Pins(o, glTimers) = Cardinality(A) + Cardinality(C)
      /\ Pins(o, S) = Cardinality(B) + Cardinality(D)
  BY DEF Pins, A, B, C, D
<1>8. Pins(o, glTimers \ S) = (Cardinality(A) - Cardinality(B)) + (Cardinality(C) - Cardinality(D))
  BY <1>6 DEF Pins
<1>9. QED
  BY <1>5, <1>7, <1>8

LEMMA NoEntry == NoTimer \in Entry
<1>1. CycleValues \in Nat \ {0}
  BY TimerAssumption
<1>2. 0 \in Lengths /\ 0 \in 0..CycleValues - 1
  BY <1>1 DEF Lengths
<1>3. [subscriber |-> None, context |-> None, script |-> FALSE] \in AnyForm
  BY DEF AnyForm
<1>4. QED
  BY <1>2, <1>3 DEF NoTimer, Entry

\* Entries go with their pins.
LEMMA Erased ==
    ASSUME EntriesInv, NEW S \in SUBSET glTimers, Erase(S)
    PROVE  /\ EntriesInv'
           /\ glTimers' = glTimers \ S /\ glTimerID' = glTimerID
           /\ \A i \in glTimers' : timer'[i] = timer[i]
<1>1. glTimers \subseteq Timers
  BY TimerAssumption DEF EntriesInv, ListTyped, Timers
<1>2. /\ glTimers' = glTimers \ S /\ glTimerID' = glTimerID
      /\ \A i \in glTimers' : timer'[i] = timer[i]
  BY <1>1 DEF Erase
<1>3. timer' \in [Timers -> Entry]
  BY NoEntry DEF Erase, EntriesInv, ListTyped
<1>4. \A o \in Objects : Pins(o, glTimers)' = Pins(o, glTimers \ S)
  <2> TAKE o \in Objects
  <2>1. Subscribed(o, glTimers)' = Subscribed(o, glTimers \ S)
    BY <1>2 DEF Subscribed, Subscriber, Form
  <2>2. Routines(o, glTimers)' = Routines(o, glTimers \ S)
    BY <1>2 DEF Routines, Form
  <2>3. QED
    BY <2>1, <2>2 DEF Pins
<1>5. \A o \in Objects : Pins(o, glTimers \ S) = Pins(o, glTimers) - Pins(o, S)
  BY PinsWithout DEF EntriesInv
<1>6. \A o \in Objects : pins'[o] = pins[o] - Pins(o, S)
  BY DEF Erase
<1>7. PinsBalanced'
  BY <1>4, <1>5, <1>6 DEF PinsBalanced, EntriesInv
<1>8. \A o \in Objects : Pins(o, glTimers \ S) \in Nat
  <2>1. glTimers \ S \in SUBSET glTimers
    OBVIOUS
  <2>2. QED
    BY <2>1, Finitely DEF EntriesInv
<1>9. pins' \in [Objects -> Nat]
  <2>1. \A o \in Objects : pins'[o] \in Nat
    BY <1>4, <1>7, <1>8 DEF PinsBalanced
  <2>2. pins' = [o \in Objects |-> pins'[o]]
    BY DEF Erase
  <2>3. QED
    BY <2>1, <2>2
<1>10. ListTyped'
  BY <1>2, <1>3, <1>9 DEF ListTyped, EntriesInv
<1>11. QED
  BY <1>2, <1>7, <1>10 DEF EntriesInv

\* Entries change, but for what they hold a pin on.
LEMMA Adjusted ==
    ASSUME EntriesInv, UNCHANGED <<glTimers, glTimerID, pins>>, timer' \in [Timers -> Entry],
           \A i \in glTimers : timer'[i].form = timer[i].form /\ timer'[i].defined = timer[i].defined
    PROVE  EntriesInv'
<1>1. ListTyped'
  BY DEF EntriesInv, ListTyped
<1>2. \A o \in Objects : Pins(o, glTimers)' = Pins(o, glTimers)
  <2> TAKE o \in Objects
  <2>1. Subscribed(o, glTimers)' = Subscribed(o, glTimers)
    BY DEF Subscribed, Subscriber, Form
  <2>2. Routines(o, glTimers)' = Routines(o, glTimers)
    BY DEF Routines, Form
  <2>3. QED
    BY <2>1, <2>2 DEF Pins
<1>3. PinsBalanced'
  BY <1>2 DEF PinsBalanced, EntriesInv
<1>4. QED
  BY <1>1, <1>3 DEF EntriesInv

LEMMA EntriesKept ==
    ASSUME EntriesInv, UNCHANGED entries
    PROVE  EntriesInv'
  BY Adjusted DEF EntriesInv, ListTyped, entries
-----------------------------------------------------------------------------
(* The loops.                                                              *)

\* What a step may do to the entries and to the objects: only the entry x may be
\* unlocked or erased while it is locked, only the object u may be given up.
EntriesGentle(x) ==
    /\ glTimerID <= glTimerID'
    /\ \A i \in 1..glTimerID : i \in glTimers' =>
          /\ i \in glTimers /\ timer'[i].form = timer[i].form
          /\ timer'[i].NextCall = timer[i].NextCall \/ timer'[i].NextCall > now
    /\ \A i \in glTimers : i # x /\ timer[i].Locked => i \in glTimers' /\ timer'[i].Locked
ObjectsGentle(u) ==
    \A o \in locked : o # u /\ ~terminating(o) => o \in locked' /\ ~terminating(o)'
Gentle(x, u) == EntriesGentle(x) /\ ObjectsGentle(u) /\ now <= now'

\* What was called in the cycle is not due again.
LEMMA RanKept ==
    ASSUME ListTyped, ListTyped', RestTyped, RestTyped',
           NEW n \in 1..Len(loop), CalledLater(loop[n]), NEW x, EntriesGentle(x), now <= now'
    PROVE  /\ loop[n].cycle_time <= now' /\ loop[n].ran \subseteq 1..glTimerID'
           /\ \A i \in loop[n].ran : i \in glTimers' => timer'[i].NextCall > loop[n].cycle_time
<1> DEFINE f == loop[n]
<1>1. f \in Loop /\ now \in Nat /\ now' \in Nat /\ glTimerID \in Nat /\ glTimerID' \in Nat
  BY DEF RestTyped, ListTyped
<1>2. f.cycle_time \in Nat /\ f.ran \subseteq Timers
  BY <1>1 DEF Loop
<1>3. glTimers \subseteq Timers /\ glTimers' \subseteq Timers
  BY TimerAssumption DEF ListTyped, Timers
<1> HIDE DEF f
<1>4. /\ f.cycle_time <= now /\ f.ran \subseteq 1..glTimerID
      /\ \A i \in f.ran : i \in glTimers => timer[i].NextCall > f.cycle_time
  BY DEF f, CalledLater
<1>5. f.cycle_time <= now' /\ f.ran \subseteq 1..glTimerID'
  BY <1>1, <1>2, <1>4 DEF EntriesGentle
<1>6. /\ \A i \in glTimers : timer[i].NextCall \in Nat
      /\ \A i \in glTimers' : timer'[i].NextCall \in Nat
  BY <1>3 DEF ListTyped, Entry
<1>7. ASSUME NEW i \in f.ran, i \in glTimers' PROVE timer'[i].NextCall > f.cycle_time
  <2>1. i \in glTimers /\ (timer'[i].NextCall = timer[i].NextCall \/ timer'[i].NextCall > now)
    BY <1>4, <1>7 DEF EntriesGentle
  <2>2. QED
    BY <1>1, <1>2, <1>4, <1>6, <1>7, <2>1
<1>8. QED
  BY <1>5, <1>7 DEF f

\* A loop that the step is not of.
LEMMA LoopKept ==
    ASSUME ListTyped, ListTyped', RestTyped, RestTyped',
           NEW n \in 1..Len(loop), n \in 1..Len(loop'), loop'[n] = loop[n], LoopOK(loop[n]),
           NEW x, NEW u, Gentle(x, u),
           loop[n].step \in Working => loop[n].at # x,
           Guarded(loop[n]) => Subscriber(loop[n].at) # u,
           loop[n].step # "scan"
    PROVE  LoopOK(loop[n])'
<1> DEFINE f == loop[n]
<1>1. f \in Loop /\ now \in Nat /\ now' \in Nat /\ glTimerID \in Nat /\ glTimerID' \in Nat
  BY DEF RestTyped, ListTyped
<1>2. f.cycle_time \in Nat /\ f.ran \subseteq Timers
  BY <1>1 DEF Loop
<1>3. glTimers \subseteq 1..glTimerID /\ glTimers \subseteq Timers
  BY TimerAssumption DEF ListTyped, Timers
<1> HIDE DEF f
<1>4. f.step \in Working => f.at \in glTimers /\ timer[f.at].Locked /\ f.at # x
  BY DEF f, LoopOK, AtItsEntry
<1>5. f.step \in Working =>
         /\ f.at \in glTimers' /\ timer'[f.at].Locked
         /\ timer'[f.at].form = timer[f.at].form
         /\ timer'[f.at].NextCall = timer[f.at].NextCall \/ timer'[f.at].NextCall > now
  BY <1>3, <1>4 DEF Gentle, EntriesGentle
<1>6. f.step = "lock" => timer[f.at].form.subscriber \in Objects
  BY DEF f, LoopOK, AtItsEntry, Subscriber, Form
<1>7. AtItsEntry(loop[n])'
  BY <1>5, <1>6 DEF f, AtItsEntry, Working, Subscriber, Form
<1>8. CalledLater(loop[n])'
  <2>1. /\ f.cycle_time <= now' /\ f.ran \subseteq 1..glTimerID'
        /\ \A i \in f.ran : i \in glTimers' => timer'[i].NextCall > f.cycle_time
    BY RanKept DEF LoopOK, Gentle, f
  <2>2. /\ f.step \in {"dispatch", "lock"} => f.at \notin f.ran
        /\ f.step \in {"dispatch", "lock", "callback"} => timer[f.at].NextCall > f.cycle_time
        /\ f.cycle_time <= now
    BY DEF f, LoopOK, CalledLater
  <2>3. /\ \A i \in glTimers : timer[i].NextCall \in Nat
        /\ \A i \in glTimers' : timer'[i].NextCall \in Nat
    BY ListedNow, ListedNext DEF Listed
  <2>4. f.step \in {"dispatch", "lock", "callback"} => timer'[f.at].NextCall > f.cycle_time
    BY <1>1, <1>2, <1>4, <1>5, <2>2, <2>3 DEF Working
  <2>5. QED
    BY <2>1, <2>2, <2>4 DEF f, CalledLater
<1>9. Holds(loop[n])'
  <2>1. SUFFICES ASSUME Guarded(loop[n])'
                 PROVE  (Subscriber(loop[n].at) \in locked /\ ~terminating(Subscriber(loop[n].at)))'
    BY DEF Holds
  <2>2. f.step = "callback"
    BY <2>1 DEF Guarded, f
  <2>3. timer'[f.at].form = timer[f.at].form
    BY <1>5, <2>2 DEF Working
  <2>4. Guarded(loop[n])
    BY <2>1, <2>3 DEF Guarded, Form, Subscriber, f
  <2>5. Subscriber(f.at) \in locked /\ ~terminating(Subscriber(f.at)) /\ Subscriber(f.at) # u
    BY <2>4 DEF LoopOK, Holds, f
  <2>6. Subscriber(f.at) \in locked' /\ (Subscriber(f.at) # None /\ state'[Subscriber(f.at)] \notin {"freeing", "freed"})
    <3>1. Subscriber(f.at) # None
      BY <2>4 DEF Guarded, f
    <3>2. QED
      BY <2>5, <3>1 DEF Gentle, ObjectsGentle, terminating
  <2>7. QED
    BY <2>3, <2>6 DEF terminating, Subscriber, Form, f
<1>10. QED
  BY <1>7, <1>8, <1>9 DEF LoopOK

\* A step of no loop.
LEMMA LoopsKept ==
    ASSUME ServiceInv, ListTyped', RestTyped', UNCHANGED loop, Gentle(Nobody, None),
           \/ ~HoldsTimers
           \/ /\ UNCHANGED <<glTimers, timer, now>>
              /\ \A o \in Objects : terminating(o) => terminating(o)'
    PROVE  LoopsInv'
<1>1. loop \in Seq(Loop) /\ Len(loop) \in Nat /\ ListTyped /\ RestTyped
  BY DEF ServiceInv, EntriesInv, RestTyped
<1>2. glTimers \subseteq 1..glTimerID
  BY <1>1 DEF ListTyped
<1>3. ASSUME NEW n \in 1..Len(loop) PROVE LoopOK(loop[n])'
  <2>1. LoopOK(loop[n]) /\ loop'[n] = loop[n] /\ n \in 1..Len(loop')
    BY DEF ServiceInv, LoopsInv, LoopsOK
  <2>2. ~HoldsTimers => loop[n].step # "scan"
    <3>1. CASE n < Len(loop)
      BY <3>1 DEF ServiceInv, LoopsInv, Nested
    <3>2. CASE n = Len(loop)
      BY <1>1, <3>2, Innermost DEF HoldsTimers
    <3>3. QED
      BY <1>1, <3>1, <3>2
  <2>3. loop[n].step \in Working => loop[n].at # Nobody
    BY <1>2, <2>1 DEF LoopOK, AtItsEntry, Nobody
  <2>4. Guarded(loop[n]) => Subscriber(loop[n].at) # None
    BY DEF Guarded
  <2>5. CASE loop[n].step # "scan"
    BY <1>1, <2>1, <2>3, <2>4, <2>5, LoopKept
  <2>6. CASE loop[n].step = "scan"
    <3>1. UNCHANGED <<glTimers, timer>> /\ \A o \in Objects : terminating(o) => terminating(o)'
      BY <2>2, <2>6
    <3>2. AtItsEntry(loop[n])'
      <4>1. /\ loop[n].at \in glTimers /\ ~timer[loop[n].at].Locked
            /\ Orphaned(loop[n].at) \/ timer[loop[n].at].NextCall <= loop[n].cycle_time
        BY <2>1, <2>6 DEF LoopOK, AtItsEntry
      <4>2. Orphaned(loop[n].at) => Subscriber(loop[n].at) \in Objects
        <5>1. loop[n].at \in Timers
          BY <1>1, <4>1, ListedNow DEF Listed
        <5>2. QED
          BY <1>1, <5>1 DEF Orphaned, terminating, Subscriber, Form, ListTyped, Entry, AnyForm
      <4>3. Subscriber(loop[n].at)' = Subscriber(loop[n].at)
        BY <2>1, <3>1 DEF Subscriber, Form
      <4>4. Orphaned(loop[n].at) => Orphaned(loop[n].at)'
        BY <3>1, <4>2, <4>3 DEF Orphaned, terminating
      <4>5. QED
        BY <2>1, <2>6, <3>1, <4>1, <4>4 DEF AtItsEntry, Working
    <3>3. CalledLater(loop[n])'
      <4>1. CalledLater(loop[n]) /\ EntriesGentle(Nobody) /\ now <= now'
        BY <2>1 DEF LoopOK, Gentle
      <4>2. /\ loop[n].cycle_time <= now' /\ loop[n].ran \subseteq 1..glTimerID'
            /\ \A i \in loop[n].ran : i \in glTimers' => timer'[i].NextCall > loop[n].cycle_time
        BY <1>1, <4>1, RanKept
      <4>3. QED
        BY <2>1, <2>6, <4>2 DEF CalledLater
    <3>4. Holds(loop[n])'
      BY <2>1, <2>6 DEF Holds, Guarded
    <3>5. QED
      BY <3>2, <3>3, <3>4 DEF LoopOK
  <2>7. QED
    BY <2>5, <2>6
<1>4. LoopsOK'
  BY <1>3 DEF LoopsOK
<1>5. Nested' /\ Apart'
  BY DEF ServiceInv, LoopsInv, Nested, Apart
<1>6. QED
  BY <1>4, <1>5 DEF LoopsInv

\* The other loops are not at the entry of the innermost.
LEMMA OthersElsewhere ==
    ASSUME ServiceInv, loop # <<>>, NEW n \in 1..Len(loop), n # Len(loop),
           loop[n].step \in Working, Inner.step \in Working \cup {"scan"}
    PROVE  loop[n].at # At
<1>1. loop \in Seq(Loop)
  BY DEF ServiceInv, RestTyped
<1>2. /\ Len(loop) \in 1..Len(loop) /\ Inner = loop[Len(loop)] /\ At = Inner.at
  BY <1>1, Innermost
<1>3. LoopOK(loop[n]) /\ LoopOK(loop[Len(loop)])
  BY <1>2 DEF ServiceInv, LoopsInv, LoopsOK
<1>4. CASE Inner.step = "scan"
  BY <1>2, <1>3, <1>4 DEF LoopOK, AtItsEntry
<1>5. CASE Inner.step \in Working
  BY <1>2, <1>5 DEF ServiceInv, LoopsInv, Apart
<1>6. QED
  BY <1>4, <1>5

\* A step of the innermost loop.
LEMMA InnerStep ==
    ASSUME ServiceInv, ListTyped', RestTyped', loop # <<>>, NEW f \in Loop, InnerBecomes(f),
           NEW x, NEW u, Gentle(x, u),
           x = Nobody \/ (x = At /\ Inner.step \in Working \cup {"scan"}),
           f.step \in Working => f.at = At /\ Inner.step \in Working \cup {"scan"},
           \A n \in 1..Len(loop) : n < Len(loop) /\ Guarded(loop[n]) => Subscriber(loop[n].at) # u,
           \A n \in 1..Len(loop') : loop'[n] = f => LoopOK(loop[n])'
    PROVE  LoopsInv'
<1>1. loop \in Seq(Loop) /\ Len(loop) \in Nat \ {0} /\ ListTyped /\ RestTyped
  BY Innermost DEF ServiceInv, EntriesInv, RestTyped
<1>2. /\ loop' \in Seq(Loop) /\ loop' # <<>> /\ Len(loop') = Len(loop)
      /\ loop'[Len(loop)] = f
      /\ \A i \in 1..(Len(loop) - 1) : loop'[i] = loop[i]
  BY <1>1, InnerReplaced
<1>3. glTimers \subseteq 1..glTimerID
  BY <1>1 DEF ListTyped
<1>4. ASSUME NEW n \in 1..Len(loop), n < Len(loop)
      PROVE  /\ loop'[n] = loop[n] /\ LoopOK(loop[n]) /\ loop[n].step \in {"callback", "messages"}
             /\ loop[n].step \in Working => loop[n].at # Nobody
             /\ loop[n].step \in Working /\ Inner.step \in Working \cup {"scan"} => loop[n].at # At
  <2>1. n \in 1..(Len(loop) - 1)
    BY <1>1, <1>4
  <2>2. loop'[n] = loop[n]
    BY <1>2, <2>1
  <2>3. LoopOK(loop[n]) /\ loop[n].step \in {"callback", "messages"}
    BY <1>4 DEF ServiceInv, LoopsInv, LoopsOK, Nested
  <2>4. loop[n].step \in Working => loop[n].at # Nobody
    BY <1>3, <2>3 DEF LoopOK, AtItsEntry, Nobody
  <2>5. loop[n].step \in Working /\ Inner.step \in Working \cup {"scan"} => loop[n].at # At
    BY <1>1, <1>4, OthersElsewhere
  <2>6. QED
    BY <2>2, <2>3, <2>4, <2>5
<1>5. ASSUME NEW n \in 1..Len(loop) PROVE LoopOK(loop[n])'
  <2>1. CASE n < Len(loop)
    <3>1. loop[n].step \in Working => loop[n].at # x
      BY <1>4, <2>1
    <3>2. n \in 1..Len(loop') /\ loop'[n] = loop[n] /\ LoopOK(loop[n]) /\ loop[n].step # "scan"
      BY <1>2, <1>4, <2>1
    <3>3. Guarded(loop[n]) => Subscriber(loop[n].at) # u
      BY <2>1
    <3>4. QED
      BY <1>1, <3>1, <3>2, <3>3, LoopKept
  <2>2. CASE n = Len(loop)
    BY <1>2, <2>2
  <2>3. QED
    BY <1>1, <2>1, <2>2
<1>6. LoopsOK'
  BY <1>2, <1>5 DEF LoopsOK
<1>7. Nested'
  BY <1>2, <1>4 DEF Nested
<1>8. Apart'
  <2>1. ASSUME NEW m \in 1..Len(loop), NEW n \in 1..Len(loop), m # n,
               loop'[m].step \in Working, loop'[n].step \in Working
        PROVE  loop'[m].at # loop'[n].at
    <3>1. CASE m < Len(loop) /\ n < Len(loop)
      BY <1>4, <2>1, <3>1 DEF ServiceInv, LoopsInv, Apart
    <3>2. CASE m = Len(loop) /\ n < Len(loop)
      BY <1>2, <1>4, <2>1, <3>2
    <3>3. CASE m < Len(loop) /\ n = Len(loop)
      BY <1>2, <1>4, <2>1, <3>3
    <3>4. QED
      BY <1>1, <2>1, <3>1, <3>2, <3>3
  <2>2. QED
    BY <1>2, <2>1 DEF Apart
<1>9. QED
  BY <1>6, <1>7, <1>8 DEF LoopsInv
-----------------------------------------------------------------------------
(* The client's calls.                                                     *)

\* What an erased entry may be for the loops.
LEMMA ErasedGently ==
    ASSUME EntriesInv, NEW S \in SUBSET glTimers, Erase(S), NEW x,
           \A i \in S : i = x \/ ~timer[i].Locked
    PROVE  EntriesGentle(x)
<1>1. /\ glTimers' = glTimers \ S /\ glTimerID' = glTimerID
      /\ \A i \in glTimers' : timer'[i] = timer[i]
  BY Erased
<1>2. glTimerID \in Nat
  BY DEF EntriesInv, ListTyped
<1>3. QED
  BY <1>1, <1>2 DEF EntriesGentle

LEMMA EntriesSame ==
    ASSUME EntriesInv, NEW x, UNCHANGED entries
    PROVE  EntriesInv' /\ EntriesGentle(x)
<1>1. glTimerID \in Nat
  BY DEF EntriesInv, ListTyped
<1>2. EntriesGentle(x)
  BY <1>1 DEF EntriesGentle, entries
<1>3. QED
  BY <1>2, EntriesKept

LEMMA ObjectsSame ==
    ASSUME UNCHANGED objects, NEW u
    PROVE  ObjectsGentle(u)
  BY DEF ObjectsGentle, objects, terminating

LEMMA Later == ASSUME now \in 0..MaxTime, NEW n \in Nat
               PROVE  /\ Time(now + n) \in Nat /\ Time(n) \in Nat
                      /\ n # 0 => Time(now + n) > now
                      /\ n > now => Time(n) > now
  BY TimerAssumption DEF Time

\* A step of a client that leaves the objects alone.
LEMMA Service_Client ==
    ASSUME ServiceInv, EntriesInv', EntriesGentle(Nobody), ~HoldsTimers,
           UNCHANGED <<glTimerCycle, objects, loop, now>>
    PROVE  ServiceInv'
<1>1. RestTyped'
  BY DEF ServiceInv, RestTyped, objects
<1>2. Gentle(Nobody, None)
  BY ObjectsSame DEF Gentle, ServiceInv, RestTyped
<1>3. LoopsInv'
  BY <1>1, <1>2, LoopsKept DEF EntriesInv
<1>4. QED
  BY <1>1, <1>3 DEF ServiceInv

LEMMA Service_SubscribeTimer ==
    ASSUME ServiceInv, NEW f, NEW interval \in Intervals, SubscribeTimer(f, interval)
    PROVE  ServiceInv'
<1> DEFINE i == glTimerID + 1
           e == [form |-> f, Interval |-> interval, PendingInterval |-> 0,
                 NextCall |-> Time(now + interval), Locked |-> FALSE, defined |-> TRUE,
                 Cycle |-> (glTimerCycle + CycleValues - 1) % CycleValues]
<1>1. /\ EntriesInv /\ RestTyped /\ ListTyped /\ PinsBalanced
      /\ glTimerID \in Nat /\ glTimers \subseteq 1..glTimerID /\ timer \in [Timers -> Entry]
  BY DEF ServiceInv, EntriesInv, ListTyped
<1>2. /\ i \in Timers /\ f \in Forms[i] /\ f \in AnyForm /\ i \notin glTimers /\ i \in 1..MaxTimers
  <2>1. i \in Timers /\ f \in Forms[i]
    BY DEF SubscribeTimer
  <2>2. f \in AnyForm
    BY <2>1, TimerAssumption DEF Timers, AnyForm
  <2>3. QED
    BY <1>1, <2>1, <2>2 DEF Timers
<1>3. e \in Entry
  <2>1. interval \in Lengths /\ 0 \in Lengths /\ interval \in Nat
    BY TimerAssumption DEF Lengths
  <2>2. Time(now + interval) \in Nat
    BY <1>1, <2>1, Later DEF RestTyped
  <2>3. (glTimerCycle + CycleValues - 1) % CycleValues \in 0..CycleValues - 1
    BY <1>1, TimerAssumption DEF RestTyped
  <2>4. QED
    BY <1>2, <2>1, <2>2, <2>3 DEF Entry
<1>4. /\ glTimers' = glTimers \cup {i} /\ glTimerID' = i /\ timer' = [timer EXCEPT ![i] = e]
      /\ pins' = [o \in Objects |-> pins[o] + (IF f.subscriber = o THEN 1 ELSE 0)
                                            + (IF f.context = o THEN 1 ELSE 0)]
      /\ ~HoldsTimers /\ UNCHANGED <<glTimerCycle, objects, loop, now>>
  BY DEF SubscribeTimer
<1>5. e.form = f /\ e.defined = TRUE
  OBVIOUS
<1> HIDE DEF e, i
<1>6. /\ timer' \in [Timers -> Entry] /\ timer'[i] = e
      /\ \A j \in glTimers : j # i /\ timer'[j] = timer[j]
  BY <1>1, <1>2, <1>3, <1>4
<1>7. PinsBalanced'
  <2>1. SUFFICES ASSUME NEW o \in Objects PROVE pins'[o] = Pins(o, glTimers)'
    BY DEF PinsBalanced
  <2> DEFINE A == Subscribed(o, glTimers)
             B == Routines(o, glTimers)
  <2>2. IsFiniteSet(A) /\ IsFiniteSet(B) /\ i \notin A /\ i \notin B
    BY <1>1, <1>2, Finitely DEF Subscribed, Routines
  <2>3. Subscribed(o, glTimers)' = IF f.subscriber = o THEN A \cup {i} ELSE A
    BY <1>4, <1>5, <1>6 DEF Subscribed, Subscriber, Form
  <2>4. Routines(o, glTimers)' = IF f.context = o THEN B \cup {i} ELSE B
    BY <1>4, <1>5, <1>6 DEF Routines, Form
  <2>5. pins[o] = Cardinality(A) + Cardinality(B)
    BY <1>1 DEF PinsBalanced, Pins
  <2> HIDE DEF A, B
  <2>6. /\ Cardinality(A) \in Nat /\ Cardinality(B) \in Nat
        /\ Cardinality(A \cup {i}) = Cardinality(A) + 1
        /\ Cardinality(B \cup {i}) = Cardinality(B) + 1
    BY <2>2, FS_AddElement, FS_CardinalityType
  <2>7. Cardinality(Subscribed(o, glTimers)') = Cardinality(A) + (IF f.subscriber = o THEN 1 ELSE 0)
    BY <2>3, <2>6
  <2>8. Cardinality(Routines(o, glTimers)') = Cardinality(B) + (IF f.context = o THEN 1 ELSE 0)
    BY <2>4, <2>6
  <2>9. Pins(o, glTimers)' = Cardinality(Subscribed(o, glTimers)') + Cardinality(Routines(o, glTimers)')
    BY DEF Pins
  <2>10. pins'[o] = pins[o] + (IF f.subscriber = o THEN 1 ELSE 0) + (IF f.context = o THEN 1 ELSE 0)
    BY <1>4
  <2>11. QED
    BY <2>5, <2>6, <2>7, <2>8, <2>9, <2>10
<1>8. ListTyped'
  <2>1. pins' \in [Objects -> Nat]
    BY <1>1, <1>4 DEF ListTyped
  <2>2. i = glTimerID + 1
    BY DEF i
  <2>3. glTimers' \subseteq 1..glTimerID' /\ glTimerID' \in 0..MaxTimers
    BY <1>1, <1>2, <1>4, <2>2
  <2>4. \A j \in glTimers' : timer'[j].form \in Forms[j]
    BY <1>1, <1>2, <1>4, <1>5, <1>6 DEF ListTyped
  <2>5. QED
    BY <1>6, <2>1, <2>3, <2>4 DEF ListTyped
<1>9. EntriesGentle(Nobody)
  <2>1. i = glTimerID + 1
    BY DEF i
  <2>2. QED
    BY <1>1, <1>4, <1>6, <2>1 DEF EntriesGentle
<1>10. QED
  BY <1>4, <1>7, <1>8, <1>9, Service_Client DEF EntriesInv

\* An entry of the list gets other times.
LEMMA Retimed ==
    ASSUME ServiceInv, NEW i \in glTimers, NEW e \in Entry, timer' = [timer EXCEPT ![i] = e],
           e.form = timer[i].form, e.defined = timer[i].defined,
           UNCHANGED <<glTimers, glTimerID, pins>>,
           e.NextCall = timer[i].NextCall \/ e.NextCall > now,
           NEW x, i = x \/ ~timer[i].Locked \/ e.Locked
    PROVE  EntriesInv' /\ EntriesGentle(x)
<1>1. EntriesInv /\ ListTyped /\ glTimerID \in Nat /\ timer \in [Timers -> Entry]
  BY DEF ServiceInv, EntriesInv, ListTyped
<1>2. glTimers \subseteq Timers
  BY <1>1, ListedNow DEF Listed
<1>3. timer' \in [Timers -> Entry] /\ timer'[i] = e /\ \A j \in glTimers : j # i => timer'[j] = timer[j]
  BY <1>1, <1>2
<1>4. EntriesInv'
  BY <1>1, <1>3, Adjusted
<1>5. EntriesGentle(x)
  BY <1>1, <1>3 DEF EntriesGentle
<1>6. QED
  BY <1>4, <1>5

LEMMA Service_ChangeTimer ==
    ASSUME ServiceInv, NEW i, NEW interval \in Intervals, ChangeTimer(i, interval)
    PROVE  ServiceInv'
<1> DEFINE e == [timer[i] EXCEPT !.Interval = interval, !.NextCall = Time(now + interval)]
<1>1. i \in glTimers /\ timer[i] \in Entry /\ now \in 0..MaxTime /\ timer \in [Timers -> Entry] /\ i \in Timers
  BY ListedNow DEF ServiceInv, EntriesInv, RestTyped, ChangeTimer, Listed, ListTyped
<1>2. interval \in Nat /\ interval # 0 /\ interval \in Lengths
  BY TimerAssumption DEF Lengths
<1>3. Time(now + interval) \in Nat /\ Time(now + interval) > now
  BY <1>1, <1>2, Later
<1>4. /\ e \in Entry /\ e.form = timer[i].form /\ e.defined = timer[i].defined
      /\ e.NextCall > now /\ e.Locked = timer[i].Locked
  BY <1>1, <1>2, <1>3 DEF Entry
<1>5. timer' = [timer EXCEPT ![i] = e]
  BY <1>1 DEF ChangeTimer, Entry
<1> HIDE DEF e
<1>6. e.form = timer[i].form /\ e.defined = timer[i].defined /\ (~timer[i].Locked \/ e.Locked)
  BY <1>4, Zenon
<1>7. EntriesInv' /\ EntriesGentle(Nobody)
  BY <1>1, <1>4, <1>5, <1>6, Retimed DEF ChangeTimer
<1>8. QED
  BY <1>7, Service_Client DEF ChangeTimer

LEMMA Service_EaseTimer ==
    ASSUME ServiceInv, NEW i, NEW interval \in Easings, EaseTimer(i, interval)
    PROVE  ServiceInv'
<1> DEFINE next == Time(now + interval)
           e == timer[i]
           g == Eased(e, interval)
<1>1. i \in glTimers /\ e \in Entry /\ now \in 0..MaxTime /\ timer \in [Timers -> Entry] /\ i \in Timers
  BY ListedNow DEF ServiceInv, EntriesInv, RestTyped, EaseTimer, Listed, ListTyped
<1>2. interval \in Nat /\ interval # 0 /\ interval \in Lengths /\ 0 \in Lengths
  BY TimerAssumption DEF Lengths
<1>3. next \in Nat /\ next > now
  BY <1>1, <1>2, Later
<1>4. timer' = [timer EXCEPT ![i] = g]
  BY DEF EaseTimer
<1> HIDE DEF next, e
<1>5. g \in Entry /\ g.form = e.form /\ (g.NextCall = e.NextCall \/ g.NextCall > now)
  <2>1. CASE interval > e.Interval
    <3>1. g = [e EXCEPT !.PendingInterval = interval]
      BY <2>1 DEF Eased
    <3>2. QED
      BY <1>1, <1>2, <3>1 DEF Entry
  <2>2. CASE ~(interval > e.Interval)
    <3>1. g = [e EXCEPT !.Interval = interval, !.PendingInterval = 0,
                        !.NextCall = IF next < @ THEN next ELSE @]
      BY <2>2 DEF Eased, next
    <3>2. QED
      BY <1>1, <1>2, <1>3, <3>1 DEF Entry
  <2>3. QED
    BY <2>1, <2>2
<1>6. g.defined = e.defined /\ g.Locked = e.Locked
  BY <1>1, Zenon DEF Entry, Eased
<1> HIDE DEF g
<1>7. e.form = timer[i].form /\ g.defined = timer[i].defined /\ (~timer[i].Locked \/ g.Locked)
  BY <1>6, Zenon DEF e
<1>8. EntriesInv' /\ EntriesGentle(Nobody)
  BY <1>1, <1>4, <1>5, <1>7, Retimed DEF EaseTimer, e
<1>9. QED
  BY <1>8, Service_Client DEF EaseTimer

LEMMA Service_RemoveTimer ==
    ASSUME ServiceInv, NEW i, RemoveTimer(i)
    PROVE  ServiceInv'
<1>1. /\ i \in glTimers /\ timer[i] \in Entry /\ timer \in [Timers -> Entry] /\ i \in Timers
      /\ EntriesInv /\ ListTyped /\ PinsBalanced /\ Listed
      /\ ~HoldsTimers /\ UNCHANGED <<glTimerCycle, objects, loop, now>>
  BY ListedNow DEF ServiceInv, EntriesInv, RemoveTimer, Listed, ListTyped
<1>2. CASE ~timer[i].Locked /\ Erase({i})
  <2>1. {i} \in SUBSET glTimers
    BY <1>1
  <2>2. EntriesInv'
    BY <1>1, <1>2, <2>1, Erased
  <2>3. EntriesGentle(Nobody)
    BY <1>1, <1>2, <2>1, ErasedGently
  <2>4. QED
    BY <1>1, <2>2, <2>3, Service_Client
<1>3. CASE /\ pins' = [o \in Objects |-> IF timer[i].defined /\ o = Form(i).context
                                          THEN pins[o] - 1 ELSE pins[o]]
           /\ timer' = ClearRoutine(i) /\ UNCHANGED <<glTimers, glTimerID>>
  <2> DEFINE e == [timer[i] EXCEPT !.defined = FALSE]
  <2>1. e \in Entry /\ e.form = timer[i].form /\ e.NextCall = timer[i].NextCall
    BY <1>1 DEF Entry
  <2>2. ~e.defined /\ e.Locked = timer[i].Locked
    BY <1>1, Zenon DEF Entry
  <2>3. timer' = [timer EXCEPT ![i] = e]
    BY <1>1, <1>3 DEF ClearRoutine
  <2> HIDE DEF e
  <2>4. /\ timer' \in [Timers -> Entry] /\ timer'[i] = e
        /\ \A j \in glTimers : j # i => timer'[j] = timer[j]
    BY <1>1, <2>1, <2>3 DEF Listed
  <2>5. ASSUME NEW o \in Objects
        PROVE  pins'[o] = Pins(o, glTimers)' /\ pins'[o] \in Nat
    <3> DEFINE B == Routines(o, glTimers)
    <3>1. Subscribed(o, glTimers)' = Subscribed(o, glTimers)
      BY <1>3, <2>1, <2>4 DEF Subscribed, Subscriber, Form
    <3>2. Routines(o, glTimers)' = B \ {i}
      <4>1. \A j \in glTimers : j # i => timer'[j].form = timer[j].form
        BY <2>4
      <4>2. \A j \in glTimers : j # i => (timer'[j].defined <=> timer[j].defined)
        BY <2>4
      <4>3. ~timer'[i].defined
        BY <2>2, <2>4
      <4>4. QED
        BY <1>3, <4>1, <4>2, <4>3 DEF Routines, Form
    <3>3. IsFiniteSet(B) /\ IsFiniteSet(Subscribed(o, glTimers))
      BY <1>1, Finitely
    <3>4. i \in B <=> timer[i].defined /\ o = Form(i).context
      BY <1>1 DEF Routines
    <3>5. pins[o] = Cardinality(Subscribed(o, glTimers)) + Cardinality(B)
      BY <1>1 DEF PinsBalanced, Pins
    <3>6. pins'[o] = IF timer[i].defined /\ o = Form(i).context THEN pins[o] - 1 ELSE pins[o]
      BY <1>3
    <3> HIDE DEF B
    <3>7. /\ Cardinality(B \ {i}) = IF i \in B THEN Cardinality(B) - 1 ELSE Cardinality(B)
          /\ Cardinality(B) \in Nat /\ Cardinality(Subscribed(o, glTimers)) \in Nat
          /\ Cardinality(B \ {i}) \in Nat
      BY <3>3, FS_RemoveElement, FS_CardinalityType
    <3>8. pins'[o] = IF i \in B THEN pins[o] - 1 ELSE pins[o]
      BY <3>4, <3>6
    <3>9. pins'[o] = Cardinality(Subscribed(o, glTimers)) + Cardinality(B \ {i})
      BY <3>5, <3>7, <3>8
    <3>10. Pins(o, glTimers)' = Cardinality(Subscribed(o, glTimers)) + Cardinality(B \ {i})
      BY <3>1, <3>2 DEF Pins
    <3>11. QED
      BY <3>7, <3>9, <3>10
  <2>6. PinsBalanced'
    BY <2>5 DEF PinsBalanced
  <2>7. pins' \in [Objects -> Nat]
    BY <1>3, <2>5
  <2>8. ListTyped'
    BY <1>1, <1>3, <2>1, <2>4, <2>7 DEF ListTyped
  <2>9. EntriesGentle(Nobody)
    <3>1. glTimerID \in Nat
      BY <1>1 DEF ListTyped
    <3>2. \A j \in glTimers : timer[j].Locked => timer'[j].Locked
      BY <2>2, <2>4
    <3>3. \A j \in glTimers : timer'[j].form = timer[j].form /\ timer'[j].NextCall = timer[j].NextCall
      BY <2>1, <2>4
    <3>4. QED
      BY <1>3, <3>1, <3>2, <3>3 DEF EntriesGentle
  <2>10. QED
    BY <1>1, <2>6, <2>8, <2>9, Service_Client DEF EntriesInv
<1>4. QED
  BY <1>2, <1>3 DEF RemoveTimer
LEMMA Service_Tick == ServiceInv /\ Tick => ServiceInv'
<1> SUFFICES ASSUME ServiceInv, Tick PROVE ServiceInv'
  OBVIOUS
<1>1. UNCHANGED entries /\ UNCHANGED <<glTimerCycle, objects, loop>> /\ now' = now + 1 /\ now < MaxTime
      /\ ~HoldsTimers
  BY DEF Tick
<1>2. EntriesInv' /\ EntriesGentle(Nobody)
  BY <1>1, EntriesSame DEF ServiceInv
<1>3. RestTyped' /\ now <= now'
  BY <1>1, TimerAssumption DEF ServiceInv, RestTyped, objects
<1>4. Gentle(Nobody, None)
  BY <1>1, <1>2, <1>3, ObjectsSame DEF Gentle
<1>5. LoopsInv'
  BY <1>1, <1>2, <1>3, <1>4, LoopsKept DEF EntriesInv
<1>6. QED
  BY <1>2, <1>3, <1>5 DEF ServiceInv

-----------------------------------------------------------------------------
(* The end of an object.                                                   *)

\* An object that is locked and not terminating stays so.
LEMMA ServiceEnd ==
    ASSUME ServiceInv, NEW o \in Objects, NEW v \in {"live", "marked", "freeing", "freed"},
           state' = [state EXCEPT ![o] = v],
           o \in locked /\ ~terminating(o) => v \notin {"freeing", "freed"},
           terminating(o) => v \in {"freeing", "freed"},
           EntriesInv', EntriesGentle(Nobody), UNCHANGED <<glTimerCycle, locked, loop, now>>,
           ~HoldsTimers \/ UNCHANGED entries
    PROVE  ServiceInv'
<1>1. RestTyped /\ RestTyped' /\ now \in Nat
  BY DEF ServiceInv, RestTyped
<1>2. ASSUME NEW p \in Objects
      PROVE  state'[p] = IF p = o THEN v ELSE state[p]
  BY <1>1 DEF RestTyped
<1>3. ObjectsGentle(None)
  <2>1. SUFFICES ASSUME NEW p \in locked, ~terminating(p)
                 PROVE  p \in locked' /\ ~terminating(p)'
    BY DEF ObjectsGentle
  <2>2. p \in Objects
    BY <1>1, <2>1 DEF RestTyped
  <2>3. QED
    BY <1>2, <2>1, <2>2 DEF terminating
<1>4. Gentle(Nobody, None)
  BY <1>1, <1>3 DEF Gentle
<1>5. \A p \in Objects : terminating(p) => terminating(p)'
  BY <1>2 DEF terminating
<1>6. UNCHANGED entries => UNCHANGED <<glTimers, timer, now>>
  BY DEF entries
<1>7. LoopsInv'
  BY <1>1, <1>4, <1>5, <1>6, LoopsKept DEF EntriesInv
<1>8. QED
  BY <1>1, <1>7 DEF ServiceInv

LEMMA AbandonedErased ==
    ASSUME ServiceInv, NEW o, Erase(Abandoned(o))
    PROVE  EntriesInv' /\ EntriesGentle(Nobody)
<1>1. /\ Abandoned(o) \in SUBSET glTimers
      /\ \A i \in Abandoned(o) : ~timer[i].Locked
  BY DEF Abandoned, UnlockedOf
<1>2. EntriesInv
  BY DEF ServiceInv
<1> HIDE DEF Abandoned
<1>3. QED
  BY <1>1, <1>2, Erased, ErasedGently

LEMMA Service_FreeBegins ==
    ASSUME ServiceInv, NEW o \in Objects, FreeBegins(o)
    PROVE  ServiceInv'
<1>1. EntriesInv' /\ EntriesGentle(Nobody)
  BY EntriesSame DEF FreeBegins, ServiceInv
<1>2. PICK v \in {"live", "marked", "freeing", "freed"} :
         state' = [state EXCEPT ![o] = v] /\ (o \in locked => v = "marked")
  BY DEF FreeBegins
<1>3. state[o] = "live" /\ ~terminating(o)
  BY DEF FreeBegins, terminating
<1>4. QED
  BY <1>1, <1>2, <1>3, ServiceEnd DEF FreeBegins

LEMMA Service_FreeResumes ==
    ASSUME ServiceInv, NEW o \in Objects, FreeResumes(o)
    PROVE  ServiceInv'
<1>1. EntriesInv' /\ EntriesGentle(Nobody)
  BY EntriesSame DEF FreeResumes, ServiceInv
<1>2. o \notin locked /\ state' = [state EXCEPT ![o] = "freeing"]
  BY DEF FreeResumes
<1>3. UNCHANGED entries /\ UNCHANGED <<glTimerCycle, locked, loop, now>>
  BY DEF FreeResumes
<1>4. QED
  BY <1>1, <1>2, <1>3, ServiceEnd

LEMMA Service_FreeEnds ==
    ASSUME ServiceInv, NEW o \in Objects, FreeEnds(o)
    PROVE  ServiceInv'
<1>1. EntriesInv' /\ EntriesGentle(Nobody)
  BY AbandonedErased, EntriesSame DEF FreeEnds, ServiceInv
<1>2. ~HoldsTimers \/ UNCHANGED entries
  BY DEF FreeEnds
<1>3. terminating(o)
  BY TimerAssumption DEF FreeEnds, terminating
<1>4. state' = [state EXCEPT ![o] = "freed"] /\ UNCHANGED <<glTimerCycle, locked, loop, now>>
  BY DEF FreeEnds
<1>5. QED
  BY <1>1, <1>2, <1>3, <1>4, ServiceEnd

\* Code of the client on the main thread does not run while the list is scanned.
LEMMA ClientScansNot == ClientRuns => ~HoldsTimers
  BY DEF ClientRuns, HoldsTimers, In

LEMMA Service_FreeByMain ==
    ASSUME ServiceInv, NEW o \in Objects, FreeByMain(o)
    PROVE  ServiceInv'
<1>1. EntriesInv' /\ EntriesGentle(Nobody)
  BY AbandonedErased, EntriesSame DEF FreeByMain, ServiceInv
<1>2. ~HoldsTimers
  BY ClientScansNot DEF FreeByMain
<1>3. ~terminating(o) /\ UNCHANGED <<glTimerCycle, locked, loop, now>>
  BY DEF FreeByMain, terminating
<1>4. CASE state' = [state EXCEPT ![o] = "marked"]
  BY <1>1, <1>2, <1>3, <1>4, ServiceEnd
<1>5. CASE o \notin locked /\ state' = [state EXCEPT ![o] = "freed"]
  BY <1>1, <1>2, <1>3, <1>5, ServiceEnd
<1>6. QED
  BY <1>4, <1>5 DEF FreeByMain

-----------------------------------------------------------------------------
(* The loop of ProcessMessages().                                          *)

LEMMA NoFrameTyped ==
    /\ NoFrame \in Loop /\ NoFrame.step = "cycle" /\ NoFrame.cycle_time = 0 /\ NoFrame.ran = {}
    /\ [NoFrame EXCEPT !.step = "messages"] \in Loop
    /\ [NoFrame EXCEPT !.step = "messages"].step = "messages"
    /\ [NoFrame EXCEPT !.step = "messages"].cycle_time = 0
    /\ [NoFrame EXCEPT !.step = "messages"].ran = {}
<1>1. NoFrame \in Loop
  BY DEF NoFrame, Loop, Steps
<1>2. NoFrame.step = "cycle" /\ NoFrame.cycle_time = 0 /\ NoFrame.ran = {}
  BY DEF NoFrame
<1>3. QED
  BY <1>1, <1>2 DEF Loop, Steps

\* A loop that begins, waits or handles messages.
LEMMA IdleOK ==
    ASSUME RestTyped', NEW n \in 1..Len(loop'), loop'[n].step \in {"cycle", "try", "messages"},
           loop'[n].cycle_time <= now', loop'[n].ran = {}
    PROVE  LoopOK(loop[n])'
  BY DEF LoopOK, AtItsEntry, CalledLater, Holds, Guarded, Working

LEMMA Service_ProcessMessages == ServiceInv /\ ProcessMessages => ServiceInv'
<1> SUFFICES ASSUME ServiceInv, ProcessMessages PROVE ServiceInv'
  OBVIOUS
<1>1. /\ ClientRuns /\ loop' = Append(loop, NoFrame)
      /\ UNCHANGED entries /\ UNCHANGED objects /\ UNCHANGED <<glTimerCycle, now>>
  BY DEF ProcessMessages
<1>2. loop \in Seq(Loop) /\ EntriesInv /\ ListTyped /\ RestTyped /\ now \in Nat
  BY DEF ServiceInv, EntriesInv, RestTyped
<1>3. /\ loop' \in Seq(Loop) /\ Len(loop') = Len(loop) + 1 /\ Len(loop) \in Nat
      /\ loop'[Len(loop) + 1] = NoFrame
      /\ \A i \in 1..Len(loop) : loop'[i] = loop[i]
  BY <1>1, <1>2, NoFrameTyped, LoopBegun
<1>4. EntriesInv' /\ ListTyped' /\ EntriesGentle(Nobody)
  BY <1>1, <1>2, EntriesSame DEF EntriesInv
<1>5. RestTyped' /\ Gentle(Nobody, None)
  BY <1>1, <1>2, <1>3, <1>4, ObjectsSame DEF RestTyped, objects, Gentle
<1>6. ASSUME NEW n \in 1..Len(loop)
      PROVE  loop[n].step \in {"callback", "messages"} /\ loop'[n] = loop[n] /\ LoopOK(loop[n])'
  <2>1. loop[n].step \in {"callback", "messages"}
    <3>1. CASE n = Len(loop)
      <4>1. loop # <<>>
        BY <1>2, <3>1
      <4>2. In("callback") \/ In("messages")
        BY <1>1, <4>1 DEF ClientRuns
      <4>3. QED
        BY <1>2, <3>1, <4>1, <4>2, Innermost DEF In
    <3>2. CASE n < Len(loop)
      BY <3>2 DEF ServiceInv, LoopsInv, Nested
    <3>3. QED
      BY <1>3, <3>1, <3>2
  <2>2. LoopOK(loop[n]) /\ loop'[n] = loop[n] /\ n \in 1..Len(loop')
    BY <1>3 DEF ServiceInv, LoopsInv, LoopsOK
  <2>3. loop[n].step \in Working => loop[n].at # Nobody
    BY <1>2, <2>2, ListedNow DEF LoopOK, AtItsEntry, Listed
  <2>4. Guarded(loop[n]) => Subscriber(loop[n].at) # None
    BY DEF Guarded
  <2>5. LoopOK(loop[n])'
    BY <1>2, <1>4, <1>5, <2>1, <2>2, <2>3, <2>4, LoopKept
  <2>6. QED
    BY <2>1, <2>2, <2>5
<1>7. LoopsOK'
  <2>1. SUFFICES ASSUME NEW n \in 1..Len(loop') PROVE LoopOK(loop[n])'
    BY DEF LoopsOK
  <2>2. CASE n = Len(loop) + 1
    <3>1. /\ loop'[n].step = "cycle" /\ loop'[n].cycle_time <= now' /\ loop'[n].ran = {}
      BY <1>1, <1>2, <1>3, <2>2 DEF NoFrame
    <3>2. QED
      BY <1>5, <2>1, <3>1, IdleOK
  <2>3. CASE n # Len(loop) + 1
    BY <1>3, <1>6, <2>3
  <2>4. QED
    BY <2>2, <2>3
<1>8. Nested'
  BY <1>3, <1>6 DEF Nested
<1>9. Apart'
  <2>1. \A n \in 1..Len(loop') : loop'[n].step \in Working => n \in 1..Len(loop) /\ loop'[n] = loop[n]
    BY <1>3 DEF Working, NoFrame
  <2>2. QED
    BY <2>1 DEF ServiceInv, LoopsInv, Apart
<1>10. QED
  BY <1>4, <1>5, <1>7, <1>8, <1>9 DEF ServiceInv, LoopsInv

LEMMA Service_Leave == ServiceInv /\ Leave => ServiceInv'
<1> SUFFICES ASSUME ServiceInv, Leave PROVE ServiceInv'
  OBVIOUS
<1>1. /\ loop # <<>> /\ loop' = Front(loop)
      /\ UNCHANGED entries /\ UNCHANGED objects /\ UNCHANGED <<glTimerCycle, now>>
  BY DEF Leave, In
<1>2. loop \in Seq(Loop) /\ EntriesInv /\ ListTyped /\ RestTyped /\ now \in Nat
  BY DEF ServiceInv, EntriesInv, RestTyped
<1>3. /\ loop' \in Seq(Loop) /\ Len(loop') = Len(loop) - 1 /\ Len(loop) \in Nat \ {0}
      /\ \A i \in 1..(Len(loop) - 1) : loop'[i] = loop[i]
  BY <1>1, <1>2, LoopLeft
<1>4. EntriesInv' /\ ListTyped' /\ EntriesGentle(Nobody)
  BY <1>1, <1>2, EntriesSame DEF EntriesInv
<1>5. RestTyped' /\ Gentle(Nobody, None)
  BY <1>1, <1>2, <1>3, <1>4, ObjectsSame DEF RestTyped, objects, Gentle
<1>6. ASSUME NEW n \in 1..Len(loop')
      PROVE  loop[n].step \in {"callback", "messages"} /\ loop'[n] = loop[n] /\ LoopOK(loop[n])'
  <2>1. n \in 1..Len(loop) /\ n < Len(loop) /\ loop'[n] = loop[n]
    BY <1>3
  <2>2. LoopOK(loop[n]) /\ loop[n].step \in {"callback", "messages"}
    BY <2>1 DEF ServiceInv, LoopsInv, LoopsOK, Nested
  <2>3. loop[n].step \in Working => loop[n].at # Nobody
    BY <1>2, <2>2, ListedNow DEF LoopOK, AtItsEntry, Listed
  <2>4. Guarded(loop[n]) => Subscriber(loop[n].at) # None
    BY DEF Guarded
  <2>5. LoopOK(loop[n])'
    BY <1>2, <1>4, <1>5, <2>1, <2>2, <2>3, <2>4, LoopKept
  <2>6. QED
    BY <2>1, <2>2, <2>5
<1>7. LoopsOK' /\ Nested'
  BY <1>6 DEF LoopsOK, Nested
<1>8. Apart'
  <2>1. \A n \in 1..Len(loop') : n \in 1..Len(loop) /\ loop'[n] = loop[n]
    BY <1>3
  <2>2. QED
    BY <2>1 DEF ServiceInv, LoopsInv, Apart
<1>9. QED
  BY <1>4, <1>5, <1>7, <1>8 DEF ServiceInv, LoopsInv
\* The innermost loop is sound.
LEMMA InnerOK ==
    ASSUME ServiceInv, loop # <<>>
    PROVE  /\ Len(loop) \in 1..Len(loop) /\ Inner = loop[Len(loop)] /\ Inner \in Loop /\ At = Inner.at
           /\ AtItsEntry(Inner) /\ CalledLater(Inner) /\ Holds(Inner) /\ now \in Nat
           /\ EntriesInv /\ ListTyped /\ RestTyped /\ Listed
<1>1. loop \in Seq(Loop) /\ EntriesInv /\ ListTyped /\ RestTyped /\ now \in Nat
  BY DEF ServiceInv, RestTyped, EntriesInv
<1>2. Len(loop) \in 1..Len(loop) /\ Inner = loop[Len(loop)] /\ Inner \in Loop /\ At = Inner.at
  BY <1>1, Innermost
<1>3. LoopOK(loop[Len(loop)])
  BY <1>2 DEF ServiceInv, LoopsInv, LoopsOK
<1>4. LoopOK(Inner)
  BY <1>2, <1>3
<1>5. QED
  BY <1>1, <1>2, <1>4, ListedNow DEF LoopOK

\* What the innermost loop has called is not due again.
LEMMA InnerRan ==
    ASSUME ServiceInv, loop # <<>>, ListTyped', RestTyped', NEW x, EntriesGentle(x), now <= now'
    PROVE  /\ Inner.cycle_time <= now' /\ Inner.ran \subseteq 1..glTimerID'
           /\ \A i \in Inner.ran : i \in glTimers' => timer'[i].NextCall > Inner.cycle_time
<1>1. /\ Len(loop) \in 1..Len(loop) /\ Inner = loop[Len(loop)] /\ CalledLater(Inner)
      /\ ListTyped /\ RestTyped
  BY InnerOK
<1>2. CalledLater(loop[Len(loop)])
  BY <1>1
<1>3. QED
  BY <1>1, <1>2, RanKept

\* The innermost loop goes on at f, and the objects are left alone.
LEMMA Goes ==
    ASSUME ServiceInv, loop # <<>>, EntriesInv', NEW f \in Loop, InnerBecomes(f),
           glTimerCycle' \in 0..CycleValues - 1, UNCHANGED <<objects, now>>,
           NEW x, EntriesGentle(x),
           x = Nobody \/ (x = At /\ Inner.step \in Working \cup {"scan"}),
           f.step \in Working => f.at = At /\ Inner.step \in Working \cup {"scan"},
           RestTyped' => \A n \in 1..Len(loop') : loop'[n] = f => LoopOK(loop[n])'
    PROVE  ServiceInv'
<1>1. loop \in Seq(Loop) /\ now \in Nat
  BY DEF ServiceInv, RestTyped
<1>2. loop' \in Seq(Loop)
  BY <1>1, InnerReplaced
<1>3. RestTyped'
  BY <1>2 DEF ServiceInv, RestTyped, objects
<1>4. Gentle(x, None)
  BY <1>1, ObjectsSame DEF Gentle
<1>5. \A n \in 1..Len(loop) : n < Len(loop) /\ Guarded(loop[n]) => Subscriber(loop[n].at) # None
  BY DEF Guarded
<1>6. LoopsInv'
  BY <1>3, <1>4, <1>5, InnerStep DEF EntriesInv
<1>7. QED
  BY <1>3, <1>6 DEF ServiceInv

LEMMA Service_BeginCycle == ServiceInv /\ BeginCycle => ServiceInv'
<1> SUFFICES ASSUME ServiceInv, BeginCycle PROVE ServiceInv'
  OBVIOUS
<1> DEFINE f == [Inner EXCEPT !.step = "try", !.cycle_time = now, !.ran = {}]
<1>1. /\ loop # <<>> /\ InnerBecomes(f) /\ UNCHANGED entries /\ UNCHANGED <<objects, now>>
      /\ glTimerCycle' = (glTimerCycle + 1) % CycleValues
  BY DEF BeginCycle, In
<1>2. Inner \in Loop /\ now \in Nat /\ EntriesInv /\ glTimerCycle \in 0..CycleValues - 1
  BY <1>1, InnerOK DEF RestTyped
<1>3. f \in Loop /\ f.step = "try" /\ f.cycle_time = now /\ f.ran = {}
  BY <1>2 DEF Loop, Steps
<1> HIDE DEF f
<1>4. glTimerCycle' \in 0..CycleValues - 1
  BY <1>1, <1>2, TimerAssumption
<1>5. EntriesInv' /\ EntriesGentle(Nobody)
  BY <1>1, <1>2, EntriesSame
<1>6. ASSUME RestTyped', NEW n \in 1..Len(loop'), loop'[n] = f PROVE LoopOK(loop[n])'
  <2>1. loop'[n].step \in {"cycle", "try", "messages"} /\ loop'[n].cycle_time <= now' /\ loop'[n].ran = {}
    BY <1>1, <1>2, <1>3, <1>6
  <2>2. QED
    BY <1>6, <2>1, IdleOK
<1>7. f.step \notin Working
  BY <1>3 DEF Working
<1>8. QED
  BY <1>1, <1>3, <1>4, <1>5, <1>6, <1>7, Goes

LEMMA HandlesMessages ==
    ASSUME ServiceInv, loop # <<>>, EntriesInv', HandleMessages, UNCHANGED <<glTimerCycle, objects, now>>,
           NEW x, EntriesGentle(x), x = Nobody \/ (x = At /\ Inner.step \in Working \cup {"scan"})
    PROVE  ServiceInv'
<1> DEFINE f == [NoFrame EXCEPT !.step = "messages"]
<1>1. InnerBecomes(f)
  BY DEF HandleMessages
<1>2. f \in Loop /\ f.step = "messages" /\ f.cycle_time = 0 /\ f.ran = {}
  BY NoFrameTyped
<1> HIDE DEF f
<1>3. now \in Nat /\ glTimerCycle' \in 0..CycleValues - 1 /\ now' = now
  BY DEF ServiceInv, RestTyped
<1>4. ASSUME RestTyped', NEW n \in 1..Len(loop'), loop'[n] = f PROVE LoopOK(loop[n])'
  <2>1. loop'[n].step \in {"cycle", "try", "messages"} /\ loop'[n].cycle_time <= now' /\ loop'[n].ran = {}
    BY <1>2, <1>3, <1>4
  <2>2. QED
    BY <1>4, <2>1, IdleOK
<1>5. f.step \notin Working
  BY <1>2 DEF Working
<1>6. QED
  BY <1>1, <1>2, <1>3, <1>4, <1>5, Goes

\* The scan goes on in what the step leaves of the list.
LEMMA ScanGoesOn ==
    ASSUME ServiceInv, loop # <<>>, EntriesInv', NEW i, ScanAfter(i),
           UNCHANGED <<glTimerCycle, objects, now>>,
           NEW x, EntriesGentle(x), x = Nobody \/ (x = At /\ Inner.step \in Working \cup {"scan"}),
           \A j \in glTimers : i < j => j \in glTimers' /\ timer'[j] = timer[j]
    PROVE  ServiceInv'
<1>1. CASE HandleMessages
  BY <1>1, HandlesMessages
<1>2. CASE ~HandleMessages
  <2>1. PICK j \in glTimers : i < j /\ Concerns(j) /\ InnerBecomes([Inner EXCEPT !.step = "scan", !.at = j])
    BY <1>2 DEF ScanAfter
  <2> DEFINE f == [Inner EXCEPT !.step = "scan", !.at = j]
  <2>2. Inner \in Loop /\ j \in Timers /\ Listed /\ ListTyped
    BY InnerOK DEF Listed
  <2>3. f \in Loop /\ f.step = "scan" /\ f.at = j /\ f.ran = Inner.ran /\ f.cycle_time = Inner.cycle_time
    BY <2>2 DEF Loop, Steps
  <2> HIDE DEF f
  <2>4. j \in glTimers' /\ timer'[j] = timer[j]
    BY <2>1
  <2>5. ~timer[j].Locked /\ (Orphaned(j) \/ timer[j].NextCall <= Inner.cycle_time)
    BY <2>1 DEF Concerns, Swept, Due
  <2>6. ASSUME RestTyped', NEW n \in 1..Len(loop'), loop'[n] = f PROVE LoopOK(loop[n])'
    <3>1. AtItsEntry(loop[n])'
      <4>1. Orphaned(j) => Orphaned(j)'
        BY <2>4 DEF Orphaned, terminating, Subscriber, Form, objects
      <4>2. ~timer'[j].Locked
        BY <2>4, <2>5, Zenon
      <4>3. Orphaned(loop[n].at)' \/ timer'[j].NextCall <= Inner.cycle_time
        BY <2>3, <2>4, <2>5, <2>6, <4>1 DEF Orphaned, terminating, Subscriber, Form
      <4>4. QED
        BY <2>3, <2>4, <2>6, <4>2, <4>3 DEF AtItsEntry, Working
    <3>2. CalledLater(loop[n])'
      <4>1. /\ Inner.cycle_time <= now' /\ Inner.ran \subseteq 1..glTimerID'
            /\ \A k \in Inner.ran : k \in glTimers' => timer'[k].NextCall > Inner.cycle_time
        <5>1. now <= now'
          BY DEF ServiceInv, RestTyped
        <5>2. QED
          BY <2>6, <5>1, InnerRan DEF EntriesInv
      <4>2. QED
        BY <2>3, <2>6, <4>1 DEF CalledLater
    <3>3. Holds(loop[n])'
      BY <2>3, <2>6 DEF Holds, Guarded
    <3>4. QED
      BY <3>1, <3>2, <3>3 DEF LoopOK
  <2>7. f.step \notin Working /\ InnerBecomes(f)
    BY <2>1, <2>3 DEF Working, f
  <2>8. glTimerCycle' \in 0..CycleValues - 1
    BY DEF ServiceInv, RestTyped
  <2>9. QED
    BY <2>3, <2>6, <2>7, <2>8, Goes
<1>3. QED
  BY <1>1, <1>2

LEMMA Service_LockTimers == ServiceInv /\ LockTimers => ServiceInv'
<1> SUFFICES ASSUME ServiceInv, LockTimers PROVE ServiceInv'
  OBVIOUS
<1>1. loop # <<>> /\ UNCHANGED entries /\ UNCHANGED <<glTimerCycle, objects, now>>
  BY DEF LockTimers, In
<1>2. EntriesInv' /\ EntriesGentle(Nobody)
  BY <1>1, EntriesSame DEF ServiceInv
<1>3. CASE HandleMessages
  BY <1>1, <1>2, <1>3, HandlesMessages
<1>4. CASE ScanAfter(0)
  <2>1. \A j \in glTimers : 0 < j => j \in glTimers' /\ timer'[j] = timer[j]
    BY <1>1 DEF entries
  <2>2. PICK i : i = 0
    OBVIOUS
  <2>3. ScanAfter(i) /\ \A j \in glTimers : i < j => j \in glTimers' /\ timer'[j] = timer[j]
    BY <1>4, <2>1, <2>2
  <2>4. QED
    BY <1>1, <1>2, <2>3, ScanGoesOn
<1>5. QED
  BY <1>3, <1>4 DEF LockTimers

\* The innermost loop ends its entry and goes on behind it.
LEMMA ErasesOn ==
    ASSUME ServiceInv, loop # <<>>, Inner.step \in Working \cup {"scan"}, Erase({At}), ScanOn,
           UNCHANGED <<glTimerCycle, objects, now>>
    PROVE  ServiceInv'
<1>1. EntriesInv /\ AtItsEntry(Inner) /\ At = Inner.at /\ Listed
  BY InnerOK
<1>2. At \in glTimers
  BY <1>1 DEF AtItsEntry
<1>3. {At} \in SUBSET glTimers /\ At \in Nat
  BY <1>1, <1>2 DEF Listed, Timers
<1>4. /\ EntriesInv' /\ glTimers' = glTimers \ {At}
      /\ \A j \in glTimers' : timer'[j] = timer[j]
  BY <1>1, <1>3, Erased
<1>5. EntriesGentle(At)
  BY <1>1, <1>3, ErasedGently
<1>6. \A j \in glTimers : At < j => j \in glTimers' /\ timer'[j] = timer[j]
  BY <1>3, <1>4
<1>7. ScanAfter(At)
  BY DEF ScanOn
<1>8. QED
  BY <1>4, <1>5, <1>6, <1>7, ScanGoesOn

LEMMA Service_Sweep == ServiceInv /\ Sweep => ServiceInv'
  BY ErasesOn DEF Sweep, In

\* An entry is unlocked.
LEMMA Unlocked ==
    ASSUME ServiceInv, loop # <<>>, Inner.step \in Working, timer' = Unlock(At),
           UNCHANGED <<glTimers, glTimerID, pins>>
    PROVE  /\ EntriesInv' /\ EntriesGentle(At) /\ At \in glTimers
           /\ \A j \in glTimers : j # At => timer'[j] = timer[j]
<1> DEFINE e == [timer[At] EXCEPT !.Locked = FALSE]
<1>1. EntriesInv /\ AtItsEntry(Inner) /\ At = Inner.at /\ Listed /\ timer \in [Timers -> Entry]
  BY InnerOK DEF ListTyped
<1>2. At \in glTimers
  BY <1>1 DEF AtItsEntry
<1>3. timer[At] \in Entry /\ At \in Timers
  BY <1>1, <1>2 DEF Listed
<1>4. e \in Entry /\ e.form = timer[At].form /\ e.NextCall = timer[At].NextCall
  BY <1>3 DEF Entry
<1>5. e.defined = timer[At].defined
  BY <1>3, Zenon DEF Entry
<1>6. timer' = [timer EXCEPT ![At] = e]
  BY <1>3 DEF Unlock
<1> HIDE DEF e
<1>7. EntriesInv' /\ EntriesGentle(At)
  BY <1>2, <1>4, <1>5, <1>6, Retimed
<1>8. \A j \in glTimers : j # At => timer'[j] = timer[j]
  BY <1>1, <1>6 DEF Listed
<1>9. QED
  BY <1>2, <1>7, <1>8

LEMMA PassesOver ==
    ASSUME ServiceInv, loop # <<>>, Inner.step \in Working, PassOver, UNCHANGED <<glTimerCycle, now>>
    PROVE  ServiceInv'
<1>1. /\ EntriesInv' /\ EntriesGentle(At) /\ At \in glTimers
      /\ \A j \in glTimers : j # At => timer'[j] = timer[j]
  BY Unlocked DEF PassOver
<1>2. At \in Nat
  BY <1>1, InnerOK DEF Listed, Timers
<1>3. \A j \in glTimers : At < j => j \in glTimers' /\ timer'[j] = timer[j]
  BY <1>1, <1>2 DEF PassOver
<1>4. ScanAfter(At) /\ UNCHANGED <<glTimerCycle, objects, now>>
  BY DEF PassOver, ScanOn
<1>5. QED
  BY <1>1, <1>3, <1>4, ScanGoesOn
LEMMA Service_LockEntry == ServiceInv /\ LockEntry => ServiceInv'
<1> SUFFICES ASSUME ServiceInv, LockEntry PROVE ServiceInv'
  OBVIOUS
<1> DEFINE interval == IF timer[At].PendingInterval # 0 THEN timer[At].PendingInterval
                       ELSE timer[At].Interval
           next == NextCall(timer[At].NextCall + interval)
           e == [timer[At] EXCEPT !.Interval = interval, !.PendingInterval = 0,
                    !.NextCall = next, !.Cycle = glTimerCycle, !.Locked = TRUE]
           f == [Inner EXCEPT !.step = "dispatch"]
<1>1. /\ loop # <<>> /\ Inner.step = "scan" /\ ~Swept(At) /\ timer' = [timer EXCEPT ![At] = e]
      /\ InnerBecomes(f) /\ UNCHANGED <<glTimers, glTimerID, pins>>
      /\ UNCHANGED <<glTimerCycle, objects, now>>
  BY DEF LockEntry, In, GoesTo
<1>2. /\ Inner \in Loop /\ At = Inner.at /\ AtItsEntry(Inner) /\ CalledLater(Inner)
      /\ Listed /\ ListTyped /\ RestTyped /\ now \in 0..MaxTime
  BY <1>1, InnerOK DEF RestTyped
<1>3. At \in glTimers /\ ~timer[At].Locked /\ timer[At].NextCall <= Inner.cycle_time
  BY <1>1, <1>2 DEF AtItsEntry, Swept
<1>4. timer[At] \in Entry /\ timer[At].NextCall \in Nat /\ At \in Timers
  BY <1>2, <1>3 DEF Listed
<1>5. interval \in Lengths /\ interval \in Nat /\ 0 \in Lengths
  <2>1. Lengths \subseteq Nat /\ 0 \in Lengths
    BY TimerAssumption DEF Lengths
  <2>2. timer[At].PendingInterval \in Lengths /\ timer[At].Interval \in Lengths
    BY <1>4 DEF Entry
  <2>3. QED
    BY <2>1, <2>2
<1>6. next \in Nat /\ next > now
  <2>1. timer[At].NextCall + interval \in Nat
    BY <1>4, <1>5
  <2> HIDE DEF interval
  <2>2. CASE timer[At].NextCall + interval <= now
    BY <1>2, <2>2 DEF NextCall
  <2>3. CASE ~(timer[At].NextCall + interval <= now)
    <3>1. timer[At].NextCall + interval > now
      BY <1>2, <2>1, <2>3
    <3>2. next = Time(timer[At].NextCall + interval)
      BY <2>3 DEF NextCall
    <3>3. QED
      BY <1>2, <2>1, <3>1, <3>2, Later
  <2>4. QED
    BY <2>2, <2>3
<1> HIDE DEF next, interval
<1>7. /\ e \in Entry /\ e.form = timer[At].form /\ e.NextCall > now /\ e.Locked = TRUE
  <2>1. glTimerCycle \in 0..CycleValues - 1
    BY <1>2 DEF RestTyped
  <2>2. QED
    BY <1>4, <1>5, <1>6, <2>1 DEF Entry
<1>8. e.defined = timer[At].defined
  BY <1>4, Zenon DEF Entry
<1>9. /\ f \in Loop /\ f.step = "dispatch" /\ f.at = At /\ f.ran = Inner.ran
      /\ f.cycle_time = Inner.cycle_time
  BY <1>2 DEF Loop, Steps
<1> HIDE DEF e, f
<1>10. EntriesInv' /\ EntriesGentle(Nobody)
  <2>1. e.Locked
    BY <1>7, Zenon
  <2>2. QED
    BY <1>1, <1>3, <1>7, <1>8, <2>1, Retimed
<1>11. ASSUME RestTyped', NEW n \in 1..Len(loop'), loop'[n] = f PROVE LoopOK(loop[n])'
  <2>1. timer'[At] = e /\ glTimers' = glTimers /\ timer'[At].Locked
    <3>1. timer'[At] = e /\ glTimers' = glTimers
      BY <1>1, <1>2, <1>4 DEF ListTyped
    <3>2. QED
      BY <1>7, <3>1, Zenon
  <2>2. AtItsEntry(loop[n])'
    BY <1>3, <1>9, <1>11, <2>1 DEF AtItsEntry
  <2>3. CalledLater(loop[n])'
    <3>1. /\ Inner.cycle_time <= now' /\ Inner.ran \subseteq 1..glTimerID'
          /\ \A i \in Inner.ran : i \in glTimers' => timer'[i].NextCall > Inner.cycle_time
      BY <1>1, <1>2, <1>10, <1>11, InnerRan DEF EntriesInv
    <3>2. At \notin Inner.ran
      <4>1. Inner.cycle_time \in Nat
        BY <1>2 DEF Loop
      <4>2. QED
        BY <1>2, <1>3, <1>4, <4>1 DEF CalledLater
    <3>3. timer'[At].NextCall > Inner.cycle_time
      <4>1. Inner.cycle_time \in Nat /\ Inner.cycle_time <= now /\ e.NextCall \in Nat
        BY <1>2, <1>7 DEF Loop, Entry, CalledLater
      <4>2. QED
        BY <1>2, <1>7, <2>1, <4>1
    <3>4. QED
      BY <1>9, <1>11, <3>1, <3>2, <3>3 DEF CalledLater
  <2>4. Holds(loop[n])'
    BY <1>9, <1>11 DEF Holds, Guarded
  <2>5. QED
    BY <2>2, <2>3, <2>4 DEF LoopOK
<1>12. glTimerCycle' \in 0..CycleValues - 1
  BY <1>1, <1>2 DEF RestTyped
<1>13. f.step \in Working => f.at = At /\ Inner.step \in Working \cup {"scan"}
  BY <1>1, <1>9
<1>14. QED
  BY <1>1, <1>9, <1>10, <1>11, <1>12, <1>13, Goes

\* The innermost loop is about to make a call.
LEMMA AboutTo ==
    ASSUME ServiceInv, loop # <<>>, Inner.step \in {"dispatch", "lock"}
    PROVE  /\ At \in glTimers /\ timer[At].Locked /\ At \in Timers /\ At \in 1..glTimerID
           /\ At \notin Inner.ran /\ timer[At].NextCall > Inner.cycle_time
           /\ Inner.step = "lock" => Subscriber(At) \in Objects
           /\ Subscriber(At) \in Objects \cup {None}
<1>1. /\ Inner \in Loop /\ At = Inner.at /\ AtItsEntry(Inner) /\ CalledLater(Inner) /\ Listed
  BY InnerOK
<1>2. At \in glTimers /\ timer[At].Locked
  BY <1>1 DEF AtItsEntry, Working
<1>3. At \notin Inner.ran /\ timer[At].NextCall > Inner.cycle_time
  BY <1>1 DEF CalledLater
<1>4. Inner.step = "lock" => Subscriber(At) \in Objects
  BY <1>1 DEF AtItsEntry
<1>5. At \in Timers /\ At \in 1..glTimerID /\ Subscriber(At) \in Objects \cup {None}
  BY <1>1, <1>2 DEF Listed
<1>6. QED
  BY <1>2, <1>3, <1>4, <1>5

\* The routine is called, with its subscriber locked if it is one in C.
LEMMA MakesCall ==
    ASSUME ServiceInv, loop # <<>>, Inner.step \in {"dispatch", "lock"},
           NEW lock \in SUBSET Objects, Calls(lock), UNCHANGED <<glTimerCycle, now>>,
           ~Form(At).script /\ Subscriber(At) # None =>
               Subscriber(At) \in lock /\ ~terminating(Subscriber(At))
    PROVE  ServiceInv'
<1> DEFINE f == [Inner EXCEPT !.step = "callback", !.ran = @ \cup {At}]
<1>1. /\ InnerBecomes(f) /\ locked' = locked \cup lock /\ UNCHANGED entries /\ UNCHANGED state
  BY DEF Calls
<1>2. /\ Inner \in Loop /\ At = Inner.at /\ EntriesInv /\ ListTyped /\ RestTyped /\ now \in Nat
      /\ loop \in Seq(Loop)
  BY InnerOK DEF RestTyped
<1>3. /\ At \in glTimers /\ timer[At].Locked /\ At \in Timers /\ At \in 1..glTimerID
      /\ timer[At].NextCall > Inner.cycle_time
  BY AboutTo
<1>4. /\ f \in Loop /\ f.step = "callback" /\ f.at = At /\ f.ran = Inner.ran \cup {At}
      /\ f.cycle_time = Inner.cycle_time
  BY <1>2, <1>3 DEF Loop, Steps
<1> HIDE DEF f
<1>5. EntriesInv' /\ EntriesGentle(Nobody)
  BY <1>1, <1>2, EntriesSame
<1>6. loop' \in Seq(Loop)
  BY <1>1, <1>2, <1>4, InnerReplaced
<1>7. RestTyped'
  BY <1>1, <1>2, <1>6 DEF RestTyped
<1>8. Gentle(Nobody, None)
  BY <1>1, <1>2, <1>5 DEF Gentle, ObjectsGentle, terminating
<1>9. \A n \in 1..Len(loop) : n < Len(loop) /\ Guarded(loop[n]) => Subscriber(loop[n].at) # None
  BY DEF Guarded
<1>10. ASSUME NEW n \in 1..Len(loop'), loop'[n] = f PROVE LoopOK(loop[n])'
  <2>1. timer' = timer /\ glTimers' = glTimers /\ glTimerID' = glTimerID
    BY <1>1 DEF entries
  <2>2. AtItsEntry(loop[n])'
    BY <1>3, <1>4, <1>10, <2>1 DEF AtItsEntry
  <2>3. CalledLater(loop[n])'
    <3>1. /\ Inner.cycle_time <= now' /\ Inner.ran \subseteq 1..glTimerID'
          /\ \A i \in Inner.ran : i \in glTimers' => timer'[i].NextCall > Inner.cycle_time
      BY <1>2, <1>5, <1>7, InnerRan DEF EntriesInv
    <3>2. QED
      BY <1>3, <1>4, <1>10, <2>1, <3>1 DEF CalledLater
  <2>4. Holds(loop[n])'
    BY <1>1, <1>4, <1>10, <2>1 DEF Holds, Guarded, Form, Subscriber, terminating
  <2>5. QED
    BY <2>2, <2>3, <2>4 DEF LoopOK
<1>11. f.step \in Working => f.at = At /\ Inner.step \in Working \cup {"scan"}
  BY <1>4 DEF Working
<1>12. LoopsInv'
  BY <1>1, <1>4, <1>5, <1>7, <1>8, <1>9, <1>10, <1>11, InnerStep DEF EntriesInv
<1>13. QED
  BY <1>5, <1>7, <1>12 DEF ServiceInv

LEMMA Service_Dispatch == ServiceInv /\ Dispatch => ServiceInv'
<1> SUFFICES ASSUME ServiceInv, Dispatch PROVE ServiceInv'
  OBVIOUS
<1>1. loop # <<>> /\ Inner.step = "dispatch" /\ UNCHANGED <<glTimerCycle, now>>
  BY DEF Dispatch, In
<1>2. Inner.step \in Working /\ Inner.step \in Working \cup {"scan"} /\ Inner.step \in {"dispatch", "lock"}
  BY <1>1 DEF Working
<1>3. CASE Discard
  <2>1. Erase({At}) /\ ScanOn /\ UNCHANGED <<glTimerCycle, objects, now>>
    BY <1>1, <1>3 DEF Discard
  <2>2. QED
    BY <1>1, <1>2, <2>1, ErasesOn
<1>4. CASE PassOver
  BY <1>1, <1>2, <1>4, PassesOver
<1>5. CASE /\ Subscriber(At) # None /\ ~Form(At).script
           /\ GoesTo("lock") /\ UNCHANGED entries /\ UNCHANGED objects
  <2> DEFINE f == [Inner EXCEPT !.step = "lock"]
  <2>1. InnerBecomes(f)
    BY <1>5 DEF GoesTo
  <2>2. /\ Inner \in Loop /\ At = Inner.at /\ EntriesInv /\ ListTyped /\ RestTyped /\ now \in Nat
    BY <1>1, InnerOK
  <2>3. /\ At \in glTimers /\ timer[At].Locked /\ timer[At].NextCall > Inner.cycle_time
        /\ At \notin Inner.ran /\ Subscriber(At) \in Objects
    BY <1>1, <1>2, <1>5, AboutTo
  <2>4. /\ f \in Loop /\ f.step = "lock" /\ f.at = At /\ f.ran = Inner.ran
        /\ f.cycle_time = Inner.cycle_time
    BY <2>2 DEF Loop, Steps
  <2> HIDE DEF f
  <2>5. EntriesInv' /\ EntriesGentle(Nobody)
    BY <1>5, <2>2, EntriesSame
  <2>6. ASSUME RestTyped', NEW n \in 1..Len(loop'), loop'[n] = f PROVE LoopOK(loop[n])'
    <3>1. timer' = timer /\ glTimers' = glTimers
      BY <1>5 DEF entries
    <3>2. AtItsEntry(loop[n])'
      BY <2>3, <2>4, <2>6, <3>1 DEF AtItsEntry, Subscriber, Form
    <3>3. CalledLater(loop[n])'
      <4>1. /\ Inner.cycle_time <= now' /\ Inner.ran \subseteq 1..glTimerID'
            /\ \A i \in Inner.ran : i \in glTimers' => timer'[i].NextCall > Inner.cycle_time
        BY <1>1, <2>2, <2>5, <2>6, InnerRan DEF EntriesInv
      <4>2. QED
        BY <2>3, <2>4, <2>6, <3>1, <4>1 DEF CalledLater
    <3>4. Holds(loop[n])'
      BY <2>4, <2>6 DEF Holds, Guarded
    <3>5. QED
      BY <3>2, <3>3, <3>4 DEF LoopOK
  <2>7. f.step \in Working => f.at = At /\ Inner.step \in Working \cup {"scan"}
    BY <1>2, <2>4
  <2>8. glTimerCycle' \in 0..CycleValues - 1 /\ UNCHANGED <<objects, now>>
    BY <1>1, <1>5, <2>2 DEF RestTyped
  <2>9. QED
    BY <1>1, <2>1, <2>4, <2>5, <2>6, <2>7, <2>8, Goes
<1>6. CASE Calls({}) /\ ~(Subscriber(At) # None /\ ~Form(At).script)
  <2>1. {} \in SUBSET Objects
    OBVIOUS
  <2>2. QED
    BY <1>1, <1>2, <1>6, <2>1, MakesCall
<1>7. QED
  BY <1>3, <1>4, <1>5, <1>6 DEF Dispatch

\* The dispatcher ends a subscriber that nobody has locked any more.
LEMMA EndsSubscriber ==
    ASSUME ServiceInv, loop # <<>>, Inner.step = "lock", UNCHANGED <<glTimerCycle, locked, now>>,
           NEW s \in Objects, s \notin locked, state' = [state EXCEPT ![s] = "freed"],
           Erase(Abandoned(s)), GoesTo("ended")
    PROVE  ServiceInv'
<1> DEFINE f == [Inner EXCEPT !.step = "ended"]
<1>1. InnerBecomes(f)
  BY DEF GoesTo
<1>2. /\ Inner \in Loop /\ At = Inner.at /\ EntriesInv /\ ListTyped /\ RestTyped /\ now \in Nat
      /\ loop \in Seq(Loop) /\ Listed
  BY InnerOK DEF RestTyped
<1>3. At \in glTimers /\ timer[At].Locked /\ At # Nobody
  BY <1>2, AboutTo DEF Listed
<1>4. f \in Loop /\ f.step = "ended" /\ f.at = At /\ f.ran = Inner.ran /\ f.cycle_time = Inner.cycle_time
  BY <1>2 DEF Loop, Steps
<1> HIDE DEF f
<1>5. EntriesInv' /\ EntriesGentle(Nobody)
  BY AbandonedErased
<1>6. loop' \in Seq(Loop)
  BY <1>1, <1>2, <1>4, InnerReplaced
<1>7. RestTyped'
  BY <1>2, <1>6 DEF RestTyped
<1>8. ObjectsGentle(None)
  <2>1. SUFFICES ASSUME NEW o \in locked, ~terminating(o) PROVE o \in locked' /\ ~terminating(o)'
    BY DEF ObjectsGentle
  <2>2. o \in Objects /\ o # s
    BY <1>2, <2>1 DEF RestTyped
  <2>3. state'[o] = state[o]
    BY <1>2, <2>2 DEF RestTyped
  <2>4. QED
    BY <2>1, <2>3 DEF terminating
<1>9. Gentle(Nobody, None)
  BY <1>2, <1>5, <1>8 DEF Gentle
<1>10. \A n \in 1..Len(loop) : n < Len(loop) /\ Guarded(loop[n]) => Subscriber(loop[n].at) # None
  BY DEF Guarded
<1>11. ASSUME NEW n \in 1..Len(loop'), loop'[n] = f PROVE LoopOK(loop[n])'
  <2>1. At \in glTimers' /\ timer'[At].Locked
    BY <1>3, <1>5 DEF EntriesGentle
  <2>2. AtItsEntry(loop[n])'
    BY <1>4, <1>11, <2>1 DEF AtItsEntry
  <2>3. CalledLater(loop[n])'
    <3>1. /\ Inner.cycle_time <= now' /\ Inner.ran \subseteq 1..glTimerID'
          /\ \A i \in Inner.ran : i \in glTimers' => timer'[i].NextCall > Inner.cycle_time
      BY <1>2, <1>5, <1>7, InnerRan DEF EntriesInv
    <3>2. QED
      BY <1>4, <1>11, <3>1 DEF CalledLater
  <2>4. Holds(loop[n])'
    BY <1>4, <1>11 DEF Holds, Guarded
  <2>5. QED
    BY <2>2, <2>3, <2>4 DEF LoopOK
<1>12. f.step \in Working => f.at = At /\ Inner.step \in Working \cup {"scan"}
  BY <1>4 DEF Working
<1>13. LoopsInv'
  BY <1>1, <1>4, <1>5, <1>7, <1>9, <1>10, <1>11, <1>12, InnerStep DEF EntriesInv
<1>14. QED
  BY <1>5, <1>7, <1>13 DEF ServiceInv

LEMMA Service_LockSubscriber == ServiceInv /\ LockSubscriber => ServiceInv'
<1> SUFFICES ASSUME ServiceInv, LockSubscriber PROVE ServiceInv'
  OBVIOUS
<1>1. loop # <<>> /\ Inner.step = "lock" /\ UNCHANGED <<glTimerCycle, now>>
  BY DEF LockSubscriber, In
<1>2. Inner.step \in Working /\ Inner.step \in {"dispatch", "lock"}
  BY <1>1 DEF Working
<1>3. CASE PassOver
  BY <1>1, <1>2, <1>3, PassesOver
<1>4. CASE ~collecting(Subscriber(At)) /\ Calls({Subscriber(At)})
  <2>1. Subscriber(At) \in Objects
    BY <1>1, <1>2, AboutTo
  <2>2. {Subscriber(At)} \in SUBSET Objects
    BY <2>1
  <2>3. Subscriber(At) \in {Subscriber(At)} /\ ~terminating(Subscriber(At))
    BY <1>4 DEF collecting, terminating
  <2> DEFINE lock == {Subscriber(At)}
  <2>4. lock \in SUBSET Objects /\ Calls(lock) /\ Subscriber(At) \in lock
    BY <1>4, <2>2
  <2> HIDE DEF lock
  <2>5. QED
    BY <1>1, <1>2, <2>3, <2>4, MakesCall
<1>5. CASE /\ Subscriber(At) \notin locked /\ state' = [state EXCEPT ![Subscriber(At)] = "freed"]
           /\ Erase(Abandoned(Subscriber(At))) /\ GoesTo("ended") /\ UNCHANGED locked
  <2>1. PICK s \in Objects : s = Subscriber(At)
    BY <1>1, <1>2, AboutTo
  <2>2. QED
    BY <1>1, <1>5, <2>1, EndsSubscriber
<1>6. QED
  BY <1>3, <1>4, <1>5 DEF LockSubscriber, Revalidates

LEMMA Service_SubscriberEnded == ServiceInv /\ SubscriberEnded => ServiceInv'
<1> SUFFICES ASSUME ServiceInv, SubscriberEnded PROVE ServiceInv'
  OBVIOUS
<1>1. loop # <<>> /\ Inner.step \in Working /\ PassOver /\ UNCHANGED <<glTimerCycle, now>>
  BY DEF SubscriberEnded, In, Working
<1>2. QED
  BY <1>1, PassesOver

LEMMA Service_CallbackReturns == ServiceInv /\ CallbackReturns => ServiceInv'
<1> SUFFICES ASSUME ServiceInv, CallbackReturns PROVE ServiceInv'
  OBVIOUS
<1> DEFINE s == Subscriber(At)
           last == s \in locked /\ ~Form(At).script /\ ~Outer(s)
<1>1. PICK t \in BOOLEAN : InnerBecomes([Inner EXCEPT !.step = "finish", !.terminate = t])
  BY DEF CallbackReturns
<1> DEFINE f == [Inner EXCEPT !.step = "finish", !.terminate = t]
<1>2. /\ loop # <<>> /\ Inner.step = "callback" /\ UNCHANGED <<glTimerCycle, now>> /\ InnerBecomes(f)
      /\ locked' = IF last THEN locked \ {s} ELSE locked
      /\ IF last /\ state[s] = "marked"
         THEN state' = [state EXCEPT ![s] = "freed"] /\ Erase(Abandoned(s))
         ELSE UNCHANGED <<entries, state>>
  BY <1>1 DEF CallbackReturns, In
<1>3. /\ Inner \in Loop /\ At = Inner.at /\ AtItsEntry(Inner) /\ CalledLater(Inner)
      /\ EntriesInv /\ ListTyped /\ RestTyped /\ Listed /\ now \in Nat /\ loop \in Seq(Loop)
  BY <1>2, InnerOK DEF RestTyped
<1>4. At \in glTimers /\ timer[At].Locked /\ At # Nobody
  BY <1>2, <1>3 DEF AtItsEntry, Working, Listed
<1>5. f \in Loop /\ f.step = "finish" /\ f.at = At /\ f.ran = Inner.ran /\ f.cycle_time = Inner.cycle_time
  BY <1>3 DEF Loop, Steps
<1> HIDE DEF f
<1>6. EntriesInv' /\ EntriesGentle(Nobody)
  <2>1. CASE Erase(Abandoned(s))
    BY <2>1, AbandonedErased
  <2>2. CASE UNCHANGED entries
    BY <1>3, <2>2, EntriesSame
  <2>3. QED
    BY <1>2, <2>1, <2>2
<1>7. loop' \in Seq(Loop)
  BY <1>2, <1>3, <1>5, InnerReplaced
<1>8. last => s \in Objects
  BY <1>3 DEF RestTyped
<1>9. RestTyped'
  <2>1. locked' \subseteq Objects
    BY <1>2, <1>3 DEF RestTyped
  <2>2. state' \in [Objects -> {"live", "marked", "freeing", "freed"}]
    <3>1. CASE last /\ state[s] = "marked"
      BY <1>2, <1>3, <1>8, <3>1 DEF RestTyped
    <3>2. CASE ~(last /\ state[s] = "marked")
      BY <1>2, <1>3, <3>2 DEF RestTyped
    <3>3. QED
      BY <3>1, <3>2
  <2>3. QED
    BY <1>2, <1>3, <1>7, <2>1, <2>2 DEF RestTyped
<1>10. PICK u : u = IF last THEN s ELSE None
  OBVIOUS
<1>11. ObjectsGentle(u)
  <2>1. SUFFICES ASSUME NEW p \in locked, p # u, ~terminating(p) PROVE p \in locked' /\ ~terminating(p)'
    BY DEF ObjectsGentle
  <2>2. p \in Objects
    BY <1>3, <2>1 DEF RestTyped
  <2>3. CASE last
    <3>1. u = s /\ p # s /\ locked' = locked \ {s}
      BY <1>2, <1>10, <2>1, <2>3
    <3>2. state'[p] = state[p]
      <4>1. CASE state[s] = "marked"
        <5>1. state' = [state EXCEPT ![s] = "freed"]
          BY <1>2, <2>3, <4>1
        <5>2. QED
          BY <1>3, <2>2, <3>1, <5>1 DEF RestTyped
      <4>2. CASE state[s] # "marked"
        BY <1>2, <2>3, <4>2
      <4>3. QED
        BY <4>1, <4>2
    <3>3. QED
      BY <2>1, <3>1, <3>2 DEF terminating
  <2>4. CASE ~last
    BY <1>2, <2>1, <2>4 DEF terminating
  <2>5. QED
    BY <2>3, <2>4
<1>12. Gentle(Nobody, u)
  BY <1>2, <1>3, <1>6, <1>11 DEF Gentle
<1>13. \A n \in 1..Len(loop) : n < Len(loop) /\ Guarded(loop[n]) => Subscriber(loop[n].at) # u
  <2> SUFFICES ASSUME NEW n \in 1..Len(loop), n < Len(loop), Guarded(loop[n]), Subscriber(loop[n].at) = u
               PROVE  FALSE
    OBVIOUS
  <2>1. loop[n].step = "callback" /\ ~Form(loop[n].at).script /\ u # None
    BY DEF Guarded
  <2>2. last /\ u = s
    BY <1>10, <2>1
  <2>3. n \in 1..Len(loop) - 1
    BY <1>3
  <2>4. Outer(s)
    BY <2>1, <2>2, <2>3 DEF Outer
  <2>5. QED
    BY <2>2, <2>4
<1>14. ASSUME NEW n \in 1..Len(loop'), loop'[n] = f PROVE LoopOK(loop[n])'
  <2>1. At \in glTimers' /\ timer'[At].Locked
    BY <1>4, <1>6 DEF EntriesGentle
  <2>2. AtItsEntry(loop[n])'
    BY <1>5, <1>14, <2>1 DEF AtItsEntry
  <2>3. CalledLater(loop[n])'
    <3>1. /\ Inner.cycle_time <= now' /\ Inner.ran \subseteq 1..glTimerID'
          /\ \A i \in Inner.ran : i \in glTimers' => timer'[i].NextCall > Inner.cycle_time
      BY <1>2, <1>3, <1>6, <1>9, InnerRan DEF EntriesInv
    <3>2. QED
      BY <1>5, <1>14, <3>1 DEF CalledLater
  <2>4. Holds(loop[n])'
    BY <1>5, <1>14 DEF Holds, Guarded
  <2>5. QED
    BY <2>2, <2>3, <2>4 DEF LoopOK
<1>15. f.step \in Working => f.at = At /\ Inner.step \in Working \cup {"scan"}
  BY <1>2, <1>5 DEF Working
<1>16. LoopsInv'
  BY <1>2, <1>5, <1>6, <1>9, <1>12, <1>13, <1>14, <1>15, InnerStep DEF EntriesInv
<1>17. QED
  BY <1>6, <1>9, <1>16 DEF ServiceInv

\* A loop that does not scan and works on no entry.
LEMMA Rests ==
    ASSUME ServiceInv, loop # <<>>, EntriesInv', NEW f \in Loop, InnerBecomes(f),
           UNCHANGED <<glTimerCycle, objects, now>>, NEW x, EntriesGentle(x),
           x = Nobody \/ (x = At /\ Inner.step \in Working \cup {"scan"}),
           f.step \in {"cycle", "try"}, f.ran = Inner.ran, f.cycle_time = Inner.cycle_time
    PROVE  ServiceInv'
<1>1. f.step \notin Working
  BY DEF Working
<1>2. now \in Nat /\ glTimerCycle' \in 0..CycleValues - 1
  BY DEF ServiceInv, RestTyped
<1>3. ASSUME RestTyped', NEW n \in 1..Len(loop'), loop'[n] = f PROVE LoopOK(loop[n])'
  <2>1. /\ Inner.cycle_time <= now' /\ Inner.ran \subseteq 1..glTimerID'
        /\ \A i \in Inner.ran : i \in glTimers' => timer'[i].NextCall > Inner.cycle_time
    BY <1>2, <1>3, InnerRan DEF EntriesInv
  <2>2. AtItsEntry(loop[n])'
    BY <1>1, <1>3 DEF AtItsEntry
  <2>3. CalledLater(loop[n])' /\ Holds(loop[n])'
    BY <1>3, <2>1 DEF CalledLater, Holds, Guarded
  <2>4. QED
    BY <2>2, <2>3 DEF LoopOK
<1>4. QED
  BY <1>1, <1>2, <1>3, Goes

LEMMA Service_Finish == ServiceInv /\ Finish => ServiceInv'
<1> SUFFICES ASSUME ServiceInv, Finish PROVE ServiceInv'
  OBVIOUS
<1> DEFINE f == [Inner EXCEPT !.step = "try", !.at = 0, !.terminate = FALSE]
<1>1. /\ loop # <<>> /\ Inner.step = "finish" /\ InnerBecomes(f) /\ UNCHANGED <<glTimerCycle, objects, now>>
  BY DEF Finish, In
<1>2. /\ Inner \in Loop /\ At = Inner.at /\ AtItsEntry(Inner) /\ EntriesInv
  BY <1>1, InnerOK
<1>3. Inner.step \in Working /\ At \in glTimers
  BY <1>1, <1>2 DEF AtItsEntry, Working
<1>4. f \in Loop /\ f.step \in {"cycle", "try"} /\ f.ran = Inner.ran /\ f.cycle_time = Inner.cycle_time
  BY <1>2 DEF Loop, Steps
<1> HIDE DEF f
<1>5. EntriesInv' /\ EntriesGentle(At)
  <2>1. CASE Erase({At})
    <3>1. {At} \in SUBSET glTimers
      BY <1>3
    <3>2. EntriesInv'
      BY <1>2, <2>1, <3>1, Erased
    <3>3. EntriesGentle(At)
      BY <1>2, <2>1, <3>1, ErasedGently
    <3>4. QED
      BY <3>2, <3>3
  <2>2. CASE timer' = Unlock(At) /\ UNCHANGED <<glTimers, glTimerID, pins>>
    BY <1>1, <1>3, <2>2, Unlocked
  <2>3. QED
    BY <2>1, <2>2 DEF Finish
<1>6. QED
  BY <1>1, <1>3, <1>4, <1>5, Rests

LEMMA Service_NextCycle == ServiceInv /\ NextCycle => ServiceInv'
<1> SUFFICES ASSUME ServiceInv, NextCycle PROVE ServiceInv'
  OBVIOUS
<1> DEFINE f == [Inner EXCEPT !.step = "cycle"]
<1>1. loop # <<>> /\ InnerBecomes(f) /\ UNCHANGED entries /\ UNCHANGED <<glTimerCycle, objects, now>>
  BY DEF NextCycle, In, GoesTo
<1>2. Inner \in Loop /\ EntriesInv
  BY <1>1, InnerOK
<1>3. f \in Loop /\ f.step \in {"cycle", "try"} /\ f.ran = Inner.ran /\ f.cycle_time = Inner.cycle_time
  BY <1>2 DEF Loop, Steps
<1> HIDE DEF f
<1>4. EntriesInv' /\ EntriesGentle(Nobody)
  BY <1>1, <1>2, EntriesSame
<1>5. QED
  BY <1>1, <1>3, <1>4, Rests

-----------------------------------------------------------------------------
(* The theorems.                                                           *)

LEMMA Service_Init == Init => ServiceInv
<1> SUFFICES ASSUME Init PROVE ServiceInv
  OBVIOUS
<1>1. EntriesInv
  <2>1. timer \in [Timers -> Entry] /\ pins \in [Objects -> Nat]
    BY NoEntry DEF Init
  <2>2. ListTyped
    BY <2>1, TimerAssumption DEF Init, ListTyped
  <2>3. ASSUME NEW o \in Objects PROVE pins[o] = Pins(o, glTimers)
    <3>1. Subscribed(o, glTimers) = {} /\ Routines(o, glTimers) = {}
      BY DEF Init, Subscribed, Routines
    <3>2. Cardinality(Subscribed(o, glTimers)) = 0 /\ Cardinality(Routines(o, glTimers)) = 0
      BY <3>1, FS_EmptySet
    <3>3. QED
      BY <3>2 DEF Init, Pins
  <2>4. QED
    BY <2>2, <2>3 DEF EntriesInv, PinsBalanced
<1>2. loop = <<>> /\ <<>> \in Seq(Loop) /\ Len(<<>>) = 0
  BY DEF Init
<1>3. RestTyped
  <2>1. glTimerCycle \in 0..CycleValues - 1
    BY TimerAssumption DEF Init
  <2>2. QED
    BY <1>2, <2>1, TimerAssumption DEF Init, RestTyped
<1>4. LoopsInv
  BY <1>2 DEF LoopsInv, LoopsOK, Nested, Apart
<1>5. QED
  BY <1>1, <1>3, <1>4 DEF ServiceInv

LEMMA Service_Next == ServiceInv /\ [Next]_vars => ServiceInv'
<1>1. ServiceInv /\ Client => ServiceInv'
  BY Service_SubscribeTimer, Service_ChangeTimer, Service_EaseTimer, Service_RemoveTimer,
     Service_FreeBegins, Service_FreeByMain DEF Client
<1>2. ServiceInv /\ (\E o \in Objects : FreeResumes(o) \/ FreeEnds(o)) => ServiceInv'
  BY Service_FreeResumes, Service_FreeEnds
<1>3. ServiceInv /\ Dispatcher => ServiceInv'
  BY Service_BeginCycle, Service_LockTimers, Service_Sweep, Service_LockEntry, Service_Dispatch,
     Service_LockSubscriber, Service_SubscriberEnded, Service_CallbackReturns, Service_Finish, Service_NextCycle,
     Service_Leave DEF Dispatcher
<1>4. ServiceInv /\ UNCHANGED vars => ServiceInv'
  <2> SUFFICES ASSUME ServiceInv, UNCHANGED vars PROVE ServiceInv'
    OBVIOUS
  <2>1. UNCHANGED entries /\ UNCHANGED <<glTimerCycle, state, locked, loop, now>>
    BY DEF vars, entries
  <2>2. EntriesInv' /\ RestTyped'
    BY <2>1, EntriesSame DEF ServiceInv, RestTyped
  <2>3. LoopsInv'
    BY <2>1 DEF ServiceInv, LoopsInv, LoopsOK, LoopOK, AtItsEntry, CalledLater, Holds, Guarded,
       Nested, Apart, Orphaned, terminating, Subscriber, Form, entries
  <2>4. QED
    BY <2>2, <2>3 DEF ServiceInv
<1>5. QED
  BY <1>1, <1>2, <1>3, <1>4, Service_ProcessMessages, Service_Tick DEF Next

\* The list, its pins and the loops agree, whatever callbacks, other threads
\* and the end of objects do.
THEOREM ServiceCorrect == Spec => []ServiceInv
  BY Service_Init, Service_Next, PTL DEF Spec

\* Every loop finds the entry that it works on in the list, and weak pins on
\* objects are those of the entries.
THEOREM TimersCorrect == Spec => []TimersInv
<1>1. ServiceInv => TimersInv
  <2> SUFFICES ASSUME ServiceInv PROVE TimersInv
    OBVIOUS
  <2>1. ListTyped /\ RestTyped /\ PinsBalanced /\ LoopsOK /\ Listed
    BY ListedNow DEF ServiceInv, EntriesInv, LoopsInv
  <2>2. \A i \in glTimers :
         /\ timer[i].form \in Forms[i]
         /\ {timer[i].Interval, timer[i].PendingInterval} \subseteq Intervals \cup Easings \cup {0}
         /\ timer[i].NextCall \in Nat
         /\ timer[i].Cycle \in 0..CycleValues - 1
    BY <2>1 DEF Listed, Entry, Lengths
  <2>3. \A i \in glTimers : timer[i].Locked \in BOOLEAN /\ timer[i].defined \in BOOLEAN
    BY <2>1 DEF Listed, Entry
  <2>4. TypeOK
    BY <2>1, <2>2, <2>3 DEF TypeOK, ListTyped, RestTyped
  <2>5. EntryInUseKept
    <3>1. \A n \in 1..Len(loop) : AtItsEntry(loop[n])
      BY <2>1 DEF LoopsOK, LoopOK
    <3>2. DOMAIN loop = 1..Len(loop)
      BY <2>1 DEF RestTyped
    <3>3. QED
      BY <3>1, <3>2 DEF EntryInUseKept, AtItsEntry, Working, Running
  <2>6. QED
    BY <2>1, <2>4, <2>5 DEF TimersInv
<1>2. QED
  BY ServiceCorrect, <1>1, PTL

\* "A locked timer is mid-callback": a routine that processes messages is not
\* entered again from there, at any depth.
THEOREM NoneReentered == Spec => []NotReentered
<1>1. ServiceInv => NotReentered
  <2> SUFFICES ASSUME ServiceInv PROVE NotReentered
    OBVIOUS
  <2>1. Apart /\ DOMAIN loop = 1..Len(loop)
    BY DEF ServiceInv, LoopsInv, RestTyped
  <2>2. QED
    BY <2>1 DEF Apart, NotReentered, Runs, Running, Working
<1>2. QED
  BY ServiceCorrect, <1>1, PTL

\* A routine in C runs with its subscriber locked and not terminated.
THEOREM SubscribersHeld == Spec => []SubscriberHeld
<1>1. ServiceInv => SubscriberHeld
  <2> SUFFICES ASSUME ServiceInv PROVE SubscriberHeld
    OBVIOUS
  <2>1. DOMAIN loop = 1..Len(loop) /\ \A n \in 1..Len(loop) : Holds(loop[n])
    BY DEF ServiceInv, LoopsInv, LoopsOK, LoopOK, RestTyped
  <2>2. QED
    BY <2>1 DEF SubscriberHeld, Holds, Guarded, Runs, Running
<1>2. QED
  BY ServiceCorrect, <1>1, PTL

-----------------------------------------------------------------------------
(* No timer is called twice in a cycle.                                    *)

OnceStep == \A n \in DOMAIN loop \cap DOMAIN loop' :
    loop[n].step # "callback" /\ loop'[n].step = "callback" => loop'[n].at \notin loop[n].ran

LEMMA InnerOnce ==
    ASSUME ServiceInv, loop # <<>>, NEW f \in Loop, InnerBecomes(f),
           f.step = "callback" => f.at \notin Inner.ran
    PROVE  OnceStep
<1>1. loop \in Seq(Loop) /\ Len(loop) \in Nat
  BY DEF ServiceInv, RestTyped
<1>2. Inner = loop[Len(loop)] /\ DOMAIN loop = 1..Len(loop)
  BY <1>1, Innermost
<1>3. /\ loop'[Len(loop)] = f
      /\ \A i \in 1..(Len(loop) - 1) : loop'[i] = loop[i]
  BY <1>1, InnerReplaced
<1>4. ASSUME NEW n \in DOMAIN loop, loop[n].step # "callback", loop'[n].step = "callback"
      PROVE  loop'[n].at \notin loop[n].ran
  <2>1. n \in 1..Len(loop) /\ (n = Len(loop) \/ n \in 1..(Len(loop) - 1))
    BY <1>1, <1>2
  <2>2. n = Len(loop)
    BY <1>3, <1>4, <2>1
  <2>3. QED
    BY <1>2, <1>3, <1>4, <2>2
<1>5. QED
  BY <1>4 DEF OnceStep

LEMMA LoopOnce == UNCHANGED loop => OnceStep
  BY DEF OnceStep

LEMMA ScanOnce ==
    ASSUME ServiceInv, loop # <<>>, NEW i, ScanAfter(i)
    PROVE  OnceStep
<1>1. Inner \in Loop /\ Listed
  BY InnerOK
<1>2. CASE HandleMessages
  <2>1. PICK f \in Loop : f.step # "callback" /\ InnerBecomes(f)
    BY <1>2, NoFrameTyped DEF HandleMessages
  <2>2. QED
    BY <2>1, InnerOnce
<1>3. CASE ~HandleMessages
  <2>1. PICK j \in glTimers : InnerBecomes([Inner EXCEPT !.step = "scan", !.at = j])
    BY <1>3 DEF ScanAfter
  <2>2. j \in Timers
    BY <1>1 DEF Listed
  <2>3. /\ [Inner EXCEPT !.step = "scan", !.at = j] \in Loop
        /\ [Inner EXCEPT !.step = "scan", !.at = j].step # "callback"
    BY <1>1, <2>2 DEF Loop, Steps
  <2>4. QED
    BY <2>1, <2>3, InnerOnce
<1>4. QED
  BY <1>2, <1>3

LEMMA CallOnce ==
    ASSUME ServiceInv, loop # <<>>, Inner.step \in {"dispatch", "lock"}, NEW lock, Calls(lock)
    PROVE  OnceStep
<1> DEFINE f == [Inner EXCEPT !.step = "callback", !.ran = @ \cup {At}]
<1>1. At \in Timers /\ At \notin Inner.ran
  BY AboutTo
<1>2. Inner \in Loop /\ At = Inner.at
  BY InnerOK
<1>3. f \in Loop /\ f.at = At
  BY <1>1, <1>2 DEF Loop, Steps
<1>4. InnerBecomes(f)
  BY DEF Calls
<1> HIDE DEF f
<1>5. QED
  BY <1>1, <1>3, <1>4, InnerOnce

LEMMA GoesOnce ==
    ASSUME ServiceInv, loop # <<>>, NEW f, f \in Loop /\ f.step # "callback", InnerBecomes(f)
    PROVE  OnceStep
  BY InnerOnce

LEMMA Once_Dispatcher == ServiceInv /\ Dispatcher => OnceStep
<1> SUFFICES ASSUME ServiceInv, Dispatcher PROVE OnceStep
  OBVIOUS
<1>1. loop # <<>>
  BY DEF Dispatcher, BeginCycle, LockTimers, Sweep, LockEntry, Dispatch, LockSubscriber,
     SubscriberEnded, CallbackReturns, Finish, NextCycle, Leave, In
<1>2. Inner \in Loop /\ now \in Nat
  BY <1>1, InnerOK
<1>3. CASE BeginCycle
  <2>1. /\ [Inner EXCEPT !.step = "try", !.cycle_time = now, !.ran = {}] \in Loop
        /\ [Inner EXCEPT !.step = "try", !.cycle_time = now, !.ran = {}].step # "callback"
    BY <1>2 DEF Loop, Steps
  <2>2. QED
    BY <1>1, <1>3, <2>1, GoesOnce DEF BeginCycle
<1>4. CASE LockTimers
  <2>1. CASE HandleMessages
    <3>1. PICK f \in Loop : f.step # "callback" /\ InnerBecomes(f)
      BY <2>1, NoFrameTyped DEF HandleMessages
    <3>2. QED
      BY <1>1, <3>1, GoesOnce
  <2>2. CASE ScanAfter(0)
    <3>1. PICK i : ScanAfter(i)
      BY <2>2
    <3>2. QED
      BY <1>1, <3>1, ScanOnce
  <2>3. QED
    BY <1>4, <2>1, <2>2 DEF LockTimers
<1>5. CASE Sweep
  BY <1>1, <1>5, ScanOnce DEF Sweep, ScanOn
<1>6. CASE LockEntry
  <2>1. /\ [Inner EXCEPT !.step = "dispatch"] \in Loop
        /\ [Inner EXCEPT !.step = "dispatch"].step # "callback"
    BY <1>2 DEF Loop, Steps
  <2>2. InnerBecomes([Inner EXCEPT !.step = "dispatch"])
    BY <1>6 DEF LockEntry, GoesTo
  <2>3. QED
    BY <1>1, <2>1, <2>2, GoesOnce
<1>7. CASE Dispatch
  <2>1. Inner.step \in {"dispatch", "lock"}
    BY <1>7 DEF Dispatch, In
  <2>2. CASE ScanOn
    BY <1>1, <2>2, ScanOnce DEF ScanOn
  <2>3. CASE GoesTo("lock")
    <3>1. /\ [Inner EXCEPT !.step = "lock"] \in Loop
          /\ [Inner EXCEPT !.step = "lock"].step # "callback"
      BY <1>2 DEF Loop, Steps
    <3>2. QED
      BY <1>1, <2>3, <3>1, GoesOnce DEF GoesTo
  <2>4. CASE Calls({})
    BY <1>1, <2>1, <2>4, CallOnce
  <2>5. QED
    BY <1>7, <2>2, <2>3, <2>4 DEF Dispatch, Discard, PassOver
<1>8. CASE LockSubscriber
  <2>1. Inner.step \in {"dispatch", "lock"}
    BY <1>8 DEF LockSubscriber, In
  <2>2. CASE ScanOn
    BY <1>1, <2>2, ScanOnce DEF ScanOn
  <2>3. CASE Calls({Subscriber(At)})
    BY <1>1, <2>1, <2>3, CallOnce
  <2>4. CASE GoesTo("ended")
    <3>1. /\ [Inner EXCEPT !.step = "ended"] \in Loop
          /\ [Inner EXCEPT !.step = "ended"].step # "callback"
      BY <1>2 DEF Loop, Steps
    <3>2. QED
      BY <1>1, <2>4, <3>1, GoesOnce DEF GoesTo
  <2>5. QED
    BY <1>8, <2>2, <2>3, <2>4 DEF LockSubscriber, PassOver
<1>9. CASE CallbackReturns
  <2>1. PICK t \in BOOLEAN : InnerBecomes([Inner EXCEPT !.step = "finish", !.terminate = t])
    BY <1>9 DEF CallbackReturns
  <2>2. /\ [Inner EXCEPT !.step = "finish", !.terminate = t] \in Loop
        /\ [Inner EXCEPT !.step = "finish", !.terminate = t].step # "callback"
    BY <1>2 DEF Loop, Steps
  <2>3. QED
    BY <1>1, <2>1, <2>2, GoesOnce
<1>10. CASE Finish
  <2>1. /\ [Inner EXCEPT !.step = "try", !.at = 0, !.terminate = FALSE] \in Loop
        /\ [Inner EXCEPT !.step = "try", !.at = 0, !.terminate = FALSE].step # "callback"
    BY <1>2 DEF Loop, Steps
  <2>2. QED
    BY <1>1, <1>10, <2>1, GoesOnce DEF Finish
<1>11. CASE NextCycle
  <2>1. /\ [Inner EXCEPT !.step = "cycle"] \in Loop
        /\ [Inner EXCEPT !.step = "cycle"].step # "callback"
    BY <1>2 DEF Loop, Steps
  <2>2. QED
    BY <1>1, <1>11, <2>1, GoesOnce DEF NextCycle, GoesTo
<1>12. CASE Leave
  <2>1. loop \in Seq(Loop) /\ loop' = Front(loop)
    BY <1>12 DEF ServiceInv, RestTyped, Leave
  <2>2. /\ loop' \in Seq(Loop) /\ Len(loop') = Len(loop) - 1
        /\ \A i \in 1..(Len(loop) - 1) : loop'[i] = loop[i]
    BY <1>1, <2>1, LoopLeft
  <2>3. \A n \in DOMAIN loop' : loop'[n] = loop[n]
    BY <2>2
  <2>4. QED
    BY <2>3 DEF OnceStep
<1>13. CASE SubscriberEnded
  BY <1>1, <1>13, ScanOnce DEF SubscriberEnded, PassOver, ScanOn
<1>14. QED
  BY <1>3, <1>4, <1>5, <1>6, <1>7, <1>8, <1>9, <1>10, <1>11, <1>12, <1>13 DEF Dispatcher

LEMMA Once_Next == ServiceInv /\ [Next]_vars => OnceStep
<1> SUFFICES ASSUME ServiceInv, [Next]_vars PROVE OnceStep
  OBVIOUS
<1>1. CASE Dispatcher
  BY <1>1, Once_Dispatcher
<1>2. CASE ProcessMessages
  <2>1. loop \in Seq(Loop) /\ loop' = Append(loop, NoFrame)
    BY <1>2 DEF ServiceInv, RestTyped, ProcessMessages
  <2>2. \A n \in DOMAIN loop : loop'[n] = loop[n]
    BY <2>1, NoFrameTyped, LoopBegun
  <2>3. QED
    BY <2>2 DEF OnceStep
<1>3. CASE UNCHANGED loop
  BY <1>3, LoopOnce
<1>4. Client => UNCHANGED loop
  BY DEF Client, SubscribeTimer, ChangeTimer, EaseTimer, RemoveTimer, FreeBegins, FreeByMain
<1>5. QED
  BY <1>1, <1>2, <1>3, <1>4 DEF Next, FreeResumes, FreeEnds, Tick, vars

\* "Each timer runs at most once per cycle irrespective of nesting", although
\* every callback restarts the scan and may change the timers.
THEOREM CalledOncePerCycle == Spec => OncePerCycle
<1>1. ServiceInv /\ [Next]_vars => [OnceStep]_vars
  BY Once_Next
<1>2. Spec => [][OnceStep]_vars
  BY ServiceCorrect, <1>1, PTL DEF Spec
<1>3. QED
  BY <1>2 DEF OnceStep, OncePerCycle
=============================================================================
