------------------------- MODULE ObjectLockProofs -------------------------
(***************************************************************************)
(* Queue and SleepQueue are exact, WaitTime() hears of its interrupts,     *)
(* nothing but a mistaken nested test gives an object a second holder, and *)
(* nobody is left asleep on a free object as long as locks are given back  *)
(* by ReleaseObject().                                                     *)
(***************************************************************************)
EXTENDS ObjectLock, Integers, FiniteSetTheorems, TLAPS

\* The steps of a call that locks, and of one that unlocks.
Locking == {"increment", "owner", "restore", "quick", "store", "nested", "add", "prepare",
            "mutex",
            "init", "attempt", "try", "taken", "waiting", "woken", "expired", "failed"}
Unlocking == {"unlock", "decrement", "release"}

\* A call is about an object, which its thread has locked if it is to be unlocked.
\* The object of a call that locks may be locked once more, and has not been given
\* back for good.
PlacedAt(t) ==
    /\ pc[t] \in Locking => /\ target[t] \in Objects
                            /\ depth[t][target[t]] < MaxDepth
                            /\ target[t] \notin used[t]
    /\ pc[t] \in Unlocking => target[t] \in Objects /\ depth[t][target[t]] > 0
    /\ pc[t] \in {"wake", "notify"} => target[t] \in Objects
    /\ \A o \in Objects : depth[t][o] <= MaxDepth /\ (o \in used[t] => depth[t][o] = 0)
Placed == \A t \in Threads : PlacedAt(t)

\* A thread in WaitTime() is seen paused by whoever interrupts it.
AlertAt(t) ==
    /\ pc[t] \in {"doze", "dozing"} /\ ~interrupted[t] => state[t] = "PAUSED"
    /\ pc[t] = "dozing" /\ interrupted[t] => t \in waking
Alert == \A t \in Threads : AlertAt(t)

CountInv == LockInv /\ Placed /\ Alert

---------------------------------------------------------------------------
(* The counters.                                                           *)

\* What a thread adds to the counters, besides its locks.
Weight(t) == IF Counting(t) THEN 1 ELSE 0
Bed(t) == IF Sleeping(t) THEN 1 ELSE 0

Shape == /\ depth \in [Threads -> [Objects -> Nat]]
         /\ \A t \in Threads : \A o \in Objects : depth[t][o] <= MaxDepth
Sleepers(o) == {t \in Threads : Sleeping(t) /\ target[t] = o}

\* The tokens of all threads but t.
Foreign(o, t) == {x \in Tokens(o) : x[1] # t}

LEMMA Run ==
  ASSUME NEW t, NEW a \in Int, NEW b \in Int, a <= b + 1
  PROVE  /\ IsFiniteSet({t} \X (a..b))
         /\ Cardinality({t} \X (a..b)) = b + 1 - a
<1> DEFINE f == [i \in a..b |-> <<t, i>>]
<1>1. IsFiniteSet(a..b) /\ Cardinality(a..b) = b + 1 - a
  BY FS_Interval
<1>2. f \in Bijection(a..b, {t} \X (a..b))
  <2>1. f \in [a..b -> {t} \X (a..b)]
    OBVIOUS
  <2>2. \A i, j \in a..b : f[i] = f[j] => i = j
    OBVIOUS
  <2>3. \A x \in {t} \X (a..b) : \E i \in a..b : f[i] = x
    OBVIOUS
  <2> HIDE DEF f
  <2>4. QED
    BY <2>1, <2>2, <2>3 DEF Bijection, Injection, Surjection, IsInjective
<1>3. ExistsBijection(a..b, {t} \X (a..b))
  BY <1>2 DEF ExistsBijection
<1>4. QED
  BY <1>1, <1>3, FS_Bijection

LEMMA TokensFinite ==
  ASSUME NEW o \in Objects
  PROVE  IsFiniteSet(Tokens(o))
<1>1. IsFiniteSet(0..MaxDepth) /\ IsFiniteSet(Threads)
  <2>1. IsFiniteSet(0..MaxDepth)
    BY FS_Interval, LockAssumption
  <2>2. QED
    BY <2>1, LockAssumption
<1>2. IsFiniteSet(Threads \X (0..MaxDepth))
  BY <1>1, FS_Product
<1>3. Tokens(o) \subseteq Threads \X (0..MaxDepth)
  BY LockAssumption DEF Tokens
<1>4. QED
  BY <1>2, <1>3, FS_Subset

\* The tokens of a thread are its locks and what it counts besides.
LEMMA TokensOf ==
  Shape => \A t \in Threads : \A o \in Objects :
    /\ IsFiniteSet(Foreign(o, t))
    /\ Cardinality(Tokens(o)) = Cardinality(Foreign(o, t)) + depth[t][o]
                                 + (IF target[t] = o THEN Weight(t) ELSE 0)
<1> SUFFICES ASSUME Shape, NEW t \in Threads, NEW o \in Objects
             PROVE  /\ IsFiniteSet(Foreign(o, t))
                    /\ Cardinality(Tokens(o)) = Cardinality(Foreign(o, t)) + depth[t][o]
                                 + (IF target[t] = o THEN Weight(t) ELSE 0)
  OBVIOUS
<1> DEFINE w == IF target[t] = o THEN Weight(t) ELSE 0
           d == depth[t][o]
           S == {t} \X ((1 - w)..d)
<1>1. w \in {0, 1} /\ d \in Nat /\ d <= MaxDepth
  BY DEF Weight, Shape
<1>2. IsFiniteSet(S) /\ Cardinality(S) = d + w
  <2>1. 1 - w \in Int /\ d \in Int /\ 1 - w <= d + 1 /\ d + 1 - (1 - w) = d + w
    BY <1>1
  <2> HIDE DEF w, d
  <2>2. QED
    BY <2>1, Run
<1>3. Foreign(o, t) \subseteq Tokens(o)
  BY DEF Foreign
<1>4. IsFiniteSet(Foreign(o, t))
  BY <1>3, TokensFinite, FS_Subset
<1>5. Tokens(o) = Foreign(o, t) \cup S
  <2>1. \A i : <<t, i>> \in Tokens(o) <=> i \in (1 - w)..d
    <3>1. \A i : <<t, i>> \in Tokens(o) <=>
             (i \in 1..MaxDepth /\ i <= d) \/ (i = 0 /\ Counting(t) /\ target[t] = o)
      BY DEF Tokens
    <3>2. (Counting(t) /\ target[t] = o) <=> w = 1
      BY DEF Weight
    <3>3. \A i : i \in (1 - w)..d <=>
             (i \in 1..MaxDepth /\ i <= d) \/ (i = 0 /\ w = 1)
      <4> HIDE DEF w, d
      <4>1. QED
        BY <1>1, LockAssumption
    <3>4. QED
      BY <3>1, <3>2, <3>3
  <2>2. \A x \in Tokens(o) : \E u, i : x = <<u, i>>
    BY DEF Tokens
  <2> HIDE DEF w, d
  <2>3. \A x \in S : \E i \in (1 - w)..d : x = <<t, i>>
    OBVIOUS
  <2>4. \A i \in (1 - w)..d : <<t, i>> \in S
    OBVIOUS
  <2> HIDE DEF S
  <2>5. \A x \in Tokens(o) : x[1] = t => x \in S
    BY <2>1, <2>2, <2>4
  <2>6. S \subseteq Tokens(o)
    BY <2>1, <2>3
  <2>7. QED
    BY <2>5, <2>6 DEF Foreign
<1>6. Foreign(o, t) \cap S = {}
  BY DEF Foreign
<1> HIDE DEF S
<1>7. Cardinality(Tokens(o)) = Cardinality(Foreign(o, t)) + (d + w)
  <2>1. Cardinality(Foreign(o, t) \cup S) =
           Cardinality(Foreign(o, t)) + Cardinality(S) - Cardinality(Foreign(o, t) \cap S)
    BY <1>2, <1>4, FS_Union
  <2>2. Cardinality(Foreign(o, t) \cap S) = 0
    BY <1>6, FS_EmptySet
  <2>3. Cardinality(Foreign(o, t)) \in Nat
    BY <1>4, FS_CardinalityType
  <2> HIDE DEF w, d
  <2>4. QED
    BY <1>1, <1>2, <1>5, <2>1, <2>2, <2>3
<1>8. Cardinality(Foreign(o, t)) \in Nat
  BY <1>4, FS_CardinalityType
<1> HIDE DEF w, d
<1>9. Cardinality(Tokens(o)) = Cardinality(Foreign(o, t)) + d + w
  BY <1>1, <1>7, <1>8
<1>10. QED
  BY <1>4, <1>9 DEF d, w

LEMMA SleepersOf ==
  \A t \in Threads : \A o \in Objects :
    /\ IsFiniteSet(Sleepers(o) \ {t})
    /\ Cardinality(Sleepers(o)) = Cardinality(Sleepers(o) \ {t})
                                    + (IF target[t] = o THEN Bed(t) ELSE 0)
<1> SUFFICES ASSUME NEW t \in Threads, NEW o \in Objects
             PROVE  /\ IsFiniteSet(Sleepers(o) \ {t})
                    /\ Cardinality(Sleepers(o)) = Cardinality(Sleepers(o) \ {t})
                                    + (IF target[t] = o THEN Bed(t) ELSE 0)
  OBVIOUS
<1>1. IsFiniteSet(Sleepers(o))
  <2>1. Sleepers(o) \subseteq Threads
    BY DEF Sleepers
  <2>2. QED
    BY <2>1, LockAssumption, FS_Subset
<1>2. /\ IsFiniteSet(Sleepers(o) \ {t})
      /\ Cardinality(Sleepers(o) \ {t}) =
           IF t \in Sleepers(o) THEN Cardinality(Sleepers(o)) - 1 ELSE Cardinality(Sleepers(o))
  BY <1>1, FS_RemoveElement
<1>3. t \in Sleepers(o) <=> Sleeping(t) /\ target[t] = o
  BY DEF Sleepers
<1>4. Cardinality(Sleepers(o)) \in Nat
  BY <1>1, FS_CardinalityType
<1>5. QED
  BY <1>2, <1>3, <1>4 DEF Bed

LEMMA TokensOfNext ==
  (Shape => \A t \in Threads : \A o \in Objects :
    /\ IsFiniteSet(Foreign(o, t))
    /\ Cardinality(Tokens(o)) = Cardinality(Foreign(o, t)) + depth[t][o]
                                 + (IF target[t] = o THEN Weight(t) ELSE 0))'
<1>1. Shape => \A t \in Threads : \A o \in Objects :
    /\ IsFiniteSet(Foreign(o, t))
    /\ Cardinality(Tokens(o)) = Cardinality(Foreign(o, t)) + depth[t][o]
                                 + (IF target[t] = o THEN Weight(t) ELSE 0)
  BY TokensOf
<1>2. QED
  BY <1>1, PTL

LEMMA SleepersOfNext ==
  (\A t \in Threads : \A o \in Objects :
    /\ IsFiniteSet(Sleepers(o) \ {t})
    /\ Cardinality(Sleepers(o)) = Cardinality(Sleepers(o) \ {t})
                                    + (IF target[t] = o THEN Bed(t) ELSE 0))'
<1>1. \A t \in Threads : \A o \in Objects :
    /\ IsFiniteSet(Sleepers(o) \ {t})
    /\ Cardinality(Sleepers(o)) = Cardinality(Sleepers(o) \ {t})
                                    + (IF target[t] = o THEN Bed(t) ELSE 0)
  BY SleepersOf
<1>2. QED
  BY <1>1, PTL

\* A thread that has a lock or counts is counted, and so is one that sleeps.
LEMMA Counted ==
  ASSUME CountInv, NEW t \in Threads, NEW o \in Objects
  PROVE  /\ Queue[o] \in Nat /\ SleepQueue[o] \in Nat
         /\ depth[t][o] > 0 => Queue[o] >= 1
         /\ Counting(t) /\ target[t] = o => Queue[o] >= 1
         /\ Sleeping(t) /\ target[t] = o => SleepQueue[o] >= 1
<1>1. Shape /\ Queue \in [Objects -> Nat] /\ SleepQueue \in [Objects -> Nat]
  BY DEF CountInv, LockInv, TypeOK, Placed, PlacedAt, Shape
<1>2. /\ Queue[o] = Cardinality(Foreign(o, t)) + depth[t][o]
                                 + (IF target[t] = o THEN Weight(t) ELSE 0)
      /\ Cardinality(Foreign(o, t)) \in Nat
  BY <1>1, TokensOf, FS_CardinalityType DEF CountInv, LockInv, QueueCounts
<1>3. /\ SleepQueue[o] = Cardinality(Sleepers(o) \ {t}) + (IF target[t] = o THEN Bed(t) ELSE 0)
      /\ Cardinality(Sleepers(o) \ {t}) \in Nat
  BY SleepersOf, FS_CardinalityType DEF CountInv, LockInv, SleepersCounted, Sleepers
<1>4. depth[t][o] \in Nat
  BY <1>1 DEF Shape
<1>5. depth[t][o] > 0 \/ (Counting(t) /\ target[t] = o) => Queue[o] >= 1
  <2>1. Counting(t) => Weight(t) = 1
    BY DEF Weight
  <2>2. Weight(t) \in {0, 1}
    BY DEF Weight
  <2>3. QED
    BY <1>2, <1>4, <2>1, <2>2
<1>6. Sleeping(t) /\ target[t] = o => SleepQueue[o] >= 1
  <2>1. Sleeping(t) => Bed(t) = 1
    BY DEF Bed
  <2>2. QED
    BY <1>3, <2>1
<1>7. QED
  BY <1>1, <1>5, <1>6

\* Another thread is at most woken by a step of t.
Others(t) == \A u \in Threads \ {t} :
    /\ pc'[u] = pc[u] \/ (pc[u] = "waiting" /\ pc'[u] = "woken")
    /\ target'[u] = target[u] /\ depth'[u] = depth[u] /\ used'[u] = used[u]
    /\ state'[u] = state[u] /\ interrupted'[u] = interrupted[u]
    /\ u \in waking' <=> u \in waking

\* What a step of t does to the counters of its object it does to its own part in them.
Balanced(t) ==
    /\ \A o \in Objects : o # target[t] =>
          Queue'[o] = Queue[o] /\ SleepQueue'[o] = SleepQueue[o] /\ depth'[t][o] = depth[t][o]
    /\ Counting(t)' => target'[t] = target[t]
    /\ Sleeping(t)' => target'[t] = target[t]
    /\ target[t] \in Objects => LET o == target[t] IN
          /\ Queue'[o] = Queue[o] + (Weight(t)' - Weight(t)) + (depth'[t][o] - depth[t][o])
          /\ SleepQueue'[o] = SleepQueue[o] + (Bed(t)' - Bed(t))

Moves(t) == Others(t) /\ Balanced(t) /\ TypeOK'

LEMMA CountersKept ==
  ASSUME CountInv, Placed', NEW t \in Threads, Moves(t)
  PROVE  QueueCounts' /\ SleepersCounted'
<1>1. Shape /\ Shape'
  BY DEF CountInv, LockInv, TypeOK, Placed, PlacedAt, Shape, Moves
<1>2. \A u \in Threads \ {t} : /\ Counting(u)' <=> Counting(u)
                               /\ Sleeping(u)' <=> Sleeping(u)
  BY DEF Moves, Others, Counting, Sleeping
<1>3. ASSUME NEW o \in Objects
      PROVE  Queue'[o] = Cardinality(Tokens(o)')
  <2>1. Foreign(o, t)' = Foreign(o, t)
    BY <1>2 DEF Foreign, Tokens, Moves, Others
  <2>2. /\ IsFiniteSet(Foreign(o, t))
        /\ Queue[o] = Cardinality(Foreign(o, t)) + depth[t][o]
                                 + (IF target[t] = o THEN Weight(t) ELSE 0)
    BY <1>1, TokensOf DEF CountInv, LockInv, QueueCounts
  <2>3. Cardinality(Tokens(o)') = Cardinality(Foreign(o, t)') + depth'[t][o]
                                 + (IF target'[t] = o THEN Weight(t)' ELSE 0)
    BY <1>1, TokensOfNext
  <2>4. Cardinality(Foreign(o, t)) \in Nat
    BY <2>2, FS_CardinalityType
  <2>5. depth[t][o] \in Nat /\ depth'[t][o] \in Nat
    BY <1>1 DEF Shape
  <2>6. Weight(t) \in {0, 1} /\ Weight(t)' \in {0, 1}
    BY DEF Weight
  <2>7. Weight(t)' # 0 => target'[t] = target[t]
    BY DEF Weight, Moves, Balanced
  <2>8. CASE o = target[t]
    <3>1. Queue'[o] = Queue[o] + (Weight(t)' - Weight(t)) + (depth'[t][o] - depth[t][o])
      BY <2>8 DEF Moves, Balanced
    <3>2. QED
      BY <2>1, <2>2, <2>3, <2>4, <2>5, <2>6, <2>7, <2>8, <3>1
  <2>9. CASE o # target[t]
    <3>1. Queue'[o] = Queue[o] /\ depth'[t][o] = depth[t][o]
      BY <2>9 DEF Moves, Balanced
    <3>2. QED
      BY <2>1, <2>2, <2>3, <2>4, <2>5, <2>6, <2>7, <2>9, <3>1
  <2>10. QED
    BY <2>8, <2>9
<1>4. ASSUME NEW o \in Objects
      PROVE  SleepQueue'[o] = Cardinality(Sleepers(o)')
  <2>1. Sleepers(o)' \ {t} = Sleepers(o) \ {t}
    BY <1>2 DEF Sleepers, Moves, Others
  <2>2. /\ IsFiniteSet(Sleepers(o) \ {t})
        /\ SleepQueue[o] = Cardinality(Sleepers(o) \ {t}) + (IF target[t] = o THEN Bed(t) ELSE 0)
    BY SleepersOf DEF CountInv, LockInv, SleepersCounted, Sleepers
  <2>3. Cardinality(Sleepers(o)') = Cardinality(Sleepers(o)' \ {t})
                                      + (IF target'[t] = o THEN Bed(t)' ELSE 0)
    BY SleepersOfNext
  <2>4. Cardinality(Sleepers(o) \ {t}) \in Nat
    BY <2>2, FS_CardinalityType
  <2>6. Bed(t) \in {0, 1} /\ Bed(t)' \in {0, 1}
    BY DEF Bed
  <2>7. Bed(t)' # 0 => target'[t] = target[t]
    BY DEF Bed, Moves, Balanced
  <2>8. CASE o = target[t]
    <3>1. SleepQueue'[o] = SleepQueue[o] + (Bed(t)' - Bed(t))
      BY <2>8 DEF Moves, Balanced
    <3> DEFINE b == Bed(t)
               c == Bed(t)'
               n == Cardinality(Sleepers(o) \ {t})
               m == Cardinality(Sleepers(o)')
    <3>2. SleepQueue[o] = n + b /\ SleepQueue'[o] = SleepQueue[o] + (c - b) /\ n \in Nat
      BY <2>2, <2>4, <2>8, <3>1
    <3>3. m = n + c
      BY <2>1, <2>3, <2>4, <2>6, <2>7, <2>8
    <3> HIDE DEF b, c, n, m
    <3>4. b \in Nat /\ c \in Nat
      BY <2>6 DEF b, c
    <3>5. SleepQueue'[o] = m
      BY <3>2, <3>3, <3>4
    <3>6. QED
      BY <3>5 DEF m
  <2>9. CASE o # target[t]
    <3>1. SleepQueue'[o] = SleepQueue[o]
      BY <2>9 DEF Moves, Balanced
    <3>2. QED
      BY <2>1, <2>2, <2>3, <2>4, <2>6, <2>7, <2>9, <3>1
  <2>10. QED
    BY <2>8, <2>9
<1>5. QED
  BY <1>3, <1>4 DEF QueueCounts, SleepersCounted, Sleepers

\* A step of t keeps the invariant if it puts t where it may be.
LEMMA CountKept ==
  ASSUME CountInv, NEW t \in Threads, Others(t), Balanced(t), TypeOK', PlacedAt(t)', AlertAt(t)'
  PROVE  CountInv'
<1>1. Placed'
  <2>1. ASSUME NEW u \in Threads \ {t} PROVE PlacedAt(u)'
    <3>1. /\ PlacedAt(u)
          /\ pc'[u] = pc[u] \/ (pc[u] = "waiting" /\ pc'[u] = "woken")
          /\ target'[u] = target[u] /\ depth'[u] = depth[u] /\ used'[u] = used[u]
      BY DEF CountInv, Placed, Others
    <3>2. QED
      BY <3>1 DEF PlacedAt, Locking, Unlocking
  <2>2. QED
    BY <2>1 DEF Placed
<1>2. Alert'
  <2>1. ASSUME NEW u \in Threads \ {t} PROVE AlertAt(u)'
    <3>1. /\ AlertAt(u)
          /\ pc'[u] = pc[u] \/ (pc[u] = "waiting" /\ pc'[u] = "woken")
          /\ state'[u] = state[u] /\ interrupted'[u] = interrupted[u]
          /\ u \in waking' <=> u \in waking
      BY DEF CountInv, Alert, Others
    <3>2. QED
      BY <3>1, Zenon DEF AlertAt
  <2>2. QED
    BY <2>1 DEF Alert
<1>3. QED
  BY <1>1, <1>2, CountersKept DEF CountInv, LockInv, Moves

\* What is known of t and its object before a step.
Known(t) ==
    /\ t \in Threads /\ TypeOK /\ PlacedAt(t) /\ AlertAt(t)
    /\ target[t] \in Objects => LET o == target[t] IN
          /\ depth[t][o] > 0 => Queue[o] >= 1
          /\ Counting(t) => Queue[o] >= 1
          /\ Sleeping(t) => SleepQueue[o] >= 1

LEMMA Knowing ==
  ASSUME CountInv, NEW t \in Threads
  PROVE  Known(t)
<1>1. TypeOK /\ PlacedAt(t) /\ AlertAt(t)
  BY DEF CountInv, LockInv, Placed, Alert
<1>2. QED
  BY <1>1, Counted DEF Known

\* The types, a few variables at a time.
WordsTyped ==
    /\ Queue \in [Objects -> Nat]
    /\ ThreadID \in [Objects -> Threads \cup {NoThread}]
    /\ SleepQueue \in [Objects -> Nat]
TablesTyped ==
    /\ glmObjectLocking \in Threads \cup {NoThread}
    /\ glWaitLocks \in [Threads -> WaitLock]
RecordsTyped ==
    /\ state \in [Threads -> {"RUNNING", "PAUSED", "STOPPING"}]
    /\ interrupted \in [Threads -> BOOLEAN]
    /\ waking \in SUBSET Threads
    /\ stopped \in SUBSET Threads
CallTyped ==
    /\ pc \in [Threads -> Labels]
    /\ target \in [Threads -> Objects \cup {NoObject}]
    /\ timeout \in [Threads -> {"finite", "indefinite"}]
GhostsTyped ==
    /\ depth \in [Threads -> [Objects -> Nat]]
    /\ used \in [Threads -> SUBSET Objects]
LEMMA Typed ==
  (TypeOK <=> WordsTyped /\ TablesTyped /\ RecordsTyped /\ CallTyped /\ GhostsTyped)'
<1>1. TypeOK <=> WordsTyped /\ TablesTyped /\ RecordsTyped /\ CallTyped /\ GhostsTyped
  BY DEF TypeOK, WordsTyped, TablesTyped, RecordsTyped, CallTyped, GhostsTyped
<1>2. QED
  BY <1>1, PTL

---------------------------------------------------------------------------
(* The steps.                                                              *)

LEMMA Count_BeginLock ==
  ASSUME CountInv, NEW t \in Threads, NEW o \in Objects, NEW entry \in Entry, NEW wait \in Timeouts,
         BeginLock(t, o, entry, wait)
  PROVE  CountInv' /\ Others(t)
<1>1. Known(t)
  BY Knowing
<1>2. TypeOK'
  BY <1>1, LockAssumption DEF Known, TypeOK, PlacedAt, Locking, Unlocking, Counting,
      Sleeping, Labels, WaitLock, BeginLock, At, Goto, words, tables, records, ghosts
<1>3. Others(t)
  BY <1>1 DEF Known, TypeOK, Others, BeginLock, At, Goto, words, tables, records, ghosts
<1>4. Balanced(t)
  BY <1>1 DEF Known, TypeOK, PlacedAt, Locking, Unlocking, Balanced, Weight, Bed, Counting,
      Sleeping, BeginLock, At, Goto, words, tables, records, ghosts
<1>5. PlacedAt(t)'
  BY <1>1, LockAssumption DEF Known, TypeOK, PlacedAt, Locking, Unlocking, BeginLock, At,
      Goto, words, tables, records, ghosts
<1>6. AlertAt(t)'
  BY <1>1 DEF Known, TypeOK, AlertAt, BeginLock, At, Goto, words, tables, records, ghosts
<1>7. QED
  BY <1>2, <1>3, <1>4, <1>5, <1>6, CountKept

LEMMA Count_IncrementQueue ==
  ASSUME CountInv, NEW t \in Threads, IncrementQueue(t)
  PROVE  CountInv' /\ Others(t)
<1>1. Known(t)
  BY Knowing
<1>2. TypeOK'
  BY <1>1, LockAssumption DEF Known, TypeOK, PlacedAt, Locking, Unlocking, Counting,
      Sleeping, Labels, WaitLock, IncrementQueue, At, AddQueue, Goto, tables, records,
      ghosts
<1>3. Others(t)
  BY <1>1 DEF Known, TypeOK, Others, IncrementQueue, At, AddQueue, Goto, tables, records,
      ghosts
<1>4. Balanced(t)
  BY <1>1 DEF Known, TypeOK, PlacedAt, Locking, Unlocking, Balanced, Weight, Bed, Counting,
      Sleeping, IncrementQueue, At, AddQueue, Goto, tables, records, ghosts
<1>5. PlacedAt(t)'
  BY <1>1, LockAssumption DEF Known, TypeOK, PlacedAt, Locking, Unlocking, IncrementQueue,
      At, AddQueue, Goto, tables, records, ghosts
<1>6. AlertAt(t)'
  BY <1>1 DEF Known, TypeOK, AlertAt, IncrementQueue, At, AddQueue, Goto, tables, records,
      ghosts
<1>7. QED
  BY <1>2, <1>3, <1>4, <1>5, <1>6, CountKept

LEMMA Count_CheckOwner ==
  ASSUME CountInv, NEW t \in Threads, CheckOwner(t)
  PROVE  CountInv' /\ Others(t)
<1>1. Known(t)
  BY Knowing
<1>2. TypeOK'
  <2>1. CASE ThreadID[target[t]] = t
    <3>1. /\ At(t, "owner")
          /\ Granted(t)
          /\ UNCHANGED <<words, tables, records, used>>
      BY <2>1 DEF CheckOwner, words, tables, records
    <3>2. WordsTyped'
      BY <3>1, <1>1, LockAssumption DEF WordsTyped, Known, TypeOK, PlacedAt, Locking,
          Unlocking, Counting, Sleeping, Labels, WaitLock, At, Granted, Return, Goto, words,
          tables, records
    <3>3. TablesTyped'
      BY <3>1, <1>1, LockAssumption DEF TablesTyped, Known, TypeOK, PlacedAt, Locking,
          Unlocking, Counting, Sleeping, Labels, WaitLock, At, Granted, Return, Goto, words,
          tables, records
    <3>4. RecordsTyped'
      BY <3>1, <1>1, LockAssumption DEF RecordsTyped, Known, TypeOK, PlacedAt, Locking,
          Unlocking, Counting, Sleeping, Labels, WaitLock, At, Granted, Return, Goto, words,
          tables, records
    <3>5. CallTyped'
      BY <3>1, <1>1, LockAssumption DEF CallTyped, Known, TypeOK, PlacedAt, Locking,
          Unlocking, Counting, Sleeping, Labels, WaitLock, At, Granted, Return, Goto, words,
          tables, records
    <3>6. GhostsTyped'
      BY <3>1, <1>1, LockAssumption DEF GhostsTyped, Known, TypeOK, PlacedAt, Locking,
          Unlocking, Counting, Sleeping, Labels, WaitLock, At, Granted, Return, Goto, words,
          tables, records
    <3>7. QED
      BY <3>2, <3>3, <3>4, <3>5, <3>6, Typed
  <2>2. CASE ~(ThreadID[target[t]] = t)
    <3>1. /\ At(t, "owner")
          /\ Goto(t, "restore")
          /\ UNCHANGED <<target, timeout, depth, words, tables, records, used>>
      BY <2>2 DEF CheckOwner, words, tables, records
    <3>2. WordsTyped'
      BY <3>1, <1>1, LockAssumption DEF WordsTyped, Known, TypeOK, PlacedAt, Locking,
          Unlocking, Counting, Sleeping, Labels, WaitLock, At, Goto, words, tables, records
    <3>3. TablesTyped'
      BY <3>1, <1>1, LockAssumption DEF TablesTyped, Known, TypeOK, PlacedAt, Locking,
          Unlocking, Counting, Sleeping, Labels, WaitLock, At, Goto, words, tables, records
    <3>4. RecordsTyped'
      BY <3>1, <1>1, LockAssumption DEF RecordsTyped, Known, TypeOK, PlacedAt, Locking,
          Unlocking, Counting, Sleeping, Labels, WaitLock, At, Goto, words, tables, records
    <3>5. CallTyped'
      BY <3>1, <1>1, LockAssumption DEF CallTyped, Known, TypeOK, PlacedAt, Locking,
          Unlocking, Counting, Sleeping, Labels, WaitLock, At, Goto, words, tables, records
    <3>6. GhostsTyped'
      BY <3>1, <1>1, LockAssumption DEF GhostsTyped, Known, TypeOK, PlacedAt, Locking,
          Unlocking, Counting, Sleeping, Labels, WaitLock, At, Goto, words, tables, records
    <3>7. QED
      BY <3>2, <3>3, <3>4, <3>5, <3>6, Typed
  <2>3. QED
    BY <2>1, <2>2
<1>3. Others(t)
  BY <1>1 DEF Known, TypeOK, Others, CheckOwner, At, Granted, Goto, words, tables, records,
      Return
<1>4. Balanced(t)
  BY <1>1 DEF Known, TypeOK, PlacedAt, Locking, Unlocking, Balanced, Weight, Bed, Counting,
      Sleeping, CheckOwner, At, Granted, Goto, words, tables, records, Return
<1>5. PlacedAt(t)'
  BY <1>1, LockAssumption DEF Known, TypeOK, PlacedAt, Locking, Unlocking, CheckOwner, At,
      Granted, Goto, words, tables, records, Return
<1>6. AlertAt(t)'
  BY <1>1 DEF Known, TypeOK, AlertAt, CheckOwner, At, Granted, Goto, words, tables, records,
      Return
<1>7. QED
  BY <1>2, <1>3, <1>4, <1>5, <1>6, CountKept

LEMMA Count_RestoreQueue ==
  ASSUME CountInv, NEW t \in Threads, RestoreQueue(t)
  PROVE  CountInv' /\ Others(t)
<1>1. Known(t)
  BY Knowing
<1>2. TypeOK'
  BY <1>1, LockAssumption DEF Known, TypeOK, PlacedAt, Locking, Unlocking, Counting,
      Sleeping, Labels, WaitLock, RestoreQueue, At, DropQueue, Goto, tables, records, ghosts
<1>3. Others(t)
  BY <1>1 DEF Known, TypeOK, Others, RestoreQueue, At, DropQueue, Goto, tables, records,
      ghosts
<1>4. Balanced(t)
  BY <1>1 DEF Known, TypeOK, PlacedAt, Locking, Unlocking, Balanced, Weight, Bed, Counting,
      Sleeping, RestoreQueue, At, DropQueue, Goto, tables, records, ghosts
<1>5. PlacedAt(t)'
  BY <1>1, LockAssumption DEF Known, TypeOK, PlacedAt, Locking, Unlocking, RestoreQueue, At,
      DropQueue, Goto, tables, records, ghosts
<1>6. AlertAt(t)'
  BY <1>1 DEF Known, TypeOK, AlertAt, RestoreQueue, At, DropQueue, Goto, tables, records,
      ghosts
<1>7. QED
  BY <1>2, <1>3, <1>4, <1>5, <1>6, CountKept

LEMMA Count_QuickLock ==
  ASSUME CountInv, NEW t \in Threads, QuickLock(t)
  PROVE  CountInv' /\ Others(t)
<1>1. Known(t)
  BY Knowing
<1>2. TypeOK'
  <2>1. CASE Free(target[t])
    <3>1. /\ At(t, "quick")
          /\ TakeQueue(target[t])
          /\ Goto(t, "store")
          /\ UNCHANGED <<ThreadID, SleepQueue, tables, records, target, timeout, ghosts>>
      BY <2>1 DEF QuickLock, tables, records, ghosts
    <3>2. WordsTyped'
      BY <3>1, <1>1, LockAssumption DEF WordsTyped, Known, TypeOK, PlacedAt, Locking,
          Unlocking, Counting, Sleeping, Labels, WaitLock, At, TakeQueue, Goto, tables,
          records, ghosts
    <3>3. TablesTyped'
      BY <3>1, <1>1, LockAssumption DEF TablesTyped, Known, TypeOK, PlacedAt, Locking,
          Unlocking, Counting, Sleeping, Labels, WaitLock, At, TakeQueue, Goto, tables,
          records, ghosts
    <3>4. RecordsTyped'
      BY <3>1, <1>1, LockAssumption DEF RecordsTyped, Known, TypeOK, PlacedAt, Locking,
          Unlocking, Counting, Sleeping, Labels, WaitLock, At, TakeQueue, Goto, tables,
          records, ghosts
    <3>5. CallTyped'
      BY <3>1, <1>1, LockAssumption DEF CallTyped, Known, TypeOK, PlacedAt, Locking,
          Unlocking, Counting, Sleeping, Labels, WaitLock, At, TakeQueue, Goto, tables,
          records, ghosts
    <3>6. GhostsTyped'
      BY <3>1, <1>1, LockAssumption DEF GhostsTyped, Known, TypeOK, PlacedAt, Locking,
          Unlocking, Counting, Sleeping, Labels, WaitLock, At, TakeQueue, Goto, tables,
          records, ghosts
    <3>7. QED
      BY <3>2, <3>3, <3>4, <3>5, <3>6, Typed
  <2>2. CASE ~(Free(target[t]))
    <3>1. /\ At(t, "quick")
          /\ Goto(t, "nested")
          /\ UNCHANGED <<words, tables, records, target, timeout, ghosts>>
      BY <2>2 DEF QuickLock, words, tables, records, ghosts
    <3>2. WordsTyped'
      BY <3>1, <1>1, LockAssumption DEF WordsTyped, Known, TypeOK, PlacedAt, Locking,
          Unlocking, Counting, Sleeping, Labels, WaitLock, At, Goto, words, tables, records,
          ghosts
    <3>3. TablesTyped'
      BY <3>1, <1>1, LockAssumption DEF TablesTyped, Known, TypeOK, PlacedAt, Locking,
          Unlocking, Counting, Sleeping, Labels, WaitLock, At, Goto, words, tables, records,
          ghosts
    <3>4. RecordsTyped'
      BY <3>1, <1>1, LockAssumption DEF RecordsTyped, Known, TypeOK, PlacedAt, Locking,
          Unlocking, Counting, Sleeping, Labels, WaitLock, At, Goto, words, tables, records,
          ghosts
    <3>5. CallTyped'
      BY <3>1, <1>1, LockAssumption DEF CallTyped, Known, TypeOK, PlacedAt, Locking,
          Unlocking, Counting, Sleeping, Labels, WaitLock, At, Goto, words, tables, records,
          ghosts
    <3>6. GhostsTyped'
      BY <3>1, <1>1, LockAssumption DEF GhostsTyped, Known, TypeOK, PlacedAt, Locking,
          Unlocking, Counting, Sleeping, Labels, WaitLock, At, Goto, words, tables, records,
          ghosts
    <3>7. QED
      BY <3>2, <3>3, <3>4, <3>5, <3>6, Typed
  <2>3. QED
    BY <2>1, <2>2
<1>3. Others(t)
  BY <1>1 DEF Known, TypeOK, Others, QuickLock, At, Free, TakeQueue, Goto, tables, records,
      ghosts
<1>4. Balanced(t)
  BY <1>1 DEF Known, TypeOK, PlacedAt, Locking, Unlocking, Balanced, Weight, Bed, Counting,
      Sleeping, QuickLock, At, Free, TakeQueue, Goto, tables, records, ghosts
<1>5. PlacedAt(t)'
  BY <1>1, LockAssumption DEF Known, TypeOK, PlacedAt, Locking, Unlocking, QuickLock, At,
      Free, TakeQueue, Goto, tables, records, ghosts
<1>6. AlertAt(t)'
  BY <1>1 DEF Known, TypeOK, AlertAt, QuickLock, At, Free, TakeQueue, Goto, tables, records,
      ghosts
<1>7. QED
  BY <1>2, <1>3, <1>4, <1>5, <1>6, CountKept

LEMMA Count_StoreThreadID ==
  ASSUME CountInv, NEW t \in Threads, StoreThreadID(t)
  PROVE  CountInv' /\ Others(t)
<1>1. Known(t)
  BY Knowing
<1>2. TypeOK'
  BY <1>1, LockAssumption DEF Known, TypeOK, PlacedAt, Locking, Unlocking, Counting,
      Sleeping, Labels, WaitLock, StoreThreadID, At, SetThreadID, Granted, tables, records,
      Return, Goto
<1>3. Others(t)
  BY <1>1 DEF Known, TypeOK, Others, StoreThreadID, At, SetThreadID, Granted, tables,
      records, Return, Goto
<1>4. Balanced(t)
  BY <1>1 DEF Known, TypeOK, PlacedAt, Locking, Unlocking, Balanced, Weight, Bed, Counting,
      Sleeping, StoreThreadID, At, SetThreadID, Granted, tables, records, Return, Goto
<1>5. PlacedAt(t)'
  BY <1>1, LockAssumption DEF Known, TypeOK, PlacedAt, Locking, Unlocking, StoreThreadID,
      At, SetThreadID, Granted, tables, records, Return, Goto
<1>6. AlertAt(t)'
  BY <1>1 DEF Known, TypeOK, AlertAt, StoreThreadID, At, SetThreadID, Granted, tables,
      records, Return, Goto
<1>7. QED
  BY <1>2, <1>3, <1>4, <1>5, <1>6, CountKept

LEMMA Count_NestedLock ==
  ASSUME CountInv, NEW t \in Threads, NestedLock(t)
  PROVE  CountInv' /\ Others(t)
<1>1. Known(t)
  BY Knowing
<1>2. TypeOK'
  BY <1>1, LockAssumption DEF Known, TypeOK, PlacedAt, Locking, Unlocking, Counting,
      Sleeping, Labels, WaitLock, NestedLock, At, Goto, words,
      tables, records, ghosts
<1>3. Others(t)
  BY <1>1 DEF Known, TypeOK, Others, NestedLock, At, Goto, words,
      tables, records, ghosts
<1>4. Balanced(t)
  BY <1>1 DEF Known, TypeOK, PlacedAt, Locking, Unlocking, Balanced, Weight, Bed, Counting,
      Sleeping, NestedLock, At, Goto, words,
      tables, records, ghosts
<1>5. PlacedAt(t)'
  BY <1>1, LockAssumption DEF Known, TypeOK, PlacedAt, Locking, Unlocking, NestedLock, At, Goto, words,
      tables, records, ghosts
<1>6. AlertAt(t)'
  BY <1>1 DEF Known, TypeOK, AlertAt, NestedLock, At, Goto, words,
      tables, records, ghosts
<1>7. QED
  BY <1>2, <1>3, <1>4, <1>5, <1>6, CountKept

LEMMA Count_AddNested ==
  ASSUME CountInv, NEW t \in Threads, AddNested(t)
  PROVE  CountInv' /\ Others(t)
<1>1. Known(t)
  BY Knowing
<1>2. TypeOK'
  BY <1>1, LockAssumption DEF Known, TypeOK, PlacedAt, Locking, Unlocking, Counting,
      Sleeping, Labels, WaitLock, AddNested, At, AddQueue,
      Granted, Return, Goto, tables, records
<1>3. Others(t)
  BY <1>1 DEF Known, TypeOK, Others, AddNested, At, AddQueue,
      Granted, Return, Goto, tables, records
<1>4. Balanced(t)
  BY <1>1 DEF Known, TypeOK, PlacedAt, Locking, Unlocking, Balanced, Weight, Bed, Counting,
      Sleeping, AddNested, At, AddQueue,
      Granted, Return, Goto, tables, records
<1>5. PlacedAt(t)'
  BY <1>1, LockAssumption DEF Known, TypeOK, PlacedAt, Locking, Unlocking, AddNested, At, AddQueue,
      Granted, Return, Goto, tables, records
<1>6. AlertAt(t)'
  BY <1>1 DEF Known, TypeOK, AlertAt, AddNested, At, AddQueue,
      Granted, Return, Goto, tables, records
<1>7. QED
  BY <1>2, <1>3, <1>4, <1>5, <1>6, CountKept

LEMMA Count_PrepareSleep ==
  ASSUME CountInv, NEW t \in Threads, PrepareSleep(t)
  PROVE  CountInv' /\ Others(t)
<1>1. Known(t)
  BY Knowing
<1>2. TypeOK'
  BY <1>1, LockAssumption DEF Known, TypeOK, PlacedAt, Locking, Unlocking, Counting,
      Sleeping, Labels, WaitLock, PrepareSleep, At, JoinSleepers, Goto, tables, records,
      ghosts
<1>3. Others(t)
  BY <1>1 DEF Known, TypeOK, Others, PrepareSleep, At, JoinSleepers, Goto, tables, records,
      ghosts
<1>4. Balanced(t)
  BY <1>1 DEF Known, TypeOK, PlacedAt, Locking, Unlocking, Balanced, Weight, Bed, Counting,
      Sleeping, PrepareSleep, At, JoinSleepers, Goto, tables, records, ghosts
<1>5. PlacedAt(t)'
  BY <1>1, LockAssumption DEF Known, TypeOK, PlacedAt, Locking, Unlocking, PrepareSleep, At,
      JoinSleepers, Goto, tables, records, ghosts
<1>6. AlertAt(t)'
  BY <1>1 DEF Known, TypeOK, AlertAt, PrepareSleep, At, JoinSleepers, Goto, tables, records,
      ghosts
<1>7. QED
  BY <1>2, <1>3, <1>4, <1>5, <1>6, CountKept

LEMMA Count_LockMutex ==
  ASSUME CountInv, NEW t \in Threads, LockMutex(t)
  PROVE  CountInv' /\ Others(t)
<1>1. Known(t)
  BY Knowing
<1>2. TypeOK'
  BY <1>1, LockAssumption DEF Known, TypeOK, PlacedAt, Locking, Unlocking, Counting,
      Sleeping, Labels, WaitLock, LockMutex, At, Goto, words, records, ghosts
<1>3. Others(t)
  BY <1>1 DEF Known, TypeOK, Others, LockMutex, At, Goto, words, records, ghosts
<1>4. Balanced(t)
  BY <1>1 DEF Known, TypeOK, PlacedAt, Locking, Unlocking, Balanced, Weight, Bed, Counting,
      Sleeping, LockMutex, At, Goto, words, records, ghosts
<1>5. PlacedAt(t)'
  BY <1>1, LockAssumption DEF Known, TypeOK, PlacedAt, Locking, Unlocking, LockMutex, At,
      Goto, words, records, ghosts
<1>6. AlertAt(t)'
  BY <1>1 DEF Known, TypeOK, AlertAt, LockMutex, At, Goto, words, records, ghosts
<1>7. QED
  BY <1>2, <1>3, <1>4, <1>5, <1>6, CountKept

LEMMA Count_MutexTimeout ==
  ASSUME CountInv, NEW t \in Threads, MutexTimeout(t)
  PROVE  CountInv' /\ Others(t)
<1>1. Known(t)
  BY Knowing
<1>2. TypeOK'
  BY <1>1, LockAssumption DEF Known, TypeOK, PlacedAt, Locking, Unlocking, Counting,
      Sleeping, Labels, WaitLock, MutexTimeout, At, LeaveSleepers, Return, tables, records,
      ghosts, Goto
<1>3. Others(t)
  BY <1>1 DEF Known, TypeOK, Others, MutexTimeout, At, LeaveSleepers, Return, tables,
      records, ghosts, Goto
<1>4. Balanced(t)
  BY <1>1 DEF Known, TypeOK, PlacedAt, Locking, Unlocking, Balanced, Weight, Bed, Counting,
      Sleeping, MutexTimeout, At, LeaveSleepers, Return, tables, records, ghosts, Goto
<1>5. PlacedAt(t)'
  BY <1>1, LockAssumption DEF Known, TypeOK, PlacedAt, Locking, Unlocking, MutexTimeout, At,
      LeaveSleepers, Return, tables, records, ghosts, Goto
<1>6. AlertAt(t)'
  BY <1>1 DEF Known, TypeOK, AlertAt, MutexTimeout, At, LeaveSleepers, Return, tables,
      records, ghosts, Goto
<1>7. QED
  BY <1>2, <1>3, <1>4, <1>5, <1>6, CountKept

LEMMA Count_init_sleep ==
  ASSUME CountInv, NEW t \in Threads, init_sleep(t)
  PROVE  CountInv' /\ Others(t)
<1>1. Known(t)
  BY Knowing
<1>2. TypeOK'
  <2>1. CASE ThreadID[target[t]] = t \/ would_deadlock(t, ThreadID[target[t]])
    <3>1. /\ At(t, "init")
          /\ GiveUp(t)
          /\ UNCHANGED <<Queue, ThreadID, records, ghosts>>
      BY <2>1 DEF init_sleep, records, ghosts
    <3>2. WordsTyped'
      BY <3>1, <1>1, LockAssumption DEF WordsTyped, Known, TypeOK, PlacedAt, Locking,
          Unlocking, Counting, Sleeping, Labels, WaitLock, At, GiveUp, SetWaitLock,
          NotWaiting, LeaveSleepers, Return, Goto, records, ghosts
    <3>3. TablesTyped'
      BY <3>1, <1>1, LockAssumption DEF TablesTyped, Known, TypeOK, PlacedAt, Locking,
          Unlocking, Counting, Sleeping, Labels, WaitLock, At, GiveUp, SetWaitLock,
          NotWaiting, LeaveSleepers, Return, Goto, records, ghosts
    <3>4. RecordsTyped'
      BY <3>1, <1>1, LockAssumption DEF RecordsTyped, Known, TypeOK, PlacedAt, Locking,
          Unlocking, Counting, Sleeping, Labels, WaitLock, At, GiveUp, SetWaitLock,
          NotWaiting, LeaveSleepers, Return, Goto, records, ghosts
    <3>5. CallTyped'
      BY <3>1, <1>1, LockAssumption DEF CallTyped, Known, TypeOK, PlacedAt, Locking,
          Unlocking, Counting, Sleeping, Labels, WaitLock, At, GiveUp, SetWaitLock,
          NotWaiting, LeaveSleepers, Return, Goto, records, ghosts
    <3>6. GhostsTyped'
      BY <3>1, <1>1, LockAssumption DEF GhostsTyped, Known, TypeOK, PlacedAt, Locking,
          Unlocking, Counting, Sleeping, Labels, WaitLock, At, GiveUp, SetWaitLock,
          NotWaiting, LeaveSleepers, Return, Goto, records, ghosts
    <3>7. QED
      BY <3>2, <3>3, <3>4, <3>5, <3>6, Typed
  <2>2. CASE ~(ThreadID[target[t]] = t \/ would_deadlock(t, ThreadID[target[t]]))
    <3>1. /\ At(t, "init")
          /\ SetWaitLock(t, [WaitingForThreadID |-> ThreadID[target[t]],
                WaitingForResourceType |-> "object"])
          /\ state' = [state EXCEPT ![t] = "PAUSED"]
          /\ Goto(t, "attempt")
          /\ UNCHANGED <<words, glmObjectLocking, interrupted, waking, stopped, target,
                timeout, ghosts>>
      BY <2>2 DEF init_sleep, words, ghosts
    <3>2. WordsTyped'
      BY <3>1, <1>1, LockAssumption DEF WordsTyped, Known, TypeOK, PlacedAt, Locking,
          Unlocking, Counting, Sleeping, Labels, WaitLock, At, SetWaitLock, Goto, words,
          ghosts
    <3>3. TablesTyped'
      BY <3>1, <1>1, LockAssumption DEF TablesTyped, Known, TypeOK, PlacedAt, Locking,
          Unlocking, Counting, Sleeping, Labels, WaitLock, At, SetWaitLock, Goto, words,
          ghosts
    <3>4. RecordsTyped'
      BY <3>1, <1>1, LockAssumption DEF RecordsTyped, Known, TypeOK, PlacedAt, Locking,
          Unlocking, Counting, Sleeping, Labels, WaitLock, At, SetWaitLock, Goto, words,
          ghosts
    <3>5. CallTyped'
      BY <3>1, <1>1, LockAssumption DEF CallTyped, Known, TypeOK, PlacedAt, Locking,
          Unlocking, Counting, Sleeping, Labels, WaitLock, At, SetWaitLock, Goto, words,
          ghosts
    <3>6. GhostsTyped'
      BY <3>1, <1>1, LockAssumption DEF GhostsTyped, Known, TypeOK, PlacedAt, Locking,
          Unlocking, Counting, Sleeping, Labels, WaitLock, At, SetWaitLock, Goto, words,
          ghosts
    <3>7. QED
      BY <3>2, <3>3, <3>4, <3>5, <3>6, Typed
  <2>3. QED
    BY <2>1, <2>2
<1>3. Others(t)
  BY <1>1 DEF Known, TypeOK, Others, init_sleep, At, GiveUp, SetWaitLock, Goto, ghosts,
      NotWaiting, LeaveSleepers, Return
<1>4. Balanced(t)
  BY <1>1 DEF Known, TypeOK, PlacedAt, Locking, Unlocking, Balanced, Weight, Bed, Counting,
      Sleeping, init_sleep, At, GiveUp, SetWaitLock, Goto, ghosts, NotWaiting,
      LeaveSleepers, Return
<1>5. PlacedAt(t)'
  BY <1>1, LockAssumption DEF Known, TypeOK, PlacedAt, Locking, Unlocking, init_sleep, At,
      GiveUp, SetWaitLock, Goto, ghosts, NotWaiting, LeaveSleepers, Return
<1>6. AlertAt(t)'
  BY <1>1 DEF Known, TypeOK, AlertAt, init_sleep, At, GiveUp, SetWaitLock, Goto, ghosts,
      NotWaiting, LeaveSleepers, Return
<1>7. QED
  BY <1>2, <1>3, <1>4, <1>5, <1>6, CountKept

LEMMA Count_Attempt ==
  ASSUME CountInv, NEW t \in Threads, Attempt(t)
  PROVE  CountInv' /\ Others(t)
<1>1. Known(t)
  BY Knowing
<1>2. TypeOK'
  BY <1>1, LockAssumption DEF Known, TypeOK, PlacedAt, Locking, Unlocking, Counting,
      Sleeping, Labels, WaitLock, Attempt, At, Goto, Stopping, words, tables, records,
      ghosts
<1>3. Others(t)
  BY <1>1 DEF Known, TypeOK, Others, Attempt, At, Goto, Stopping, words, tables, records,
      ghosts
<1>4. Balanced(t)
  BY <1>1 DEF Known, TypeOK, PlacedAt, Locking, Unlocking, Balanced, Weight, Bed, Counting,
      Sleeping, Attempt, At, Goto, Stopping, words, tables, records, ghosts
<1>5. PlacedAt(t)'
  BY <1>1, LockAssumption DEF Known, TypeOK, PlacedAt, Locking, Unlocking, Attempt, At,
      Goto, Stopping, words, tables, records, ghosts
<1>6. AlertAt(t)'
  BY <1>1 DEF Known, TypeOK, AlertAt, Attempt, At, Goto, Stopping, words, tables, records,
      ghosts
<1>7. QED
  BY <1>2, <1>3, <1>4, <1>5, <1>6, CountKept

LEMMA Count_TryLock ==
  ASSUME CountInv, NEW t \in Threads, TryLock(t)
  PROVE  CountInv' /\ Others(t)
<1>1. Known(t)
  BY Knowing
<1>2. TypeOK'
  <2>1. CASE Free(target[t])
    <3>1. /\ At(t, "try")
          /\ TakeQueue(target[t])
          /\ Goto(t, "taken")
          /\ UNCHANGED <<ThreadID, SleepQueue, tables, records, target, timeout, ghosts>>
      BY <2>1 DEF TryLock, tables, records, ghosts
    <3>2. WordsTyped'
      BY <3>1, <1>1, LockAssumption DEF WordsTyped, Known, TypeOK, PlacedAt, Locking,
          Unlocking, Counting, Sleeping, Labels, WaitLock, At, TakeQueue, Goto, tables,
          records, ghosts
    <3>3. TablesTyped'
      BY <3>1, <1>1, LockAssumption DEF TablesTyped, Known, TypeOK, PlacedAt, Locking,
          Unlocking, Counting, Sleeping, Labels, WaitLock, At, TakeQueue, Goto, tables,
          records, ghosts
    <3>4. RecordsTyped'
      BY <3>1, <1>1, LockAssumption DEF RecordsTyped, Known, TypeOK, PlacedAt, Locking,
          Unlocking, Counting, Sleeping, Labels, WaitLock, At, TakeQueue, Goto, tables,
          records, ghosts
    <3>5. CallTyped'
      BY <3>1, <1>1, LockAssumption DEF CallTyped, Known, TypeOK, PlacedAt, Locking,
          Unlocking, Counting, Sleeping, Labels, WaitLock, At, TakeQueue, Goto, tables,
          records, ghosts
    <3>6. GhostsTyped'
      BY <3>1, <1>1, LockAssumption DEF GhostsTyped, Known, TypeOK, PlacedAt, Locking,
          Unlocking, Counting, Sleeping, Labels, WaitLock, At, TakeQueue, Goto, tables,
          records, ghosts
    <3>7. QED
      BY <3>2, <3>3, <3>4, <3>5, <3>6, Typed
  <2>2. CASE ~(Free(target[t]))
    <3>1. /\ At(t, "try")
          /\ glmObjectLocking' = NoThread
          /\ Goto(t, "waiting")
          /\ UNCHANGED <<words, glWaitLocks, records, target, timeout, ghosts>>
      BY <2>2 DEF TryLock, words, records, ghosts
    <3>2. WordsTyped'
      BY <3>1, <1>1, LockAssumption DEF WordsTyped, Known, TypeOK, PlacedAt, Locking,
          Unlocking, Counting, Sleeping, Labels, WaitLock, At, Goto, words, records, ghosts
    <3>3. TablesTyped'
      BY <3>1, <1>1, LockAssumption DEF TablesTyped, Known, TypeOK, PlacedAt, Locking,
          Unlocking, Counting, Sleeping, Labels, WaitLock, At, Goto, words, records, ghosts
    <3>4. RecordsTyped'
      BY <3>1, <1>1, LockAssumption DEF RecordsTyped, Known, TypeOK, PlacedAt, Locking,
          Unlocking, Counting, Sleeping, Labels, WaitLock, At, Goto, words, records, ghosts
    <3>5. CallTyped'
      BY <3>1, <1>1, LockAssumption DEF CallTyped, Known, TypeOK, PlacedAt, Locking,
          Unlocking, Counting, Sleeping, Labels, WaitLock, At, Goto, words, records, ghosts
    <3>6. GhostsTyped'
      BY <3>1, <1>1, LockAssumption DEF GhostsTyped, Known, TypeOK, PlacedAt, Locking,
          Unlocking, Counting, Sleeping, Labels, WaitLock, At, Goto, words, records, ghosts
    <3>7. QED
      BY <3>2, <3>3, <3>4, <3>5, <3>6, Typed
  <2>3. QED
    BY <2>1, <2>2
<1>3. Others(t)
  BY <1>1 DEF Known, TypeOK, Others, TryLock, At, Free, TakeQueue, Goto, records, ghosts
<1>4. Balanced(t)
  BY <1>1 DEF Known, TypeOK, PlacedAt, Locking, Unlocking, Balanced, Weight, Bed, Counting,
      Sleeping, TryLock, At, Free, TakeQueue, Goto, records, ghosts
<1>5. PlacedAt(t)'
  BY <1>1, LockAssumption DEF Known, TypeOK, PlacedAt, Locking, Unlocking, TryLock, At,
      Free, TakeQueue, Goto, records, ghosts
<1>6. AlertAt(t)'
  BY <1>1 DEF Known, TypeOK, AlertAt, TryLock, At, Free, TakeQueue, Goto, records, ghosts
<1>7. QED
  BY <1>2, <1>3, <1>4, <1>5, <1>6, CountKept

LEMMA Count_TakenAfterSleep ==
  ASSUME CountInv, NEW t \in Threads, TakenAfterSleep(t)
  PROVE  CountInv' /\ Others(t)
<1>1. Known(t)
  BY Knowing
<1>2. TypeOK'
  BY <1>1, LockAssumption DEF Known, TypeOK, PlacedAt, Locking, Unlocking, Counting,
      Sleeping, Labels, WaitLock, TakenAfterSleep, At, SetWaitLock, NotWaiting, SetThreadID,
      LeaveSleepers, Resume, Granted, Return, Goto
<1>3. Others(t)
  BY <1>1 DEF Known, TypeOK, Others, TakenAfterSleep, At, SetWaitLock, NotWaiting,
      SetThreadID, LeaveSleepers, Resume, Granted, Return, Goto
<1>4. Balanced(t)
  BY <1>1 DEF Known, TypeOK, PlacedAt, Locking, Unlocking, Balanced, Weight, Bed, Counting,
      Sleeping, TakenAfterSleep, At, SetWaitLock, NotWaiting, SetThreadID, LeaveSleepers,
      Resume, Granted, Return, Goto
<1>5. PlacedAt(t)'
  BY <1>1, LockAssumption DEF Known, TypeOK, PlacedAt, Locking, Unlocking, TakenAfterSleep,
      At, SetWaitLock, NotWaiting, SetThreadID, LeaveSleepers, Resume, Granted, Return, Goto
<1>6. AlertAt(t)'
  BY <1>1 DEF Known, TypeOK, AlertAt, TakenAfterSleep, At, SetWaitLock, NotWaiting,
      SetThreadID, LeaveSleepers, Resume, Granted, Return, Goto
<1>7. QED
  BY <1>2, <1>3, <1>4, <1>5, <1>6, CountKept

LEMMA Count_Expire ==
  ASSUME CountInv, NEW t \in Threads, Expire(t)
  PROVE  CountInv' /\ Others(t)
<1>1. Known(t)
  BY Knowing
<1>2. TypeOK'
  BY <1>1, LockAssumption DEF Known, TypeOK, PlacedAt, Locking, Unlocking, Counting,
      Sleeping, Labels, WaitLock, Expire, Goto, At, words, tables, records, ghosts
<1>3. Others(t)
  BY <1>1 DEF Known, TypeOK, Others, Expire, Goto, At, words, tables, records, ghosts
<1>4. Balanced(t)
  BY <1>1 DEF Known, TypeOK, PlacedAt, Locking, Unlocking, Balanced, Weight, Bed, Counting,
      Sleeping, Expire, Goto, At, words, tables, records, ghosts
<1>5. PlacedAt(t)'
  BY <1>1, LockAssumption DEF Known, TypeOK, PlacedAt, Locking, Unlocking, Expire, Goto, At,
      words, tables, records, ghosts
<1>6. AlertAt(t)'
  BY <1>1 DEF Known, TypeOK, AlertAt, Expire, Goto, At, words, tables, records, ghosts
<1>7. QED
  BY <1>2, <1>3, <1>4, <1>5, <1>6, CountKept

LEMMA Count_Reacquire ==
  ASSUME CountInv, NEW t \in Threads, Reacquire(t)
  PROVE  CountInv' /\ Others(t)
<1>1. Known(t)
  BY Knowing
<1>2. TypeOK'
  BY <1>1, LockAssumption DEF Known, TypeOK, PlacedAt, Locking, Unlocking, Counting,
      Sleeping, Labels, WaitLock, Reacquire, Goto, At, words, records, ghosts
<1>3. Others(t)
  BY <1>1 DEF Known, TypeOK, Others, Reacquire, Goto, At, words, records, ghosts
<1>4. Balanced(t)
  BY <1>1 DEF Known, TypeOK, PlacedAt, Locking, Unlocking, Balanced, Weight, Bed, Counting,
      Sleeping, Reacquire, Goto, At, words, records, ghosts
<1>5. PlacedAt(t)'
  BY <1>1, LockAssumption DEF Known, TypeOK, PlacedAt, Locking, Unlocking, Reacquire, Goto,
      At, words, records, ghosts
<1>6. AlertAt(t)'
  BY <1>1 DEF Known, TypeOK, AlertAt, Reacquire, Goto, At, words, records, ghosts
<1>7. QED
  BY <1>2, <1>3, <1>4, <1>5, <1>6, CountKept

LEMMA Count_FailedSleep ==
  ASSUME CountInv, NEW t \in Threads, FailedSleep(t)
  PROVE  CountInv' /\ Others(t)
<1>1. Known(t)
  BY Knowing
<1>2. TypeOK'
  <2>1. CASE Stopping(t)
    <3>1. /\ At(t, "failed")
          /\ interrupted' = [interrupted EXCEPT ![t] = FALSE]
          /\ Resume(t)
          /\ GiveUp(t)
          /\ UNCHANGED <<Queue, ThreadID, waking, stopped, ghosts>>
      BY <2>1 DEF FailedSleep, ghosts
    <3>2. WordsTyped'
      BY <3>1, <1>1, LockAssumption DEF WordsTyped, Known, TypeOK, PlacedAt, Locking,
          Unlocking, Counting, Sleeping, Labels, WaitLock, At, Resume, GiveUp, SetWaitLock,
          NotWaiting, LeaveSleepers, Return, Goto, ghosts
    <3>3. TablesTyped'
      BY <3>1, <1>1, LockAssumption DEF TablesTyped, Known, TypeOK, PlacedAt, Locking,
          Unlocking, Counting, Sleeping, Labels, WaitLock, At, Resume, GiveUp, SetWaitLock,
          NotWaiting, LeaveSleepers, Return, Goto, ghosts
    <3>4. RecordsTyped'
      BY <3>1, <1>1, LockAssumption DEF RecordsTyped, Known, TypeOK, PlacedAt, Locking,
          Unlocking, Counting, Sleeping, Labels, WaitLock, At, Resume, GiveUp, SetWaitLock,
          NotWaiting, LeaveSleepers, Return, Goto, ghosts
    <3>5. CallTyped'
      BY <3>1, <1>1, LockAssumption DEF CallTyped, Known, TypeOK, PlacedAt, Locking,
          Unlocking, Counting, Sleeping, Labels, WaitLock, At, Resume, GiveUp, SetWaitLock,
          NotWaiting, LeaveSleepers, Return, Goto, ghosts
    <3>6. GhostsTyped'
      BY <3>1, <1>1, LockAssumption DEF GhostsTyped, Known, TypeOK, PlacedAt, Locking,
          Unlocking, Counting, Sleeping, Labels, WaitLock, At, Resume, GiveUp, SetWaitLock,
          NotWaiting, LeaveSleepers, Return, Goto, ghosts
    <3>7. QED
      BY <3>2, <3>3, <3>4, <3>5, <3>6, Typed
  <2>2. CASE ~(Stopping(t))
    <3>1. /\ At(t, "failed")
          /\ interrupted' = [interrupted EXCEPT ![t] = @]
          /\ Resume(t)
          /\ GiveUp(t)
          /\ UNCHANGED <<Queue, ThreadID, waking, stopped, ghosts>>
      BY <2>2 DEF FailedSleep, ghosts
    <3>2. WordsTyped'
      BY <3>1, <1>1, LockAssumption DEF WordsTyped, Known, TypeOK, PlacedAt, Locking,
          Unlocking, Counting, Sleeping, Labels, WaitLock, At, Resume, GiveUp, SetWaitLock,
          NotWaiting, LeaveSleepers, Return, Goto, ghosts
    <3>3. TablesTyped'
      BY <3>1, <1>1, LockAssumption DEF TablesTyped, Known, TypeOK, PlacedAt, Locking,
          Unlocking, Counting, Sleeping, Labels, WaitLock, At, Resume, GiveUp, SetWaitLock,
          NotWaiting, LeaveSleepers, Return, Goto, ghosts
    <3>4. RecordsTyped'
      BY <3>1, <1>1, LockAssumption DEF RecordsTyped, Known, TypeOK, PlacedAt, Locking,
          Unlocking, Counting, Sleeping, Labels, WaitLock, At, Resume, GiveUp, SetWaitLock,
          NotWaiting, LeaveSleepers, Return, Goto, ghosts
    <3>5. CallTyped'
      BY <3>1, <1>1, LockAssumption DEF CallTyped, Known, TypeOK, PlacedAt, Locking,
          Unlocking, Counting, Sleeping, Labels, WaitLock, At, Resume, GiveUp, SetWaitLock,
          NotWaiting, LeaveSleepers, Return, Goto, ghosts
    <3>6. GhostsTyped'
      BY <3>1, <1>1, LockAssumption DEF GhostsTyped, Known, TypeOK, PlacedAt, Locking,
          Unlocking, Counting, Sleeping, Labels, WaitLock, At, Resume, GiveUp, SetWaitLock,
          NotWaiting, LeaveSleepers, Return, Goto, ghosts
    <3>7. QED
      BY <3>2, <3>3, <3>4, <3>5, <3>6, Typed
  <2>3. QED
    BY <2>1, <2>2
<1>3. Others(t)
  BY <1>1 DEF Known, TypeOK, Others, FailedSleep, At, Stopping, Resume, GiveUp, ghosts,
      SetWaitLock, NotWaiting, LeaveSleepers, Return, Goto
<1>4. Balanced(t)
  BY <1>1 DEF Known, TypeOK, PlacedAt, Locking, Unlocking, Balanced, Weight, Bed, Counting,
      Sleeping, FailedSleep, At, Stopping, Resume, GiveUp, ghosts, SetWaitLock, NotWaiting,
      LeaveSleepers, Return, Goto
<1>5. PlacedAt(t)'
  BY <1>1, LockAssumption DEF Known, TypeOK, PlacedAt, Locking, Unlocking, FailedSleep, At,
      Stopping, Resume, GiveUp, ghosts, SetWaitLock, NotWaiting, LeaveSleepers, Return, Goto
<1>6. AlertAt(t)'
  BY <1>1 DEF Known, TypeOK, AlertAt, FailedSleep, At, Stopping, Resume, GiveUp, ghosts,
      SetWaitLock, NotWaiting, LeaveSleepers, Return, Goto
<1>7. QED
  BY <1>2, <1>3, <1>4, <1>5, <1>6, CountKept

LEMMA Count_CheckSleepers ==
  ASSUME CountInv, NEW t \in Threads, CheckSleepers(t)
  PROVE  CountInv' /\ Others(t)
<1>1. Known(t)
  BY Knowing
<1>2. TypeOK'
  BY <1>1, LockAssumption DEF Known, TypeOK, PlacedAt, Locking, Unlocking, Counting,
      Sleeping, Labels, WaitLock, CheckSleepers, At, Goto, words, tables, records, ghosts
<1>3. Others(t)
  BY <1>1 DEF Known, TypeOK, Others, CheckSleepers, At, Goto, words, tables, records, ghosts
<1>4. Balanced(t)
  BY <1>1 DEF Known, TypeOK, PlacedAt, Locking, Unlocking, Balanced, Weight, Bed, Counting,
      Sleeping, CheckSleepers, At, Goto, words, tables, records, ghosts
<1>5. PlacedAt(t)'
  BY <1>1, LockAssumption DEF Known, TypeOK, PlacedAt, Locking, Unlocking, CheckSleepers,
      At, Goto, words, tables, records, ghosts
<1>6. AlertAt(t)'
  BY <1>1 DEF Known, TypeOK, AlertAt, CheckSleepers, At, Goto, words, tables, records,
      ghosts
<1>7. QED
  BY <1>2, <1>3, <1>4, <1>5, <1>6, CountKept

LEMMA Count_DecrementQueue ==
  ASSUME CountInv, NEW t \in Threads, DecrementQueue(t)
  PROVE  CountInv' /\ Others(t)
<1>1. Known(t)
  BY Knowing
<1>2. TypeOK'
  BY <1>1, LockAssumption DEF Known, TypeOK, PlacedAt, Locking, Unlocking, Counting,
      Sleeping, Labels, WaitLock, DecrementQueue, At, Surrender, Return, tables, records,
      DropQueue, Goto
<1>3. Others(t)
  BY <1>1 DEF Known, TypeOK, Others, DecrementQueue, At, Surrender, Return, tables, records,
      DropQueue, Goto
<1>4. Balanced(t)
  BY <1>1 DEF Known, TypeOK, PlacedAt, Locking, Unlocking, Balanced, Weight, Bed, Counting,
      Sleeping, DecrementQueue, At, Surrender, Return, tables, records, DropQueue, Goto
<1>5. PlacedAt(t)'
  BY <1>1, LockAssumption DEF Known, TypeOK, PlacedAt, Locking, Unlocking, DecrementQueue,
      At, Surrender, Return, tables, records, DropQueue, Goto
<1>6. AlertAt(t)'
  BY <1>1 DEF Known, TypeOK, AlertAt, DecrementQueue, At, Surrender, Return, tables,
      records, DropQueue, Goto
<1>7. QED
  BY <1>2, <1>3, <1>4, <1>5, <1>6, CountKept

LEMMA Count_FetchSub ==
  ASSUME CountInv, NEW t \in Threads, FetchSub(t)
  PROVE  CountInv' /\ Others(t)
<1>1. Known(t)
  BY Knowing
<1>2. TypeOK'
  <2>1. CASE Queue[target[t]] > 1
    <3>1. /\ At(t, "release")
          /\ Surrender(t)
          /\ Return(t)
          /\ UNCHANGED <<ThreadID, SleepQueue, tables, records>>
      BY <2>1 DEF FetchSub, tables, records
    <3>2. WordsTyped'
      BY <3>1, <1>1, LockAssumption DEF WordsTyped, Known, TypeOK, PlacedAt, Locking,
          Unlocking, Counting, Sleeping, Labels, WaitLock, At, Surrender, DropQueue, Return,
          Goto, tables, records
    <3>3. TablesTyped'
      BY <3>1, <1>1, LockAssumption DEF TablesTyped, Known, TypeOK, PlacedAt, Locking,
          Unlocking, Counting, Sleeping, Labels, WaitLock, At, Surrender, DropQueue, Return,
          Goto, tables, records
    <3>4. RecordsTyped'
      BY <3>1, <1>1, LockAssumption DEF RecordsTyped, Known, TypeOK, PlacedAt, Locking,
          Unlocking, Counting, Sleeping, Labels, WaitLock, At, Surrender, DropQueue, Return,
          Goto, tables, records
    <3>5. CallTyped'
      BY <3>1, <1>1, LockAssumption DEF CallTyped, Known, TypeOK, PlacedAt, Locking,
          Unlocking, Counting, Sleeping, Labels, WaitLock, At, Surrender, DropQueue, Return,
          Goto, tables, records
    <3>6. GhostsTyped'
      BY <3>1, <1>1, LockAssumption DEF GhostsTyped, Known, TypeOK, PlacedAt, Locking,
          Unlocking, Counting, Sleeping, Labels, WaitLock, At, Surrender, DropQueue, Return,
          Goto, tables, records
    <3>7. QED
      BY <3>2, <3>3, <3>4, <3>5, <3>6, Typed
  <2>2. CASE ~(Queue[target[t]] > 1)
    <3>1. /\ At(t, "release")
          /\ Surrender(t)
          /\ Goto(t, "wake")
          /\ UNCHANGED <<ThreadID, SleepQueue, tables, records, target, timeout>>
      BY <2>2 DEF FetchSub, tables, records
    <3>2. WordsTyped'
      BY <3>1, <1>1, LockAssumption DEF WordsTyped, Known, TypeOK, PlacedAt, Locking,
          Unlocking, Counting, Sleeping, Labels, WaitLock, At, Surrender, DropQueue, Goto,
          tables, records
    <3>3. TablesTyped'
      BY <3>1, <1>1, LockAssumption DEF TablesTyped, Known, TypeOK, PlacedAt, Locking,
          Unlocking, Counting, Sleeping, Labels, WaitLock, At, Surrender, DropQueue, Goto,
          tables, records
    <3>4. RecordsTyped'
      BY <3>1, <1>1, LockAssumption DEF RecordsTyped, Known, TypeOK, PlacedAt, Locking,
          Unlocking, Counting, Sleeping, Labels, WaitLock, At, Surrender, DropQueue, Goto,
          tables, records
    <3>5. CallTyped'
      BY <3>1, <1>1, LockAssumption DEF CallTyped, Known, TypeOK, PlacedAt, Locking,
          Unlocking, Counting, Sleeping, Labels, WaitLock, At, Surrender, DropQueue, Goto,
          tables, records
    <3>6. GhostsTyped'
      BY <3>1, <1>1, LockAssumption DEF GhostsTyped, Known, TypeOK, PlacedAt, Locking,
          Unlocking, Counting, Sleeping, Labels, WaitLock, At, Surrender, DropQueue, Goto,
          tables, records
    <3>7. QED
      BY <3>2, <3>3, <3>4, <3>5, <3>6, Typed
  <2>3. QED
    BY <2>1, <2>2
<1>3. Others(t)
  BY <1>1 DEF Known, TypeOK, Others, FetchSub, At, Surrender, Return, Goto, tables, records,
      DropQueue
<1>4. Balanced(t)
  BY <1>1 DEF Known, TypeOK, PlacedAt, Locking, Unlocking, Balanced, Weight, Bed, Counting,
      Sleeping, FetchSub, At, Surrender, Return, Goto, tables, records, DropQueue
<1>5. PlacedAt(t)'
  BY <1>1, LockAssumption DEF Known, TypeOK, PlacedAt, Locking, Unlocking, FetchSub, At,
      Surrender, Return, Goto, tables, records, DropQueue
<1>6. AlertAt(t)'
  BY <1>1 DEF Known, TypeOK, AlertAt, FetchSub, At, Surrender, Return, Goto, tables,
      records, DropQueue
<1>7. QED
  BY <1>2, <1>3, <1>4, <1>5, <1>6, CountKept

LEMMA Count_CheckWake ==
  ASSUME CountInv, NEW t \in Threads, CheckWake(t)
  PROVE  CountInv' /\ Others(t)
<1>1. Known(t)
  BY Knowing
<1>2. TypeOK'
  <2>1. CASE HasSleepers(target[t])
    <3>1. /\ At(t, "wake")
          /\ Goto(t, "notify")
          /\ UNCHANGED <<words, tables, records, target, timeout, ghosts>>
      BY <2>1 DEF CheckWake, words, tables, records, ghosts
    <3>2. WordsTyped'
      BY <3>1, <1>1, LockAssumption DEF WordsTyped, Known, TypeOK, PlacedAt, Locking,
          Unlocking, Counting, Sleeping, Labels, WaitLock, At, Goto, words, tables, records,
          ghosts
    <3>3. TablesTyped'
      BY <3>1, <1>1, LockAssumption DEF TablesTyped, Known, TypeOK, PlacedAt, Locking,
          Unlocking, Counting, Sleeping, Labels, WaitLock, At, Goto, words, tables, records,
          ghosts
    <3>4. RecordsTyped'
      BY <3>1, <1>1, LockAssumption DEF RecordsTyped, Known, TypeOK, PlacedAt, Locking,
          Unlocking, Counting, Sleeping, Labels, WaitLock, At, Goto, words, tables, records,
          ghosts
    <3>5. CallTyped'
      BY <3>1, <1>1, LockAssumption DEF CallTyped, Known, TypeOK, PlacedAt, Locking,
          Unlocking, Counting, Sleeping, Labels, WaitLock, At, Goto, words, tables, records,
          ghosts
    <3>6. GhostsTyped'
      BY <3>1, <1>1, LockAssumption DEF GhostsTyped, Known, TypeOK, PlacedAt, Locking,
          Unlocking, Counting, Sleeping, Labels, WaitLock, At, Goto, words, tables, records,
          ghosts
    <3>7. QED
      BY <3>2, <3>3, <3>4, <3>5, <3>6, Typed
  <2>2. CASE ~(HasSleepers(target[t]))
    <3>1. /\ At(t, "wake")
          /\ Return(t)
          /\ UNCHANGED <<words, tables, records, ghosts>>
      BY <2>2 DEF CheckWake, words, tables, records, ghosts
    <3>2. WordsTyped'
      BY <3>1, <1>1, LockAssumption DEF WordsTyped, Known, TypeOK, PlacedAt, Locking,
          Unlocking, Counting, Sleeping, Labels, WaitLock, At, Return, Goto, words, tables,
          records, ghosts
    <3>3. TablesTyped'
      BY <3>1, <1>1, LockAssumption DEF TablesTyped, Known, TypeOK, PlacedAt, Locking,
          Unlocking, Counting, Sleeping, Labels, WaitLock, At, Return, Goto, words, tables,
          records, ghosts
    <3>4. RecordsTyped'
      BY <3>1, <1>1, LockAssumption DEF RecordsTyped, Known, TypeOK, PlacedAt, Locking,
          Unlocking, Counting, Sleeping, Labels, WaitLock, At, Return, Goto, words, tables,
          records, ghosts
    <3>5. CallTyped'
      BY <3>1, <1>1, LockAssumption DEF CallTyped, Known, TypeOK, PlacedAt, Locking,
          Unlocking, Counting, Sleeping, Labels, WaitLock, At, Return, Goto, words, tables,
          records, ghosts
    <3>6. GhostsTyped'
      BY <3>1, <1>1, LockAssumption DEF GhostsTyped, Known, TypeOK, PlacedAt, Locking,
          Unlocking, Counting, Sleeping, Labels, WaitLock, At, Return, Goto, words, tables,
          records, ghosts
    <3>7. QED
      BY <3>2, <3>3, <3>4, <3>5, <3>6, Typed
  <2>3. QED
    BY <2>1, <2>2
<1>3. Others(t)
  BY <1>1 DEF Known, TypeOK, Others, CheckWake, At, HasSleepers, Goto, Return, words,
      tables, records, ghosts
<1>4. Balanced(t)
  BY <1>1 DEF Known, TypeOK, PlacedAt, Locking, Unlocking, Balanced, Weight, Bed, Counting,
      Sleeping, CheckWake, At, HasSleepers, Goto, Return, words, tables, records, ghosts
<1>5. PlacedAt(t)'
  BY <1>1, LockAssumption DEF Known, TypeOK, PlacedAt, Locking, Unlocking, CheckWake, At,
      HasSleepers, Goto, Return, words, tables, records, ghosts
<1>6. AlertAt(t)'
  BY <1>1 DEF Known, TypeOK, AlertAt, CheckWake, At, HasSleepers, Goto, Return, words,
      tables, records, ghosts
<1>7. QED
  BY <1>2, <1>3, <1>4, <1>5, <1>6, CountKept

LEMMA Count_NotifyAll ==
  ASSUME CountInv, NEW t \in Threads, NotifyAll(t)
  PROVE  CountInv' /\ Others(t)
<1>1. Known(t)
  BY Knowing
<1>2. TypeOK'
  BY <1>1, LockAssumption DEF Known, TypeOK, PlacedAt, Locking, Unlocking, Counting,
      Sleeping, Labels, WaitLock, NotifyAll, At, Notified, words, tables, records, ghosts
<1>3. Others(t)
  BY <1>1 DEF Known, TypeOK, Others, NotifyAll, At, Notified, words, tables, records, ghosts
<1>4. Balanced(t)
  BY <1>1 DEF Known, TypeOK, PlacedAt, Locking, Unlocking, Balanced, Weight, Bed, Counting,
      Sleeping, NotifyAll, At, Notified, words, tables, records, ghosts
<1>5. PlacedAt(t)'
  BY <1>1, LockAssumption DEF Known, TypeOK, PlacedAt, Locking, Unlocking, NotifyAll, At,
      Notified, words, tables, records, ghosts
<1>6. AlertAt(t)'
  BY <1>1 DEF Known, TypeOK, AlertAt, NotifyAll, At, Notified, words, tables, records,
      ghosts
<1>7. QED
  BY <1>2, <1>3, <1>4, <1>5, <1>6, CountKept

LEMMA Count_WaitTime ==
  ASSUME CountInv, NEW t \in Threads, WaitTime(t)
  PROVE  CountInv' /\ Others(t)
<1>1. Known(t)
  BY Knowing
<1>2. TypeOK'
  BY <1>1, LockAssumption DEF Known, TypeOK, PlacedAt, Locking, Unlocking, Counting,
      Sleeping, Labels, WaitLock, WaitTime, At, Goto, words, tables, records, ghosts
<1>3. Others(t)
  BY <1>1 DEF Known, TypeOK, Others, WaitTime, At, Goto, words, tables, records, ghosts
<1>4. Balanced(t)
  BY <1>1 DEF Known, TypeOK, PlacedAt, Locking, Unlocking, Balanced, Weight, Bed, Counting,
      Sleeping, WaitTime, At, Goto, words, tables, records, ghosts
<1>5. PlacedAt(t)'
  BY <1>1, LockAssumption DEF Known, TypeOK, PlacedAt, Locking, Unlocking, WaitTime, At,
      Goto, words, tables, records, ghosts
<1>6. AlertAt(t)'
  BY <1>1 DEF Known, TypeOK, AlertAt, WaitTime, At, Goto, words, tables, records, ghosts
<1>7. QED
  BY <1>2, <1>3, <1>4, <1>5, <1>6, CountKept

LEMMA Count_Pause ==
  ASSUME CountInv, NEW t \in Threads, Pause(t)
  PROVE  CountInv' /\ Others(t)
<1>1. Known(t)
  BY Knowing
<1>2. TypeOK'
  BY <1>1, LockAssumption DEF Known, TypeOK, PlacedAt, Locking, Unlocking, Counting,
      Sleeping, Labels, WaitLock, Pause, At, Goto, words, tables, ghosts
<1>3. Others(t)
  BY <1>1 DEF Known, TypeOK, Others, Pause, At, Goto, words, tables, ghosts
<1>4. Balanced(t)
  BY <1>1 DEF Known, TypeOK, PlacedAt, Locking, Unlocking, Balanced, Weight, Bed, Counting,
      Sleeping, Pause, At, Goto, words, tables, ghosts
<1>5. PlacedAt(t)'
  BY <1>1, LockAssumption DEF Known, TypeOK, PlacedAt, Locking, Unlocking, Pause, At, Goto,
      words, tables, ghosts
<1>6. AlertAt(t)'
  BY <1>1 DEF Known, TypeOK, AlertAt, Pause, At, Goto, words, tables, ghosts
<1>7. QED
  BY <1>2, <1>3, <1>4, <1>5, <1>6, CountKept

LEMMA Count_Doze ==
  ASSUME CountInv, NEW t \in Threads, Doze(t)
  PROVE  CountInv' /\ Others(t)
<1>1. Known(t)
  BY Knowing
<1>2. TypeOK'
  BY <1>1, LockAssumption DEF Known, TypeOK, PlacedAt, Locking, Unlocking, Counting,
      Sleeping, Labels, WaitLock, Doze, At, Goto, words, tables, records, ghosts
<1>3. Others(t)
  BY <1>1 DEF Known, TypeOK, Others, Doze, At, Goto, words, tables, records, ghosts
<1>4. Balanced(t)
  BY <1>1 DEF Known, TypeOK, PlacedAt, Locking, Unlocking, Balanced, Weight, Bed, Counting,
      Sleeping, Doze, At, Goto, words, tables, records, ghosts
<1>5. PlacedAt(t)'
  BY <1>1, LockAssumption DEF Known, TypeOK, PlacedAt, Locking, Unlocking, Doze, At, Goto,
      words, tables, records, ghosts
<1>6. AlertAt(t)'
  BY <1>1 DEF Known, TypeOK, AlertAt, Doze, At, Goto, words, tables, records, ghosts
<1>7. QED
  BY <1>2, <1>3, <1>4, <1>5, <1>6, CountKept

LEMMA Count_WaitTimeExpires ==
  ASSUME CountInv, NEW t \in Threads, WaitTimeExpires(t)
  PROVE  CountInv' /\ Others(t)
<1>1. Known(t)
  BY Knowing
<1>2. TypeOK'
  BY <1>1, LockAssumption DEF Known, TypeOK, PlacedAt, Locking, Unlocking, Counting,
      Sleeping, Labels, WaitLock, WaitTimeExpires, At, Goto, words, tables, records, ghosts
<1>3. Others(t)
  BY <1>1 DEF Known, TypeOK, Others, WaitTimeExpires, At, Goto, words, tables, records,
      ghosts
<1>4. Balanced(t)
  BY <1>1 DEF Known, TypeOK, PlacedAt, Locking, Unlocking, Balanced, Weight, Bed, Counting,
      Sleeping, WaitTimeExpires, At, Goto, words, tables, records, ghosts
<1>5. PlacedAt(t)'
  BY <1>1, LockAssumption DEF Known, TypeOK, PlacedAt, Locking, Unlocking, WaitTimeExpires,
      At, Goto, words, tables, records, ghosts
<1>6. AlertAt(t)'
  BY <1>1 DEF Known, TypeOK, AlertAt, WaitTimeExpires, At, Goto, words, tables, records,
      ghosts
<1>7. QED
  BY <1>2, <1>3, <1>4, <1>5, <1>6, CountKept

LEMMA Count_Rise ==
  ASSUME CountInv, NEW t \in Threads, Rise(t)
  PROVE  CountInv' /\ Others(t)
<1>1. Known(t)
  BY Knowing
<1>2. TypeOK'
  BY <1>1, LockAssumption DEF Known, TypeOK, PlacedAt, Locking, Unlocking, Counting,
      Sleeping, Labels, WaitLock, Rise, At, Resume, Goto, words, tables, ghosts
<1>3. Others(t)
  BY <1>1 DEF Known, TypeOK, Others, Rise, At, Resume, Goto, words, tables, ghosts
<1>4. Balanced(t)
  BY <1>1 DEF Known, TypeOK, PlacedAt, Locking, Unlocking, Balanced, Weight, Bed, Counting,
      Sleeping, Rise, At, Resume, Goto, words, tables, ghosts
<1>5. PlacedAt(t)'
  BY <1>1, LockAssumption DEF Known, TypeOK, PlacedAt, Locking, Unlocking, Rise, At, Resume,
      Goto, words, tables, ghosts
<1>6. AlertAt(t)'
  BY <1>1 DEF Known, TypeOK, AlertAt, Rise, At, Resume, Goto, words, tables, ghosts
<1>7. QED
  BY <1>2, <1>3, <1>4, <1>5, <1>6, CountKept

LEMMA Count_NotifyThread ==
  ASSUME CountInv, NEW t \in Threads, NotifyThread(t)
  PROVE  CountInv' /\ Others(t)
<1>1. Known(t)
  BY Knowing
<1>2. TypeOK'
  BY <1>1, LockAssumption DEF Known, TypeOK, PlacedAt, Locking, Unlocking, Counting,
      Sleeping, Labels, WaitLock, NotifyThread, At, Notified, words, tables, ghosts
<1>3. Others(t)
  BY <1>1 DEF Known, TypeOK, Others, NotifyThread, At, Notified, words, tables, ghosts
<1>4. Balanced(t)
  BY <1>1 DEF Known, TypeOK, PlacedAt, Locking, Unlocking, Balanced, Weight, Bed, Counting,
      Sleeping, NotifyThread, At, Notified, words, tables, ghosts
<1>5. PlacedAt(t)'
  BY <1>1, LockAssumption DEF Known, TypeOK, PlacedAt, Locking, Unlocking, NotifyThread, At,
      Notified, words, tables, ghosts
<1>6. AlertAt(t)'
  BY <1>1 DEF Known, TypeOK, AlertAt, NotifyThread, At, Notified, words, tables, ghosts
<1>7. QED
  BY <1>2, <1>3, <1>4, <1>5, <1>6, CountKept

LEMMA Count_register_sleep ==
  ASSUME CountInv, NEW t \in Threads, register_sleep(t)
  PROVE  CountInv' /\ Others(t)
<1>1. Known(t)
  BY Knowing
<1>2. TypeOK'
  BY <1>1, LockAssumption DEF Known, TypeOK, PlacedAt, Locking, Unlocking, Counting,
      Sleeping, Labels, WaitLock, register_sleep, At, SetWaitLock, Goto, words, records,
      ghosts
<1>3. Others(t)
  BY <1>1 DEF Known, TypeOK, Others, register_sleep, At, SetWaitLock, Goto, words, records,
      ghosts
<1>4. Balanced(t)
  BY <1>1 DEF Known, TypeOK, PlacedAt, Locking, Unlocking, Balanced, Weight, Bed, Counting,
      Sleeping, register_sleep, At, SetWaitLock, Goto, words, records, ghosts
<1>5. PlacedAt(t)'
  BY <1>1, LockAssumption DEF Known, TypeOK, PlacedAt, Locking, Unlocking, register_sleep,
      At, SetWaitLock, Goto, words, records, ghosts
<1>6. AlertAt(t)'
  BY <1>1 DEF Known, TypeOK, AlertAt, register_sleep, At, SetWaitLock, Goto, words, records,
      ghosts
<1>7. QED
  BY <1>2, <1>3, <1>4, <1>5, <1>6, CountKept

LEMMA Count_deregister_sleep ==
  ASSUME CountInv, NEW t \in Threads, deregister_sleep(t)
  PROVE  CountInv' /\ Others(t)
<1>1. Known(t)
  BY Knowing
<1>2. TypeOK'
  BY <1>1, LockAssumption DEF Known, TypeOK, PlacedAt, Locking, Unlocking, Counting,
      Sleeping, Labels, WaitLock, deregister_sleep, At, SetWaitLock, NotWaiting, Goto,
      words, records, ghosts
<1>3. Others(t)
  BY <1>1 DEF Known, TypeOK, Others, deregister_sleep, At, SetWaitLock, NotWaiting, Goto,
      words, records, ghosts
<1>4. Balanced(t)
  BY <1>1 DEF Known, TypeOK, PlacedAt, Locking, Unlocking, Balanced, Weight, Bed, Counting,
      Sleeping, deregister_sleep, At, SetWaitLock, NotWaiting, Goto, words, records, ghosts
<1>5. PlacedAt(t)'
  BY <1>1, LockAssumption DEF Known, TypeOK, PlacedAt, Locking, Unlocking, deregister_sleep,
      At, SetWaitLock, NotWaiting, Goto, words, records, ghosts
<1>6. AlertAt(t)'
  BY <1>1 DEF Known, TypeOK, AlertAt, deregister_sleep, At, SetWaitLock, NotWaiting, Goto,
      words, records, ghosts
<1>7. QED
  BY <1>2, <1>3, <1>4, <1>5, <1>6, CountKept

LEMMA Count_BeginUnlock ==
  ASSUME CountInv, NEW t \in Threads, NEW o \in Objects, NEW exit \in Exit,
         BeginUnlock(t, o, exit)
  PROVE  CountInv' /\ Others(t)
<1>1. Known(t)
  BY Knowing
<1>2. TypeOK'
  BY <1>1, LockAssumption DEF Known, TypeOK, PlacedAt, Locking, Unlocking, Counting,
      Sleeping, Labels, WaitLock, BeginUnlock, At, Goto, words, tables, records, ghosts
<1>3. Others(t)
  BY <1>1 DEF Known, TypeOK, Others, BeginUnlock, At, Goto, words, tables, records, ghosts
<1>4. Balanced(t)
  BY <1>1 DEF Known, TypeOK, PlacedAt, Locking, Unlocking, Balanced, Weight, Bed, Counting,
      Sleeping, BeginUnlock, At, Goto, words, tables, records, ghosts
<1>5. PlacedAt(t)'
  BY <1>1, LockAssumption DEF Known, TypeOK, PlacedAt, Locking, Unlocking, BeginUnlock, At,
      Goto, words, tables, records, ghosts
<1>6. AlertAt(t)'
  BY <1>1 DEF Known, TypeOK, AlertAt, BeginUnlock, At, Goto, words, tables, records, ghosts
<1>7. QED
  BY <1>2, <1>3, <1>4, <1>5, <1>6, CountKept

LEMMA Count_WakeThread ==
  ASSUME CountInv, NEW t \in Threads, NEW stop \in BOOLEAN,
         WakeThread(t, stop)
  PROVE  CountInv' /\ Others(t)
<1>1. Known(t)
  BY Knowing
<1>2. TypeOK'
  BY <1>1, LockAssumption DEF Known, TypeOK, PlacedAt, Locking, Unlocking, Counting,
      Sleeping, Labels, WaitLock, WakeThread, Paused, words, tables, call, ghosts
<1>3. Others(t)
  BY <1>1 DEF Known, TypeOK, Others, WakeThread, Paused, words, tables, call, ghosts
<1>4. Balanced(t)
  BY <1>1 DEF Known, TypeOK, PlacedAt, Locking, Unlocking, Balanced, Weight, Bed, Counting,
      Sleeping, WakeThread, Paused, words, tables, call, ghosts
<1>5. PlacedAt(t)'
  BY <1>1, LockAssumption DEF Known, TypeOK, PlacedAt, Locking, Unlocking, WakeThread,
      Paused, words, tables, call, ghosts
<1>6. AlertAt(t)'
  BY <1>1 DEF Known, TypeOK, AlertAt, WakeThread, Paused, words, tables, call, ghosts
<1>7. QED
  BY <1>2, <1>3, <1>4, <1>5, <1>6, CountKept

---------------------------------------------------------------------------
(* The counters are exact, and WaitTime() is woken.                        *)

LEMMA Count_Init == Init => CountInv
<1> SUFFICES ASSUME Init PROVE CountInv
  OBVIOUS
<1>1. TypeOK
  BY DEF Init, TypeOK, WaitLock, NotWaiting, Labels
<1>2. Placed /\ Alert
  BY LockAssumption DEF Init, Placed, PlacedAt, Alert, AlertAt, Locking, Unlocking
<1>3. QueueCounts
  <2>1. ASSUME NEW o \in Objects PROVE Tokens(o) = {}
    BY DEF Init, Tokens, Counting
  <2>2. QED
    BY <2>1, FS_EmptySet DEF Init, QueueCounts
<1>4. SleepersCounted
  <2>1. ASSUME NEW o \in Objects PROVE {t \in Threads : Sleeping(t) /\ target[t] = o} = {}
    BY DEF Init, Sleeping
  <2>2. QED
    BY <2>1, FS_EmptySet DEF Init, SleepersCounted
<1>5. QED
  BY <1>1, <1>2, <1>3, <1>4 DEF CountInv, LockInv

\* What a thread may do, or have done to it.
Act(t) ==
    \/ \E o \in Objects, entry \in Entry, wait \in Timeouts : BeginLock(t, o, entry, wait)
    \/ Unlock(t)
    \/ Step(t)
    \/ MutexStep(t)
    \/ Expire(t)
    \/ WaitTime(t)
    \/ \E stop \in BOOLEAN : WakeThread(t, stop)
    \/ NotifyThread(t)
    \/ register_sleep(t)
    \/ deregister_sleep(t)

LEMMA Count_Act ==
  ASSUME CountInv, NEW t \in Threads, Act(t)
  PROVE  CountInv' /\ Others(t)
<1>1. CASE Step(t)
  <2>1. CASE IncrementQueue(t)
    BY <2>1, Count_IncrementQueue
  <2>2. CASE CheckOwner(t)
    BY <2>2, Count_CheckOwner
  <2>3. CASE RestoreQueue(t)
    BY <2>3, Count_RestoreQueue
  <2>4. CASE QuickLock(t)
    BY <2>4, Count_QuickLock
  <2>5. CASE StoreThreadID(t)
    BY <2>5, Count_StoreThreadID
  <2>6. CASE NestedLock(t) \/ AddNested(t)
    BY <2>6, Count_NestedLock, Count_AddNested
  <2>7. CASE PrepareSleep(t)
    BY <2>7, Count_PrepareSleep
  <2>8. CASE MutexTimeout(t)
    BY <2>8, Count_MutexTimeout
  <2>9. CASE init_sleep(t)
    BY <2>9, Count_init_sleep
  <2>10. CASE Attempt(t)
    BY <2>10, Count_Attempt
  <2>11. CASE TryLock(t)
    BY <2>11, Count_TryLock
  <2>12. CASE TakenAfterSleep(t)
    BY <2>12, Count_TakenAfterSleep
  <2>13. CASE FailedSleep(t)
    BY <2>13, Count_FailedSleep
  <2>14. CASE CheckSleepers(t)
    BY <2>14, Count_CheckSleepers
  <2>15. CASE DecrementQueue(t)
    BY <2>15, Count_DecrementQueue
  <2>16. CASE FetchSub(t)
    BY <2>16, Count_FetchSub
  <2>17. CASE CheckWake(t)
    BY <2>17, Count_CheckWake
  <2>18. CASE Pause(t)
    BY <2>18, Count_Pause
  <2>19. CASE Doze(t)
    BY <2>19, Count_Doze
  <2>20. CASE WaitTimeExpires(t)
    BY <2>20, Count_WaitTimeExpires
  <2>21. CASE Rise(t)
    BY <2>21, Count_Rise
  <2>22. QED
    BY <1>1, <2>1, <2>2, <2>3, <2>4, <2>5, <2>6, <2>7, <2>8, <2>9, <2>10, <2>11, <2>12,
        <2>13, <2>14, <2>15, <2>16, <2>17, <2>18, <2>19, <2>20, <2>21 DEF Step
<1>2. CASE MutexStep(t)
  <2>1. CASE LockMutex(t)
    BY <2>1, Count_LockMutex
  <2>2. CASE Reacquire(t)
    BY <2>2, Count_Reacquire
  <2>3. CASE NotifyAll(t)
    BY <2>3, Count_NotifyAll
  <2>4. QED
    BY <1>2, <2>1, <2>2, <2>3 DEF MutexStep
<1>3. ASSUME NEW o \in Objects, NEW entry \in Entry, NEW wait \in Timeouts, BeginLock(t, o, entry, wait)
      PROVE  CountInv' /\ Others(t)
  BY <1>3, Count_BeginLock
<1>4. ASSUME NEW o \in Objects, NEW exit \in Exit, BeginUnlock(t, o, exit)
      PROVE  CountInv' /\ Others(t)
  BY <1>4, Count_BeginUnlock
<1>5. ASSUME NEW stop \in BOOLEAN, WakeThread(t, stop)
      PROVE  CountInv' /\ Others(t)
  BY <1>5, Count_WakeThread
<1>6. CASE Expire(t)
  BY <1>6, Count_Expire
<1>7. CASE WaitTime(t)
  BY <1>7, Count_WaitTime
<1>8. CASE NotifyThread(t)
  BY <1>8, Count_NotifyThread
<1>9. CASE register_sleep(t)
  BY <1>9, Count_register_sleep
<1>10. CASE deregister_sleep(t)
  BY <1>10, Count_deregister_sleep
<1>11. QED
  BY <1>1, <1>2, <1>3, <1>4, <1>5, <1>6, <1>7, <1>8, <1>9, <1>10 DEF Act, Unlock

LEMMA Count_Next ==
  ASSUME CountInv, [Next]_vars
  PROVE  CountInv'
<1>1. ASSUME NEW t \in Threads, Act(t) PROVE CountInv'
  BY <1>1, Count_Act
<1>2. CASE UNCHANGED vars
  <2>1. TypeOK' /\ Placed' /\ Alert'
    BY <1>2 DEF vars, words, tables, records, call, ghosts, CountInv, LockInv, TypeOK, Placed,
           PlacedAt, Alert, AlertAt
  <2>2. QueueCounts' /\ SleepersCounted'
    BY <1>2 DEF vars, words, call, ghosts, CountInv, LockInv, QueueCounts, SleepersCounted,
           Tokens, Counting, Sleeping
  <2>3. QED
    BY <2>1, <2>2 DEF CountInv, LockInv
<1>3. QED
  BY <1>1, <1>2 DEF Next, Act

\* The inductive invariant: the counters are exact, calls are about objects that may
\* be locked or are, and a thread in WaitTime() is seen by whoever interrupts it.
THEOREM CountCorrect == Spec => []CountInv
<1>1. CountInv /\ [Next]_vars => CountInv'
  BY Count_Next
<1>2. QED
  BY Count_Init, <1>1, PTL DEF Spec

\* Queue counts the locks and the counts in transit, and SleepQueue the sleepers, on
\* every path of LockObject(), lock(), ReleaseObject() and unlock(), whether or not the
\* nested test is fooled.
THEOREM CountersExact == Spec => []LockInv
<1>1. CountInv => LockInv
  BY DEF CountInv
<1>2. QED
  BY <1>1, CountCorrect, PTL

\* WaitTime() does not sleep through an interrupt.
THEOREM InterruptsNotified == Spec => []WaitTimeWakes
<1>1. CountInv => WaitTimeWakes
  <2>1. ASSUME CountInv, NEW t \in Threads PROVE At(t, "dozing") /\ interrupted[t] => t \in waking
    BY <2>1, Zenon DEF CountInv, Alert, AlertAt, At
  <2>2. QED
    BY <2>1 DEF WaitTimeWakes
<1>2. QED
  BY <1>1, CountCorrect, PTL

---------------------------------------------------------------------------
(* One holder at a time.                                                   *)

\* A step of t takes the object only if nobody has it, and only who has it leaves its
\* name there.
TidyAt(t, o) ==
    /\ Has(t, o)' => Has(t, o) \/ Queue[o] = 0
    /\ ThreadID'[o] = ThreadID[o] \/ Has(t, o)
    /\ depth'[t][o] > 0 => \/ ThreadID'[o] = t
                           \/ depth[t][o] > 0 /\ ThreadID'[o] = ThreadID[o]
Tidy(t) == \A o \in Objects : TidyAt(t, o) \/ TakenForHolder(t, o)

LEMMA OrderKept ==
  ASSUME CountInv, NEW o \in Objects, Orderly(o), NEW t \in Threads, Others(t), TidyAt(t, o)
  PROVE  Orderly(o)'
<1>1. ASSUME NEW u \in Threads, Has(u, o)
      PROVE  Queue[o] # 0
  <2>1. depth[u][o] \in Nat
    BY DEF CountInv, LockInv, TypeOK
  <2>2. QED
    BY <1>1, <2>1, Counted DEF Has, Counting
<1>2. ASSUME NEW u \in Threads \ {t}, Has(u, o)'
      PROVE  /\ Has(u, o)
             /\ depth'[u][o] > 0 => depth[u][o] > 0
  BY <1>2 DEF Has, Others
<1>3. ASSUME NEW u \in Threads, NEW v \in Threads, Has(u, o)', Has(v, o)'
      PROVE  v = u
  <2>1. ASSUME NEW w \in Threads \ {t}, Has(w, o)', Has(t, o)' PROVE FALSE
    BY <1>1, <1>2, <2>1 DEF TidyAt, Orderly
  <2>2. CASE u # t /\ v # t
    BY <1>2, <1>3, <2>2 DEF Orderly
  <2>3. QED
    BY <1>3, <2>1, <2>2
<1>4. ASSUME NEW u \in Threads, Has(u, o)', depth'[u][o] > 0
      PROVE  ThreadID'[o] = u
  <2>1. CASE u = t
    <3>1. depth[t][o] > 0 => ThreadID[o] = t
      BY DEF Orderly, Has
    <3>2. QED
      BY <1>4, <2>1, <3>1 DEF TidyAt
  <2>2. CASE u # t
    <3>1. Has(u, o) /\ ThreadID[o] = u
      BY <1>2, <1>4, <2>2 DEF Orderly
    <3>2. ~Has(t, o)
      BY <2>2, <3>1 DEF Orderly
    <3>3. QED
      BY <3>1, <3>2 DEF TidyAt
  <2>3. QED
    BY <2>1, <2>2
<1>5. QED
  BY <1>3, <1>4 DEF Orderly

LEMMA Tidy_Act ==
  ASSUME CountInv, NEW t \in Threads, Act(t)
  PROVE  Tidy(t)
<1>0. Known(t)
  BY Knowing
<1>1. CASE Step(t)
  <2>1. CASE IncrementQueue(t)
    BY <2>1, <1>0, LockAssumption DEF Known, TypeOK, PlacedAt, Locking, Unlocking, Tidy,
        TidyAt, Has, IncrementQueue, At, AddQueue, Goto, tables, records,
        ghosts
  <2>2. CASE CheckOwner(t)
    <3>1. At(t, "owner") /\ target[t] \in Objects /\ depth[t][target[t]] \in Nat
      BY <2>2, <1>0 DEF Known, TypeOK, PlacedAt, Locking, CheckOwner, At
    <3>2. CASE ThreadID[target[t]] = t
      <4>1. Granted(t) /\ UNCHANGED <<words, used>>
        BY <3>2, <2>2 DEF CheckOwner
      <4>2. QED
        BY <1>0, <3>1, <4>1 DEF Known, TypeOK, Tidy, TidyAt, TakenForHolder, Has, Granted, Return,
            Goto, At, words
    <3>3. CASE ThreadID[target[t]] # t
      <4>1. Goto(t, "restore") /\ UNCHANGED <<words, target, depth, used>>
        BY <3>3, <2>2 DEF CheckOwner
      <4>2. QED
        BY <1>0, <3>1, <4>1 DEF Known, TypeOK, Tidy, TidyAt, Has, Goto, words
    <3>4. QED
      BY <3>2, <3>3
  <2>3. CASE RestoreQueue(t)
    BY <2>3, <1>0, LockAssumption DEF Known, TypeOK, PlacedAt, Locking, Unlocking, Tidy,
        TidyAt, Has, RestoreQueue, At, DropQueue, Goto, tables, records,
        ghosts
  <2>4. CASE QuickLock(t)
    BY <2>4, <1>0, LockAssumption DEF Known, TypeOK, PlacedAt, Locking, Unlocking, Tidy,
        TidyAt, Has, QuickLock, At, Free, TakeQueue, Goto, tables, records,
        ghosts
  <2>5. CASE StoreThreadID(t)
    BY <2>5, <1>0, LockAssumption DEF Known, TypeOK, PlacedAt, Locking, Unlocking, Tidy,
        TidyAt, Has, StoreThreadID, At, SetThreadID, Granted, tables,
        records, Return, Goto
  <2>6. CASE NestedLock(t) \/ AddNested(t)
    <3>1. CASE NestedLock(t)
      BY <3>1, <1>0 DEF Known, TypeOK, PlacedAt, Locking, Unlocking, Tidy, TidyAt, Has,
          NestedLock, At, Goto, words, tables, records, ghosts
    <3>2. CASE AddNested(t)
      <4>1. At(t, "add") /\ target[t] \in Objects /\ depth[t][target[t]] \in Nat
        BY <3>2, <1>0 DEF Known, TypeOK, PlacedAt, Locking, AddNested, At
      <4>2. QED
        BY <1>0, <3>2, <4>1 DEF Known, TypeOK, Tidy, TidyAt, TakenForHolder, Has, AddNested, AddQueue,
            Granted, Return, Goto, At
    <3>3. QED
      BY <2>6, <3>1, <3>2
  <2>7. CASE PrepareSleep(t)
    BY <2>7, <1>0, LockAssumption DEF Known, TypeOK, PlacedAt, Locking, Unlocking, Tidy,
        TidyAt, Has, PrepareSleep, At, JoinSleepers, Goto, tables, records,
        ghosts
  <2>8. CASE MutexTimeout(t)
    BY <2>8, <1>0, LockAssumption DEF Known, TypeOK, PlacedAt, Locking, Unlocking, Tidy,
        TidyAt, Has, MutexTimeout, At, LeaveSleepers, Return, tables,
        records, ghosts, Goto
  <2>9. CASE init_sleep(t)
    BY <2>9, <1>0, LockAssumption DEF Known, TypeOK, PlacedAt, Locking, Unlocking, Tidy,
        TidyAt, Has, init_sleep, At, GiveUp, SetWaitLock, Goto, ghosts,
        NotWaiting, LeaveSleepers, Return
  <2>10. CASE Attempt(t)
    BY <2>10, <1>0, LockAssumption DEF Known, TypeOK, PlacedAt, Locking, Unlocking, Tidy,
        TidyAt, Has, Attempt, At, Goto, Stopping, words, tables, records,
        ghosts
  <2>11. CASE TryLock(t)
    BY <2>11, <1>0, LockAssumption DEF Known, TypeOK, PlacedAt, Locking, Unlocking, Tidy,
        TidyAt, Has, TryLock, At, Free, TakeQueue, Goto, records, ghosts
  <2>12. CASE TakenAfterSleep(t)
    BY <2>12, <1>0, LockAssumption DEF Known, TypeOK, PlacedAt, Locking, Unlocking, Tidy,
        TidyAt, Has, TakenAfterSleep, At, SetWaitLock, NotWaiting,
        SetThreadID, LeaveSleepers, Resume, Granted, Return, Goto
  <2>13. CASE FailedSleep(t)
    BY <2>13, <1>0, LockAssumption DEF Known, TypeOK, PlacedAt, Locking, Unlocking, Tidy,
        TidyAt, Has, FailedSleep, At, Stopping, Resume, GiveUp, ghosts,
        SetWaitLock, NotWaiting, LeaveSleepers, Return, Goto
  <2>14. CASE CheckSleepers(t)
    BY <2>14, <1>0, LockAssumption DEF Known, TypeOK, PlacedAt, Locking, Unlocking, Tidy,
        TidyAt, Has, CheckSleepers, At, Goto, words, tables, records, ghosts
  <2>15. CASE DecrementQueue(t)
    BY <2>15, <1>0, LockAssumption DEF Known, TypeOK, PlacedAt, Locking, Unlocking, Tidy,
        TidyAt, Has, DecrementQueue, At, Surrender, Return, tables, records,
        DropQueue, Goto
  <2>16. CASE FetchSub(t)
    BY <2>16, <1>0, LockAssumption DEF Known, TypeOK, PlacedAt, Locking, Unlocking, Tidy,
        TidyAt, Has, FetchSub, At, Surrender, Return, Goto, tables, records,
        DropQueue
  <2>17. CASE CheckWake(t)
    BY <2>17, <1>0, LockAssumption DEF Known, TypeOK, PlacedAt, Locking, Unlocking, Tidy,
        TidyAt, Has, CheckWake, At, HasSleepers, Goto, Return, words, tables,
        records, ghosts
  <2>18. CASE Pause(t)
    BY <2>18, <1>0, LockAssumption DEF Known, TypeOK, PlacedAt, Locking, Unlocking, Tidy,
        TidyAt, Has, Pause, At, Goto, words, tables, ghosts
  <2>19. CASE Doze(t)
    BY <2>19, <1>0, LockAssumption DEF Known, TypeOK, PlacedAt, Locking, Unlocking, Tidy,
        TidyAt, Has, Doze, At, Goto, words, tables, records, ghosts
  <2>20. CASE WaitTimeExpires(t)
    BY <2>20, <1>0, LockAssumption DEF Known, TypeOK, PlacedAt, Locking, Unlocking, Tidy,
        TidyAt, Has, WaitTimeExpires, At, Goto, words, tables, records,
        ghosts
  <2>21. CASE Rise(t)
    BY <2>21, <1>0, LockAssumption DEF Known, TypeOK, PlacedAt, Locking, Unlocking, Tidy,
        TidyAt, Has, Rise, At, Resume, Goto, words, tables, ghosts
  <2>22. QED
    BY <1>1, <2>1, <2>2, <2>3, <2>4, <2>5, <2>6, <2>7, <2>8, <2>9, <2>10, <2>11, <2>12,
        <2>13, <2>14, <2>15, <2>16, <2>17, <2>18, <2>19, <2>20, <2>21 DEF Step
<1>2. CASE MutexStep(t)
  <2>1. CASE LockMutex(t)
    BY <2>1, <1>0, LockAssumption DEF Known, TypeOK, PlacedAt, Locking, Unlocking, Tidy,
        TidyAt, Has, LockMutex, At, Goto, words, records, ghosts
  <2>2. CASE Reacquire(t)
    BY <2>2, <1>0, LockAssumption DEF Known, TypeOK, PlacedAt, Locking, Unlocking, Tidy,
        TidyAt, Has, Reacquire, Goto, At, words, records, ghosts
  <2>3. CASE NotifyAll(t)
    BY <2>3, <1>0, LockAssumption DEF Known, TypeOK, PlacedAt, Locking, Unlocking, Tidy,
        TidyAt, Has, NotifyAll, At, Notified, words, tables, records, ghosts
  <2>4. QED
    BY <1>2, <2>1, <2>2, <2>3 DEF MutexStep
<1>3. ASSUME NEW o \in Objects, NEW entry \in Entry, NEW wait \in Timeouts, BeginLock(t, o, entry, wait)
      PROVE  Tidy(t)
  BY <1>3, <1>0, LockAssumption DEF Known, TypeOK, PlacedAt, Locking, Unlocking, Tidy, TidyAt, Has,
      BeginLock, At, Goto, words, tables, records, ghosts
<1>4. ASSUME NEW o \in Objects, NEW exit \in Exit, BeginUnlock(t, o, exit)
      PROVE  Tidy(t)
  BY <1>4, <1>0, LockAssumption DEF Known, TypeOK, PlacedAt, Locking, Unlocking, Tidy, TidyAt, Has,
      BeginUnlock, At, Goto, words, tables, records, ghosts
<1>5. ASSUME NEW stop \in BOOLEAN, WakeThread(t, stop)
      PROVE  Tidy(t)
  BY <1>5, <1>0, LockAssumption DEF Known, TypeOK, PlacedAt, Locking, Unlocking, Tidy, TidyAt, Has,
      WakeThread, Paused, words, tables, call, ghosts
<1>6. CASE Expire(t)
  BY <1>6, <1>0, LockAssumption DEF Known, TypeOK, PlacedAt, Locking, Unlocking, Tidy, TidyAt, Has,
      Expire, Goto, At, words, tables, records, ghosts
<1>7. CASE WaitTime(t)
  BY <1>7, <1>0, LockAssumption DEF Known, TypeOK, PlacedAt, Locking, Unlocking, Tidy, TidyAt, Has,
      WaitTime, At, Goto, words, tables, records, ghosts
<1>8. CASE NotifyThread(t)
  BY <1>8, <1>0, LockAssumption DEF Known, TypeOK, PlacedAt, Locking, Unlocking, Tidy, TidyAt, Has,
      NotifyThread, At, Notified, words, tables, ghosts
<1>9. CASE register_sleep(t)
  BY <1>9, <1>0, LockAssumption DEF Known, TypeOK, PlacedAt, Locking, Unlocking, Tidy, TidyAt, Has,
      register_sleep, At, SetWaitLock, Goto, words, records, ghosts
<1>10. CASE deregister_sleep(t)
  BY <1>10, <1>0, LockAssumption DEF Known, TypeOK, PlacedAt, Locking, Unlocking, Tidy, TidyAt, Has,
      deregister_sleep, At, SetWaitLock, NotWaiting, Goto, words,
      records, ghosts
<1>11. QED
  BY <1>1, <1>2, <1>3, <1>4, <1>5, <1>6, <1>7, <1>8, <1>9, <1>10 DEF Act, Unlock

\* Any number of threads, objects and nested locks, in any mix of LockObject(), lock(),
\* ReleaseObject() and unlock(), with time-outs, interrupts and stops, whether or not a
\* thread comes back to an object: an object that one thread has at most, under its own
\* name, stays so, but for a nested test that takes a thread for the holder that is not.
THEOREM OneHolderAtATime == Spec => ExclusionKept
<1> DEFINE A == \A o \in Objects : Orderly(o) /\ ~Orderly(o)' =>
                   \E t \in Threads : TakenForHolder(t, o)
<1>1. ASSUME CountInv, NEW t \in Threads, Act(t) PROVE A
  <2>1. Others(t) /\ Tidy(t)
    BY <1>1, Count_Act, Tidy_Act
  <2>2. ASSUME NEW o \in Objects, Orderly(o), ~TakenForHolder(t, o) PROVE Orderly(o)'
    BY <1>1, <2>1, <2>2, OrderKept DEF Tidy
  <2>3. QED
    BY <2>2
<1>2. CountInv /\ [Next]_vars => [A]_vars
  BY <1>1 DEF Next, Act
<1>3. QED
  BY <1>2, CountCorrect, PTL DEF Spec, ExclusionKept

---------------------------------------------------------------------------
(* No lost wake-up.                                                        *)

\* Somebody who sees to it that a sleeper is woken, or that the object gets a holder.
Seeing(t, o) == pc[t] \in {"wake", "notify", "quick"} /\ target[t] = o
DutyInv == WakeUpOnDuty /\ \A t \in Threads : pc[t] \notin {"unlock", "decrement"}

\* A step of t leaves a free object only to one who sees to it, itself included, or with
\* nobody asleep.
Dutiful(t) ==
    /\ \A o \in Objects :
         /\ Queue'[o] = 0 => Queue[o] = 0 \/ Seeing(t, o)'
         /\ Seeing(t, o) => \/ Seeing(t, o)' \/ Queue'[o] # 0 \/ SleepQueue[o] = 0
                            \/ \A u \in Threads : pc'[u] # "waiting"
    /\ pc'[t] = "waiting" => \/ pc[t] = "waiting" /\ target'[t] = target[t]
                             \/ target'[t] \in Objects /\ Queue'[target'[t]] # 0
    /\ pc'[t] \notin {"unlock", "decrement"}

LEMMA DutyKept ==
  ASSUME CountInv, DutyInv, NEW t \in Threads, Others(t), Dutiful(t)
  PROVE  DutyInv'
<1>1. ASSUME NEW v \in Threads, pc'[v] = "waiting", Queue'[target'[v]] = 0
      PROVE  \E u \in Threads : target'[u] = target'[v] /\ pc'[u] \in {"wake", "notify", "quick"}
  <2> DEFINE o == target[v]
  <2>1. pc[v] = "waiting" /\ target'[v] = o
    BY <1>1 DEF Others, Dutiful
  <2>2. o \in Objects
    BY <2>1 DEF CountInv, Placed, PlacedAt, Locking
  <2>3. SleepQueue[o] # 0
    BY <2>1, <2>2, Counted DEF Sleeping
  <2>4. CASE Seeing(t, o)'
    BY <2>1, <2>4 DEF Seeing
  <2>5. CASE ~Seeing(t, o)'
    <3>1. Queue[o] = 0
      BY <1>1, <2>1, <2>2, <2>5 DEF Dutiful
    <3>2. PICK u \in Threads : Seeing(u, o)
      BY <2>1, <3>1 DEF DutyInv, WakeUpOnDuty, At, Seeing
    <3>3. u # t
      BY <1>1, <2>1, <2>2, <2>3, <2>5, <3>2 DEF Dutiful
    <3>4. QED
      BY <2>1, <3>2, <3>3 DEF Seeing, Others
  <2>6. QED
    BY <2>4, <2>5
<1>2. \A u \in Threads : pc'[u] \notin {"unlock", "decrement"}
  BY DEF DutyInv, Others, Dutiful
<1>3. QED
  BY <1>1, <1>2 DEF DutyInv, WakeUpOnDuty, At

LEMMA Duty_Act ==
  ASSUME CountInv, DutyInv, "unlock" \notin Exit, NEW t \in Threads, Act(t)
  PROVE  Dutiful(t)
<1>0. Known(t)
  BY Knowing
<1>1. CASE Step(t)
  <2>1. CASE IncrementQueue(t)
    BY <2>1, <1>0, LockAssumption DEF Known, TypeOK, PlacedAt, Locking, Unlocking, Dutiful,
        Seeing, DutyInv, IncrementQueue, At, AddQueue, Goto, tables, records, ghosts
  <2>2. CASE CheckOwner(t)
    BY <2>2, <1>0, LockAssumption DEF Known, TypeOK, PlacedAt, Locking, Unlocking, Dutiful,
        Seeing, DutyInv, CheckOwner, At, Granted, Goto, words, tables, records, Return
  <2>3. CASE RestoreQueue(t)
    BY <2>3, <1>0, LockAssumption DEF Known, TypeOK, PlacedAt, Locking, Unlocking, Dutiful,
        Seeing, DutyInv, RestoreQueue, At, DropQueue, Goto, tables, records, ghosts
  <2>4. CASE QuickLock(t)
    BY <2>4, <1>0, LockAssumption DEF Known, TypeOK, PlacedAt, Locking, Unlocking, Dutiful,
        Seeing, DutyInv, QuickLock, At, Free, TakeQueue, Goto, tables, records, ghosts
  <2>5. CASE StoreThreadID(t)
    BY <2>5, <1>0, LockAssumption DEF Known, TypeOK, PlacedAt, Locking, Unlocking, Dutiful,
        Seeing, DutyInv, StoreThreadID, At, SetThreadID, Granted, tables, records, Return,
        Goto
  <2>6. CASE NestedLock(t) \/ AddNested(t)
    <3>1. CASE NestedLock(t)
      BY <3>1, <1>0, LockAssumption DEF Known, TypeOK, PlacedAt, Locking, Unlocking, Dutiful,
          Seeing, DutyInv, NestedLock, At, Goto, words, tables, records, ghosts
    <3>2. CASE AddNested(t)
      BY <3>2, <1>0, LockAssumption DEF Known, TypeOK, PlacedAt, Locking, Unlocking, Dutiful,
          Seeing, DutyInv, AddNested, At, AddQueue, Granted, Return, Goto, tables, records
    <3>3. QED
      BY <2>6, <3>1, <3>2
  <2>7. CASE PrepareSleep(t)
    BY <2>7, <1>0, LockAssumption DEF Known, TypeOK, PlacedAt, Locking, Unlocking, Dutiful,
        Seeing, DutyInv, PrepareSleep, At, JoinSleepers, Goto, tables, records, ghosts
  <2>8. CASE MutexTimeout(t)
    BY <2>8, <1>0, LockAssumption DEF Known, TypeOK, PlacedAt, Locking, Unlocking, Dutiful,
        Seeing, DutyInv, MutexTimeout, At, LeaveSleepers, Return, tables, records, ghosts,
        Goto
  <2>9. CASE init_sleep(t)
    BY <2>9, <1>0, LockAssumption DEF Known, TypeOK, PlacedAt, Locking, Unlocking, Dutiful,
        Seeing, DutyInv, init_sleep, At, GiveUp, SetWaitLock, Goto, ghosts, NotWaiting,
        LeaveSleepers, Return
  <2>10. CASE Attempt(t)
    BY <2>10, <1>0, LockAssumption DEF Known, TypeOK, PlacedAt, Locking, Unlocking, Dutiful,
        Seeing, DutyInv, Attempt, At, Goto, Stopping, words, tables, records, ghosts
  <2>11. CASE TryLock(t)
    BY <2>11, <1>0, LockAssumption DEF Known, TypeOK, PlacedAt, Locking, Unlocking, Dutiful,
        Seeing, DutyInv, TryLock, At, Free, TakeQueue, Goto, records, ghosts
  <2>12. CASE TakenAfterSleep(t)
    BY <2>12, <1>0, LockAssumption DEF Known, TypeOK, PlacedAt, Locking, Unlocking, Dutiful,
        Seeing, DutyInv, TakenAfterSleep, At, SetWaitLock, NotWaiting, SetThreadID,
        LeaveSleepers, Resume, Granted, Return, Goto
  <2>13. CASE FailedSleep(t)
    BY <2>13, <1>0, LockAssumption DEF Known, TypeOK, PlacedAt, Locking, Unlocking, Dutiful,
        Seeing, DutyInv, FailedSleep, At, Stopping, Resume, GiveUp, ghosts, SetWaitLock,
        NotWaiting, LeaveSleepers, Return, Goto
  <2>14. CASE CheckSleepers(t)
    BY <2>14, <1>0, LockAssumption DEF Known, TypeOK, PlacedAt, Locking, Unlocking, Dutiful,
        Seeing, DutyInv, CheckSleepers, At, Goto, words, tables, records, ghosts
  <2>15. CASE DecrementQueue(t)
    BY <2>15, <1>0, LockAssumption DEF Known, TypeOK, PlacedAt, Locking, Unlocking, Dutiful,
        Seeing, DutyInv, DecrementQueue, At, Surrender, Return, tables, records, DropQueue,
        Goto
  <2>16. CASE FetchSub(t)
    BY <2>16, <1>0, LockAssumption DEF Known, TypeOK, PlacedAt, Locking, Unlocking, Dutiful,
        Seeing, DutyInv, FetchSub, At, Surrender, Return, Goto, tables, records, DropQueue
  <2>17. CASE CheckWake(t)
    BY <2>17, <1>0, LockAssumption DEF Known, TypeOK, PlacedAt, Locking, Unlocking, Dutiful,
        Seeing, DutyInv, CheckWake, At, HasSleepers, Goto, Return, words, tables, records,
        ghosts
  <2>18. CASE Pause(t)
    BY <2>18, <1>0, LockAssumption DEF Known, TypeOK, PlacedAt, Locking, Unlocking, Dutiful,
        Seeing, DutyInv, Pause, At, Goto, words, tables, ghosts
  <2>19. CASE Doze(t)
    BY <2>19, <1>0, LockAssumption DEF Known, TypeOK, PlacedAt, Locking, Unlocking, Dutiful,
        Seeing, DutyInv, Doze, At, Goto, words, tables, records, ghosts
  <2>20. CASE WaitTimeExpires(t)
    BY <2>20, <1>0, LockAssumption DEF Known, TypeOK, PlacedAt, Locking, Unlocking, Dutiful,
        Seeing, DutyInv, WaitTimeExpires, At, Goto, words, tables, records, ghosts
  <2>21. CASE Rise(t)
    BY <2>21, <1>0, LockAssumption DEF Known, TypeOK, PlacedAt, Locking, Unlocking, Dutiful,
        Seeing, DutyInv, Rise, At, Resume, Goto, words, tables, ghosts
  <2>22. QED
    BY <1>1, <2>1, <2>2, <2>3, <2>4, <2>5, <2>6, <2>7, <2>8, <2>9, <2>10, <2>11, <2>12,
        <2>13, <2>14, <2>15, <2>16, <2>17, <2>18, <2>19, <2>20, <2>21 DEF Step
<1>2. CASE MutexStep(t)
  <2>1. CASE LockMutex(t)
    BY <2>1, <1>0, LockAssumption DEF Known, TypeOK, PlacedAt, Locking, Unlocking, Dutiful,
        Seeing, DutyInv, LockMutex, At, Goto, words, records, ghosts
  <2>2. CASE Reacquire(t)
    BY <2>2, <1>0, LockAssumption DEF Known, TypeOK, PlacedAt, Locking, Unlocking, Dutiful,
        Seeing, DutyInv, Reacquire, Goto, At, words, records, ghosts
  <2>3. CASE NotifyAll(t)
    BY <2>3, <1>0, LockAssumption DEF Known, TypeOK, PlacedAt, Locking, Unlocking, Dutiful,
        Seeing, DutyInv, NotifyAll, At, Notified, words, tables, records, ghosts
  <2>4. QED
    BY <1>2, <2>1, <2>2, <2>3 DEF MutexStep
<1>3. ASSUME NEW o \in Objects, NEW entry \in Entry, NEW wait \in Timeouts, BeginLock(t, o, entry, wait)
      PROVE  Dutiful(t)
  BY <1>3, <1>0, LockAssumption DEF Known, TypeOK, PlacedAt, Locking, Unlocking, Dutiful,
      Seeing, DutyInv, BeginLock, At, Goto, words, tables, records, ghosts
<1>4. ASSUME NEW o \in Objects, NEW exit \in Exit, BeginUnlock(t, o, exit)
      PROVE  Dutiful(t)
  BY <1>4, <1>0, LockAssumption DEF Known, TypeOK, PlacedAt, Locking, Unlocking, Dutiful,
      Seeing, DutyInv, BeginUnlock, At, Goto, words, tables, records, ghosts
<1>5. ASSUME NEW stop \in BOOLEAN, WakeThread(t, stop)
      PROVE  Dutiful(t)
  BY <1>5, <1>0, LockAssumption DEF Known, TypeOK, PlacedAt, Locking, Unlocking, Dutiful,
      Seeing, DutyInv, WakeThread, Paused, words, tables, call, ghosts
<1>6. CASE Expire(t)
  BY <1>6, <1>0, LockAssumption DEF Known, TypeOK, PlacedAt, Locking, Unlocking, Dutiful,
      Seeing, DutyInv, Expire, Goto, At, words, tables, records, ghosts
<1>7. CASE WaitTime(t)
  BY <1>7, <1>0, LockAssumption DEF Known, TypeOK, PlacedAt, Locking, Unlocking, Dutiful,
      Seeing, DutyInv, WaitTime, At, Goto, words, tables, records, ghosts
<1>8. CASE NotifyThread(t)
  BY <1>8, <1>0, LockAssumption DEF Known, TypeOK, PlacedAt, Locking, Unlocking, Dutiful,
      Seeing, DutyInv, NotifyThread, At, Notified, words, tables, ghosts
<1>9. CASE register_sleep(t)
  BY <1>9, <1>0, LockAssumption DEF Known, TypeOK, PlacedAt, Locking, Unlocking, Dutiful,
      Seeing, DutyInv, register_sleep, At, SetWaitLock, Goto, words, records, ghosts
<1>10. CASE deregister_sleep(t)
  BY <1>10, <1>0, LockAssumption DEF Known, TypeOK, PlacedAt, Locking, Unlocking, Dutiful,
      Seeing, DutyInv, deregister_sleep, At, SetWaitLock, NotWaiting, Goto, words, records,
      ghosts
<1>11. QED
  BY <1>1, <1>2, <1>3, <1>4, <1>5, <1>6, <1>7, <1>8, <1>9, <1>10 DEF Act, Unlock

LEMMA Duty_Next ==
  ASSUME CountInv, DutyInv, "unlock" \notin Exit, [Next]_vars
  PROVE  DutyInv'
<1>1. ASSUME NEW t \in Threads, Act(t) PROVE DutyInv'
  BY <1>1, Count_Act, Duty_Act, DutyKept
<1>2. CASE UNCHANGED vars
  BY <1>2 DEF vars, words, call, DutyInv, WakeUpOnDuty, At
<1>3. QED
  BY <1>1, <1>2 DEF Next, Act

\* Nobody is left asleep on an object that nobody has locked, in any mix of LockObject()
\* and lock(), with time-outs, interrupts and stops, as long as locks are given back by
\* ReleaseObject(): unlock() looks for sleepers before it gives the lock back.
THEOREM NoWakeUpLost == "unlock" \notin Exit => (Spec => []WakeUpOnDuty)
<1>1. Init => DutyInv
  BY DEF Init, DutyInv, WakeUpOnDuty, At
<1>2. ASSUME "unlock" \notin Exit PROVE Spec => []WakeUpOnDuty
  <2>1. CountInv /\ DutyInv /\ [Next]_vars => DutyInv'
    BY <1>2, Duty_Next
  <2>2. DutyInv => WakeUpOnDuty
    BY DEF DutyInv
  <2>3. QED
    BY <1>1, <2>1, <2>2, CountCorrect, PTL DEF Spec
<1>3. QED
  BY <1>2
===========================================================================
