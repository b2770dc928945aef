-------------------------- MODULE ObjectLifeProofs --------------------------
(***************************************************************************)
(* ObjectLife, for any number of threads and of nested locks: RefCount and *)
(* Queue are exact on every path, one thread at a time has the lock, the   *)
(* header of a terminated object is released in the end and not before its *)
(* last user is gone, and an object in use is not terminated.              *)
(***************************************************************************)
EXTENDS ObjectLife, Integers, FiniteSetTheorems, SequenceTheorems, TLAPS

\* The labels of the calls that a thread is in, and of all but the topmost.
Doing(t) == {Height(stack[t], i) : i \in 1..Len(stack[t])}
Below(t) == {Height(stack[t], i) : i \in 1..(Len(stack[t]) - 1)}

Accessing == {"access_lock", "access_sleep", "access_check", "access_failed"}

\* A call that waits for the end of another is at one of five labels.
Callers == {"msg_free", "unpin", "ready", "refused", "finish"}

Nested == \A t \in Threads :
    /\ Below(t) \subseteq Callers
    /\ \A i \in 1..Len(stack[t]) : Height(stack[t], i) = "msg_free" => i = 1 /\ Messages

\* AccessObject() is called by code that is in no other call, or by msg_free().
AccessAtBottom == \A t \in Threads : ~Idle(t) /\ Head(stack[t]) \in Accessing =>
    \/ Len(stack[t]) = 1 /\ locks[t] < MaxLocks
    \/ Len(stack[t]) = 2 /\ Height(stack[t], 1) = "msg_free"

\* SharedObjectAccess is used by threads that have no pin.
SharedUnpinned == \A t \in Threads : At(t, "shared") => ~pins[t]

\* The threads that run msg_free() and have its lock.
Delivers(t) == "msg_free" \in Doing(t) /\ Doing(t) \cap Accessing = {}
Delivering  == {t \in Threads : Delivers(t)}

\* The lock that msg_free() does not give back.
Kept == IF defined("PERMIT_TERMINATE") THEN 1 ELSE 0

OwnLock == Locking \ {"msg_free"}

\* The threads that have a pin, and the calls at the labels in L.
Having(f) == {t \in Threads : f[t]}
Count(L)  == Cardinality(CallsIn(stack, L))

\* What the counters are to be.
PinsOwed  == Cardinality(Having(pins)) + Count(Pinning)
WeakOwed  == Cardinality(Having(weak)) + Count({"unpinWeak"})
LocksOwed == Cardinality(LocksOf(locks)) + Count(OwnLock) + Cardinality(Delivering) + Kept

\* A forced termination may leave a lock behind.
LocksAccounted == Queue >= LocksOwed /\ (~Messages => Queue = LocksOwed)

HasLock(t) == locks[t] > 0 \/ Delivers(t) \/ Doing(t) \cap OwnLock # {}

\* One thread at a time has the object locked.
OneHolder == \A t \in Threads : HasLock(t) => ThreadID = t

CountInv ==
    /\ TypeOK /\ Nested /\ AccessAtBottom /\ SharedUnpinned
    /\ PinsCounted /\ LocksAccounted /\ OneHolder
    /\ defined("PERMIT_TERMINATE") => Messages

-----------------------------------------------------------------------------
(* How a step of a thread changes the set of calls.                        *)

Stacks == [Threads -> Seq(Labels)]

\* One for a call that is counted.
W(l, L) == IF l \in L THEN 1 ELSE 0

\* Two labels are put on a stack one after the other.
LEMMA TwoLabels ==
    ASSUME NEW x \in Labels, NEW y \in Labels
    PROVE  /\ \A s \in Seq(Labels) : <<x, y>> \o s = <<x>> \o (<<y>> \o s)
           /\ <<x>> \o (<<y>> \o <<>>) = <<x, y>>
<1>1. /\ <<x>> \in Seq(Labels) /\ <<y>> \in Seq(Labels) /\ <<x, y>> \in Seq(Labels)
      /\ Len(<<x>>) = 1 /\ Len(<<y>>) = 1 /\ Len(<<x, y>>) = 2
  OBVIOUS
<1>2. <<x>> \o <<y>> = <<x, y>>
  <2>1. /\ <<x>> \o <<y>> \in Seq(Labels) /\ Len(<<x>> \o <<y>>) = 2
        /\ (<<x>> \o <<y>>)[1] = x /\ (<<x>> \o <<y>>)[2] = y
    BY <1>1, ConcatProperties
  <2>2. \A i \in 1..2 : (<<x>> \o <<y>>)[i] = <<x, y>>[i]
    BY <2>1
  <2>3. QED
    BY <1>1, <2>1, <2>2, SeqEqual
<1>3. ASSUME NEW s \in Seq(Labels) PROVE <<x, y>> \o s = <<x>> \o (<<y>> \o s)
  <2>1. (<<x>> \o <<y>>) \o s = <<x>> \o (<<y>> \o s)
    BY <1>1, ConcatAssociative
  <2>2. QED
    BY <1>2, <2>1
<1>4. <<y>> \o <<>> = <<y>>
  BY <1>1, ConcatEmptySeq
<1>5. QED
  BY <1>2, <1>3, <1>4

LEMMA CallMember ==
    ASSUME NEW S, NEW L, NEW t \in Threads, NEW i
    PROVE  <<t, i>> \in CallsIn(S, L) <=> i \in 1..Len(S[t]) /\ Height(S[t], i) \in L
  BY DEF CallsIn

LEMMA CallShape ==
    ASSUME NEW S, NEW L, NEW c \in CallsIn(S, L)
    PROVE  \E t, i : t \in Threads /\ c = <<t, i>>
  BY DEF CallsIn

LEMMA UnionFinite ==
    ASSUME NEW g, \A t \in Threads : IsFiniteSet(g[t])
    PROVE  IsFiniteSet(UNION {g[t] : t \in Threads})
<1> DEFINE h == [t \in Threads |-> g[t]]
<1>1. IsFiniteSet({g[t] : t \in Threads})
  <2>1. h \in Surjection(Threads, {g[t] : t \in Threads})
    BY DEF Surjection
  <2>2. QED
    BY <2>1, FS_Surjection, LifeAssumption
<1>2. \A x \in {g[t] : t \in Threads} : IsFiniteSet(x)
  OBVIOUS
<1>3. QED
  BY <1>1, <1>2, FS_UNION

LEMMA CallsFinite ==
    ASSUME NEW S \in Stacks, NEW L
    PROVE  IsFiniteSet(CallsIn(S, L)) /\ Cardinality(CallsIn(S, L)) \in Nat
<1> DEFINE F(t) == {<<t, i>> : i \in {j \in 1..Len(S[t]) : Height(S[t], j) \in L}}
           g    == [t \in Threads |-> F(t)]
<1>1. ASSUME NEW t \in Threads PROVE IsFiniteSet(F(t))
  <2>1. IsFiniteSet({t} \X (1..Len(S[t])))
    <3>1. Len(S[t]) \in Nat
      BY DEF Stacks
    <3>2. IsFiniteSet(1..Len(S[t]))
      BY <3>1, FS_Interval
    <3>3. IsFiniteSet({t})
      BY FS_Singleton
    <3>4. QED
      BY <3>2, <3>3, FS_Product
  <2>2. F(t) \subseteq {t} \X (1..Len(S[t]))
    OBVIOUS
  <2>3. QED
    BY <2>1, <2>2, FS_Subset
<1>2. IsFiniteSet(UNION {g[t] : t \in Threads})
  <2>1. \A t \in Threads : IsFiniteSet(g[t])
    BY <1>1
  <2> HIDE DEF g
  <2>2. QED
    BY <2>1, UnionFinite
<1>3. CallsIn(S, L) = UNION {g[t] : t \in Threads}
  BY DEF CallsIn
<1>4. QED
  BY <1>2, <1>3, FS_CardinalityType

\* Every step is made of these two.
Pop(S, t)     == [S EXCEPT ![t] = Tail(@)]
Push(S, t, x) == [S EXCEPT ![t] = <<x>> \o @]

LEMMA Popped ==
    ASSUME NEW S \in Stacks, NEW t \in Threads, S[t] # <<>>
    PROVE  /\ Pop(S, t) \in Stacks
           /\ Len(S[t]) \in Nat \ {0} /\ Len(Pop(S, t)[t]) = Len(S[t]) - 1
           /\ Head(S[t]) = Height(S[t], Len(S[t])) /\ Head(S[t]) \in Labels
           /\ \A i \in 1..(Len(S[t]) - 1) : Height(Pop(S, t)[t], i) = Height(S[t], i)
           /\ \A L : Cardinality(CallsIn(Pop(S, t), L))
                        = Cardinality(CallsIn(S, L)) - W(Head(S[t]), L)
<1> DEFINE n == Len(S[t])
           T == Pop(S, t)
<1>1. /\ T \in Stacks /\ n \in Nat \ {0} /\ T[t] = Tail(S[t])
      /\ Len(T[t]) = n - 1 /\ \A u \in Threads \ {t} : T[u] = S[u]
  BY DEF Stacks, Pop
<1>2. Head(S[t]) = Height(S[t], n) /\ Head(S[t]) \in Labels
  BY DEF Height, Stacks
<1>3. \A i \in 1..(n - 1) : Height(T[t], i) = Height(S[t], i)
  BY <1>1 DEF Height, Stacks
<1> HIDE DEF T
<1>4. ASSUME NEW L
      PROVE  Cardinality(CallsIn(T, L)) = Cardinality(CallsIn(S, L)) - W(Head(S[t]), L)
  <2>1. CallsIn(T, L) = CallsIn(S, L) \ {<<t, n>>}
    <3>1. ASSUME NEW u \in Threads, NEW i
          PROVE  <<u, i>> \in CallsIn(T, L) <=> <<u, i>> \in CallsIn(S, L) /\ <<u, i>> # <<t, n>>
      <4>1. <<u, i>> \in CallsIn(T, L) <=> i \in 1..Len(T[u]) /\ Height(T[u], i) \in L
        BY CallMember
      <4>2. <<u, i>> \in CallsIn(S, L) <=> i \in 1..Len(S[u]) /\ Height(S[u], i) \in L
        BY CallMember
      <4>3. CASE u = t
        <5>1. <<u, i>> \in CallsIn(T, L) <=> i \in 1..(n - 1) /\ Height(S[t], i) \in L
          BY <1>1, <1>3, <4>1, <4>3
        <5>2. i \in 1..n => (i \in 1..(n - 1) <=> i # n)
          BY <1>1
        <5>3. i \in 1..(n - 1) => i \in 1..n
          BY <1>1
        <5> HIDE DEF n
        <5>4. <<u, i>> \in CallsIn(S, L) <=> i \in 1..n /\ Height(S[t], i) \in L
          BY <4>2, <4>3 DEF n
        <5>5. QED
          BY <4>3, <5>1, <5>2, <5>3, <5>4
      <4>4. CASE u # t
        BY <1>1, <4>1, <4>2, <4>4
      <4>5. QED
        BY <4>3, <4>4
    <3>2. ASSUME NEW c \in CallsIn(T, L) PROVE c \in CallsIn(S, L) \ {<<t, n>>}
      <4>1. PICK u, i : u \in Threads /\ c = <<u, i>>
        BY <3>2, CallShape
      <4>2. QED
        BY <3>1, <3>2, <4>1
    <3>3. ASSUME NEW c \in CallsIn(S, L) \ {<<t, n>>} PROVE c \in CallsIn(T, L)
      <4>1. PICK u, i : u \in Threads /\ c = <<u, i>>
        BY <3>3, CallShape
      <4>2. QED
        BY <3>1, <3>3, <4>1
    <3>4. QED
      BY <3>2, <3>3
  <2>2. <<t, n>> \in CallsIn(S, L) <=> Head(S[t]) \in L
    <3>1. <<t, n>> \in CallsIn(S, L) <=> n \in 1..Len(S[t]) /\ Height(S[t], n) \in L
      BY CallMember
    <3>2. QED
      BY <1>1, <1>2, <3>1
  <2>3. IsFiniteSet(CallsIn(S, L)) /\ Cardinality(CallsIn(S, L)) \in Nat
    BY CallsFinite
  <2>4. Cardinality(CallsIn(S, L) \ {<<t, n>>}) =
            IF <<t, n>> \in CallsIn(S, L) THEN Cardinality(CallsIn(S, L)) - 1
                                        ELSE Cardinality(CallsIn(S, L))
    BY <2>3, FS_RemoveElement
  <2>5. W(Head(S[t]), L) = IF <<t, n>> \in CallsIn(S, L) THEN 1 ELSE 0
    BY <2>2 DEF W
  <2>6. Cardinality(CallsIn(T, L)) = Cardinality(CallsIn(S, L) \ {<<t, n>>})
    BY <2>1, Zenon
  <2> HIDE DEF n
  <2>7. CASE <<t, n>> \in CallsIn(S, L)
    BY <2>4, <2>5, <2>6, <2>7
  <2>8. CASE <<t, n>> \notin CallsIn(S, L)
    BY <2>3, <2>4, <2>5, <2>6, <2>8
  <2>9. QED
    BY <2>7, <2>8
<1>5. QED
  BY <1>1, <1>2, <1>3, <1>4 DEF T

LEMMA Pushed ==
    ASSUME NEW S \in Stacks, NEW t \in Threads, NEW x \in Labels
    PROVE  /\ Push(S, t, x) \in Stacks
           /\ Len(S[t]) \in Nat /\ Len(Push(S, t, x)[t]) = Len(S[t]) + 1
           /\ Head(Push(S, t, x)[t]) = x /\ Push(S, t, x)[t] # <<>>
           /\ Height(Push(S, t, x)[t], Len(S[t]) + 1) = x
           /\ \A i \in 1..Len(S[t]) : Height(Push(S, t, x)[t], i) = Height(S[t], i)
           /\ \A L : Cardinality(CallsIn(Push(S, t, x), L)) = Cardinality(CallsIn(S, L)) + W(x, L)
<1> DEFINE n == Len(S[t])
           T == Push(S, t, x)
<1>1. /\ T \in Stacks /\ n \in Nat /\ T[t] = <<x>> \o S[t]
      /\ \A u \in Threads \ {t} : T[u] = S[u]
  BY DEF Stacks, Push
<1>2. Len(T[t]) = n + 1 /\ Head(T[t]) = x /\ T[t] # <<>>
  BY <1>1 DEF Stacks
<1>3. Height(T[t], n + 1) = x
  BY <1>1, <1>2 DEF Height, Stacks
<1>4. \A i \in 1..n : Height(T[t], i) = Height(S[t], i)
  BY <1>1, <1>2 DEF Height, Stacks
<1> HIDE DEF T
<1>5. ASSUME NEW L
      PROVE  Cardinality(CallsIn(T, L)) = Cardinality(CallsIn(S, L)) + W(x, L)
  <2>1. CallsIn(T, L) = CallsIn(S, L) \cup (IF x \in L THEN {<<t, n + 1>>} ELSE {})
    <3>1. ASSUME NEW u \in Threads, NEW i
          PROVE  <<u, i>> \in CallsIn(T, L)
                    <=> <<u, i>> \in CallsIn(S, L) \/ (x \in L /\ <<u, i>> = <<t, n + 1>>)
      <4>1. <<u, i>> \in CallsIn(T, L) <=> i \in 1..Len(T[u]) /\ Height(T[u], i) \in L
        BY CallMember
      <4>2. <<u, i>> \in CallsIn(S, L) <=> i \in 1..Len(S[u]) /\ Height(S[u], i) \in L
        BY CallMember
      <4>3. CASE u = t
        <5>1. <<u, i>> \in CallsIn(T, L) <=> i \in 1..(n + 1) /\ Height(T[t], i) \in L
          BY <1>2, <4>1, <4>3
        <5>2. i \in 1..(n + 1) <=> i \in 1..n \/ i = n + 1
          BY <1>1
        <5> HIDE DEF n
        <5>3. <<u, i>> \in CallsIn(S, L) <=> i \in 1..n /\ Height(S[t], i) \in L
          BY <4>2, <4>3 DEF n
        <5>4. QED
          BY <1>3, <1>4, <4>3, <5>1, <5>2, <5>3
      <4>4. CASE u # t
        BY <1>1, <4>1, <4>2, <4>4
      <4>5. QED
        BY <4>3, <4>4
    <3>2. ASSUME NEW c \in CallsIn(T, L)
          PROVE  c \in CallsIn(S, L) \cup (IF x \in L THEN {<<t, n + 1>>} ELSE {})
      <4>1. PICK u, i : u \in Threads /\ c = <<u, i>>
        BY <3>2, CallShape
      <4>2. QED
        BY <3>1, <3>2, <4>1
    <3>3. ASSUME NEW c \in CallsIn(S, L) \cup (IF x \in L THEN {<<t, n + 1>>} ELSE {})
          PROVE  c \in CallsIn(T, L)
      <4>1. CASE c \in CallsIn(S, L)
        <5>1. PICK u, i : u \in Threads /\ c = <<u, i>>
          BY <4>1, CallShape
        <5>2. QED
          BY <3>1, <4>1, <5>1
      <4>2. CASE x \in L /\ c = <<t, n + 1>>
        BY <3>1, <4>2
      <4>3. QED
        BY <3>3, <4>1, <4>2
    <3>4. QED
      BY <3>2, <3>3
  <2>2. IsFiniteSet(CallsIn(S, L)) /\ Cardinality(CallsIn(S, L)) \in Nat
    BY CallsFinite
  <2>3. CASE x \in L
    <3>1. <<t, n + 1>> \notin CallsIn(S, L)
      <4>1. <<t, n + 1>> \in CallsIn(S, L) <=> n + 1 \in 1..Len(S[t]) /\ Height(S[t], n + 1) \in L
        BY CallMember
      <4>2. QED
        BY <1>1, <4>1
    <3>2. Cardinality(CallsIn(S, L) \cup {<<t, n + 1>>}) = Cardinality(CallsIn(S, L)) + 1
      BY <2>2, <3>1, FS_AddElement
    <3>3. CallsIn(T, L) = CallsIn(S, L) \cup {<<t, n + 1>>}
      BY <2>1, <2>3, Zenon
    <3>4. Cardinality(CallsIn(T, L)) = Cardinality(CallsIn(S, L) \cup {<<t, n + 1>>})
      BY <3>3, Zenon
    <3> HIDE DEF n
    <3>5. QED
      BY <2>3, <3>2, <3>4 DEF W
  <2>4. CASE x \notin L
    <3>1. CallsIn(T, L) = CallsIn(S, L)
      BY <2>1, <2>4, Zenon
    <3>2. Cardinality(CallsIn(T, L)) = Cardinality(CallsIn(S, L))
      BY <3>1, Zenon
    <3>3. QED
      BY <2>2, <2>4, <3>2 DEF W
  <2>5. QED
    BY <2>3, <2>4
<1>6. QED
  BY <1>1, <1>2, <1>3, <1>4, <1>5 DEF T

-----------------------------------------------------------------------------
(* The steps of a thread.                                                  *)

\* What is common to all of them: a thread changes its own stack only.
Alone(t) ==
    /\ stack' \in Stacks
    /\ \A u \in Threads \ {t} : stack'[u] = stack[u] /\ Doing(u)' = Doing(u) /\ Below(u)' = Below(u)

LEMMA Inside ==
    ASSUME stack \in Stacks, NEW t \in Threads
    PROVE  /\ Idle(t) => Doing(t) = {} /\ Below(t) = {}
           /\ ~Idle(t) => Doing(t) = Below(t) \cup {Head(stack[t])}
           /\ Doing(t) \subseteq Labels
           /\ Idle(t) <=> Len(stack[t]) = 0
<1>1. /\ Len(stack[t]) \in Nat /\ Idle(t) <=> Len(stack[t]) = 0
      /\ \A i \in 1..Len(stack[t]) : Height(stack[t], i) \in Labels
  BY DEF Stacks, Idle, Height
<1>2. ~Idle(t) => Head(stack[t]) = Height(stack[t], Len(stack[t]))
  BY Popped DEF Idle
<1>3. QED
  BY <1>1, <1>2 DEF Doing, Below

LEMMA Returns ==
    ASSUME stack \in Stacks, NEW t \in Threads, ~Idle(t), Return(t)
    PROVE  /\ Alone(t)
           /\ Len(stack[t]) \in Nat \ {0} /\ Len(stack'[t]) = Len(stack[t]) - 1
           /\ \A i \in 1..(Len(stack[t]) - 1) : Height(stack'[t], i) = Height(stack[t], i)
           /\ Doing(t)' = Below(t) /\ Below(t)' \subseteq Below(t)
           /\ ~Idle(t)' => Head(stack'[t]) = Height(stack[t], Len(stack[t]) - 1)
           /\ \A L : Count(L)' = Count(L) - W(Head(stack[t]), L)
<1>1. stack' = Pop(stack, t)
  BY DEF Return, Continue, Pop, Stacks, Idle
<1>2. /\ stack' \in Stacks
      /\ Len(stack[t]) \in Nat \ {0} /\ Len(stack'[t]) = Len(stack[t]) - 1
      /\ \A i \in 1..(Len(stack[t]) - 1) : Height(stack'[t], i) = Height(stack[t], i)
      /\ \A L : Count(L)' = Count(L) - W(Head(stack[t]), L)
  BY <1>1, Popped DEF Idle, Count
<1>3. Alone(t)
  BY <1>1, <1>2 DEF Alone, Doing, Below, Pop, Stacks
<1>4. Doing(t)' = Below(t) /\ Below(t)' \subseteq Below(t)
  BY <1>2 DEF Doing, Below
<1>5. ~Idle(t)' => Head(stack'[t]) = Height(stack[t], Len(stack[t]) - 1)
  <2>1. ~Idle(t)' => Head(stack'[t]) = Height(stack'[t], Len(stack'[t])) /\ Len(stack'[t]) \in Nat \ {0}
    BY <1>2, Popped DEF Idle
  <2>2. \A n, m : n \in Nat \ {0} /\ m = n - 1 /\ m # 0 => n - 1 \in 1..(n - 1)
    OBVIOUS
  <2>3. QED
    BY <1>2, <2>1, <2>2
<1>6. QED
  BY <1>2, <1>3, <1>4, <1>5

LEMMA GoesOn ==
    ASSUME stack \in Stacks, NEW t \in Threads, ~Idle(t), NEW x \in Labels, Continue(t, <<x>>)
    PROVE  /\ Alone(t)
           /\ Len(stack[t]) \in Nat \ {0} /\ Len(stack'[t]) = Len(stack[t])
           /\ \A i \in 1..(Len(stack[t]) - 1) : Height(stack'[t], i) = Height(stack[t], i)
           /\ ~Idle(t)' /\ Head(stack'[t]) = x /\ Height(stack'[t], Len(stack[t])) = x
           /\ Doing(t)' = Below(t) \cup {x} /\ Below(t)' = Below(t)
           /\ \A L : Count(L)' = Count(L) - W(Head(stack[t]), L) + W(x, L)
<1> DEFINE P == Pop(stack, t)
<1>1. stack' = Push(P, t, x)
  BY DEF Continue, Pop, Push, Stacks
<1>2. /\ P \in Stacks
      /\ Len(stack[t]) \in Nat \ {0} /\ Len(P[t]) = Len(stack[t]) - 1
      /\ \A i \in 1..(Len(stack[t]) - 1) : Height(P[t], i) = Height(stack[t], i)
      /\ \A L : Cardinality(CallsIn(P, L)) = Count(L) - W(Head(stack[t]), L)
  BY Popped DEF Idle, Count
<1>3. \A u \in Threads \ {t} : P[u] = stack[u]
  BY DEF Pop, Stacks
<1> HIDE DEF P
<1>4. /\ stack' \in Stacks
      /\ Len(stack'[t]) = Len(stack[t])
      /\ \A i \in 1..(Len(stack[t]) - 1) : Height(stack'[t], i) = Height(stack[t], i)
      /\ ~Idle(t)' /\ Head(stack'[t]) = x /\ Height(stack'[t], Len(stack[t])) = x
  <2>1. /\ stack' \in Stacks /\ Len(stack'[t]) = Len(P[t]) + 1
        /\ Head(stack'[t]) = x /\ stack'[t] # <<>> /\ Height(stack'[t], Len(P[t]) + 1) = x
        /\ \A i \in 1..Len(P[t]) : Height(stack'[t], i) = Height(P[t], i)
    BY <1>1, <1>2, Pushed
  <2>2. Len(P[t]) + 1 = Len(stack[t])
    BY <1>2
  <2>3. QED
    BY <1>2, <2>1, <2>2 DEF Idle
<1>5. \A L : Count(L)' = Count(L) - W(Head(stack[t]), L) + W(x, L)
  BY <1>1, <1>2, Pushed DEF Count
<1>6. Alone(t)
  BY <1>1, <1>3, <1>4 DEF Alone, Doing, Below, Push, Stacks
<1>7. Doing(t)' = Below(t) \cup {x} /\ Below(t)' = Below(t)
  BY <1>2, <1>4 DEF Doing, Below
<1>8. QED
  BY <1>2, <1>4, <1>5, <1>6, <1>7

LEMMA CallsTwo ==
    ASSUME stack \in Stacks, NEW t \in Threads, ~Idle(t), NEW x \in Labels, NEW y \in Labels,
           Continue(t, <<x, y>>)
    PROVE  /\ Alone(t)
           /\ Len(stack[t]) \in Nat \ {0} /\ Len(stack'[t]) = Len(stack[t]) + 1
           /\ \A i \in 1..(Len(stack[t]) - 1) : Height(stack'[t], i) = Height(stack[t], i)
           /\ ~Idle(t)' /\ Head(stack'[t]) = x
           /\ Height(stack'[t], Len(stack[t])) = y /\ Height(stack'[t], Len(stack[t]) + 1) = x
           /\ Doing(t)' = Below(t) \cup {x, y} /\ Below(t)' = Below(t) \cup {y}
           /\ \A L : Count(L)' = Count(L) - W(Head(stack[t]), L) + W(x, L) + W(y, L)
<1> DEFINE P == Pop(stack, t)
           Q == Push(P, t, y)
<1>1. stack' = Push(Q, t, x)
  <2>1. P \in Stacks /\ Tail(stack[t]) \in Seq(Labels)
    BY Popped DEF Idle, Stacks
  <2>2. <<x, y>> \o Tail(stack[t]) = <<x>> \o (<<y>> \o Tail(stack[t]))
    BY <2>1, TwoLabels
  <2>3. QED
    BY <2>2 DEF Continue, Pop, Push, Stacks
<1>2. /\ P \in Stacks
      /\ Len(stack[t]) \in Nat \ {0} /\ Len(P[t]) = Len(stack[t]) - 1
      /\ \A i \in 1..(Len(stack[t]) - 1) : Height(P[t], i) = Height(stack[t], i)
      /\ \A L : Cardinality(CallsIn(P, L)) = Count(L) - W(Head(stack[t]), L)
  BY Popped DEF Idle, Count
<1>3. \A u \in Threads \ {t} : P[u] = stack[u]
  BY DEF Pop, Stacks
<1> HIDE DEF P
<1>4. /\ Q \in Stacks
      /\ Len(Q[t]) = Len(stack[t])
      /\ \A i \in 1..(Len(stack[t]) - 1) : Height(Q[t], i) = Height(stack[t], i)
      /\ Height(Q[t], Len(stack[t])) = y
  BY <1>2, Pushed
<1>5. \A L : Cardinality(CallsIn(Q, L)) = Count(L) - W(Head(stack[t]), L) + W(y, L)
  BY <1>2, Pushed
<1>6. \A u \in Threads \ {t} : Q[u] = stack[u]
  BY <1>2, <1>3 DEF Push, Stacks
<1> HIDE DEF Q
<1>7. /\ stack' \in Stacks
      /\ Len(stack'[t]) = Len(stack[t]) + 1
      /\ \A i \in 1..Len(stack[t]) : Height(stack'[t], i) = Height(Q[t], i)
      /\ ~Idle(t)' /\ Head(stack'[t]) = x /\ Height(stack'[t], Len(stack[t]) + 1) = x
  BY <1>1, <1>4, Pushed DEF Idle
<1>8. /\ \A i \in 1..(Len(stack[t]) - 1) : Height(stack'[t], i) = Height(stack[t], i)
      /\ Height(stack'[t], Len(stack[t])) = y
  BY <1>2, <1>4, <1>7
<1>9. \A L : Count(L)' = Count(L) - W(Head(stack[t]), L) + W(x, L) + W(y, L)
  <2>1. ASSUME NEW L PROVE Count(L)' = Count(L) - W(Head(stack[t]), L) + W(x, L) + W(y, L)
    <3>1. Count(L)' = Cardinality(CallsIn(Q, L)) + W(x, L)
      BY <1>1, <1>4, Pushed DEF Count
    <3>2. Count(L) \in Nat
      BY CallsFinite DEF Count
    <3>3. QED
      BY <1>5, <3>1, <3>2 DEF W
  <2>2. QED
    BY <2>1
<1>10. Alone(t)
  BY <1>1, <1>6, <1>7 DEF Alone, Doing, Below, Push, Stacks
<1>11. Doing(t)' = Below(t) \cup {x, y} /\ Below(t)' = Below(t) \cup {y}
  BY <1>2, <1>7, <1>8 DEF Doing, Below
<1>12. QED
  BY <1>2, <1>7, <1>8, <1>9, <1>10, <1>11

LEMMA Begins ==
    ASSUME stack \in Stacks, NEW t \in Threads, NEW x \in Labels, Begin(t, <<x>>)
    PROVE  /\ Alone(t)
           /\ Idle(t) /\ ~Idle(t)' /\ Head(stack'[t]) = x
           /\ Len(stack'[t]) = 1 /\ Height(stack'[t], 1) = x
           /\ Doing(t)' = {x} /\ Below(t)' = {}
           /\ \A L : Count(L)' = Count(L) + W(x, L)
<1>1. stack' = Push(stack, t, x)
  BY DEF Begin, Idle, Push, Stacks
<1>2. Idle(t) /\ Len(stack[t]) = 0
  BY DEF Begin, Idle
<1>3. /\ stack' \in Stacks /\ ~Idle(t)' /\ Head(stack'[t]) = x
      /\ Len(stack'[t]) = 1 /\ Height(stack'[t], 1) = x
      /\ \A L : Count(L)' = Count(L) + W(x, L)
  <2> DEFINE T == Push(stack, t, x)
  <2>1. /\ T \in Stacks /\ T[t] # <<>> /\ Head(T[t]) = x /\ Len(T[t]) = Len(stack[t]) + 1
        /\ Height(T[t], Len(stack[t]) + 1) = x
        /\ \A L : Cardinality(CallsIn(T, L)) = Cardinality(CallsIn(stack, L)) + W(x, L)
    BY Pushed
  <2> HIDE DEF T
  <2>2. stack' = T
    BY <1>1 DEF T
  <2>3. QED
    BY <1>2, <2>1, <2>2 DEF Idle, Count
<1>4. Alone(t)
  BY <1>1, <1>3 DEF Alone, Doing, Below, Push, Stacks
<1>5. Doing(t)' = {x} /\ Below(t)' = {}
  BY <1>3 DEF Doing, Below
<1>6. QED
  BY <1>2, <1>3, <1>4, <1>5

LEMMA BeginsTwo ==
    ASSUME stack \in Stacks, NEW t \in Threads, NEW x \in Labels, NEW y \in Labels, Begin(t, <<x, y>>)
    PROVE  /\ Alone(t)
           /\ Idle(t) /\ ~Idle(t)' /\ Head(stack'[t]) = x
           /\ Len(stack'[t]) = 2 /\ Height(stack'[t], 1) = y /\ Height(stack'[t], 2) = x
           /\ Doing(t)' = {x, y} /\ Below(t)' = {y}
           /\ \A L : Count(L)' = Count(L) + W(x, L) + W(y, L)
<1> DEFINE Q == Push(stack, t, y)
<1>1. Idle(t) /\ Len(stack[t]) = 0
  BY DEF Begin, Idle
<1>2. stack' = Push(Q, t, x)
  <2>1. <<x>> \o (<<y>> \o <<>>) = <<x, y>>
    BY TwoLabels
  <2>2. QED
    BY <2>1 DEF Begin, Idle, Push, Stacks
<1>3. /\ Q \in Stacks /\ Len(Q[t]) = 1 /\ Height(Q[t], 1) = y
      /\ \A L : Cardinality(CallsIn(Q, L)) = Count(L) + W(y, L)
  <2>1. /\ Q \in Stacks /\ Len(Q[t]) = Len(stack[t]) + 1
        /\ Height(Q[t], Len(stack[t]) + 1) = y
        /\ \A L : Cardinality(CallsIn(Q, L)) = Cardinality(CallsIn(stack, L)) + W(y, L)
    BY Pushed
  <2> HIDE DEF Q
  <2>2. QED
    BY <1>1, <2>1 DEF Count
<1>4. \A u \in Threads \ {t} : Q[u] = stack[u]
  BY DEF Push, Stacks
<1> HIDE DEF Q
<1>5. /\ stack' \in Stacks /\ ~Idle(t)' /\ Head(stack'[t]) = x
      /\ Len(stack'[t]) = 2 /\ Height(stack'[t], 1) = y /\ Height(stack'[t], 2) = x
  <2> DEFINE T == Push(Q, t, x)
  <2>1. /\ T \in Stacks /\ T[t] # <<>> /\ Head(T[t]) = x /\ Len(T[t]) = Len(Q[t]) + 1
        /\ Height(T[t], Len(Q[t]) + 1) = x
        /\ \A i \in 1..Len(Q[t]) : Height(T[t], i) = Height(Q[t], i)
    BY <1>3, Pushed
  <2> HIDE DEF T
  <2>2. stack' = T
    BY <1>2 DEF T
  <2>3. QED
    BY <1>3, <2>1, <2>2 DEF Idle
<1>6. \A L : Count(L)' = Count(L) + W(x, L) + W(y, L)
  <2>1. ASSUME NEW L PROVE Count(L)' = Count(L) + W(x, L) + W(y, L)
    <3>1. Count(L)' = Cardinality(CallsIn(Q, L)) + W(x, L)
      BY <1>2, <1>3, Pushed DEF Count
    <3>2. Count(L) \in Nat
      BY CallsFinite DEF Count
    <3>3. QED
      BY <1>3, <3>1, <3>2 DEF W
  <2>2. QED
    BY <2>1
<1>7. Alone(t)
  BY <1>2, <1>4, <1>5 DEF Alone, Doing, Below, Push, Stacks
<1>8. Doing(t)' = {x, y} /\ Below(t)' = {y}
  BY <1>5 DEF Doing, Below
<1>9. QED
  BY <1>1, <1>5, <1>6, <1>7, <1>8

\* AccessObject() fails: the rest of the stack goes, too.
LEMMA Forgets ==
    ASSUME stack \in Stacks, NEW t \in Threads, ~Idle(t),
           \/ Len(stack[t]) = 1
           \/ Len(stack[t]) = 2 /\ Height(stack[t], 1) = "msg_free"
    PROVE  LET U == [stack EXCEPT ![t] = <<>>]
           IN  /\ U \in Stacks
               /\ \A L : "msg_free" \notin L =>
                      Cardinality(CallsIn(U, L)) = Count(L) - W(Head(stack[t]), L)
<1> DEFINE U == [stack EXCEPT ![t] = <<>>]
           P == Pop(stack, t)
<1>1. /\ P \in Stacks
      /\ Len(stack[t]) \in Nat \ {0} /\ Len(P[t]) = Len(stack[t]) - 1
      /\ \A i \in 1..(Len(stack[t]) - 1) : Height(P[t], i) = Height(stack[t], i)
      /\ \A L : Cardinality(CallsIn(P, L)) = Count(L) - W(Head(stack[t]), L)
  BY Popped DEF Idle, Count
<1>2. U \in Stacks
  BY DEF Stacks
<1>3. \A u \in Threads \ {t} : P[u] = stack[u]
  BY DEF Pop, Stacks
<1>4. CASE Len(stack[t]) = 1
  <2>1. P[t] = <<>>
    BY <1>1, <1>4 DEF Stacks
  <2>2. U = P
    BY <1>1, <2>1, <1>3 DEF Stacks, Pop
  <2>3. QED
    BY <1>1, <1>2, <2>2
<1>5. CASE Len(stack[t]) = 2 /\ Height(stack[t], 1) = "msg_free"
  <2> DEFINE R == Pop(P, t)
  <2>1. P[t] # <<>> /\ Len(P[t]) = 1 /\ Height(P[t], 1) = "msg_free"
    BY <1>1, <1>5
  <2>2. /\ R \in Stacks /\ Len(R[t]) = 0 /\ Head(P[t]) = "msg_free"
        /\ \A L : Cardinality(CallsIn(R, L)) = Cardinality(CallsIn(P, L)) - W("msg_free", L)
    <3> HIDE DEF P
    <3>1. /\ R \in Stacks /\ Len(R[t]) = Len(P[t]) - 1 /\ Head(P[t]) = Height(P[t], Len(P[t]))
          /\ \A L : Cardinality(CallsIn(R, L)) = Cardinality(CallsIn(P, L)) - W(Head(P[t]), L)
      BY <1>1, <2>1, Popped
    <3> HIDE DEF R
    <3>2. QED
      BY <2>1, <3>1
  <2>3. U = R
    <3>1. R[t] = <<>>
      BY <2>2 DEF Stacks
    <3>2. \A u \in Threads \ {t} : R[u] = stack[u]
      BY <1>3, <1>1 DEF Pop, Stacks
    <3> HIDE DEF R
    <3>3. QED
      BY <2>2, <3>1, <3>2 DEF Stacks
  <2>4. ASSUME NEW L, "msg_free" \notin L
        PROVE  Cardinality(CallsIn(U, L)) = Count(L) - W(Head(stack[t]), L)
    <3>1. Cardinality(CallsIn(R, L)) = Cardinality(CallsIn(P, L)) - W("msg_free", L)
      BY <2>2
    <3>2. Cardinality(CallsIn(P, L)) \in Nat
      BY <1>1, CallsFinite
    <3>3. Cardinality(CallsIn(P, L)) = Count(L) - W(Head(stack[t]), L)
      BY <1>1
    <3>4. Cardinality(CallsIn(U, L)) = Cardinality(CallsIn(R, L))
      BY <2>3, Zenon
    <3> HIDE DEF U, R, P
    <3>5. QED
      BY <2>4, <3>1, <3>2, <3>3, <3>4 DEF W
  <2>5. QED
    BY <1>2, <2>4
<1>6. QED
  BY <1>4, <1>5

LEMMA Fails ==
    ASSUME stack \in Stacks, NEW t \in Threads, ~Idle(t),
           \/ Len(stack[t]) = 1
           \/ Len(stack[t]) = 2 /\ Height(stack[t], 1) = "msg_free",
           stack' = [stack EXCEPT ![t] = FailedAccess]
    PROVE  /\ Alone(t)
           /\ ~Idle(t)' /\ Head(stack'[t]) = "unpin" /\ Len(stack'[t]) = 2
           /\ Height(stack'[t], 1) = "ready" /\ Height(stack'[t], 2) = "unpin"
           /\ Doing(t)' = {"unpin", "ready"} /\ Below(t)' = {"ready"}
           /\ \A L : "msg_free" \notin L =>
                 Count(L)' = Count(L) - W(Head(stack[t]), L) + W("unpin", L) + W("ready", L)
<1> DEFINE U == [stack EXCEPT ![t] = <<>>]
           Q == Push(U, t, "ready")
<1>1. /\ U \in Stacks
      /\ \A L : "msg_free" \notin L => Cardinality(CallsIn(U, L)) = Count(L) - W(Head(stack[t]), L)
  BY Forgets
<1>2. U[t] = <<>> /\ Len(U[t]) = 0 /\ \A u \in Threads \ {t} : U[u] = stack[u]
  BY DEF Stacks
<1>3. /\ Q \in Stacks /\ Len(Q[t]) = Len(U[t]) + 1 /\ Height(Q[t], Len(U[t]) + 1) = "ready"
      /\ \A L : Cardinality(CallsIn(Q, L)) = Cardinality(CallsIn(U, L)) + W("ready", L)
  <2> HIDE DEF U
  <2>1. "ready" \in Labels
    BY DEF Labels
  <2>2. QED
    BY <1>1, <2>1, Pushed
<1> DEFINE T == Push(Q, t, "unpin")
<1>4. /\ T \in Stacks /\ T[t] # <<>> /\ Head(T[t]) = "unpin" /\ Len(T[t]) = Len(Q[t]) + 1
      /\ Height(T[t], Len(Q[t]) + 1) = "unpin"
      /\ \A i \in 1..Len(Q[t]) : Height(T[t], i) = Height(Q[t], i)
      /\ \A L : Cardinality(CallsIn(T, L)) = Cardinality(CallsIn(Q, L)) + W("unpin", L)
  <2> HIDE DEF Q
  <2>1. "unpin" \in Labels
    BY DEF Labels
  <2>2. QED
    BY <1>3, <2>1, Pushed
<1>5. stack' = T
  <2>1. <<"unpin">> \o (<<"ready">> \o <<>>) = <<"unpin", "ready">>
    BY TwoLabels DEF Labels
  <2>2. QED
    BY <2>1 DEF FailedAccess, Push, Stacks
<1>6. \A u \in Threads \ {t} : T[u] = stack[u]
  BY <1>2 DEF Push, Stacks
<1> HIDE DEF T, Q, U
<1>7. /\ stack' \in Stacks /\ ~Idle(t)' /\ Head(stack'[t]) = "unpin" /\ Len(stack'[t]) = 2
      /\ Height(stack'[t], 1) = "ready" /\ Height(stack'[t], 2) = "unpin"
  <2>1. Len(Q[t]) = 1 /\ Height(Q[t], 1) = "ready"
    BY <1>2, <1>3
  <2>2. Len(T[t]) = 2 /\ Height(T[t], 2) = "unpin" /\ Height(T[t], 1) = "ready"
    BY <1>4, <2>1
  <2>3. QED
    BY <1>4, <1>5, <2>2 DEF Idle
<1>8. ASSUME NEW L, "msg_free" \notin L
      PROVE  Count(L)' = Count(L) - W(Head(stack[t]), L) + W("unpin", L) + W("ready", L)
  <2>1. Count(L) \in Nat
    BY CallsFinite DEF Count
  <2>2. Cardinality(CallsIn(U, L)) = Count(L) - W(Head(stack[t]), L)
    BY <1>1, <1>8
  <2>3. Cardinality(CallsIn(Q, L)) = Cardinality(CallsIn(U, L)) + W("ready", L)
    BY <1>3
  <2>4. Count(L)' = Cardinality(CallsIn(Q, L)) + W("unpin", L)
    BY <1>4, <1>5 DEF Count
  <2>5. QED
    BY <2>1, <2>2, <2>3, <2>4 DEF W
<1>9. Alone(t)
  BY <1>5, <1>6, <1>7 DEF Alone, Doing, Below
<1>10. Doing(t)' = {"unpin", "ready"} /\ Below(t)' = {"ready"}
  <2>1. 1..2 = {1, 2} /\ 1..(2 - 1) = {1}
    OBVIOUS
  <2>2. QED
    BY <1>7, <2>1 DEF Doing, Below
<1>11. QED
  BY <1>7, <1>8, <1>9, <1>10

LEMMA FailsLocked ==
    ASSUME stack \in Stacks, NEW t \in Threads, ~Idle(t),
           \/ Len(stack[t]) = 1
           \/ Len(stack[t]) = 2 /\ Height(stack[t], 1) = "msg_free",
           stack' = [stack EXCEPT ![t] = MarkedAccess]
    PROVE  /\ Alone(t)
           /\ ~Idle(t)' /\ Head(stack'[t]) = "release" /\ Len(stack'[t]) = 3
           /\ Height(stack'[t], 1) = "ready" /\ Height(stack'[t], 2) = "unpin"
           /\ Height(stack'[t], 3) = "release"
           /\ Doing(t)' = {"release", "unpin", "ready"} /\ Below(t)' = {"unpin", "ready"}
           /\ \A L : "msg_free" \notin L =>
                 Count(L)' = Count(L) - W(Head(stack[t]), L)
                              + W("unpin", L) + W("ready", L) + W("release", L)
<1> DEFINE U == [stack EXCEPT ![t] = <<>>]
           Q == Push(U, t, "ready")
<1>1. /\ U \in Stacks
      /\ \A L : "msg_free" \notin L => Cardinality(CallsIn(U, L)) = Count(L) - W(Head(stack[t]), L)
  BY Forgets
<1>2. U[t] = <<>> /\ Len(U[t]) = 0 /\ \A u \in Threads \ {t} : U[u] = stack[u]
  BY DEF Stacks
<1>3. /\ Q \in Stacks /\ Len(Q[t]) = Len(U[t]) + 1 /\ Height(Q[t], Len(U[t]) + 1) = "ready"
      /\ \A L : Cardinality(CallsIn(Q, L)) = Cardinality(CallsIn(U, L)) + W("ready", L)
  <2> HIDE DEF U
  <2>1. "ready" \in Labels
    BY DEF Labels
  <2>2. QED
    BY <1>1, <2>1, Pushed
<1> DEFINE T == Push(Q, t, "unpin")
<1>4. /\ T \in Stacks /\ T[t] # <<>> /\ Head(T[t]) = "unpin" /\ Len(T[t]) = Len(Q[t]) + 1
      /\ Height(T[t], Len(Q[t]) + 1) = "unpin"
      /\ \A i \in 1..Len(Q[t]) : Height(T[t], i) = Height(Q[t], i)
      /\ \A L : Cardinality(CallsIn(T, L)) = Cardinality(CallsIn(Q, L)) + W("unpin", L)
  <2>1. "unpin" \in Labels
    BY DEF Labels
  <2> HIDE DEF Q
  <2>2. Q \in Stacks
    BY <1>3
  <2>3. QED
    BY <2>1, <2>2, Pushed
<1> DEFINE V == Push(T, t, "release")
<1>5. /\ V \in Stacks /\ V[t] # <<>> /\ Head(V[t]) = "release" /\ Len(V[t]) = Len(T[t]) + 1
      /\ Height(V[t], Len(T[t]) + 1) = "release"
      /\ \A i \in 1..Len(T[t]) : Height(V[t], i) = Height(T[t], i)
      /\ \A L : Cardinality(CallsIn(V, L)) = Cardinality(CallsIn(T, L)) + W("release", L)
  <2>1. "release" \in Labels
    BY DEF Labels
  <2> HIDE DEF T
  <2>2. T \in Stacks
    BY <1>4
  <2>3. QED
    BY <2>1, <2>2, Pushed
<1>6. stack' = V
  <2>1. <<"unpin">> \o (<<"ready">> \o <<>>) = <<"unpin", "ready">>
    BY TwoLabels DEF Labels
  <2>2. QED
    BY <2>1 DEF FailedAccess, MarkedAccess, Push, Stacks
<1>7. \A u \in Threads \ {t} : V[u] = stack[u]
  BY <1>2 DEF Push, Stacks
<1> HIDE DEF V, T, Q, U
<1>8. /\ stack' \in Stacks /\ ~Idle(t)' /\ Head(stack'[t]) = "release" /\ Len(stack'[t]) = 3
      /\ Height(stack'[t], 3) = "release"
      /\ Height(stack'[t], 1) = "ready" /\ Height(stack'[t], 2) = "unpin"
  <2>1. Len(Q[t]) = 1 /\ Height(Q[t], 1) = "ready"
    BY <1>2, <1>3
  <2>2. Len(T[t]) = 2 /\ Height(T[t], 2) = "unpin" /\ Height(T[t], 1) = "ready"
    BY <1>4, <2>1
  <2>3. Len(V[t]) = 3 /\ Height(V[t], 3) = "release"
        /\ Height(V[t], 2) = "unpin" /\ Height(V[t], 1) = "ready"
    BY <1>5, <2>2
  <2>4. QED
    BY <1>5, <1>6, <2>3 DEF Idle
<1>9. ASSUME NEW L, "msg_free" \notin L
      PROVE  Count(L)' = Count(L) - W(Head(stack[t]), L)
                          + W("unpin", L) + W("ready", L) + W("release", L)
  <2>1. Count(L) \in Nat
    BY CallsFinite DEF Count
  <2>2. Cardinality(CallsIn(U, L)) = Count(L) - W(Head(stack[t]), L)
    BY <1>1, <1>9
  <2>3. /\ Cardinality(CallsIn(Q, L)) = Cardinality(CallsIn(U, L)) + W("ready", L)
        /\ Cardinality(CallsIn(T, L)) = Cardinality(CallsIn(Q, L)) + W("unpin", L)
    BY <1>3, <1>4
  <2>4. Count(L)' = Cardinality(CallsIn(T, L)) + W("release", L)
    BY <1>5, <1>6 DEF Count
  <2>5. QED
    BY <2>1, <2>2, <2>3, <2>4 DEF W
<1>10. Alone(t)
  BY <1>6, <1>7, <1>8 DEF Alone, Doing, Below
<1>11. Doing(t)' = {"release", "unpin", "ready"} /\ Below(t)' = {"unpin", "ready"}
  <2>1. 1..3 = {1, 2, 3} /\ 1..(3 - 1) = {1, 2}
    OBVIOUS
  <2>2. QED
    BY <1>8, <2>1 DEF Doing, Below
<1>12. QED
  BY <1>8, <1>9, <1>10, <1>11
-----------------------------------------------------------------------------
(* The locks and pins of the callers.                                      *)

LEMMA Toggle ==
    ASSUME NEW f \in [Threads -> BOOLEAN], NEW t \in Threads
    PROVE  /\ Cardinality(Having(f)) \in Nat
           /\ ~f[t] => Cardinality(Having([f EXCEPT ![t] = TRUE])) = Cardinality(Having(f)) + 1
           /\ f[t] => Cardinality(Having([f EXCEPT ![t] = FALSE])) = Cardinality(Having(f)) - 1
<1>1. IsFiniteSet(Having(f)) /\ Cardinality(Having(f)) \in Nat
  BY FS_Subset, FS_CardinalityType, LifeAssumption DEF Having
<1>2. CASE ~f[t]
  <2>1. Having([f EXCEPT ![t] = TRUE]) = Having(f) \cup {t} /\ t \notin Having(f)
    BY <1>2 DEF Having
  <2>2. Cardinality(Having(f) \cup {t}) = Cardinality(Having(f)) + 1
    BY <1>1, <2>1, FS_AddElement
  <2>3. QED
    BY <1>1, <1>2, <2>1, <2>2
<1>3. CASE f[t]
  <2>1. Having([f EXCEPT ![t] = FALSE]) = Having(f) \ {t} /\ t \in Having(f)
    BY <1>3 DEF Having
  <2>2. Cardinality(Having(f) \ {t}) = Cardinality(Having(f)) - 1
    BY <1>1, <2>1, FS_RemoveElement
  <2>3. QED
    BY <1>1, <1>3, <2>1, <2>2
<1>4. QED
  BY <1>1, <1>2, <1>3

LEMMA LocksFinite ==
    ASSUME NEW l \in [Threads -> Nat]
    PROVE  IsFiniteSet(LocksOf(l)) /\ Cardinality(LocksOf(l)) \in Nat
<1> DEFINE g == [t \in Threads |-> {<<t, i>> : i \in 1..l[t]}]
<1>1. ASSUME NEW t \in Threads PROVE IsFiniteSet(g[t])
  <2>1. IsFiniteSet(1..l[t])
    BY FS_Interval
  <2>2. IsFiniteSet({t})
    BY FS_Singleton
  <2>3. IsFiniteSet({t} \X (1..l[t]))
    BY <2>1, <2>2, FS_Product
  <2>4. g[t] = {t} \X (1..l[t])
    OBVIOUS
  <2>5. QED
    BY <2>3, <2>4
<1>2. IsFiniteSet(UNION {g[t] : t \in Threads})
  <2> HIDE DEF g
  <2>1. QED
    BY <1>1, UnionFinite
<1>3. LocksOf(l) = UNION {g[t] : t \in Threads}
  BY DEF LocksOf
<1>4. QED
  BY <1>2, <1>3, FS_CardinalityType

LEMMA LockTaken ==
    ASSUME NEW l \in [Threads -> Nat], NEW t \in Threads
    PROVE  /\ Cardinality(LocksOf([l EXCEPT ![t] = @ + 1])) = Cardinality(LocksOf(l)) + 1
           /\ l[t] > 0 =>
                 Cardinality(LocksOf([l EXCEPT ![t] = @ - 1])) = Cardinality(LocksOf(l)) - 1
<1>1. ASSUME NEW k \in [Threads -> Nat]
      PROVE  Cardinality(LocksOf([k EXCEPT ![t] = @ + 1])) = Cardinality(LocksOf(k)) + 1
  <2>1. LocksOf([k EXCEPT ![t] = @ + 1]) = LocksOf(k) \cup {<<t, k[t] + 1>>}
    BY DEF LocksOf
  <2>2. <<t, k[t] + 1>> \notin LocksOf(k)
    BY DEF LocksOf
  <2>3. Cardinality(LocksOf(k) \cup {<<t, k[t] + 1>>}) = Cardinality(LocksOf(k)) + 1
    BY <2>2, LocksFinite, FS_AddElement
  <2>4. QED
    BY <2>1, <2>3, Zenon
<1>2. ASSUME l[t] > 0
      PROVE  Cardinality(LocksOf([l EXCEPT ![t] = @ - 1])) = Cardinality(LocksOf(l)) - 1
  <2> DEFINE k == [l EXCEPT ![t] = @ - 1]
  <2>1. k \in [Threads -> Nat] /\ [k EXCEPT ![t] = @ + 1] = l
    <3>1. l[t] - 1 \in Nat /\ (l[t] - 1) + 1 = l[t]
      BY <1>2
    <3>2. k[t] = l[t] - 1 /\ k = [l EXCEPT ![t] = l[t] - 1]
      OBVIOUS
    <3>3. k \in [Threads -> Nat]
      BY <3>1, <3>2
    <3>4. [k EXCEPT ![t] = @ + 1] = l
      BY <3>1, <3>2
    <3>5. QED
      BY <3>3, <3>4
  <2> HIDE DEF k
  <2>2. Cardinality(LocksOf([k EXCEPT ![t] = @ + 1])) = Cardinality(LocksOf(k)) + 1
    BY <1>1, <2>1
  <2>3. Cardinality(LocksOf(k)) \in Nat
    BY <2>1, LocksFinite
  <2>4. Cardinality(LocksOf(l)) = Cardinality(LocksOf(k)) + 1
    BY <2>1, <2>2, Zenon
  <2>5. Cardinality(LocksOf(k)) = Cardinality(LocksOf(l)) - 1
    BY <2>3, <2>4
  <2>6. QED
    BY <2>5 DEF k
<1>3. QED
  BY <1>1, <1>2
-----------------------------------------------------------------------------
(* The steps that leave AccessObject() and msg_free() alone.               *)

\* What the sums depend on.
Sums == stack \in Stacks /\ locks \in [Threads -> Nat]

LEMMA Owed ==
    Sums => /\ PinsOwed \in Nat /\ WeakOwed \in Nat /\ LocksOwed \in Nat
            /\ Cardinality(Delivering) \in Nat
            /\ Cardinality(Having(pins)) \in Nat /\ Cardinality(Having(weak)) \in Nat
            /\ Cardinality(LocksOf(locks)) \in Nat
<1> SUFFICES ASSUME Sums
             PROVE  /\ PinsOwed \in Nat /\ WeakOwed \in Nat /\ LocksOwed \in Nat
                    /\ Cardinality(Delivering) \in Nat
                    /\ Cardinality(Having(pins)) \in Nat /\ Cardinality(Having(weak)) \in Nat
                    /\ Cardinality(LocksOf(locks)) \in Nat
  OBVIOUS
<1>1. \A L : Count(L) \in Nat
  BY CallsFinite DEF Sums, Count
<1>2. Cardinality(Having(pins)) \in Nat /\ Cardinality(Having(weak)) \in Nat
  <2>1. IsFiniteSet(Having(pins)) /\ IsFiniteSet(Having(weak))
    BY FS_Subset, LifeAssumption DEF Having
  <2>2. QED
    BY <2>1, FS_CardinalityType
<1>3. Cardinality(LocksOf(locks)) \in Nat
  BY LocksFinite DEF Sums
<1>4. Cardinality(Delivering) \in Nat
  <2>1. IsFiniteSet(Delivering)
    BY FS_Subset, LifeAssumption DEF Delivering
  <2>2. QED
    BY <2>1, FS_CardinalityType
<1>5. QED
  BY <1>1, <1>2, <1>3, <1>4 DEF PinsOwed, WeakOwed, LocksOwed, Kept

LEMMA OwedNext ==
    (Sums => /\ PinsOwed \in Nat /\ WeakOwed \in Nat /\ LocksOwed \in Nat
             /\ Cardinality(Delivering) \in Nat)'
<1>1. Sums => /\ PinsOwed \in Nat /\ WeakOwed \in Nat /\ LocksOwed \in Nat
              /\ Cardinality(Delivering) \in Nat
  BY Owed
<1>2. QED
  BY <1>1, PTL

LEMMA PinsAreOwed == PinsCounted <=> Strong = PinsOwed /\ Weak = WeakOwed
  BY DEF PinsCounted, PinsOwed, WeakOwed, Having, Count, Calls

LEMMA PinsAreOwedNext == (PinsCounted <=> Strong = PinsOwed /\ Weak = WeakOwed)'
<1>1. PinsCounted <=> Strong = PinsOwed /\ Weak = WeakOwed
  BY PinsAreOwed
<1>2. QED
  BY <1>1, PTL

\* An object that is not locked: nobody has a lock of it.
LEMMA NobodyHolds ==
    ASSUME CountInv, Queue = 0
    PROVE  /\ \A t \in Threads : ~HasLock(t)
           /\ ~defined("PERMIT_TERMINATE")
<1>1. stack \in Stacks /\ locks \in [Threads -> Nat]
  BY LifeAssumption DEF CountInv, TypeOK, Stacks
<1>2. LocksOwed <= 0
  BY DEF CountInv, LocksAccounted
<1>3. /\ Count(OwnLock) \in Nat /\ Cardinality(LocksOf(locks)) \in Nat
      /\ Cardinality(Delivering) \in Nat
  BY <1>1, CallsFinite, Owed DEF Count, Sums
<1>4. Count(OwnLock) = 0 /\ Cardinality(LocksOf(locks)) = 0 /\ Cardinality(Delivering) = 0 /\ Kept = 0
  BY <1>2, <1>3 DEF LocksOwed, Kept
<1>5. CallsIn(stack, OwnLock) = {}
  BY <1>1, <1>4, CallsFinite, FS_EmptySet DEF Count
<1>6. LocksOf(locks) = {}
  BY <1>1, <1>4, LocksFinite, FS_EmptySet
<1>7. Delivering = {}
  <2>1. IsFiniteSet(Delivering)
    BY FS_Subset, LifeAssumption DEF Delivering
  <2>2. QED
    BY <1>4, <2>1, FS_EmptySet
<1>8. ASSUME NEW t \in Threads PROVE ~HasLock(t)
  <2>1. Doing(t) \cap OwnLock = {}
    <3>1. \A i \in 1..Len(stack[t]) : Height(stack[t], i) \notin OwnLock
      BY <1>5, CallMember
    <3>2. QED
      BY <3>1 DEF Doing
  <2>2. ~(locks[t] > 0)
    <3>1. SUFFICES ASSUME locks[t] > 0 PROVE FALSE
      OBVIOUS
    <3>2. <<t, 1>> \in LocksOf(locks)
      BY <1>1, <3>1 DEF LocksOf
    <3>3. QED
      BY <1>6, <3>2
  <2>3. ~Delivers(t)
    BY <1>7 DEF Delivering
  <2>4. QED
    BY <2>1, <2>2, <2>3 DEF HasLock
<1>9. QED
  BY <1>4, <1>8 DEF Kept

\* The counters keep up with the calls.
LEMMA Recount ==
    ASSUME CountInv, stack' \in Stacks, locks' \in [Threads -> 0..MaxLocks],
           Nested', AccessAtBottom', SharedUnpinned', OneHolder',
           defined("PERMIT_TERMINATE")' => Messages,
           NEW p \in Int, PinsOwed' = PinsOwed + p, Strong' = Strong + p,
           NEW w \in Int, WeakOwed' = WeakOwed + w, Weak' = Weak + w,
           NEW l \in Int, LocksOwed' = LocksOwed + l, Queue' = Queue + l,
           Strong' \in Nat /\ Weak' \in Nat /\ Queue' \in Nat => TypeOK'
    PROVE  CountInv'
<1>1. PinsOwed' \in Nat /\ WeakOwed' \in Nat /\ LocksOwed' \in Nat
  <2>1. Sums'
    BY LifeAssumption DEF Sums, Stacks
  <2>2. QED
    BY <2>1, OwedNext
<1>2. PinsOwed \in Nat /\ WeakOwed \in Nat /\ LocksOwed \in Nat
  <2>1. Sums
    BY LifeAssumption DEF Sums, CountInv, TypeOK, Stacks
  <2>2. QED
    BY <2>1, Owed
<1>3. Strong' = PinsOwed' /\ Weak' = WeakOwed'
  BY PinsAreOwed DEF CountInv
<1>4. Queue' >= LocksOwed' /\ (~Messages => Queue' = LocksOwed')
  BY <1>1, <1>2 DEF CountInv, TypeOK, LocksAccounted
<1>5. Queue' \in Nat
  BY <1>1, <1>4 DEF CountInv, TypeOK
<1>6. TypeOK' /\ PinsCounted' /\ LocksAccounted'
  BY <1>1, <1>3, <1>4, <1>5, PinsAreOwedNext DEF LocksAccounted
<1>7. QED
  BY <1>6 DEF CountInv

\* Accesses and deliveries, and the nesting, are as they were.
Plain(t) ==
    /\ Alone(t)
    /\ Nested' /\ AccessAtBottom' /\ SharedUnpinned'
    /\ \A u \in Threads : Delivers(u)' <=> Delivers(u)

\* Whether AccessObject() and SharedObjectAccess are where they may be.
Placed == Nested /\ AccessAtBottom /\ SharedUnpinned

OthersKept(t) == \A u \in Threads \ {t} : locks'[u] = locks[u] /\ pins'[u] = pins[u]

LEMMA Plainly ==
    ASSUME Placed, NEW t \in Threads, Alone(t), OthersKept(t),
           Doing(t) \cap Accessing = {}, Doing(t)' \cap Accessing = {},
           "msg_free" \in Doing(t)' <=> "msg_free" \in Doing(t),
           Below(t)' \subseteq Callers,
           "shared" \in Doing(t)' => ~pins'[t],
           \A i \in 1..Len(stack'[t]) : Height(stack'[t], i) = "msg_free" => i = 1 /\ Messages
    PROVE  Plain(t)
<1>1. \A u \in Threads \ {t} : stack'[u] = stack[u] /\ Doing(u)' = Doing(u) /\ Below(u)' = Below(u)
  BY DEF Alone
<1>2. Nested'
  BY <1>1 DEF Nested, Placed
<1>3. ~Idle(t)' => Head(stack'[t]) \in Doing(t)'
  <2>1. ~Idle(t)' => Len(stack'[t]) \in Nat \ {0} /\ Head(stack'[t]) = Height(stack'[t], Len(stack'[t]))
    BY Popped DEF Alone, Idle
  <2>2. QED
    BY <2>1 DEF Doing
<1>4. AccessAtBottom'
  BY <1>1, <1>3 DEF AccessAtBottom, OthersKept, Idle, Placed
<1>5. SharedUnpinned'
  BY <1>1, <1>3 DEF SharedUnpinned, OthersKept, At, Idle, Placed
<1>6. \A u \in Threads : Delivers(u)' <=> Delivers(u)
  BY <1>1 DEF Delivers
<1>7. QED
  BY <1>2, <1>4, <1>5, <1>6 DEF Plain

LEMMA PlainReturns ==
    ASSUME stack \in Stacks, Placed, NEW t \in Threads, OthersKept(t),
           ~Idle(t), Head(stack[t]) \notin Accessing \cup {"msg_free"}, Return(t)
    PROVE  /\ Plain(t)
           /\ Doing(t)' \subseteq Doing(t)
           /\ \A L : Count(L)' = Count(L) - W(Head(stack[t]), L)
<1>1. Doing(t) = Below(t) \cup {Head(stack[t])} /\ Below(t) \subseteq Callers
  BY Inside DEF Nested, Placed
<1>2. /\ Alone(t)
      /\ Len(stack[t]) \in Nat \ {0} /\ Len(stack'[t]) = Len(stack[t]) - 1
      /\ \A i \in 1..(Len(stack[t]) - 1) : Height(stack'[t], i) = Height(stack[t], i)
      /\ Doing(t)' = Below(t) /\ Below(t)' \subseteq Below(t)
  BY Returns
<1>3. \A i \in 1..Len(stack'[t]) : Height(stack'[t], i) = "msg_free" => i = 1 /\ Messages
  BY <1>2 DEF Nested, Placed
<1>4. Plain(t)
  BY <1>1, <1>2, <1>3, Plainly DEF Accessing, Callers
<1>5. QED
  BY <1>1, <1>2, <1>4, Returns

LEMMA PlainGoesOn ==
    ASSUME stack \in Stacks, Placed, NEW t \in Threads, OthersKept(t),
           ~Idle(t), Head(stack[t]) \notin Accessing \cup {"msg_free"},
           NEW x \in Labels \ (Accessing \cup {"msg_free", "shared"}), Continue(t, <<x>>)
    PROVE  /\ Plain(t)
           /\ Head(stack[t]) \in Doing(t) /\ Doing(t)' \subseteq Doing(t) \cup {x}
           /\ \A L : Count(L)' = Count(L) - W(Head(stack[t]), L) + W(x, L)
<1>1. Doing(t) = Below(t) \cup {Head(stack[t])} /\ Below(t) \subseteq Callers
  BY Inside DEF Nested, Placed
<1>2. /\ Alone(t)
      /\ Len(stack[t]) \in Nat \ {0} /\ Len(stack'[t]) = Len(stack[t])
      /\ \A i \in 1..(Len(stack[t]) - 1) : Height(stack'[t], i) = Height(stack[t], i)
      /\ Height(stack'[t], Len(stack[t])) = x
      /\ Doing(t)' = Below(t) \cup {x} /\ Below(t)' = Below(t)
  BY GoesOn
<1>3. \A i \in 1..Len(stack'[t]) : Height(stack'[t], i) = "msg_free" => i = 1 /\ Messages
  BY <1>2 DEF Nested, Placed
<1>4. Plain(t)
  BY <1>1, <1>2, <1>3, Plainly DEF Accessing, Callers
<1>5. QED
  BY <1>1, <1>2, <1>4, GoesOn

LEMMA PlainCallsTwo ==
    ASSUME stack \in Stacks, Placed, NEW t \in Threads, OthersKept(t),
           ~Idle(t), Head(stack[t]) \notin Accessing \cup {"msg_free"},
           NEW x \in Labels \ (Accessing \cup {"msg_free", "shared"}), NEW y \in {"refused", "finish"},
           Continue(t, <<x, y>>)
    PROVE  /\ Plain(t)
           /\ Head(stack[t]) \in Doing(t) /\ Doing(t)' \subseteq Doing(t) \cup {x, y}
           /\ \A L : Count(L)' = Count(L) - W(Head(stack[t]), L) + W(x, L) + W(y, L)
<1>1. Doing(t) = Below(t) \cup {Head(stack[t])} /\ Below(t) \subseteq Callers
  BY Inside DEF Nested, Placed
<1>2. y \in Labels
  BY DEF Labels
<1>3. /\ Alone(t)
      /\ Len(stack[t]) \in Nat \ {0} /\ Len(stack'[t]) = Len(stack[t]) + 1
      /\ \A i \in 1..(Len(stack[t]) - 1) : Height(stack'[t], i) = Height(stack[t], i)
      /\ Height(stack'[t], Len(stack[t])) = y /\ Height(stack'[t], Len(stack[t]) + 1) = x
      /\ Doing(t)' = Below(t) \cup {x, y} /\ Below(t)' = Below(t) \cup {y}
  BY <1>2, CallsTwo
<1>4. \A i \in 1..Len(stack'[t]) : Height(stack'[t], i) = "msg_free" => i = 1 /\ Messages
  <2>1. \A i \in 1..Len(stack'[t]) :
            i \in 1..(Len(stack[t]) - 1) \/ i = Len(stack[t]) \/ i = Len(stack[t]) + 1
    BY <1>3
  <2>2. QED
    BY <1>3, <2>1 DEF Nested, Placed
<1>5. Plain(t)
  <2>1. "msg_free" \in Doing(t)' <=> "msg_free" \in Doing(t)
    BY <1>1, <1>3
  <2>2. Doing(t) \cap Accessing = {} /\ Doing(t)' \cap Accessing = {} /\ Below(t)' \subseteq Callers
    BY <1>1, <1>3 DEF Accessing, Callers
  <2>3. "shared" \notin Doing(t)'
    BY <1>1, <1>3 DEF Callers
  <2>4. QED
    BY <1>3, <1>4, <2>1, <2>2, <2>3, Plainly
<1>6. QED
  BY <1>1, <1>2, <1>3, <1>5, CallsTwo

LEMMA PlainBegins ==
    ASSUME stack \in Stacks, Placed, NEW t \in Threads, OthersKept(t),
           NEW x \in Labels \ (Accessing \cup {"msg_free"}), Begin(t, <<x>>),
           x = "shared" => ~pins'[t]
    PROVE  /\ Plain(t)
           /\ Idle(t) /\ Doing(t) = {} /\ Doing(t)' = {x}
           /\ \A L : Count(L)' = Count(L) + W(x, L)
<1>1. /\ Alone(t) /\ Idle(t)
      /\ Len(stack'[t]) = 1 /\ Height(stack'[t], 1) = x
      /\ Doing(t)' = {x} /\ Below(t)' = {}
  BY Begins
<1>2. Doing(t) = {} /\ Below(t) = {}
  BY <1>1, Inside
<1>3. \A i \in 1..Len(stack'[t]) : Height(stack'[t], i) = "msg_free" => i = 1 /\ Messages
  BY <1>1
<1>4. Plain(t)
  BY <1>1, <1>2, <1>3, Plainly DEF Accessing, Callers
<1>5. QED
  BY <1>1, <1>2, <1>4, Begins
\* A thread that was not asleep has no flag to lose.
LEMMA SleepersStay ==
    ASSUME TypeOK, NEW t \in Threads, Alone(t),
           t \in removed' => Idle(t) \/ Head(stack[t]) \notin {"access_sleep", "free_sleep"},
           removed' \subseteq Sleepers
    PROVE  removed' \subseteq Sleepers'
<1>1. \A u \in removed' : u \in Threads \ {t} /\ stack'[u] = stack[u]
  BY DEF TypeOK, Sleepers, At, Alone
<1>2. QED
  BY <1>1 DEF TypeOK, Sleepers, At, Idle

LEMMA DeliveriesStay ==
    ASSUME NEW t \in Threads, Plain(t)
    PROVE  Cardinality(Delivering)' = Cardinality(Delivering)
<1>1. Delivering' = Delivering
  BY DEF Plain, Delivering
<1>2. QED
  BY <1>1, Zenon

\* What is counted.
Counted == {Pinning, {"unpinWeak"}, OwnLock}

\* A step that changes neither counter nor count.
LEMMA Neutral ==
    ASSUME CountInv, NEW t \in Threads, Plain(t),
           UNCHANGED <<counts, Queue, ThreadID, clients>>,
           defined("PERMIT_TERMINATE")' <=> defined("PERMIT_TERMINATE"),
           \A L \in Counted : Count(L)' = Count(L),
           Doing(t)' \cap OwnLock # {} => Doing(t) \cap OwnLock # {},
           Strong' \in Nat /\ Weak' \in Nat /\ Queue' \in Nat => TypeOK'
    PROVE  CountInv'
<1>1. Count(Pinning)' = Count(Pinning) /\ Count({"unpinWeak"})' = Count({"unpinWeak"})
      /\ Count(OwnLock)' = Count(OwnLock)
  BY DEF Counted
<1>2. /\ Strong' = Strong /\ Weak' = Weak /\ Queue' = Queue /\ ThreadID' = ThreadID
      /\ locks' = locks /\ pins' = pins /\ weak' = weak
  BY DEF counts, clients
<1>3. /\ Cardinality(Having(pins))' = Cardinality(Having(pins))
      /\ Cardinality(Having(weak))' = Cardinality(Having(weak))
      /\ Cardinality(LocksOf(locks))' = Cardinality(LocksOf(locks))
  BY <1>2
<1>4. Kept' = Kept
  BY DEF Kept
<1>5. Cardinality(Delivering)' = Cardinality(Delivering)
  BY DeliveriesStay
<1>6. PinsOwed' = PinsOwed /\ WeakOwed' = WeakOwed /\ LocksOwed' = LocksOwed
  BY <1>1, <1>3, <1>4, <1>5 DEF PinsOwed, WeakOwed, LocksOwed
<1>7. PinsOwed \in Nat /\ WeakOwed \in Nat /\ LocksOwed \in Nat
  <2>1. Sums
    BY LifeAssumption DEF Sums, CountInv, TypeOK, Stacks
  <2>2. QED
    BY <2>1, Owed
<1>8. OneHolder'
  <2>1. ASSUME NEW u \in Threads, HasLock(u)' PROVE HasLock(u)
    BY <1>2, <2>1 DEF HasLock, Plain, Alone
  <2>2. QED
    BY <1>2, <2>1 DEF CountInv, OneHolder
<1>9. /\ PinsOwed' = PinsOwed + 0 /\ Strong' = Strong + 0
      /\ WeakOwed' = WeakOwed + 0 /\ Weak' = Weak + 0
      /\ LocksOwed' = LocksOwed + 0 /\ Queue' = Queue + 0
  BY <1>2, <1>6, <1>7 DEF CountInv, TypeOK
<1>10. /\ stack' \in Stacks /\ locks' \in [Threads -> 0..MaxLocks]
       /\ Nested' /\ AccessAtBottom' /\ SharedUnpinned' /\ (defined("PERMIT_TERMINATE")' => Messages)
  BY <1>2 DEF CountInv, TypeOK, Plain, Alone
<1>11. QED
  BY <1>8, <1>9, <1>10, Recount

LEMMA NeutralReturns ==
    ASSUME CountInv, NEW t \in Threads, ~Idle(t), Return(t),
           Head(stack[t]) \notin Accessing \cup {"msg_free", "free_sleep"},
           \A L \in Counted : Head(stack[t]) \notin L,
           UNCHANGED <<counts, Queue, ThreadID, clients>>,
           defined("PERMIT_TERMINATE")' <=> defined("PERMIT_TERMINATE"),
           removed' \subseteq Sleepers,
           stack' \in Stacks /\ removed' \subseteq Sleepers' => TypeOK'
    PROVE  CountInv'
<1>1. stack \in Stacks /\ Placed /\ OthersKept(t) /\ TypeOK
  BY DEF CountInv, TypeOK, Stacks, clients, OthersKept, Placed
<1>2. /\ Plain(t)
      /\ Doing(t)' \subseteq Doing(t)
      /\ \A L : Count(L)' = Count(L) - W(Head(stack[t]), L)
  BY <1>1, PlainReturns
<1>3. ASSUME NEW L \in Counted PROVE Count(L)' = Count(L)
  <2>1. Count(L) \in Nat
    BY <1>1, CallsFinite DEF Count
  <2>2. QED
    BY <1>2, <2>1 DEF W
<1>4. TypeOK'
  <2>1. Alone(t)
    BY <1>2 DEF Plain
  <2>2. removed' \subseteq Sleepers'
    BY <1>1, <2>1, SleepersStay DEF Accessing
  <2>3. QED
    BY <2>1, <2>2 DEF Alone
<1>5. Doing(t)' \cap OwnLock # {} => Doing(t) \cap OwnLock # {}
  BY <1>2
<1>6. QED
  BY <1>2, <1>3, <1>4, <1>5, Neutral
LEMMA NeutralGoesOn ==
    ASSUME CountInv, NEW t \in Threads, ~Idle(t),
           Head(stack[t]) \notin Accessing \cup {"msg_free"},
           t \in removed' => Head(stack[t]) # "free_sleep",
           NEW x \in Labels \ (Accessing \cup {"msg_free", "shared"}), Continue(t, <<x>>),
           \A L \in Counted : Head(stack[t]) \in L <=> x \in L,
           UNCHANGED <<counts, Queue, ThreadID, clients>>,
           defined("PERMIT_TERMINATE")' <=> defined("PERMIT_TERMINATE"),
           removed' \subseteq Sleepers,
           stack' \in Stacks /\ removed' \subseteq Sleepers' => TypeOK'
    PROVE  CountInv'
<1>1. stack \in Stacks /\ Placed /\ OthersKept(t) /\ TypeOK
  BY DEF CountInv, TypeOK, Stacks, clients, OthersKept, Placed
<1>2. /\ Plain(t)
      /\ Head(stack[t]) \in Doing(t) /\ Doing(t)' \subseteq Doing(t) \cup {x}
      /\ \A L : Count(L)' = Count(L) - W(Head(stack[t]), L) + W(x, L)
  BY <1>1, PlainGoesOn
<1>3. ASSUME NEW L \in Counted PROVE Count(L)' = Count(L)
  <2>1. Count(L) \in Nat
    BY <1>1, CallsFinite DEF Count
  <2>2. W(Head(stack[t]), L) = W(x, L) /\ W(x, L) \in Nat
    BY DEF W
  <2>3. Count(L)' = Count(L) - W(Head(stack[t]), L) + W(x, L)
    BY <1>2
  <2>4. QED
    BY <2>1, <2>2, <2>3
<1>4. TypeOK'
  <2>1. Alone(t)
    BY <1>2 DEF Plain
  <2>2. removed' \subseteq Sleepers'
    BY <1>1, <2>1, SleepersStay DEF Accessing
  <2>3. QED
    BY <2>1, <2>2 DEF Alone
<1>5. Doing(t)' \cap OwnLock # {} => Doing(t) \cap OwnLock # {}
  BY <1>2 DEF Counted
<1>6. QED
  BY <1>2, <1>3, <1>4, <1>5, Neutral

LEMMA NeutralCallsTwo ==
    ASSUME CountInv, NEW t \in Threads, ~Idle(t),
           Head(stack[t]) \notin Accessing \cup {"msg_free", "free_sleep"},
           NEW x \in Labels \ (Accessing \cup {"msg_free", "shared"}), NEW y \in {"refused", "finish"},
           Continue(t, <<x, y>>),
           \A L \in Counted : W(Head(stack[t]), L) = W(x, L) + W(y, L),
           UNCHANGED <<counts, Queue, ThreadID, clients>>,
           defined("PERMIT_TERMINATE")' <=> defined("PERMIT_TERMINATE"),
           removed' \subseteq Sleepers,
           stack' \in Stacks /\ removed' \subseteq Sleepers' => TypeOK'
    PROVE  CountInv'
<1>1. stack \in Stacks /\ Placed /\ OthersKept(t) /\ TypeOK
  BY DEF CountInv, TypeOK, Stacks, clients, OthersKept, Placed
<1>2. /\ Plain(t)
      /\ Head(stack[t]) \in Doing(t) /\ Doing(t)' \subseteq Doing(t) \cup {x, y}
      /\ \A L : Count(L)' = Count(L) - W(Head(stack[t]), L) + W(x, L) + W(y, L)
  <2>1. Head(stack[t]) \notin Accessing \cup {"msg_free"}
    OBVIOUS
  <2>2. Plain(t)
    BY <1>1, <2>1, PlainCallsTwo
  <2>3. Head(stack[t]) \in Doing(t) /\ Doing(t)' \subseteq Doing(t) \cup {x, y}
    BY <1>1, <2>1, PlainCallsTwo
  <2>4. y \in Labels
    BY DEF Labels
  <2>5. \A L : Count(L)' = Count(L) - W(Head(stack[t]), L) + W(x, L) + W(y, L)
    BY <1>1, <2>4, CallsTwo
  <2>6. QED
    BY <2>2, <2>3, <2>5
<1>3. ASSUME NEW L \in Counted PROVE Count(L)' = Count(L)
  <2>1. Count(L) \in Nat
    BY <1>1, CallsFinite DEF Count
  <2>2. W(x, L) \in Nat /\ W(y, L) \in Nat
    BY DEF W
  <2>3. Count(L)' = Count(L) - W(Head(stack[t]), L) + W(x, L) + W(y, L)
    BY <1>2
  <2>4. W(Head(stack[t]), L) = W(x, L) + W(y, L)
    OBVIOUS
  <2>5. QED
    BY <2>1, <2>2, <2>3, <2>4
<1>4. TypeOK'
  <2>1. Alone(t)
    BY <1>2 DEF Plain
  <2>2. removed' \subseteq Sleepers'
    BY <1>1, <2>1, SleepersStay DEF Accessing
  <2>3. QED
    BY <2>1, <2>2 DEF Alone
<1>5. Doing(t)' \cap OwnLock # {} => Doing(t) \cap OwnLock # {}
  <2>1. W(Head(stack[t]), OwnLock) = W(x, OwnLock) + W(y, OwnLock)
    BY DEF Counted
  <2>2. x \in OwnLock \/ y \in OwnLock => Head(stack[t]) \in OwnLock
    BY <2>1 DEF W
  <2>3. QED
    BY <1>2, <2>2
<1>6. QED
  BY <1>2, <1>3, <1>4, <1>5, Neutral
(* Steps that neither take nor give back. *)

LEMMA Count_Unlock ==
    ASSUME CountInv, NEW t \in Threads, Unlock(t)
    PROVE  CountInv'
<1>1. /\ ~Idle(t) /\ Head(stack[t]) = "unlock"
      /\ Continue(t, <<"release">>) \/ Continue(t, <<"decrement">>)
      /\ UNCHANGED <<counts, Queue, ThreadID, clients>>
      /\ defined("PERMIT_TERMINATE")' <=> defined("PERMIT_TERMINATE")
      /\ removed' \subseteq Sleepers
  BY DEF Unlock, At, defined, CountInv, TypeOK, lock, Return
<1>2. stack' \in Stacks /\ removed' \subseteq Sleepers' => TypeOK'
  BY DEF Unlock, CountInv, TypeOK, Stacks, counts, lock, record, block, clients
<1>3. CASE Continue(t, <<"release">>)
  BY <1>1, <1>2, <1>3, NeutralGoesOn DEF Labels, Accessing, Counted, Pinning, OwnLock, Locking
<1>4. CASE Continue(t, <<"decrement">>)
  BY <1>1, <1>2, <1>4, NeutralGoesOn DEF Labels, Accessing, Counted, Pinning, OwnLock, Locking
<1>5. QED
  BY <1>1, <1>3, <1>4

LEMMA Count_FlagSleepers ==
    ASSUME CountInv, NEW t \in Threads, FlagSleepers(t)
    PROVE  CountInv'
<1>1. /\ ~Idle(t) /\ Head(stack[t]) = "wake"
      /\ Continue(t, <<"collect">>)
      /\ UNCHANGED <<counts, Queue, ThreadID, clients>>
      /\ defined("PERMIT_TERMINATE")' <=> defined("PERMIT_TERMINATE")
      /\ removed' \subseteq Sleepers
  BY DEF FlagSleepers, At, defined, CountInv, TypeOK, lock, Return
<1>2. stack' \in Stacks /\ removed' \subseteq Sleepers' => TypeOK'
  BY DEF FlagSleepers, CountInv, TypeOK, Stacks, counts, lock, record, block, clients
<1>3. QED
  BY <1>1, <1>2, NeutralGoesOn DEF Labels, Accessing, Counted, Pinning, OwnLock, Locking

LEMMA Count_Collect ==
    ASSUME CountInv, NEW t \in Threads, Collect(t)
    PROVE  CountInv'
<1>1. /\ ~Idle(t) /\ Head(stack[t]) = "collect"
      /\ Continue(t, <<"free">>) \/ Return(t)
      /\ UNCHANGED <<counts, Queue, ThreadID, clients>>
      /\ defined("PERMIT_TERMINATE")' <=> defined("PERMIT_TERMINATE")
      /\ removed' \subseteq Sleepers
  BY DEF Collect, At, defined, CountInv, TypeOK, lock, Return
<1>2. stack' \in Stacks /\ removed' \subseteq Sleepers' => TypeOK'
  BY DEF Collect, CountInv, TypeOK, Stacks, counts, lock, record, block, clients
<1>3. CASE Continue(t, <<"free">>)
  BY <1>1, <1>2, <1>3, NeutralGoesOn DEF Labels, Accessing, Counted, Pinning, OwnLock, Locking
<1>4. CASE Return(t)
  BY <1>1, <1>2, <1>4, NeutralReturns DEF Labels, Accessing, Counted, Pinning, OwnLock, Locking
<1>5. QED
  BY <1>1, <1>3, <1>4

LEMMA Count_CheckZombie ==
    ASSUME CountInv, NEW t \in Threads, CheckZombie(t)
    PROVE  CountInv'
<1>1. /\ ~Idle(t) /\ Head(stack[t]) = "last"
      /\ Continue(t, <<"zombie">>) \/ Return(t)
      /\ UNCHANGED <<counts, Queue, ThreadID, clients>>
      /\ defined("PERMIT_TERMINATE")' <=> defined("PERMIT_TERMINATE")
      /\ removed' \subseteq Sleepers
  BY DEF CheckZombie, At, defined, CountInv, TypeOK, lock, Return
<1>2. stack' \in Stacks /\ removed' \subseteq Sleepers' => TypeOK'
  BY DEF CheckZombie, CountInv, TypeOK, Stacks, counts, lock, record, block, clients
<1>3. CASE Continue(t, <<"zombie">>)
  BY <1>1, <1>2, <1>3, NeutralGoesOn DEF Labels, Accessing, Counted, Pinning, OwnLock, Locking
<1>4. CASE Return(t)
  BY <1>1, <1>2, <1>4, NeutralReturns DEF Labels, Accessing, Counted, Pinning, OwnLock, Locking
<1>5. QED
  BY <1>1, <1>3, <1>4

LEMMA Count_ReleaseZombie ==
    ASSUME CountInv, NEW t \in Threads, ReleaseZombie(t)
    PROVE  CountInv'
<1>1. /\ ~Idle(t) /\ Head(stack[t]) = "zombie"
      /\ Continue(t, <<"erase">>) \/ Return(t)
      /\ UNCHANGED <<counts, Queue, ThreadID, clients>>
      /\ defined("PERMIT_TERMINATE")' <=> defined("PERMIT_TERMINATE")
      /\ removed' \subseteq Sleepers
  BY DEF ReleaseZombie, At, defined, CountInv, TypeOK, lock, Return
<1>2. stack' \in Stacks /\ removed' \subseteq Sleepers' => TypeOK'
  BY DEF ReleaseZombie, CountInv, TypeOK, Stacks, counts, lock, record, block, clients
<1>3. CASE Continue(t, <<"erase">>)
  BY <1>1, <1>2, <1>3, NeutralGoesOn DEF Labels, Accessing, Counted, Pinning, OwnLock, Locking
<1>4. CASE Return(t)
  BY <1>1, <1>2, <1>4, NeutralReturns DEF Labels, Accessing, Counted, Pinning, OwnLock, Locking
<1>5. QED
  BY <1>1, <1>3, <1>4

LEMMA Count_free_object_block ==
    ASSUME CountInv, NEW t \in Threads, free_object_block(t)
    PROVE  CountInv'
<1>1. /\ ~Idle(t) /\ Head(stack[t]) \in {"erase", "fast"}
      /\ Return(t)
      /\ UNCHANGED <<counts, Queue, ThreadID, clients>>
      /\ defined("PERMIT_TERMINATE")' <=> defined("PERMIT_TERMINATE")
      /\ removed' \subseteq Sleepers
  BY DEF free_object_block, At, defined, CountInv, TypeOK, lock, Return
<1>2. stack' \in Stacks /\ removed' \subseteq Sleepers' => TypeOK'
  <2>1. glZombies' \in BOOLEAN /\ frees' \in Nat
    <3>1. glZombies \in BOOLEAN /\ frees \in Nat
      BY DEF CountInv, TypeOK
    <3>2. frees' = frees + 1 /\ (glZombies' = FALSE \/ glZombies' = glZombies)
      BY DEF free_object_block
    <3>3. frees' \in Nat
      BY <3>1, <3>2
    <3>4. glZombies' \in BOOLEAN
      BY <3>1, <3>2, Zenon
    <3>5. QED
      BY <3>3, <3>4
  <2>2. QED
    BY <2>1 DEF free_object_block, CountInv, TypeOK, Stacks, counts, lock, record, clients
<1>3. QED
  BY <1>1, <1>2, NeutralReturns DEF Labels, Accessing, Counted, Pinning, OwnLock, Locking

LEMMA Count_freeIfReady ==
    ASSUME CountInv, NEW t \in Threads, freeIfReady(t)
    PROVE  CountInv'
<1>1. /\ ~Idle(t) /\ Head(stack[t]) = "ready"
      /\ Continue(t, <<"free">>) \/ Return(t)
      /\ UNCHANGED <<counts, Queue, ThreadID, clients>>
      /\ defined("PERMIT_TERMINATE")' <=> defined("PERMIT_TERMINATE")
      /\ removed' \subseteq Sleepers
  BY DEF freeIfReady, At, defined, CountInv, TypeOK, lock, Return
<1>2. stack' \in Stacks /\ removed' \subseteq Sleepers' => TypeOK'
  BY DEF freeIfReady, CountInv, TypeOK, Stacks, counts, lock, record, block, clients
<1>3. CASE Continue(t, <<"free">>)
  BY <1>1, <1>2, <1>3, NeutralGoesOn DEF Labels, Accessing, Counted, Pinning, OwnLock, Locking
<1>4. CASE Return(t)
  BY <1>1, <1>2, <1>4, NeutralReturns DEF Labels, Accessing, Counted, Pinning, OwnLock, Locking
<1>5. QED
  BY <1>1, <1>3, <1>4

LEMMA Count_FreeObject ==
    ASSUME CountInv, NEW t \in Threads, FreeObject(t)
    PROVE  CountInv'
<1>1. /\ ~Idle(t) /\ Head(stack[t]) = "free"
      /\ Continue(t, <<"free_lock">>) \/ Return(t)
      /\ UNCHANGED <<counts, Queue, ThreadID, clients>>
      /\ defined("PERMIT_TERMINATE")' <=> defined("PERMIT_TERMINATE")
      /\ removed' \subseteq Sleepers
  BY DEF FreeObject, At, defined, CountInv, TypeOK, lock, Return
<1>2. stack' \in Stacks /\ removed' \subseteq Sleepers' => TypeOK'
  BY DEF FreeObject, CountInv, TypeOK, Stacks, counts, lock, record, block, clients
<1>3. CASE Continue(t, <<"free_lock">>)
  BY <1>1, <1>2, <1>3, NeutralGoesOn DEF Labels, Accessing, Counted, Pinning, OwnLock, Locking
<1>4. CASE Return(t)
  BY <1>1, <1>2, <1>4, NeutralReturns DEF Labels, Accessing, Counted, Pinning, OwnLock, Locking
<1>5. QED
  BY <1>1, <1>3, <1>4

LEMMA Count_FreeCheck ==
    ASSUME CountInv, NEW t \in Threads, FreeCheck(t)
    PROVE  CountInv'
<1>1. /\ ~Idle(t) /\ Head(stack[t]) = "free_check"
      /\ Continue(t, <<"mark">>) \/ Continue(t, <<"warn">>) \/ Continue(t, <<"unlock", "refused">>)
      /\ UNCHANGED <<counts, Queue, ThreadID, clients>>
      /\ defined("PERMIT_TERMINATE")' <=> defined("PERMIT_TERMINATE")
      /\ removed' \subseteq Sleepers
  BY DEF FreeCheck, At, defined, CountInv, TypeOK, lock, Return
<1>2. stack' \in Stacks /\ removed' \subseteq Sleepers' => TypeOK'
  BY DEF FreeCheck, CountInv, TypeOK, Stacks, counts, lock, record, block, clients
<1>3. CASE Continue(t, <<"mark">>)
  BY <1>1, <1>2, <1>3, NeutralGoesOn DEF Labels, Accessing, Counted, Pinning, OwnLock, Locking
<1>4. CASE Continue(t, <<"warn">>)
  BY <1>1, <1>2, <1>4, NeutralGoesOn DEF Labels, Accessing, Counted, Pinning, OwnLock, Locking
<1>5. CASE Continue(t, <<"unlock", "refused">>)
  <2>1. ASSUME NEW L \in Counted
        PROVE  W(Head(stack[t]), L) = W("unlock", L) + W("refused", L)
    BY <1>1, <2>1 DEF Counted, Pinning, OwnLock, Locking, W
  <2>2. "unlock" \in Labels \ (Accessing \cup {"msg_free", "shared"}) /\ "refused" \in {"refused", "finish"}
    BY DEF Labels, Accessing
  <2>3. Head(stack[t]) \notin Accessing \cup {"msg_free", "free_sleep"}
    BY <1>1 DEF Accessing
  <2>4. QED
    BY <1>1, <1>2, <1>5, <2>1, <2>2, <2>3, NeutralCallsTwo
<1>6. QED
  BY <1>1, <1>3, <1>4, <1>5

LEMMA Count_MarkForDeletion ==
    ASSUME CountInv, NEW t \in Threads, MarkForDeletion(t)
    PROVE  CountInv'
<1>1. /\ ~Idle(t) /\ Head(stack[t]) = "mark"
      /\ Continue(t, <<"unlock", "refused">>)
      /\ UNCHANGED <<counts, Queue, ThreadID, clients>>
      /\ defined("PERMIT_TERMINATE")' <=> defined("PERMIT_TERMINATE")
      /\ removed' \subseteq Sleepers
  BY DEF MarkForDeletion, At, defined, CountInv, TypeOK, lock, Return
<1>2. stack' \in Stacks /\ removed' \subseteq Sleepers' => TypeOK'
  BY DEF MarkForDeletion, CountInv, TypeOK, Stacks, counts, lock, record, block, clients
<1>3. QED
  <2>1. ASSUME NEW L \in Counted
        PROVE  W(Head(stack[t]), L) = W("unlock", L) + W("refused", L)
    BY <1>1, <2>1 DEF Counted, Pinning, OwnLock, Locking, W
  <2>2. "unlock" \in Labels \ (Accessing \cup {"msg_free", "shared"}) /\ "refused" \in {"refused", "finish"}
    BY DEF Labels, Accessing
  <2>3. Head(stack[t]) \notin Accessing \cup {"msg_free", "free_sleep"}
    BY <1>1 DEF Accessing
  <2>4. QED
    BY <1>1, <1>2, <2>1, <2>2, <2>3, NeutralCallsTwo

LEMMA Count_FreeWarning ==
    ASSUME CountInv, NEW t \in Threads, NEW in_use \in BOOLEAN, FreeWarning(t, in_use)
    PROVE  CountInv'
<1>1. /\ ~Idle(t) /\ Head(stack[t]) = "warn"
      /\ Continue(t, <<"begin">>) \/ Continue(t, <<"unlock", "refused">>)
      /\ UNCHANGED <<counts, Queue, ThreadID, clients>>
      /\ defined("PERMIT_TERMINATE")' <=> defined("PERMIT_TERMINATE")
      /\ removed' \subseteq Sleepers
  BY DEF FreeWarning, At, defined, CountInv, TypeOK, lock, Return
<1>2. stack' \in Stacks /\ removed' \subseteq Sleepers' => TypeOK'
  BY DEF FreeWarning, CountInv, TypeOK, Stacks, counts, lock, record, block, clients
<1>3. CASE Continue(t, <<"begin">>)
  BY <1>1, <1>2, <1>3, NeutralGoesOn DEF Labels, Accessing, Counted, Pinning, OwnLock, Locking
<1>4. CASE Continue(t, <<"unlock", "refused">>)
  <2>1. ASSUME NEW L \in Counted
        PROVE  W(Head(stack[t]), L) = W("unlock", L) + W("refused", L)
    BY <1>1, <2>1 DEF Counted, Pinning, OwnLock, Locking, W
  <2>2. "unlock" \in Labels \ (Accessing \cup {"msg_free", "shared"}) /\ "refused" \in {"refused", "finish"}
    BY DEF Labels, Accessing
  <2>3. Head(stack[t]) \notin Accessing \cup {"msg_free", "free_sleep"}
    BY <1>1 DEF Accessing
  <2>4. QED
    BY <1>1, <1>2, <1>4, <2>1, <2>2, <2>3, NeutralCallsTwo
<1>5. QED
  BY <1>1, <1>3, <1>4

LEMMA Count_Teardown ==
    ASSUME CountInv, NEW t \in Threads, Teardown(t)
    PROVE  CountInv'
<1>1. /\ ~Idle(t) /\ Head(stack[t]) = "teardown"
      /\ Continue(t, <<"unlock", "finish">>)
      /\ UNCHANGED <<counts, Queue, ThreadID, clients>>
      /\ defined("PERMIT_TERMINATE")' <=> defined("PERMIT_TERMINATE")
      /\ removed' \subseteq Sleepers
  BY DEF Teardown, At, defined, CountInv, TypeOK, lock, Return
<1>2. stack' \in Stacks /\ removed' \subseteq Sleepers' => TypeOK'
  BY DEF Teardown, CountInv, TypeOK, Stacks, counts, lock, record, block, clients
<1>3. QED
  <2>1. ASSUME NEW L \in Counted
        PROVE  W(Head(stack[t]), L) = W("unlock", L) + W("finish", L)
    BY <1>1, <2>1 DEF Counted, Pinning, OwnLock, Locking, W
  <2>2. "unlock" \in Labels \ (Accessing \cup {"msg_free", "shared"}) /\ "finish" \in {"refused", "finish"}
    BY DEF Labels, Accessing
  <2>3. Head(stack[t]) \notin Accessing \cup {"msg_free", "free_sleep"}
    BY <1>1 DEF Accessing
  <2>4. QED
    BY <1>1, <1>2, <2>1, <2>2, <2>3, NeutralCallsTwo

LEMMA Count_BecomeZombie ==
    ASSUME CountInv, NEW t \in Threads, BecomeZombie(t)
    PROVE  CountInv'
<1>1. /\ ~Idle(t) /\ Head(stack[t]) = "finish"
      /\ Continue(t, <<"pins">>)
      /\ UNCHANGED <<counts, Queue, ThreadID, clients>>
      /\ defined("PERMIT_TERMINATE")' <=> defined("PERMIT_TERMINATE")
      /\ removed' \subseteq Sleepers
  BY DEF BecomeZombie, At, defined, CountInv, TypeOK, lock, Return
<1>2. stack' \in Stacks /\ removed' \subseteq Sleepers' => TypeOK'
  BY DEF BecomeZombie, CountInv, TypeOK, Stacks, counts, lock, record, block, clients
<1>3. QED
  BY <1>1, <1>2, NeutralGoesOn DEF Labels, Accessing, Counted, Pinning, OwnLock, Locking

LEMMA Count_EmplaceZombie ==
    ASSUME CountInv, NEW t \in Threads, EmplaceZombie(t)
    PROVE  CountInv'
<1>1. /\ ~Idle(t) /\ Head(stack[t]) = "emplace"
      /\ Continue(t, <<"unpin">>)
      /\ UNCHANGED <<counts, Queue, ThreadID, clients>>
      /\ defined("PERMIT_TERMINATE")' <=> defined("PERMIT_TERMINATE")
      /\ removed' \subseteq Sleepers
  BY DEF EmplaceZombie, At, defined, CountInv, TypeOK, lock, Return
<1>2. stack' \in Stacks /\ removed' \subseteq Sleepers' => TypeOK'
  BY DEF EmplaceZombie, CountInv, TypeOK, Stacks, counts, lock, record, block, clients
<1>3. QED
  BY <1>1, <1>2, NeutralGoesOn DEF Labels, Accessing, Counted, Pinning, OwnLock, Locking

LEMMA Count_Refused ==
    ASSUME CountInv, NEW t \in Threads, Refused(t)
    PROVE  CountInv'
<1>1. /\ ~Idle(t) /\ Head(stack[t]) \in {"refused", "denied"}
      /\ Return(t)
      /\ UNCHANGED <<counts, Queue, ThreadID, clients>>
      /\ defined("PERMIT_TERMINATE")' <=> defined("PERMIT_TERMINATE")
      /\ removed' \subseteq Sleepers
  BY DEF Refused, At, defined, CountInv, TypeOK, lock, Return
<1>2. stack' \in Stacks /\ removed' \subseteq Sleepers' => TypeOK'
  BY DEF Refused, CountInv, TypeOK, Stacks, counts, lock, record, block, clients
<1>3. QED
  BY <1>1, <1>2, NeutralReturns DEF Labels, Accessing, Counted, Pinning, OwnLock, Locking
\* A step that moves the counters as it moves the counts.
LEMMA Shifted ==
    ASSUME CountInv, NEW t \in Threads, Plain(t),
           locks' \in [Threads -> 0..MaxLocks],
           defined("PERMIT_TERMINATE")' <=> defined("PERMIT_TERMINATE"),
           NEW p \in Int, Strong' = Strong + p,
           Cardinality(Having(pins))' + Count(Pinning)' = Cardinality(Having(pins)) + Count(Pinning) + p,
           NEW w \in Int, Weak' = Weak + w,
           Cardinality(Having(weak))' + Count({"unpinWeak"})'
              = Cardinality(Having(weak)) + Count({"unpinWeak"}) + w,
           NEW l \in Int, Queue' = Queue + l,
           Cardinality(LocksOf(locks))' + Count(OwnLock)' = Cardinality(LocksOf(locks)) + Count(OwnLock) + l,
           OneHolder',
           Strong' \in Nat /\ Weak' \in Nat /\ Queue' \in Nat => TypeOK'
    PROVE  CountInv'
<1>1. Kept' = Kept /\ Kept \in Nat
  BY DEF Kept
<1>2. Sums /\ stack' \in Stacks
  BY LifeAssumption DEF Sums, CountInv, TypeOK, Plain, Alone, Stacks
<1>3. Sums'
  <2>1. locks' \in [Threads -> Nat]
    BY LifeAssumption
  <2>2. QED
    BY <1>2, <2>1 DEF Sums
<1>4. /\ Cardinality(Delivering)' = Cardinality(Delivering) /\ Cardinality(Delivering) \in Nat
      /\ Cardinality(LocksOf(locks)) \in Nat /\ Cardinality(LocksOf(locks))' \in Nat
  <2>1. Cardinality(LocksOf(locks))' \in Nat
    BY <1>3, LocksFinite DEF Sums
  <2>2. QED
    BY <1>2, <2>1, Owed, DeliveriesStay
<1>5. Count(OwnLock) \in Nat /\ Count(OwnLock)' \in Nat
  BY <1>2, CallsFinite DEF Sums, Count
<1>6. PinsOwed' = PinsOwed + p /\ WeakOwed' = WeakOwed + w
  BY DEF PinsOwed, WeakOwed
<1>7. LocksOwed' = LocksOwed + l
  BY <1>1, <1>4, <1>5 DEF LocksOwed
<1>8. Nested' /\ AccessAtBottom' /\ SharedUnpinned' /\ (defined("PERMIT_TERMINATE")' => Messages)
  BY DEF Plain, CountInv
<1>9. QED
  BY <1>2, <1>6, <1>7, <1>8, Recount

LEMMA Even ==
    ASSUME CountInv, NEW t \in Threads, Plain(t),
           locks' \in [Threads -> 0..MaxLocks],
           defined("PERMIT_TERMINATE")' <=> defined("PERMIT_TERMINATE"),
           Strong' = Strong, Weak' = Weak, Queue' = Queue,
           Cardinality(Having(pins))' + Count(Pinning)' = Cardinality(Having(pins)) + Count(Pinning),
           Cardinality(Having(weak))' + Count({"unpinWeak"})'
              = Cardinality(Having(weak)) + Count({"unpinWeak"}),
           Cardinality(LocksOf(locks))' + Count(OwnLock)' = Cardinality(LocksOf(locks)) + Count(OwnLock),
           OneHolder', TypeOK'
    PROVE  CountInv'
<1>1. Sums
  BY LifeAssumption DEF Sums, CountInv, TypeOK, Stacks
<1>2. /\ Cardinality(Having(pins)) \in Nat /\ Cardinality(Having(weak)) \in Nat
      /\ Cardinality(LocksOf(locks)) \in Nat
      /\ Count(Pinning) \in Nat /\ Count({"unpinWeak"}) \in Nat /\ Count(OwnLock) \in Nat
  BY <1>1, Owed, CallsFinite DEF Count, Sums
<1>3. Strong' = Strong + 0 /\ Weak' = Weak + 0 /\ Queue' = Queue + 0
  <2>1. Strong \in Nat /\ Weak \in Nat /\ Queue \in Nat
    BY DEF CountInv, TypeOK
  <2>2. QED
    BY <2>1
<1>4. /\ Cardinality(Having(pins))' + Count(Pinning)' = Cardinality(Having(pins)) + Count(Pinning) + 0
      /\ Cardinality(Having(weak))' + Count({"unpinWeak"})'
            = Cardinality(Having(weak)) + Count({"unpinWeak"}) + 0
      /\ Cardinality(LocksOf(locks))' + Count(OwnLock)' = Cardinality(LocksOf(locks)) + Count(OwnLock) + 0
  BY <1>2
<1>5. QED
  BY <1>3, <1>4, Shifted

\* No step but the taking of the lock makes a holder.
LEMMA HolderStays ==
    ASSUME OneHolder, NEW t \in Threads, Plain(t), ThreadID' = ThreadID,
           \A u \in Threads \ {t} : locks'[u] = locks[u],
           locks'[t] > 0 \/ Doing(t)' \cap OwnLock # {} => HasLock(t)
    PROVE  OneHolder'
<1>1. ASSUME NEW u \in Threads, HasLock(u)' PROVE HasLock(u)
  BY <1>1 DEF HasLock, Plain, Alone
<1>2. QED
  BY <1>1 DEF OneHolder

LEMMA Count_BeginFree ==
    ASSUME CountInv, NEW t \in Threads, BeginFree(t)
    PROVE  CountInv'
<1>1. /\ Begin(t, <<"free">>)
      /\ UNCHANGED <<Flags, counts, Queue, ThreadID, clients>> /\ removed' = removed
  BY DEF BeginFree, lock
<1>2. stack \in Stacks /\ Placed /\ OthersKept(t) /\ TypeOK
  BY <1>1 DEF CountInv, TypeOK, Stacks, clients, OthersKept, Placed
<1>3. /\ Plain(t)
      /\ Idle(t) /\ Doing(t)' = {"free"}
      /\ \A L : Count(L)' = Count(L) + W("free", L)
  BY <1>1, <1>2, PlainBegins DEF Labels, Accessing
<1>4. ASSUME NEW L \in Counted PROVE Count(L)' = Count(L)
  <2>1. Count(L) \in Nat
    BY <1>2, CallsFinite DEF Count
  <2>2. W("free", L) = 0
    BY DEF W, Counted, Pinning, OwnLock, Locking
  <2>3. QED
    BY <1>3, <2>1, <2>2
<1>5. TypeOK'
  <2>1. Alone(t)
    BY <1>3 DEF Plain
  <2>2. removed' \subseteq Sleepers'
    BY <1>1, <1>2, <1>3, <2>1, SleepersStay DEF TypeOK
  <2>3. QED
    BY <1>2, <2>1, <2>2 DEF Alone, BeginFree, TypeOK, Stacks, counts, lock, record, block, clients
<1>6. Doing(t)' \cap OwnLock = {}
  BY <1>3 DEF OwnLock, Locking
<1>7. QED
  BY <1>1, <1>3, <1>4, <1>5, <1>6, Neutral DEF defined
LEMMA Count_DecrementQueue ==
    ASSUME CountInv, NEW t \in Threads, DecrementQueue(t)
    PROVE  CountInv'
<1>1. /\ ~Idle(t) /\ Head(stack[t]) = "decrement"
      /\ Return(t)
      /\ UNCHANGED <<ThreadID, clients>> /\ removed' = removed
      /\ defined("PERMIT_TERMINATE")' <=> defined("PERMIT_TERMINATE")
  BY DEF DecrementQueue, At, Return, lock, defined
<1>2. stack \in Stacks /\ Placed /\ OthersKept(t) /\ TypeOK
  BY <1>1 DEF CountInv, TypeOK, Stacks, clients, OthersKept, Placed
<1>3. /\ Plain(t) /\ Head(stack[t]) \in Doing(t)
      /\ Doing(t)' \cap OwnLock # {} => Doing(t) \cap OwnLock # {}
      /\ Count(Pinning)' = Count(Pinning)
      /\ Count({"unpinWeak"})' = Count({"unpinWeak"})
      /\ Count(OwnLock)' = Count(OwnLock) - 1
  <2>1. Head(stack[t]) \in Doing(t)
    BY <1>1, <1>2, Inside
  <2>2. Count(Pinning) \in Nat /\ Count({"unpinWeak"}) \in Nat /\ Count(OwnLock) \in Nat
    BY <1>2, CallsFinite DEF Count
  <2>3. CASE Return(t)
    <3>1. /\ Plain(t) /\ Doing(t)' \subseteq Doing(t)
          /\ \A L : Count(L)' = Count(L) - W("decrement", L)
      BY <1>1, <1>2, <2>3, PlainReturns DEF Labels, Accessing
    <3>2. QED
      BY <1>1, <2>1, <2>2, <3>1 DEF W, Pinning, OwnLock, Locking
  <2>4. QED
    BY <1>1, <2>3
<1>4. /\ locks' = locks /\ pins' = pins /\ weak' = weak
      /\ Cardinality(Having(pins))' = Cardinality(Having(pins))
      /\ Cardinality(Having(weak))' = Cardinality(Having(weak))
      /\ Cardinality(LocksOf(locks))' = Cardinality(LocksOf(locks))
  BY <1>1 DEF clients
<1>5. /\ Strong' = Strong + 0 /\ Weak' = Weak + 0 /\ Queue' = Queue + (-1)
  BY <1>2 DEF DecrementQueue, TypeOK, lock, counts
<1>6. OneHolder'
  BY <1>1, <1>3, <1>4, HolderStays DEF CountInv, HasLock
<1>7. Strong' \in Nat /\ Weak' \in Nat /\ Queue' \in Nat => TypeOK'
  <2>1. Alone(t) /\ removed' \subseteq Sleepers'
    BY <1>1, <1>2, <1>3, SleepersStay DEF TypeOK, Plain
  <2>2. QED
    BY <1>1, <1>2, <1>4, <2>1 DEF Alone, DecrementQueue, TypeOK, Stacks, record, block
<1>8. /\ Cardinality(Having(pins))' + Count(Pinning)' = Cardinality(Having(pins)) + Count(Pinning) + 0
      /\ Cardinality(Having(weak))' + Count({"unpinWeak"})'
            = Cardinality(Having(weak)) + Count({"unpinWeak"}) + 0
      /\ Cardinality(LocksOf(locks))' + Count(OwnLock)'
            = Cardinality(LocksOf(locks)) + Count(OwnLock) + (-1)
  <2>1. /\ Cardinality(Having(pins)) \in Nat /\ Cardinality(Having(weak)) \in Nat
        /\ Cardinality(LocksOf(locks)) \in Nat
    BY <1>2, Owed, LifeAssumption DEF Sums, TypeOK, Stacks
  <2>2. Count(Pinning) \in Nat /\ Count({"unpinWeak"}) \in Nat /\ Count(OwnLock) \in Nat
    BY <1>2, CallsFinite DEF Count
  <2>3. QED
    BY <1>3, <1>4, <2>1, <2>2
<1>9. locks' \in [Threads -> 0..MaxLocks]
  BY <1>2, <1>4 DEF TypeOK
<1>10. QED
  BY <1>1, <1>3, <1>5, <1>6, <1>7, <1>8, <1>9, Shifted

LEMMA Count_FetchSub ==
    ASSUME CountInv, NEW t \in Threads, FetchSub(t)
    PROVE  CountInv'
<1>1. /\ ~Idle(t) /\ Head(stack[t]) = "release"
      /\ Return(t) \/ Continue(t, <<"wake">>)
      /\ UNCHANGED <<ThreadID, clients>> /\ removed' = removed
      /\ defined("PERMIT_TERMINATE")' <=> defined("PERMIT_TERMINATE")
  BY DEF FetchSub, At, Return, lock, defined
<1>2. stack \in Stacks /\ Placed /\ OthersKept(t) /\ TypeOK
  BY <1>1 DEF CountInv, TypeOK, Stacks, clients, OthersKept, Placed
<1>3. /\ Plain(t) /\ Head(stack[t]) \in Doing(t)
      /\ Doing(t)' \cap OwnLock # {} => Doing(t) \cap OwnLock # {}
      /\ Count(Pinning)' = Count(Pinning)
      /\ Count({"unpinWeak"})' = Count({"unpinWeak"})
      /\ Count(OwnLock)' = Count(OwnLock) - 1
  <2>1. Head(stack[t]) \in Doing(t)
    BY <1>1, <1>2, Inside
  <2>2. Count(Pinning) \in Nat /\ Count({"unpinWeak"}) \in Nat /\ Count(OwnLock) \in Nat
    BY <1>2, CallsFinite DEF Count
  <2>3. CASE Return(t)
    <3>1. /\ Plain(t) /\ Doing(t)' \subseteq Doing(t)
          /\ \A L : Count(L)' = Count(L) - W("release", L)
      BY <1>1, <1>2, <2>3, PlainReturns DEF Labels, Accessing
    <3>2. QED
      BY <1>1, <2>1, <2>2, <3>1 DEF W, Pinning, OwnLock, Locking
  <2>4. CASE Continue(t, <<"wake">>)
    <3>1. /\ Plain(t) /\ Doing(t)' \subseteq Doing(t) \cup {"wake"}
          /\ \A L : Count(L)' = Count(L) - W("release", L) + W("wake", L)
      BY <1>1, <1>2, <2>4, PlainGoesOn DEF Labels, Accessing
    <3>2. QED
      BY <1>1, <2>1, <2>2, <3>1 DEF W, Pinning, OwnLock, Locking
  <2>5. QED
    BY <1>1, <2>3, <2>4
<1>4. /\ locks' = locks /\ pins' = pins /\ weak' = weak
      /\ Cardinality(Having(pins))' = Cardinality(Having(pins))
      /\ Cardinality(Having(weak))' = Cardinality(Having(weak))
      /\ Cardinality(LocksOf(locks))' = Cardinality(LocksOf(locks))
  BY <1>1 DEF clients
<1>5. /\ Strong' = Strong + 0 /\ Weak' = Weak + 0 /\ Queue' = Queue + (-1)
  BY <1>2 DEF FetchSub, TypeOK, lock, counts
<1>6. OneHolder'
  BY <1>1, <1>3, <1>4, HolderStays DEF CountInv, HasLock
<1>7. Strong' \in Nat /\ Weak' \in Nat /\ Queue' \in Nat => TypeOK'
  <2>1. Alone(t) /\ removed' \subseteq Sleepers'
    BY <1>1, <1>2, <1>3, SleepersStay DEF TypeOK, Plain
  <2>2. QED
    BY <1>1, <1>2, <1>4, <2>1 DEF Alone, FetchSub, TypeOK, Stacks, record, block
<1>8. /\ Cardinality(Having(pins))' + Count(Pinning)' = Cardinality(Having(pins)) + Count(Pinning) + 0
      /\ Cardinality(Having(weak))' + Count({"unpinWeak"})'
            = Cardinality(Having(weak)) + Count({"unpinWeak"}) + 0
      /\ Cardinality(LocksOf(locks))' + Count(OwnLock)'
            = Cardinality(LocksOf(locks)) + Count(OwnLock) + (-1)
  <2>1. /\ Cardinality(Having(pins)) \in Nat /\ Cardinality(Having(weak)) \in Nat
        /\ Cardinality(LocksOf(locks)) \in Nat
    BY <1>2, Owed, LifeAssumption DEF Sums, TypeOK, Stacks
  <2>2. Count(Pinning) \in Nat /\ Count({"unpinWeak"}) \in Nat /\ Count(OwnLock) \in Nat
    BY <1>2, CallsFinite DEF Count
  <2>3. QED
    BY <1>3, <1>4, <2>1, <2>2
<1>9. locks' \in [Threads -> 0..MaxLocks]
  BY <1>2, <1>4 DEF TypeOK
<1>10. QED
  BY <1>1, <1>3, <1>5, <1>6, <1>7, <1>8, <1>9, Shifted

LEMMA Count_unpin ==
    ASSUME CountInv, NEW t \in Threads, unpin(t)
    PROVE  CountInv'
<1>1. /\ ~Idle(t) /\ Head(stack[t]) = "unpin"
      /\ Return(t) \/ Continue(t, <<"last">>)
      /\ UNCHANGED <<ThreadID, clients>> /\ removed' = removed
      /\ defined("PERMIT_TERMINATE")' <=> defined("PERMIT_TERMINATE")
  BY DEF unpin, At, Return, lock, defined
<1>2. stack \in Stacks /\ Placed /\ OthersKept(t) /\ TypeOK
  BY <1>1 DEF CountInv, TypeOK, Stacks, clients, OthersKept, Placed
<1>3. /\ Plain(t) /\ Head(stack[t]) \in Doing(t)
      /\ Doing(t)' \cap OwnLock # {} => Doing(t) \cap OwnLock # {}
      /\ Count(Pinning)' = Count(Pinning) - 1
      /\ Count({"unpinWeak"})' = Count({"unpinWeak"})
      /\ Count(OwnLock)' = Count(OwnLock)
  <2>1. Head(stack[t]) \in Doing(t)
    BY <1>1, <1>2, Inside
  <2>2. Count(Pinning) \in Nat /\ Count({"unpinWeak"}) \in Nat /\ Count(OwnLock) \in Nat
    BY <1>2, CallsFinite DEF Count
  <2>3. CASE Return(t)
    <3>1. /\ Plain(t) /\ Doing(t)' \subseteq Doing(t)
          /\ \A L : Count(L)' = Count(L) - W("unpin", L)
      BY <1>1, <1>2, <2>3, PlainReturns DEF Labels, Accessing
    <3>2. QED
      BY <1>1, <2>1, <2>2, <3>1 DEF W, Pinning, OwnLock, Locking
  <2>4. CASE Continue(t, <<"last">>)
    <3>1. /\ Plain(t) /\ Doing(t)' \subseteq Doing(t) \cup {"last"}
          /\ \A L : Count(L)' = Count(L) - W("unpin", L) + W("last", L)
      BY <1>1, <1>2, <2>4, PlainGoesOn DEF Labels, Accessing
    <3>2. QED
      BY <1>1, <2>1, <2>2, <3>1 DEF W, Pinning, OwnLock, Locking
  <2>5. QED
    BY <1>1, <2>3, <2>4
<1>4. /\ locks' = locks /\ pins' = pins /\ weak' = weak
      /\ Cardinality(Having(pins))' = Cardinality(Having(pins))
      /\ Cardinality(Having(weak))' = Cardinality(Having(weak))
      /\ Cardinality(LocksOf(locks))' = Cardinality(LocksOf(locks))
  BY <1>1 DEF clients
<1>5. /\ Strong' = Strong + (-1) /\ Weak' = Weak + 0 /\ Queue' = Queue + 0
  <2>1. Strong > 0
    <3>1. Count(Pinning)' \in Nat
      BY <1>3, CallsFinite DEF Count, Plain, Alone
    <3>2. Count(Pinning) \in Nat
      BY <1>2, CallsFinite DEF Count
    <3>3. Cardinality(Having(pins)) \in Nat
      BY <1>2, Owed, LifeAssumption DEF Sums, TypeOK, Stacks
    <3>4. Strong = Cardinality(Having(pins)) + Count(Pinning)
      BY PinsAreOwed DEF CountInv, PinsOwed
    <3>5. QED
      BY <1>3, <3>1, <3>2, <3>3, <3>4
  <2>2. QED
    BY <1>2, <2>1 DEF unpin, isPinned, TypeOK, lock
<1>6. OneHolder'
  BY <1>1, <1>3, <1>4, HolderStays DEF CountInv, HasLock
<1>7. Strong' \in Nat /\ Weak' \in Nat /\ Queue' \in Nat => TypeOK'
  <2>1. Alone(t) /\ removed' \subseteq Sleepers'
    BY <1>1, <1>2, <1>3, SleepersStay DEF TypeOK, Plain
  <2>2. QED
    BY <1>1, <1>2, <1>4, <2>1 DEF Alone, unpin, TypeOK, Stacks, record, block
<1>8. /\ Cardinality(Having(pins))' + Count(Pinning)' = Cardinality(Having(pins)) + Count(Pinning) + (-1)
      /\ Cardinality(Having(weak))' + Count({"unpinWeak"})'
            = Cardinality(Having(weak)) + Count({"unpinWeak"}) + 0
      /\ Cardinality(LocksOf(locks))' + Count(OwnLock)'
            = Cardinality(LocksOf(locks)) + Count(OwnLock) + 0
  <2>1. /\ Cardinality(Having(pins)) \in Nat /\ Cardinality(Having(weak)) \in Nat
        /\ Cardinality(LocksOf(locks)) \in Nat
    BY <1>2, Owed, LifeAssumption DEF Sums, TypeOK, Stacks
  <2>2. Count(Pinning) \in Nat /\ Count({"unpinWeak"}) \in Nat /\ Count(OwnLock) \in Nat
    BY <1>2, CallsFinite DEF Count
  <2>3. QED
    BY <1>3, <1>4, <2>1, <2>2
<1>9. locks' \in [Threads -> 0..MaxLocks]
  BY <1>2, <1>4 DEF TypeOK
<1>10. QED
  BY <1>1, <1>3, <1>5, <1>6, <1>7, <1>8, <1>9, Shifted

LEMMA Count_unpinWeak ==
    ASSUME CountInv, NEW t \in Threads, unpinWeak(t)
    PROVE  CountInv'
<1>1. /\ ~Idle(t) /\ Head(stack[t]) = "unpinWeak"
      /\ Return(t) \/ Continue(t, <<"last">>)
      /\ UNCHANGED <<ThreadID, clients>> /\ removed' = removed
      /\ defined("PERMIT_TERMINATE")' <=> defined("PERMIT_TERMINATE")
  BY DEF unpinWeak, At, Return, lock, defined
<1>2. stack \in Stacks /\ Placed /\ OthersKept(t) /\ TypeOK
  BY <1>1 DEF CountInv, TypeOK, Stacks, clients, OthersKept, Placed
<1>3. /\ Plain(t) /\ Head(stack[t]) \in Doing(t)
      /\ Doing(t)' \cap OwnLock # {} => Doing(t) \cap OwnLock # {}
      /\ Count(Pinning)' = Count(Pinning)
      /\ Count({"unpinWeak"})' = Count({"unpinWeak"}) - 1
      /\ Count(OwnLock)' = Count(OwnLock)
  <2>1. Head(stack[t]) \in Doing(t)
    BY <1>1, <1>2, Inside
  <2>2. Count(Pinning) \in Nat /\ Count({"unpinWeak"}) \in Nat /\ Count(OwnLock) \in Nat
    BY <1>2, CallsFinite DEF Count
  <2>3. CASE Return(t)
    <3>1. /\ Plain(t) /\ Doing(t)' \subseteq Doing(t)
          /\ \A L : Count(L)' = Count(L) - W("unpinWeak", L)
      BY <1>1, <1>2, <2>3, PlainReturns DEF Labels, Accessing
    <3>2. QED
      BY <1>1, <2>1, <2>2, <3>1 DEF W, Pinning, OwnLock, Locking
  <2>4. CASE Continue(t, <<"last">>)
    <3>1. /\ Plain(t) /\ Doing(t)' \subseteq Doing(t) \cup {"last"}
          /\ \A L : Count(L)' = Count(L) - W("unpinWeak", L) + W("last", L)
      BY <1>1, <1>2, <2>4, PlainGoesOn DEF Labels, Accessing
    <3>2. QED
      BY <1>1, <2>1, <2>2, <3>1 DEF W, Pinning, OwnLock, Locking
  <2>5. QED
    BY <1>1, <2>3, <2>4
<1>4. /\ locks' = locks /\ pins' = pins /\ weak' = weak
      /\ Cardinality(Having(pins))' = Cardinality(Having(pins))
      /\ Cardinality(Having(weak))' = Cardinality(Having(weak))
      /\ Cardinality(LocksOf(locks))' = Cardinality(LocksOf(locks))
  BY <1>1 DEF clients
<1>5. /\ Strong' = Strong + 0 /\ Weak' = Weak + (-1) /\ Queue' = Queue + 0
  BY <1>2 DEF unpinWeak, TypeOK, lock, counts
<1>6. OneHolder'
  BY <1>1, <1>3, <1>4, HolderStays DEF CountInv, HasLock
<1>7. Strong' \in Nat /\ Weak' \in Nat /\ Queue' \in Nat => TypeOK'
  <2>1. Alone(t) /\ removed' \subseteq Sleepers'
    BY <1>1, <1>2, <1>3, SleepersStay DEF TypeOK, Plain
  <2>2. QED
    BY <1>1, <1>2, <1>4, <2>1 DEF Alone, unpinWeak, TypeOK, Stacks, record, block
<1>8. /\ Cardinality(Having(pins))' + Count(Pinning)' = Cardinality(Having(pins)) + Count(Pinning) + 0
      /\ Cardinality(Having(weak))' + Count({"unpinWeak"})'
            = Cardinality(Having(weak)) + Count({"unpinWeak"}) + (-1)
      /\ Cardinality(LocksOf(locks))' + Count(OwnLock)'
            = Cardinality(LocksOf(locks)) + Count(OwnLock) + 0
  <2>1. /\ Cardinality(Having(pins)) \in Nat /\ Cardinality(Having(weak)) \in Nat
        /\ Cardinality(LocksOf(locks)) \in Nat
    BY <1>2, Owed, LifeAssumption DEF Sums, TypeOK, Stacks
  <2>2. Count(Pinning) \in Nat /\ Count({"unpinWeak"}) \in Nat /\ Count(OwnLock) \in Nat
    BY <1>2, CallsFinite DEF Count
  <2>3. QED
    BY <1>3, <1>4, <2>1, <2>2
<1>9. locks' \in [Threads -> 0..MaxLocks]
  BY <1>2, <1>4 DEF TypeOK
<1>10. QED
  BY <1>1, <1>3, <1>5, <1>6, <1>7, <1>8, <1>9, Shifted

LEMMA Count_BeginTermination ==
    ASSUME CountInv, NEW t \in Threads, BeginTermination(t)
    PROVE  CountInv'
<1>1. /\ ~Idle(t) /\ Head(stack[t]) = "begin"
      /\ Continue(t, <<"teardown">>)
      /\ UNCHANGED <<ThreadID, clients>> /\ removed' = removed
      /\ defined("PERMIT_TERMINATE")' <=> defined("PERMIT_TERMINATE")
  BY DEF BeginTermination, At, Return, lock, defined
<1>2. stack \in Stacks /\ Placed /\ OthersKept(t) /\ TypeOK
  BY <1>1 DEF CountInv, TypeOK, Stacks, clients, OthersKept, Placed
<1>3. /\ Plain(t) /\ Head(stack[t]) \in Doing(t)
      /\ Doing(t)' \cap OwnLock # {} => Doing(t) \cap OwnLock # {}
      /\ Count(Pinning)' = Count(Pinning) + 1
      /\ Count({"unpinWeak"})' = Count({"unpinWeak"})
      /\ Count(OwnLock)' = Count(OwnLock)
  <2>1. Head(stack[t]) \in Doing(t)
    BY <1>1, <1>2, Inside
  <2>2. Count(Pinning) \in Nat /\ Count({"unpinWeak"}) \in Nat /\ Count(OwnLock) \in Nat
    BY <1>2, CallsFinite DEF Count
  <2>3. CASE Continue(t, <<"teardown">>)
    <3>1. /\ Plain(t) /\ Doing(t)' \subseteq Doing(t) \cup {"teardown"}
          /\ \A L : Count(L)' = Count(L) - W("begin", L) + W("teardown", L)
      BY <1>1, <1>2, <2>3, PlainGoesOn DEF Labels, Accessing
    <3>2. QED
      BY <1>1, <2>1, <2>2, <3>1 DEF W, Pinning, OwnLock, Locking
  <2>4. QED
    BY <1>1, <2>3
<1>4. /\ locks' = locks /\ pins' = pins /\ weak' = weak
      /\ Cardinality(Having(pins))' = Cardinality(Having(pins))
      /\ Cardinality(Having(weak))' = Cardinality(Having(weak))
      /\ Cardinality(LocksOf(locks))' = Cardinality(LocksOf(locks))
  BY <1>1 DEF clients
<1>5. /\ Strong' = Strong + 1 /\ Weak' = Weak + 0 /\ Queue' = Queue + 0
  BY <1>2 DEF BeginTermination, TypeOK, lock, counts
<1>6. OneHolder'
  BY <1>1, <1>3, <1>4, HolderStays DEF CountInv, HasLock
<1>7. Strong' \in Nat /\ Weak' \in Nat /\ Queue' \in Nat => TypeOK'
  <2>1. Alone(t) /\ removed' \subseteq Sleepers'
    BY <1>1, <1>2, <1>3, SleepersStay DEF TypeOK, Plain
  <2>2. QED
    BY <1>1, <1>2, <1>4, <2>1 DEF Alone, BeginTermination, TypeOK, Stacks, record, block
<1>8. /\ Cardinality(Having(pins))' + Count(Pinning)' = Cardinality(Having(pins)) + Count(Pinning) + 1
      /\ Cardinality(Having(weak))' + Count({"unpinWeak"})'
            = Cardinality(Having(weak)) + Count({"unpinWeak"}) + 0
      /\ Cardinality(LocksOf(locks))' + Count(OwnLock)'
            = Cardinality(LocksOf(locks)) + Count(OwnLock) + 0
  <2>1. /\ Cardinality(Having(pins)) \in Nat /\ Cardinality(Having(weak)) \in Nat
        /\ Cardinality(LocksOf(locks)) \in Nat
    BY <1>2, Owed, LifeAssumption DEF Sums, TypeOK, Stacks
  <2>2. Count(Pinning) \in Nat /\ Count({"unpinWeak"}) \in Nat /\ Count(OwnLock) \in Nat
    BY <1>2, CallsFinite DEF Count
  <2>3. QED
    BY <1>3, <1>4, <2>1, <2>2
<1>9. locks' \in [Threads -> 0..MaxLocks]
  BY <1>2, <1>4 DEF TypeOK
<1>10. QED
  BY <1>1, <1>3, <1>5, <1>6, <1>7, <1>8, <1>9, Shifted
LEMMA PlainStays ==
    ASSUME stack \in Stacks, Placed, NEW t \in Threads, OthersKept(t), Idle(t), stack' = stack
    PROVE  /\ Plain(t) /\ Doing(t) = {} /\ Doing(t)' = {}
           /\ \A L : Count(L)' = Count(L)
<1>1. Doing(t) = {} /\ Below(t) = {} /\ Len(stack[t]) = 0
  BY Inside
<1>2. \A u \in Threads : Doing(u)' = Doing(u) /\ Below(u)' = Below(u)
  BY DEF Doing, Below
<1>3. Alone(t)
  BY <1>2 DEF Alone
<1>4. Plain(t)
  BY <1>1, <1>2, <1>3, Plainly
<1>5. QED
  BY <1>1, <1>2, <1>4 DEF Count

LEMMA PlainBeginsTwo ==
    ASSUME stack \in Stacks, Placed, NEW t \in Threads, OthersKept(t),
           Begin(t, <<"unpin", "ready">>)
    PROVE  /\ Plain(t)
           /\ Idle(t) /\ Doing(t)' = {"unpin", "ready"}
           /\ \A L : Count(L)' = Count(L) + W("unpin", L) + W("ready", L)
<1>1. "unpin" \in Labels /\ "ready" \in Labels
  BY DEF Labels
<1>2. /\ Alone(t) /\ Idle(t)
      /\ Len(stack'[t]) = 2 /\ Height(stack'[t], 1) = "ready" /\ Height(stack'[t], 2) = "unpin"
      /\ Doing(t)' = {"unpin", "ready"} /\ Below(t)' = {"ready"}
      /\ \A L : Count(L)' = Count(L) + W("unpin", L) + W("ready", L)
  BY <1>1, BeginsTwo
<1>3. Doing(t) = {} /\ Below(t) = {}
  BY <1>2, Inside
<1>4. \A i \in 1..Len(stack'[t]) : Height(stack'[t], i) # "msg_free"
  <2>1. 1..2 = {1, 2}
    OBVIOUS
  <2>2. QED
    BY <1>2, <2>1
<1>5. Plain(t)
  BY <1>2, <1>3, <1>4, Plainly DEF Accessing, Callers
<1>6. QED
  BY <1>2, <1>5

LEMMA Count_GiveBack ==
    ASSUME CountInv, NEW t \in Threads, NEW call \in {"release", "unlock"}, GiveBack(t, call)
    PROVE  CountInv'
<1>1. /\ Begin(t, <<call>>)
      /\ pins' = pins /\ weak' = weak
      /\ locks[t] > 0 /\ locks' = [locks EXCEPT ![t] = @ - 1]
      /\ ThreadID' = ThreadID /\ removed' = removed /\ Flags' = Flags
  BY DEF GiveBack, clients, lock
<1>2. stack \in Stacks /\ Placed /\ OthersKept(t) /\ TypeOK
  BY <1>1 DEF CountInv, TypeOK, Stacks, OthersKept, Placed
<1>3. /\ Plain(t) /\ Idle(t) /\ Doing(t)' = {call}
      /\ \A L : Count(L)' = Count(L) + W(call, L)
  BY <1>1, <1>2, PlainBegins DEF Labels, Accessing
<1>4. /\ Count(Pinning)' = Count(Pinning)
      /\ Count({"unpinWeak"})' = Count({"unpinWeak"})
      /\ Count(OwnLock)' = Count(OwnLock) + 1
  <2>1. Count(Pinning) \in Nat /\ Count({"unpinWeak"}) \in Nat /\ Count(OwnLock) \in Nat
    BY <1>2, CallsFinite DEF Count
  <2>2. QED
    BY <1>3, <2>1 DEF W, Pinning, OwnLock, Locking
<1>5. /\ Cardinality(Having(pins))' = Cardinality(Having(pins))
      /\ Cardinality(Having(weak))' = Cardinality(Having(weak))
      /\ Cardinality(LocksOf(locks))' = Cardinality(LocksOf(locks)) - 1
  <2>1. Cardinality(Having(pins))' = Cardinality(Having(pins))
    BY <1>1
  <2>2. Cardinality(Having(weak))' = Cardinality(Having(weak))
    BY <1>1
  <2>3. Cardinality(LocksOf(locks))' = Cardinality(LocksOf(locks)) - 1
    <3>1. locks \in [Threads -> Nat]
      BY <1>2, LifeAssumption DEF TypeOK
    <3>2. QED
      BY <1>1, <3>1, LockTaken
  <2>4. QED
    BY <2>1, <2>2, <2>3
<1>6. /\ Strong' = Strong + 0 /\ Weak' = Weak + 0 /\ Queue' = Queue + 0
  BY <1>2 DEF GiveBack, TypeOK, lock, counts
<1>7. OneHolder'
  BY <1>1, <1>3, HolderStays DEF CountInv, HasLock, OwnLock, Locking
<1>8. locks' \in [Threads -> 0..MaxLocks] /\ pins' \in [Threads -> BOOLEAN] /\ weak' \in [Threads -> BOOLEAN]
  BY <1>1, <1>2, LifeAssumption DEF TypeOK
<1>9. Strong' \in Nat /\ Weak' \in Nat /\ Queue' \in Nat => TypeOK'
  <2>1. Alone(t) /\ removed' \subseteq Sleepers'
    BY <1>1, <1>2, <1>3, SleepersStay DEF TypeOK, Plain
  <2>2. QED
    BY <1>1, <1>2, <1>8, <2>1 DEF Alone, GiveBack, TypeOK, Stacks, record, block
<1>10. /\ Cardinality(Having(pins))' + Count(Pinning)' = Cardinality(Having(pins)) + Count(Pinning) + 0
       /\ Cardinality(Having(weak))' + Count({"unpinWeak"})'
             = Cardinality(Having(weak)) + Count({"unpinWeak"}) + 0
       /\ Cardinality(LocksOf(locks))' + Count(OwnLock)' = Cardinality(LocksOf(locks)) + Count(OwnLock) + 0
  <2>1. /\ Cardinality(Having(pins)) \in Nat /\ Cardinality(Having(weak)) \in Nat
        /\ Cardinality(LocksOf(locks)) \in Nat
    BY <1>2, Owed, LifeAssumption DEF Sums, TypeOK, Stacks
  <2>2. Count(Pinning) \in Nat /\ Count({"unpinWeak"}) \in Nat /\ Count(OwnLock) \in Nat
    BY <1>2, CallsFinite DEF Count
  <2>3. QED
    BY <1>4, <1>5, <2>1, <2>2
<1>11. Plain(t) /\ (defined("PERMIT_TERMINATE")' <=> defined("PERMIT_TERMINATE"))
  BY <1>1, <1>3 DEF defined
<1>12. QED
  BY <1>6, <1>7, <1>8, <1>9, <1>10, <1>11, Shifted

LEMMA Count_SharedObjectAccess ==
    ASSUME CountInv, NEW t \in Threads, SharedObjectAccess(t)
    PROVE  CountInv'
<1>1. /\ Begin(t, <<"shared">>)
      /\ locks' = locks /\ pins' = pins /\ weak' = weak
      /\ ~pins[t]
      /\ ThreadID' = ThreadID /\ removed' = removed /\ Flags' = Flags
  BY DEF SharedObjectAccess, clients, lock
<1>2. stack \in Stacks /\ Placed /\ OthersKept(t) /\ TypeOK
  BY <1>1 DEF CountInv, TypeOK, Stacks, OthersKept, Placed
<1>3. /\ Plain(t) /\ Idle(t) /\ Doing(t)' = {"shared"}
      /\ \A L : Count(L)' = Count(L) + W("shared", L)
  BY <1>1, <1>2, PlainBegins DEF Labels, Accessing
<1>4. /\ Count(Pinning)' = Count(Pinning) + 1
      /\ Count({"unpinWeak"})' = Count({"unpinWeak"})
      /\ Count(OwnLock)' = Count(OwnLock)
  <2>1. Count(Pinning) \in Nat /\ Count({"unpinWeak"}) \in Nat /\ Count(OwnLock) \in Nat
    BY <1>2, CallsFinite DEF Count
  <2>2. QED
    BY <1>3, <2>1 DEF W, Pinning, OwnLock, Locking
<1>5. /\ Cardinality(Having(pins))' = Cardinality(Having(pins))
      /\ Cardinality(Having(weak))' = Cardinality(Having(weak))
      /\ Cardinality(LocksOf(locks))' = Cardinality(LocksOf(locks))
  <2>1. Cardinality(Having(pins))' = Cardinality(Having(pins))
    BY <1>1
  <2>2. Cardinality(Having(weak))' = Cardinality(Having(weak))
    BY <1>1
  <2>3. Cardinality(LocksOf(locks))' = Cardinality(LocksOf(locks))
    BY <1>1
  <2>4. QED
    BY <2>1, <2>2, <2>3
<1>6. /\ Strong' = Strong + 1 /\ Weak' = Weak + 0 /\ Queue' = Queue + 0
  BY <1>2 DEF SharedObjectAccess, TypeOK, lock, counts
<1>7. OneHolder'
  BY <1>1, <1>3, HolderStays DEF CountInv, HasLock, OwnLock, Locking
<1>8. locks' \in [Threads -> 0..MaxLocks] /\ pins' \in [Threads -> BOOLEAN] /\ weak' \in [Threads -> BOOLEAN]
  BY <1>1, <1>2, LifeAssumption DEF TypeOK
<1>9. Strong' \in Nat /\ Weak' \in Nat /\ Queue' \in Nat => TypeOK'
  <2>1. Alone(t) /\ removed' \subseteq Sleepers'
    BY <1>1, <1>2, <1>3, SleepersStay DEF TypeOK, Plain
  <2>2. QED
    BY <1>1, <1>2, <1>8, <2>1 DEF Alone, SharedObjectAccess, TypeOK, Stacks, record, block
<1>10. /\ Cardinality(Having(pins))' + Count(Pinning)' = Cardinality(Having(pins)) + Count(Pinning) + 1
       /\ Cardinality(Having(weak))' + Count({"unpinWeak"})'
             = Cardinality(Having(weak)) + Count({"unpinWeak"}) + 0
       /\ Cardinality(LocksOf(locks))' + Count(OwnLock)' = Cardinality(LocksOf(locks)) + Count(OwnLock) + 0
  <2>1. /\ Cardinality(Having(pins)) \in Nat /\ Cardinality(Having(weak)) \in Nat
        /\ Cardinality(LocksOf(locks)) \in Nat
    BY <1>2, Owed, LifeAssumption DEF Sums, TypeOK, Stacks
  <2>2. Count(Pinning) \in Nat /\ Count({"unpinWeak"}) \in Nat /\ Count(OwnLock) \in Nat
    BY <1>2, CallsFinite DEF Count
  <2>3. QED
    BY <1>4, <1>5, <2>1, <2>2
<1>11. Plain(t) /\ (defined("PERMIT_TERMINATE")' <=> defined("PERMIT_TERMINATE"))
  BY <1>1, <1>3 DEF defined
<1>12. QED
  BY <1>6, <1>7, <1>8, <1>9, <1>10, <1>11, Shifted

LEMMA Count_BeginUnpinWeak ==
    ASSUME CountInv, NEW t \in Threads, BeginUnpinWeak(t)
    PROVE  CountInv'
<1>1. /\ Begin(t, <<"unpinWeak">>)
      /\ locks' = locks /\ pins' = pins
      /\ weak[t] /\ weak' = [weak EXCEPT ![t] = FALSE]
      /\ ThreadID' = ThreadID /\ removed' = removed /\ Flags' = Flags
  BY DEF BeginUnpinWeak, clients, lock
<1>2. stack \in Stacks /\ Placed /\ OthersKept(t) /\ TypeOK
  BY <1>1 DEF CountInv, TypeOK, Stacks, OthersKept, Placed
<1>3. /\ Plain(t) /\ Idle(t) /\ Doing(t)' = {"unpinWeak"}
      /\ \A L : Count(L)' = Count(L) + W("unpinWeak", L)
  BY <1>1, <1>2, PlainBegins DEF Labels, Accessing
<1>4. /\ Count(Pinning)' = Count(Pinning)
      /\ Count({"unpinWeak"})' = Count({"unpinWeak"}) + 1
      /\ Count(OwnLock)' = Count(OwnLock)
  <2>1. Count(Pinning) \in Nat /\ Count({"unpinWeak"}) \in Nat /\ Count(OwnLock) \in Nat
    BY <1>2, CallsFinite DEF Count
  <2>2. QED
    BY <1>3, <2>1 DEF W, Pinning, OwnLock, Locking
<1>5. /\ Cardinality(Having(pins))' = Cardinality(Having(pins))
      /\ Cardinality(Having(weak))' = Cardinality(Having(weak)) - 1
      /\ Cardinality(LocksOf(locks))' = Cardinality(LocksOf(locks))
  <2>1. Cardinality(Having(pins))' = Cardinality(Having(pins))
    BY <1>1
  <2>2. Cardinality(Having(weak))' = Cardinality(Having(weak)) - 1
    BY <1>1, <1>2, Toggle DEF TypeOK
  <2>3. Cardinality(LocksOf(locks))' = Cardinality(LocksOf(locks))
    BY <1>1
  <2>4. QED
    BY <2>1, <2>2, <2>3
<1>6. /\ Strong' = Strong + 0 /\ Weak' = Weak + 0 /\ Queue' = Queue + 0
  BY <1>2 DEF BeginUnpinWeak, TypeOK, lock, counts
<1>7. OneHolder'
  BY <1>1, <1>3, HolderStays DEF CountInv, HasLock, OwnLock, Locking
<1>8. locks' \in [Threads -> 0..MaxLocks] /\ pins' \in [Threads -> BOOLEAN] /\ weak' \in [Threads -> BOOLEAN]
  BY <1>1, <1>2, LifeAssumption DEF TypeOK
<1>9. Strong' \in Nat /\ Weak' \in Nat /\ Queue' \in Nat => TypeOK'
  <2>1. Alone(t) /\ removed' \subseteq Sleepers'
    BY <1>1, <1>2, <1>3, SleepersStay DEF TypeOK, Plain
  <2>2. QED
    BY <1>1, <1>2, <1>8, <2>1 DEF Alone, BeginUnpinWeak, TypeOK, Stacks, record, block
<1>10. /\ Cardinality(Having(pins))' + Count(Pinning)' = Cardinality(Having(pins)) + Count(Pinning) + 0
       /\ Cardinality(Having(weak))' + Count({"unpinWeak"})'
             = Cardinality(Having(weak)) + Count({"unpinWeak"}) + 0
       /\ Cardinality(LocksOf(locks))' + Count(OwnLock)' = Cardinality(LocksOf(locks)) + Count(OwnLock) + 0
  <2>1. /\ Cardinality(Having(pins)) \in Nat /\ Cardinality(Having(weak)) \in Nat
        /\ Cardinality(LocksOf(locks)) \in Nat
    BY <1>2, Owed, LifeAssumption DEF Sums, TypeOK, Stacks
  <2>2. Count(Pinning) \in Nat /\ Count({"unpinWeak"}) \in Nat /\ Count(OwnLock) \in Nat
    BY <1>2, CallsFinite DEF Count
  <2>3. QED
    BY <1>4, <1>5, <2>1, <2>2
<1>11. Plain(t) /\ (defined("PERMIT_TERMINATE")' <=> defined("PERMIT_TERMINATE"))
  BY <1>1, <1>3 DEF defined
<1>12. QED
  BY <1>6, <1>7, <1>8, <1>9, <1>10, <1>11, Shifted

LEMMA Count_BeginUnpin ==
    ASSUME CountInv, NEW t \in Threads, BeginUnpin(t)
    PROVE  CountInv'
<1>1. /\ Begin(t, <<"unpin", "ready">>)
      /\ locks' = locks /\ weak' = weak
      /\ pins[t] /\ pins' = [pins EXCEPT ![t] = FALSE]
      /\ ThreadID' = ThreadID /\ removed' = removed /\ Flags' = Flags
  BY DEF BeginUnpin, clients, lock
<1>2. stack \in Stacks /\ Placed /\ OthersKept(t) /\ TypeOK
  BY <1>1 DEF CountInv, TypeOK, Stacks, OthersKept, Placed
<1>3. /\ Plain(t) /\ Idle(t) /\ Doing(t)' = {"unpin", "ready"}
      /\ \A L : Count(L)' = Count(L) + W("unpin", L) + W("ready", L)
  BY <1>1, <1>2, PlainBeginsTwo DEF Labels, Accessing
<1>4. /\ Count(Pinning)' = Count(Pinning) + 1
      /\ Count({"unpinWeak"})' = Count({"unpinWeak"})
      /\ Count(OwnLock)' = Count(OwnLock)
  <2>1. Count(Pinning) \in Nat /\ Count({"unpinWeak"}) \in Nat /\ Count(OwnLock) \in Nat
    BY <1>2, CallsFinite DEF Count
  <2>2. QED
    BY <1>3, <2>1 DEF W, Pinning, OwnLock, Locking
<1>5. /\ Cardinality(Having(pins))' = Cardinality(Having(pins)) - 1
      /\ Cardinality(Having(weak))' = Cardinality(Having(weak))
      /\ Cardinality(LocksOf(locks))' = Cardinality(LocksOf(locks))
  <2>1. Cardinality(Having(pins))' = Cardinality(Having(pins)) - 1
    BY <1>1, <1>2, Toggle DEF TypeOK
  <2>2. Cardinality(Having(weak))' = Cardinality(Having(weak))
    BY <1>1
  <2>3. Cardinality(LocksOf(locks))' = Cardinality(LocksOf(locks))
    BY <1>1
  <2>4. QED
    BY <2>1, <2>2, <2>3
<1>6. /\ Strong' = Strong + 0 /\ Weak' = Weak + 0 /\ Queue' = Queue + 0
  BY <1>2 DEF BeginUnpin, TypeOK, lock, counts
<1>7. OneHolder'
  BY <1>1, <1>3, HolderStays DEF CountInv, HasLock, OwnLock, Locking
<1>8. locks' \in [Threads -> 0..MaxLocks] /\ pins' \in [Threads -> BOOLEAN] /\ weak' \in [Threads -> BOOLEAN]
  BY <1>1, <1>2, LifeAssumption DEF TypeOK
<1>9. Strong' \in Nat /\ Weak' \in Nat /\ Queue' \in Nat => TypeOK'
  <2>1. Alone(t) /\ removed' \subseteq Sleepers'
    BY <1>1, <1>2, <1>3, SleepersStay DEF TypeOK, Plain
  <2>2. QED
    BY <1>1, <1>2, <1>8, <2>1 DEF Alone, BeginUnpin, TypeOK, Stacks, record, block
<1>10. /\ Cardinality(Having(pins))' + Count(Pinning)' = Cardinality(Having(pins)) + Count(Pinning) + 0
       /\ Cardinality(Having(weak))' + Count({"unpinWeak"})'
             = Cardinality(Having(weak)) + Count({"unpinWeak"}) + 0
       /\ Cardinality(LocksOf(locks))' + Count(OwnLock)' = Cardinality(LocksOf(locks)) + Count(OwnLock) + 0
  <2>1. /\ Cardinality(Having(pins)) \in Nat /\ Cardinality(Having(weak)) \in Nat
        /\ Cardinality(LocksOf(locks)) \in Nat
    BY <1>2, Owed, LifeAssumption DEF Sums, TypeOK, Stacks
  <2>2. Count(Pinning) \in Nat /\ Count({"unpinWeak"}) \in Nat /\ Count(OwnLock) \in Nat
    BY <1>2, CallsFinite DEF Count
  <2>3. QED
    BY <1>4, <1>5, <2>1, <2>2
<1>11. Plain(t) /\ (defined("PERMIT_TERMINATE")' <=> defined("PERMIT_TERMINATE"))
  BY <1>1, <1>3 DEF defined
<1>12. QED
  BY <1>6, <1>7, <1>8, <1>9, <1>10, <1>11, Shifted

LEMMA Count_pin ==
    ASSUME CountInv, NEW t \in Threads, pin(t)
    PROVE  CountInv'
<1>1. /\ Idle(t) /\ stack' = stack
      /\ locks' = locks /\ weak' = weak
      /\ locks[t] > 0 /\ ~pins[t] /\ pins' = [pins EXCEPT ![t] = TRUE]
      /\ ThreadID' = ThreadID /\ removed' = removed /\ Flags' = Flags
  BY DEF pin, clients, lock
<1>2. stack \in Stacks /\ Placed /\ OthersKept(t) /\ TypeOK
  BY <1>1 DEF CountInv, TypeOK, Stacks, OthersKept, Placed
<1>3. /\ Plain(t) /\ Doing(t)' = {}
      /\ \A L : Count(L)' = Count(L)
  BY <1>1, <1>2, PlainStays DEF Labels, Accessing
<1>4. /\ Count(Pinning)' = Count(Pinning)
      /\ Count({"unpinWeak"})' = Count({"unpinWeak"})
      /\ Count(OwnLock)' = Count(OwnLock)
  <2>1. Count(Pinning) \in Nat /\ Count({"unpinWeak"}) \in Nat /\ Count(OwnLock) \in Nat
    BY <1>2, CallsFinite DEF Count
  <2>2. QED
    BY <1>3, <2>1 DEF W, Pinning, OwnLock, Locking
<1>5. /\ Cardinality(Having(pins))' = Cardinality(Having(pins)) + 1
      /\ Cardinality(Having(weak))' = Cardinality(Having(weak))
      /\ Cardinality(LocksOf(locks))' = Cardinality(LocksOf(locks))
  <2>1. Cardinality(Having(pins))' = Cardinality(Having(pins)) + 1
    BY <1>1, <1>2, Toggle DEF TypeOK
  <2>2. Cardinality(Having(weak))' = Cardinality(Having(weak))
    BY <1>1
  <2>3. Cardinality(LocksOf(locks))' = Cardinality(LocksOf(locks))
    BY <1>1
  <2>4. QED
    BY <2>1, <2>2, <2>3
<1>6. /\ Strong' = Strong + 1 /\ Weak' = Weak + 0 /\ Queue' = Queue + 0
  BY <1>2 DEF pin, TypeOK, lock, counts
<1>7. OneHolder'
  BY <1>1, <1>3, HolderStays DEF CountInv, HasLock, OwnLock, Locking
<1>8. locks' \in [Threads -> 0..MaxLocks] /\ pins' \in [Threads -> BOOLEAN] /\ weak' \in [Threads -> BOOLEAN]
  BY <1>1, <1>2, LifeAssumption DEF TypeOK
<1>9. Strong' \in Nat /\ Weak' \in Nat /\ Queue' \in Nat => TypeOK'
  <2>1. Alone(t) /\ removed' \subseteq Sleepers'
    BY <1>1, <1>2, <1>3, SleepersStay DEF TypeOK, Plain
  <2>2. QED
    BY <1>1, <1>2, <1>8, <2>1 DEF Alone, pin, TypeOK, Stacks, record, block
<1>10. /\ Cardinality(Having(pins))' + Count(Pinning)' = Cardinality(Having(pins)) + Count(Pinning) + 1
       /\ Cardinality(Having(weak))' + Count({"unpinWeak"})'
             = Cardinality(Having(weak)) + Count({"unpinWeak"}) + 0
       /\ Cardinality(LocksOf(locks))' + Count(OwnLock)' = Cardinality(LocksOf(locks)) + Count(OwnLock) + 0
  <2>1. /\ Cardinality(Having(pins)) \in Nat /\ Cardinality(Having(weak)) \in Nat
        /\ Cardinality(LocksOf(locks)) \in Nat
    BY <1>2, Owed, LifeAssumption DEF Sums, TypeOK, Stacks
  <2>2. Count(Pinning) \in Nat /\ Count({"unpinWeak"}) \in Nat /\ Count(OwnLock) \in Nat
    BY <1>2, CallsFinite DEF Count
  <2>3. QED
    BY <1>4, <1>5, <2>1, <2>2
<1>11. Plain(t) /\ (defined("PERMIT_TERMINATE")' <=> defined("PERMIT_TERMINATE"))
  BY <1>1, <1>3 DEF defined
<1>12. QED
  BY <1>6, <1>7, <1>8, <1>9, <1>10, <1>11, Shifted

LEMMA Count_PinWeakObject ==
    ASSUME CountInv, NEW t \in Threads, PinWeakObject(t)
    PROVE  CountInv'
<1>1. /\ Idle(t) /\ stack' = stack
      /\ locks' = locks /\ pins' = pins
      /\ ~weak[t] /\ weak' = [weak EXCEPT ![t] = TRUE]
      /\ ThreadID' = ThreadID /\ removed' = removed /\ Flags' = Flags
  BY DEF PinWeakObject, clients, lock
<1>2. stack \in Stacks /\ Placed /\ OthersKept(t) /\ TypeOK
  BY <1>1 DEF CountInv, TypeOK, Stacks, OthersKept, Placed
<1>3. /\ Plain(t) /\ Doing(t)' = {}
      /\ \A L : Count(L)' = Count(L)
  BY <1>1, <1>2, PlainStays DEF Labels, Accessing
<1>4. /\ Count(Pinning)' = Count(Pinning)
      /\ Count({"unpinWeak"})' = Count({"unpinWeak"})
      /\ Count(OwnLock)' = Count(OwnLock)
  <2>1. Count(Pinning) \in Nat /\ Count({"unpinWeak"}) \in Nat /\ Count(OwnLock) \in Nat
    BY <1>2, CallsFinite DEF Count
  <2>2. QED
    BY <1>3, <2>1 DEF W, Pinning, OwnLock, Locking
<1>5. /\ Cardinality(Having(pins))' = Cardinality(Having(pins))
      /\ Cardinality(Having(weak))' = Cardinality(Having(weak)) + 1
      /\ Cardinality(LocksOf(locks))' = Cardinality(LocksOf(locks))
  <2>1. Cardinality(Having(pins))' = Cardinality(Having(pins))
    BY <1>1
  <2>2. Cardinality(Having(weak))' = Cardinality(Having(weak)) + 1
    BY <1>1, <1>2, Toggle DEF TypeOK
  <2>3. Cardinality(LocksOf(locks))' = Cardinality(LocksOf(locks))
    BY <1>1
  <2>4. QED
    BY <2>1, <2>2, <2>3
<1>6. /\ Strong' = Strong + 0 /\ Weak' = Weak + 1 /\ Queue' = Queue + 0
  BY <1>2 DEF PinWeakObject, TypeOK, lock, counts
<1>7. OneHolder'
  BY <1>1, <1>3, HolderStays DEF CountInv, HasLock, OwnLock, Locking
<1>8. locks' \in [Threads -> 0..MaxLocks] /\ pins' \in [Threads -> BOOLEAN] /\ weak' \in [Threads -> BOOLEAN]
  BY <1>1, <1>2, LifeAssumption DEF TypeOK
<1>9. Strong' \in Nat /\ Weak' \in Nat /\ Queue' \in Nat => TypeOK'
  <2>1. Alone(t) /\ removed' \subseteq Sleepers'
    BY <1>1, <1>2, <1>3, SleepersStay DEF TypeOK, Plain
  <2>2. QED
    BY <1>1, <1>2, <1>8, <2>1 DEF Alone, PinWeakObject, TypeOK, Stacks, record, block
<1>10. /\ Cardinality(Having(pins))' + Count(Pinning)' = Cardinality(Having(pins)) + Count(Pinning) + 0
       /\ Cardinality(Having(weak))' + Count({"unpinWeak"})'
             = Cardinality(Having(weak)) + Count({"unpinWeak"}) + 1
       /\ Cardinality(LocksOf(locks))' + Count(OwnLock)' = Cardinality(LocksOf(locks)) + Count(OwnLock) + 0
  <2>1. /\ Cardinality(Having(pins)) \in Nat /\ Cardinality(Having(weak)) \in Nat
        /\ Cardinality(LocksOf(locks)) \in Nat
    BY <1>2, Owed, LifeAssumption DEF Sums, TypeOK, Stacks
  <2>2. Count(Pinning) \in Nat /\ Count({"unpinWeak"}) \in Nat /\ Count(OwnLock) \in Nat
    BY <1>2, CallsFinite DEF Count
  <2>3. QED
    BY <1>4, <1>5, <2>1, <2>2
<1>11. Plain(t) /\ (defined("PERMIT_TERMINATE")' <=> defined("PERMIT_TERMINATE"))
  BY <1>1, <1>3 DEF defined
<1>12. QED
  BY <1>6, <1>7, <1>8, <1>9, <1>10, <1>11, Shifted
LEMMA Count_CheckPinsLast ==
    ASSUME CountInv, NEW t \in Threads, CheckPins(t), LastPin
    PROVE  CountInv'
<1>1. /\ ~Idle(t) /\ Head(stack[t]) = "pins"
      /\ Continue(t, <<"fast">>)
      /\ UNCHANGED <<ThreadID, clients>> /\ removed' = removed
      /\ defined("PERMIT_TERMINATE")' <=> defined("PERMIT_TERMINATE")
  BY DEF CheckPins, At, Return, lock, defined
<1>2. stack \in Stacks /\ Placed /\ OthersKept(t) /\ TypeOK
  BY <1>1 DEF CountInv, TypeOK, Stacks, clients, OthersKept, Placed
<1>3. /\ Plain(t) /\ Head(stack[t]) \in Doing(t)
      /\ Doing(t)' \cap OwnLock # {} => Doing(t) \cap OwnLock # {}
      /\ Count(Pinning)' = Count(Pinning) - 1
      /\ Count({"unpinWeak"})' = Count({"unpinWeak"})
      /\ Count(OwnLock)' = Count(OwnLock)
  <2>1. Head(stack[t]) \in Doing(t)
    BY <1>1, <1>2, Inside
  <2>2. Count(Pinning) \in Nat /\ Count({"unpinWeak"}) \in Nat /\ Count(OwnLock) \in Nat
    BY <1>2, CallsFinite DEF Count
  <2>3. CASE Continue(t, <<"fast">>)
    <3>1. /\ Plain(t) /\ Doing(t)' \subseteq Doing(t) \cup {"fast"}
          /\ \A L : Count(L)' = Count(L) - W("pins", L) + W("fast", L)
      BY <1>1, <1>2, <2>3, PlainGoesOn DEF Labels, Accessing
    <3>2. QED
      BY <1>1, <2>1, <2>2, <3>1 DEF W, Pinning, OwnLock, Locking
  <2>4. QED
    BY <1>1, <2>3
<1>4. /\ locks' = locks /\ pins' = pins /\ weak' = weak
      /\ Cardinality(Having(pins))' = Cardinality(Having(pins))
      /\ Cardinality(Having(weak))' = Cardinality(Having(weak))
      /\ Cardinality(LocksOf(locks))' = Cardinality(LocksOf(locks))
  BY <1>1 DEF clients
<1>5. /\ Strong' = Strong + (-1) /\ Weak' = Weak + 0 /\ Queue' = Queue + 0
  BY <1>2 DEF CheckPins, LastPin, TypeOK, lock, counts
<1>6. OneHolder'
  BY <1>1, <1>3, <1>4, HolderStays DEF CountInv, HasLock
<1>7. Strong' \in Nat /\ Weak' \in Nat /\ Queue' \in Nat => TypeOK'
  <2>1. Alone(t) /\ removed' \subseteq Sleepers'
    BY <1>1, <1>2, <1>3, SleepersStay DEF TypeOK, Plain
  <2>2. QED
    BY <1>1, <1>2, <1>4, <2>1 DEF Alone, CheckPins, LastPin, TypeOK, Stacks, record, block
<1>8. /\ Cardinality(Having(pins))' + Count(Pinning)' = Cardinality(Having(pins)) + Count(Pinning) + (-1)
      /\ Cardinality(Having(weak))' + Count({"unpinWeak"})'
            = Cardinality(Having(weak)) + Count({"unpinWeak"}) + 0
      /\ Cardinality(LocksOf(locks))' + Count(OwnLock)'
            = Cardinality(LocksOf(locks)) + Count(OwnLock) + 0
  <2>1. /\ Cardinality(Having(pins)) \in Nat /\ Cardinality(Having(weak)) \in Nat
        /\ Cardinality(LocksOf(locks)) \in Nat
    BY <1>2, Owed, LifeAssumption DEF Sums, TypeOK, Stacks
  <2>2. Count(Pinning) \in Nat /\ Count({"unpinWeak"}) \in Nat /\ Count(OwnLock) \in Nat
    BY <1>2, CallsFinite DEF Count
  <2>3. QED
    BY <1>3, <1>4, <2>1, <2>2
<1>9. locks' \in [Threads -> 0..MaxLocks]
  BY <1>2, <1>4 DEF TypeOK
<1>10. QED
  BY <1>1, <1>3, <1>5, <1>6, <1>7, <1>8, <1>9, Shifted

LEMMA Count_CheckPins ==
    ASSUME CountInv, NEW t \in Threads, CheckPins(t)
    PROVE  CountInv'
<1>1. CASE LastPin
  BY <1>1, Count_CheckPinsLast
<1>2. CASE ~LastPin
  <2>1. /\ ~Idle(t) /\ Head(stack[t]) = "pins" /\ Continue(t, <<"emplace">>)
        /\ UNCHANGED <<counts, Queue, ThreadID, clients>>
        /\ defined("PERMIT_TERMINATE")' <=> defined("PERMIT_TERMINATE")
        /\ removed' \subseteq Sleepers
    BY <1>2 DEF CheckPins, At, defined, CountInv, TypeOK, lock, counts
  <2>2. stack' \in Stacks /\ removed' \subseteq Sleepers' => TypeOK'
    BY <1>2 DEF CheckPins, CountInv, TypeOK, Stacks, counts, lock, record, block, clients
  <2>3. QED
    BY <2>1, <2>2, NeutralGoesOn DEF Labels, Accessing, Counted, Pinning, OwnLock, Locking
<1>3. QED
  BY <1>1, <1>2

LEMMA Count_SharedCheck ==
    ASSUME CountInv, NEW t \in Threads, SharedCheck(t)
    PROVE  CountInv'
<1>1. CASE collecting
  <2>1. /\ ~Idle(t) /\ Head(stack[t]) = "shared" /\ Continue(t, <<"unpin">>)
        /\ UNCHANGED <<counts, Queue, ThreadID, clients>>
        /\ defined("PERMIT_TERMINATE")' <=> defined("PERMIT_TERMINATE")
        /\ removed' \subseteq Sleepers
    BY <1>1 DEF SharedCheck, At, defined, CountInv, TypeOK, lock, clients
  <2>2. stack' \in Stacks /\ removed' \subseteq Sleepers' => TypeOK'
    BY <1>1 DEF SharedCheck, CountInv, TypeOK, Stacks, counts, lock, record, block, clients
  <2>3. QED
    BY <2>1, <2>2, NeutralGoesOn DEF Labels, Accessing, Counted, Pinning, OwnLock, Locking
<1>2. CASE ~collecting
  <2>1. /\ ~Idle(t) /\ Head(stack[t]) = "shared" /\ Return(t)
        /\ pins' = [pins EXCEPT ![t] = TRUE] /\ locks' = locks /\ weak' = weak
        /\ Strong' = Strong /\ Weak' = Weak /\ Queue' = Queue /\ ThreadID' = ThreadID
        /\ removed' = removed /\ Flags' = Flags
    BY <1>2 DEF SharedCheck, At, lock, counts
  <2>2. stack \in Stacks /\ Placed /\ OthersKept(t) /\ TypeOK /\ ~pins[t]
    BY <2>1 DEF CountInv, TypeOK, Stacks, OthersKept, Placed, SharedUnpinned, At
  <2>3. /\ Plain(t) /\ Doing(t)' \subseteq Doing(t)
        /\ \A L : Count(L)' = Count(L) - W("shared", L)
    BY <2>1, <2>2, PlainReturns DEF Accessing
  <2>4. Count(Pinning) \in Nat /\ Count({"unpinWeak"}) \in Nat /\ Count(OwnLock) \in Nat
    BY <2>2, CallsFinite DEF Count
  <2>5. /\ Count(Pinning)' = Count(Pinning) - 1 /\ Count({"unpinWeak"})' = Count({"unpinWeak"})
        /\ Count(OwnLock)' = Count(OwnLock)
    BY <2>3, <2>4 DEF W, Pinning, OwnLock, Locking
  <2>6. /\ Cardinality(Having(pins))' = Cardinality(Having(pins)) + 1
        /\ Cardinality(Having(weak))' = Cardinality(Having(weak))
        /\ Cardinality(LocksOf(locks))' = Cardinality(LocksOf(locks))
    <3>1. Cardinality(Having(pins))' = Cardinality(Having(pins)) + 1
      BY <2>1, <2>2, Toggle DEF TypeOK
    <3>2. QED
      BY <2>1, <3>1
  <2>7. OneHolder'
    BY <2>1, <2>3, HolderStays DEF CountInv, HasLock
  <2>8. locks' \in [Threads -> 0..MaxLocks] /\ pins' \in [Threads -> BOOLEAN]
    BY <2>1, <2>2 DEF TypeOK
  <2>9. Strong' \in Nat /\ Weak' \in Nat /\ Queue' \in Nat => TypeOK'
    <3>1. Alone(t) /\ removed' \subseteq Sleepers'
      BY <2>1, <2>2, <2>3, SleepersStay DEF TypeOK, Plain
    <3>2. QED
      BY <2>1, <2>2, <2>8, <3>1 DEF Alone, SharedCheck, TypeOK, Stacks, record, block
  <2>10. /\ Cardinality(Having(pins))' + Count(Pinning)' = Cardinality(Having(pins)) + Count(Pinning) + 0
         /\ Cardinality(Having(weak))' + Count({"unpinWeak"})'
               = Cardinality(Having(weak)) + Count({"unpinWeak"}) + 0
         /\ Cardinality(LocksOf(locks))' + Count(OwnLock)' = Cardinality(LocksOf(locks)) + Count(OwnLock) + 0
    <3>1. /\ Cardinality(Having(pins)) \in Nat /\ Cardinality(Having(weak)) \in Nat
          /\ Cardinality(LocksOf(locks)) \in Nat
      BY <2>2, Owed, LifeAssumption DEF Sums, TypeOK, Stacks
    <3>2. QED
      BY <2>4, <2>5, <2>6, <3>1
  <2>11. /\ Plain(t) /\ (defined("PERMIT_TERMINATE")' <=> defined("PERMIT_TERMINATE"))
         /\ Strong' = Strong + 0 /\ Weak' = Weak + 0 /\ Queue' = Queue + 0
    BY <2>1, <2>2, <2>3 DEF defined, TypeOK
  <2>12. QED
    BY <2>7, <2>8, <2>9, <2>10, <2>11, Shifted
<1>3. QED
  BY <1>1, <1>2

\* The lock goes to a thread only if no other has it.
LEMMA HolderComes ==
    ASSUME CountInv, NEW t \in Threads, Plain(t), TakeLock(t),
           \A u \in Threads \ {t} : locks'[u] = locks[u]
    PROVE  OneHolder'
<1>1. ASSUME NEW u \in Threads \ {t} PROVE ~HasLock(u)
  <2>1. CASE Queue = 0
    BY <2>1, NobodyHolds
  <2>2. CASE ThreadID = t
    BY <2>2 DEF CountInv, OneHolder
  <2>3. QED
    BY <2>1, <2>2 DEF TakeLock
<1>2. ASSUME NEW u \in Threads \ {t} PROVE ~HasLock(u)'
  BY <1>1 DEF HasLock, Plain, Alone
<1>3. ThreadID' = t
  BY DEF TakeLock
<1>4. QED
  BY <1>2, <1>3 DEF OneHolder

LEMMA Count_FreeLock ==
    ASSUME CountInv, NEW t \in Threads, FreeLock(t)
    PROVE  CountInv'
<1>1. /\ ~Idle(t) /\ Head(stack[t]) \in {"free_lock", "free_sleep"}
      /\ locks' = locks /\ pins' = pins /\ weak' = weak
      /\ Strong' = Strong /\ Weak' = Weak /\ Flags' = Flags
      /\ UNCHANGED <<counts, clients>>
  BY DEF FreeLock, At, counts, clients
<1>2. stack \in Stacks /\ Placed /\ OthersKept(t) /\ TypeOK
  BY <1>1 DEF CountInv, TypeOK, Stacks, OthersKept, Placed
<1>3. CASE TakeLock(t) /\ t \notin removed /\ Continue(t, <<"free_check">>) /\ UNCHANGED removed
  <2>1. /\ Plain(t)
        /\ \A L : Count(L)' = Count(L) - W(Head(stack[t]), L) + W("free_check", L)
    BY <1>1, <1>2, <1>3, PlainGoesOn DEF Labels, Accessing
  <2>2. Count(Pinning) \in Nat /\ Count({"unpinWeak"}) \in Nat /\ Count(OwnLock) \in Nat
    BY <1>2, CallsFinite DEF Count
  <2>3. /\ Count(Pinning)' = Count(Pinning) /\ Count({"unpinWeak"})' = Count({"unpinWeak"})
        /\ Count(OwnLock)' = Count(OwnLock) + 1
    BY <1>1, <2>1, <2>2 DEF W, Pinning, OwnLock, Locking
  <2>4. OneHolder'
    BY <1>1, <1>3, <2>1, HolderComes
  <2>5. Strong' \in Nat /\ Weak' \in Nat /\ Queue' \in Nat => TypeOK'
    <3>1. Alone(t) /\ removed' \subseteq Sleepers'
      BY <1>2, <1>3, <2>1, SleepersStay DEF TypeOK, Plain
    <3>2. QED
      BY <1>1, <1>2, <1>3, <3>1 DEF Alone, FreeLock, TakeLock, TypeOK, Stacks, record, block
  <2>6. /\ Cardinality(Having(pins))' + Count(Pinning)' = Cardinality(Having(pins)) + Count(Pinning) + 0
        /\ Cardinality(Having(weak))' + Count({"unpinWeak"})'
              = Cardinality(Having(weak)) + Count({"unpinWeak"}) + 0
        /\ Cardinality(LocksOf(locks))' + Count(OwnLock)' = Cardinality(LocksOf(locks)) + Count(OwnLock) + 1
    <3>1. /\ Cardinality(Having(pins)) \in Nat /\ Cardinality(Having(weak)) \in Nat
          /\ Cardinality(LocksOf(locks)) \in Nat
      BY <1>2, Owed, LifeAssumption DEF Sums, TypeOK, Stacks
    <3>2. QED
      BY <1>1, <2>2, <2>3, <3>1
  <2>7. /\ Plain(t) /\ (defined("PERMIT_TERMINATE")' <=> defined("PERMIT_TERMINATE"))
        /\ Strong' = Strong + 0 /\ Weak' = Weak + 0 /\ Queue' = Queue + 1
        /\ locks' \in [Threads -> 0..MaxLocks]
    BY <1>1, <1>2, <1>3, <2>1 DEF defined, TypeOK, TakeLock
  <2>8. QED
    BY <2>4, <2>5, <2>6, <2>7, Shifted
<1>4. ASSUME NEW x \in {"free_sleep", "denied"}, Continue(t, <<x>>),
             UNCHANGED <<Queue, ThreadID>>,
             removed' \subseteq removed, t \notin removed' \/ Head(stack[t]) # "free_sleep"
      PROVE  CountInv'
  <2>1. removed' \subseteq Sleepers /\ (defined("PERMIT_TERMINATE")' <=> defined("PERMIT_TERMINATE"))
    BY <1>1, <1>2, <1>4 DEF TypeOK, defined
  <2>2. stack' \in Stacks /\ removed' \subseteq Sleepers' => TypeOK'
    BY <1>1, <1>2, <1>4 DEF FreeLock, TypeOK, Stacks, record, block
  <2>3. /\ x \in Labels \ (Accessing \cup {"msg_free", "shared"})
        /\ Head(stack[t]) \notin Accessing \cup {"msg_free"}
        /\ t \in removed' => Head(stack[t]) # "free_sleep"
    BY <1>1, <1>4 DEF Labels, Accessing
  <2>4. \A L \in Counted : Head(stack[t]) \in L <=> x \in L
    BY <1>1, <1>4 DEF Counted, Pinning, OwnLock, Locking
  <2>5. UNCHANGED <<counts, Queue, ThreadID, clients>>
    BY <1>1, <1>4
  <2>6. QED
    BY <1>1, <1>4, <2>1, <2>2, <2>3, <2>4, <2>5, NeutralGoesOn
<1>5. QED
  BY <1>1, <1>3, <1>4 DEF FreeLock, Lock, Unflag, lock
LEMMA Count_FreeLockFails ==
    ASSUME CountInv, NEW t \in Threads, FreeLockFails(t)
    PROVE  CountInv'
<1>1. /\ ~Idle(t) /\ Head(stack[t]) = "free_sleep"
      /\ locks' = locks /\ pins' = pins /\ weak' = weak
      /\ Strong' = Strong /\ Weak' = Weak /\ Flags' = Flags
      /\ UNCHANGED <<counts, Queue, ThreadID, clients>>
      /\ Continue(t, <<"denied">>) /\ removed' = removed \ {t}
  BY DEF FreeLockFails, At, Unflag, counts, clients
<1>2. stack \in Stacks /\ Placed /\ OthersKept(t) /\ TypeOK
  BY <1>1 DEF CountInv, TypeOK, Stacks, OthersKept, Placed
<1>3. removed' \subseteq Sleepers /\ (defined("PERMIT_TERMINATE")' <=> defined("PERMIT_TERMINATE"))
  BY <1>1, <1>2 DEF TypeOK, defined
<1>4. stack' \in Stacks /\ removed' \subseteq Sleepers' => TypeOK'
  BY <1>1, <1>2 DEF FreeLockFails, TypeOK, Stacks, record, block
<1>5. /\ "denied" \in Labels \ (Accessing \cup {"msg_free", "shared"})
      /\ Head(stack[t]) \notin Accessing \cup {"msg_free"}
      /\ t \in removed' => Head(stack[t]) # "free_sleep"
  BY <1>1 DEF Labels, Accessing
<1>6. \A L \in Counted : Head(stack[t]) \in L <=> "denied" \in L
  BY <1>1 DEF Counted, Pinning, OwnLock, Locking
<1>7. QED
  BY <1>1, <1>2, <1>3, <1>4, <1>5, <1>6, NeutralGoesOn
-----------------------------------------------------------------------------
(* AccessObject() and msg_free().                                          *)

\* A call of it begins, by a caller or by msg_free().
LEMMA AccessBegins ==
    ASSUME stack \in Stacks, Placed, NEW t \in Threads, OthersKept(t), locks' = locks,
           locks[t] < MaxLocks, Idle(t),
           \/ Begin(t, <<"access_lock">> \o <<>>)
           \/ Messages /\ Begin(t, <<"access_lock">> \o <<"msg_free">>)
    PROVE  /\ Plain(t) /\ Doing(t)' \cap OwnLock = {}
           /\ \A L \in Counted : Count(L)' = Count(L) + W("access_lock", L)
<1>1. "access_lock" \in Labels /\ "msg_free" \in Labels
  BY DEF Labels
<1>2. /\ <<"access_lock">> \o <<>> = <<"access_lock">>
      /\ <<"access_lock">> \o <<"msg_free">> = <<"access_lock", "msg_free">>
  <2>1. <<"access_lock">> \in Seq(Labels) /\ <<"msg_free">> \in Seq(Labels)
    BY <1>1
  <2>2. /\ <<"access_lock">> \o <<>> = <<"access_lock">>
        /\ <<"msg_free">> \o <<>> = <<"msg_free">>
    BY <2>1, ConcatEmptySeq
  <2>3. <<"access_lock">> \o (<<"msg_free">> \o <<>>) = <<"access_lock", "msg_free">>
    BY <1>1, TwoLabels
  <2>4. QED
    BY <2>2, <2>3
<1>3. ~Delivers(t)
  BY Inside DEF Delivers
<1>4. CASE Begin(t, <<"access_lock">>)
  <2>1. /\ Alone(t) /\ ~Idle(t)' /\ Head(stack'[t]) = "access_lock"
        /\ Len(stack'[t]) = 1 /\ Height(stack'[t], 1) = "access_lock"
        /\ Doing(t)' = {"access_lock"} /\ Below(t)' = {}
        /\ \A L : Count(L)' = Count(L) + W("access_lock", L)
    BY <1>1, <1>4, Begins
  <2>2. Nested'
    <3>1. \A i \in 1..Len(stack'[t]) : Height(stack'[t], i) # "msg_free"
      BY <2>1
    <3>2. QED
      BY <2>1, <3>1 DEF Placed, Nested, Alone
  <2>3. AccessAtBottom'
    BY <2>1 DEF Placed, AccessAtBottom, Alone, Idle
  <2>4. SharedUnpinned'
    BY <2>1 DEF Placed, SharedUnpinned, Alone, Idle, At, OthersKept
  <2>5. \A u \in Threads : Delivers(u)' <=> Delivers(u)
    BY <1>3, <2>1 DEF Delivers, Alone
  <2>6. QED
    BY <2>1, <2>2, <2>3, <2>4, <2>5 DEF Plain, OwnLock, Locking
<1>5. CASE Messages /\ Begin(t, <<"access_lock", "msg_free">>)
  <2>1. /\ Alone(t) /\ ~Idle(t)' /\ Head(stack'[t]) = "access_lock"
        /\ Len(stack'[t]) = 2 /\ Height(stack'[t], 1) = "msg_free" /\ Height(stack'[t], 2) = "access_lock"
        /\ Doing(t)' = {"access_lock", "msg_free"} /\ Below(t)' = {"msg_free"}
        /\ \A L : Count(L)' = Count(L) + W("access_lock", L) + W("msg_free", L)
    BY <1>1, <1>5, BeginsTwo
  <2>2. Nested'
    <3>1. 1..2 = {1, 2}
      OBVIOUS
    <3>2. \A i \in 1..Len(stack'[t]) : Height(stack'[t], i) = "msg_free" => i = 1 /\ Messages
      BY <1>5, <2>1, <3>1
    <3>3. Below(t)' \subseteq Callers
      BY <2>1 DEF Callers
    <3>4. QED
      BY <2>1, <3>2, <3>3 DEF Placed, Nested, Alone
  <2>3. AccessAtBottom'
    BY <2>1 DEF Placed, AccessAtBottom, Alone, Idle
  <2>4. SharedUnpinned'
    BY <2>1 DEF Placed, SharedUnpinned, Alone, Idle, At, OthersKept
  <2>5. \A u \in Threads : Delivers(u)' <=> Delivers(u)
    BY <1>3, <2>1 DEF Delivers, Alone, Accessing
  <2>6. ASSUME NEW L \in Counted PROVE Count(L)' = Count(L) + W("access_lock", L)
    <3>1. W("msg_free", L) = 0
      BY DEF W, Counted, Pinning, OwnLock, Locking
    <3>2. Count(L) \in Nat
      BY CallsFinite DEF Count
    <3>3. QED
      BY <2>1, <3>1, <3>2 DEF W
  <2>7. QED
    BY <2>1, <2>2, <2>3, <2>4, <2>5, <2>6 DEF Plain, OwnLock, Locking
<1>6. QED
  BY <1>2, <1>4, <1>5

LEMMA Count_AccessObject ==
    ASSUME CountInv, NEW t \in Threads,
           AccessObject(t, <<>>) \/ (Messages /\ AccessObject(t, <<"msg_free">>))
    PROVE  CountInv'
<1>1. /\ Idle(t) /\ locks[t] < MaxLocks
      /\ \/ Begin(t, <<"access_lock">> \o <<>>)
         \/ Messages /\ Begin(t, <<"access_lock">> \o <<"msg_free">>)
      /\ locks' = locks /\ pins' = pins /\ weak' = weak /\ Strong' = Strong + 1
      /\ Weak' = Weak /\ Queue' = Queue /\ ThreadID' = ThreadID
      /\ removed' = removed /\ Flags' = Flags /\ UNCHANGED <<record, block>>
  BY DEF AccessObject, clients, lock, Begin
<1>2. stack \in Stacks /\ Placed /\ OthersKept(t) /\ TypeOK
  BY <1>1 DEF CountInv, TypeOK, Stacks, OthersKept, Placed
<1>3. /\ Plain(t) /\ Doing(t)' \cap OwnLock = {}
      /\ \A L \in Counted : Count(L)' = Count(L) + W("access_lock", L)
  BY <1>1, <1>2, AccessBegins
<1>4. Count(Pinning) \in Nat /\ Count({"unpinWeak"}) \in Nat /\ Count(OwnLock) \in Nat
  BY <1>2, CallsFinite DEF Count
<1>5. /\ Count(Pinning)' = Count(Pinning) + 1 /\ Count({"unpinWeak"})' = Count({"unpinWeak"})
      /\ Count(OwnLock)' = Count(OwnLock)
  BY <1>3, <1>4 DEF W, Counted, Pinning, OwnLock, Locking
<1>6. OneHolder'
  BY <1>1, <1>3, HolderStays DEF CountInv, HasLock
<1>7. Strong' \in Nat /\ Weak' \in Nat /\ Queue' \in Nat => TypeOK'
  <2>1. Alone(t) /\ removed' \subseteq Sleepers'
    BY <1>1, <1>2, <1>3, SleepersStay DEF TypeOK, Plain
  <2>2. QED
    BY <1>1, <1>2, <2>1 DEF Alone, TypeOK, Stacks, record, block
<1>8. /\ Cardinality(Having(pins))' + Count(Pinning)' = Cardinality(Having(pins)) + Count(Pinning) + 1
      /\ Cardinality(Having(weak))' + Count({"unpinWeak"})'
            = Cardinality(Having(weak)) + Count({"unpinWeak"}) + 0
      /\ Cardinality(LocksOf(locks))' + Count(OwnLock)' = Cardinality(LocksOf(locks)) + Count(OwnLock) + 0
  <2>1. /\ Cardinality(Having(pins)) \in Nat /\ Cardinality(Having(weak)) \in Nat
        /\ Cardinality(LocksOf(locks)) \in Nat
    BY <1>2, Owed, LifeAssumption DEF Sums, TypeOK, Stacks
  <2>2. Having(pins)' = Having(pins) /\ Having(weak)' = Having(weak) /\ LocksOf(locks)' = LocksOf(locks)
    BY <1>1
  <2>3. /\ Cardinality(Having(pins))' = Cardinality(Having(pins))
        /\ Cardinality(Having(weak))' = Cardinality(Having(weak))
        /\ Cardinality(LocksOf(locks))' = Cardinality(LocksOf(locks))
    BY <2>2
  <2>4. QED
    BY <1>4, <1>5, <2>1, <2>3
<1>9. /\ Plain(t) /\ (defined("PERMIT_TERMINATE")' <=> defined("PERMIT_TERMINATE"))
      /\ Strong' = Strong + 1 /\ Weak' = Weak + 0 /\ Queue' = Queue + 0
      /\ locks' \in [Threads -> 0..MaxLocks]
  BY <1>1, <1>2, <1>3 DEF defined, TypeOK
<1>10. QED
  BY <1>6, <1>7, <1>8, <1>9, Shifted

\* It goes on, and stays where it is.
LEMMA AccessGoesOn ==
    ASSUME stack \in Stacks, Placed, NEW t \in Threads, OthersKept(t), locks' = locks,
           ~Idle(t), Head(stack[t]) \in Accessing, NEW x \in Accessing, Continue(t, <<x>>)
    PROVE  /\ Plain(t) /\ Doing(t)' \subseteq Doing(t) \cup {x}
           /\ \A L : Count(L)' = Count(L) - W(Head(stack[t]), L) + W(x, L)
<1>1. x \in Labels
  BY DEF Labels, Accessing
<1>2. /\ Alone(t)
      /\ Len(stack[t]) \in Nat \ {0} /\ Len(stack'[t]) = Len(stack[t])
      /\ \A i \in 1..(Len(stack[t]) - 1) : Height(stack'[t], i) = Height(stack[t], i)
      /\ ~Idle(t)' /\ Head(stack'[t]) = x /\ Height(stack'[t], Len(stack[t])) = x
      /\ Doing(t)' = Below(t) \cup {x} /\ Below(t)' = Below(t)
  BY <1>1, GoesOn
<1>3. Doing(t) = Below(t) \cup {Head(stack[t])}
  BY Inside
<1>4. Nested'
  <2>1. \A i \in 1..Len(stack'[t]) : Height(stack'[t], i) = "msg_free" => i = 1 /\ Messages
    <3>1. \A i \in 1..Len(stack'[t]) : i \in 1..(Len(stack[t]) - 1) \/ i = Len(stack[t])
      BY <1>2
    <3>2. \A i \in 1..(Len(stack[t]) - 1) : i \in 1..Len(stack[t])
      BY <1>2
    <3>3. QED
      BY <1>2, <3>1, <3>2 DEF Placed, Nested, Accessing
  <2>2. QED
    BY <1>2, <2>1 DEF Placed, Nested, Alone
<1>5. AccessAtBottom'
  <2>1. \/ Len(stack[t]) = 1 /\ locks[t] < MaxLocks
        \/ Len(stack[t]) = 2 /\ Height(stack[t], 1) = "msg_free"
    BY DEF Placed, AccessAtBottom
  <2>2. Len(stack[t]) = 2 => Height(stack'[t], 1) = Height(stack[t], 1)
    <3>1. 1 \in 1..(2 - 1)
      OBVIOUS
    <3>2. QED
      BY <1>2, <3>1
  <2>3. QED
    BY <1>2, <2>1, <2>2 DEF Placed, AccessAtBottom, Alone, Idle
<1>6. SharedUnpinned'
  BY <1>2 DEF Placed, SharedUnpinned, Alone, Idle, At, OthersKept, Accessing
<1>7. \A u \in Threads : Delivers(u)' <=> Delivers(u)
  BY <1>2, <1>3 DEF Delivers, Alone
<1>8. \A L : Count(L)' = Count(L) - W(Head(stack[t]), L) + W(x, L)
  BY <1>1, GoesOn
<1>9. QED
  BY <1>2, <1>3, <1>4, <1>5, <1>6, <1>7, <1>8 DEF Plain
LEMMA Count_AccessLock ==
    ASSUME CountInv, NEW t \in Threads, AccessLock(t)
    PROVE  CountInv'
<1>1. /\ ~Idle(t) /\ Head(stack[t]) \in {"access_lock", "access_sleep"}
      /\ locks' = locks /\ pins' = pins /\ weak' = weak
      /\ Strong' = Strong /\ Weak' = Weak /\ Flags' = Flags
      /\ UNCHANGED <<counts, clients, record, block>>
  BY DEF AccessLock, At, counts, clients
<1>2. stack \in Stacks /\ Placed /\ OthersKept(t) /\ TypeOK
  BY <1>1 DEF CountInv, TypeOK, Stacks, OthersKept, Placed
<1>3. Count(Pinning) \in Nat /\ Count({"unpinWeak"}) \in Nat /\ Count(OwnLock) \in Nat
  BY <1>2, CallsFinite DEF Count
<1>4. Head(stack[t]) \in Accessing
  BY <1>1 DEF Accessing
<1>5. CASE TakeLock(t) /\ t \notin removed /\ Continue(t, <<"access_check">>) /\ UNCHANGED removed
  <2>1. /\ Plain(t)
        /\ \A L : Count(L)' = Count(L) - W(Head(stack[t]), L) + W("access_check", L)
    BY <1>1, <1>2, <1>4, <1>5, AccessGoesOn DEF Accessing
  <2>2. /\ Count(Pinning)' = Count(Pinning) /\ Count({"unpinWeak"})' = Count({"unpinWeak"})
        /\ Count(OwnLock)' = Count(OwnLock) + 1
    BY <1>1, <1>3, <2>1 DEF W, Pinning, OwnLock, Locking
  <2>3. OneHolder'
    BY <1>1, <1>5, <2>1, HolderComes
  <2>4. Strong' \in Nat /\ Weak' \in Nat /\ Queue' \in Nat => TypeOK'
    <3>1. Alone(t) /\ removed' \subseteq Sleepers'
      BY <1>2, <1>5, <2>1, SleepersStay DEF TypeOK, Plain
    <3>2. QED
      BY <1>1, <1>2, <1>5, <3>1 DEF Alone, TakeLock, TypeOK, Stacks, record, block
  <2>5. /\ Cardinality(Having(pins))' + Count(Pinning)' = Cardinality(Having(pins)) + Count(Pinning) + 0
        /\ Cardinality(Having(weak))' + Count({"unpinWeak"})'
              = Cardinality(Having(weak)) + Count({"unpinWeak"}) + 0
        /\ Cardinality(LocksOf(locks))' + Count(OwnLock)' = Cardinality(LocksOf(locks)) + Count(OwnLock) + 1
    <3>1. /\ Cardinality(Having(pins)) \in Nat /\ Cardinality(Having(weak)) \in Nat
          /\ Cardinality(LocksOf(locks)) \in Nat
      BY <1>2, Owed, LifeAssumption DEF Sums, TypeOK, Stacks
    <3>2. QED
      BY <1>1, <1>3, <2>2, <3>1
  <2>6. /\ Plain(t) /\ (defined("PERMIT_TERMINATE")' <=> defined("PERMIT_TERMINATE"))
        /\ Strong' = Strong + 0 /\ Weak' = Weak + 0 /\ Queue' = Queue + 1
        /\ locks' \in [Threads -> 0..MaxLocks]
    BY <1>1, <1>2, <1>5, <2>1 DEF defined, TypeOK, TakeLock
  <2>7. QED
    BY <2>3, <2>4, <2>5, <2>6, Shifted
<1>6. ASSUME NEW x \in {"access_sleep", "access_failed"}, Continue(t, <<x>>),
             UNCHANGED <<Queue, ThreadID>>,
             removed' \subseteq removed, t \notin removed' \/ Head(stack[t]) # "access_sleep"
      PROVE  CountInv'
  <2>1. x \in Accessing
    BY <1>6 DEF Accessing
  <2>2. /\ Plain(t) /\ Doing(t)' \subseteq Doing(t) \cup {x}
        /\ \A L : Count(L)' = Count(L) - W(Head(stack[t]), L) + W(x, L)
    BY <1>1, <1>2, <1>4, <1>6, <2>1, AccessGoesOn
  <2>3. ASSUME NEW L \in Counted PROVE Count(L)' = Count(L)
    <3>1. W(Head(stack[t]), L) = W(x, L) /\ W(x, L) \in Nat
      BY <1>1, <1>6, <2>3 DEF W, Counted, Pinning, OwnLock, Locking
    <3>2. Count(L) \in Nat
      BY <1>2, CallsFinite DEF Count
    <3>3. Count(L)' = Count(L) - W(Head(stack[t]), L) + W(x, L)
      BY <2>2
    <3>4. QED
      BY <3>1, <3>2, <3>3
  <2>4. Doing(t)' \cap OwnLock # {} => Doing(t) \cap OwnLock # {}
    BY <1>6, <2>2 DEF OwnLock, Locking
  <2>5. Strong' \in Nat /\ Weak' \in Nat /\ Queue' \in Nat => TypeOK'
    <3>1. Alone(t)
      BY <2>2 DEF Plain
    <3>2. removed' \subseteq Sleepers'
      <4>1. t \in removed' => Idle(t) \/ Head(stack[t]) \notin {"access_sleep", "free_sleep"}
        BY <1>1, <1>6
      <4>2. removed' \subseteq Sleepers
        BY <1>2, <1>6 DEF TypeOK
      <4>3. QED
        BY <1>2, <3>1, <4>1, <4>2, SleepersStay
    <3>3. QED
      BY <1>1, <1>2, <1>6, <3>1, <3>2 DEF Alone, TypeOK, Stacks, record, block
  <2>6. defined("PERMIT_TERMINATE")' <=> defined("PERMIT_TERMINATE")
    BY <1>1 DEF defined
  <2>7. UNCHANGED <<counts, Queue, ThreadID, clients>>
    BY <1>1, <1>6
  <2>8. QED
    BY <2>2, <2>3, <2>4, <2>5, <2>6, <2>7, Neutral
<1>7. QED
  BY <1>1, <1>5, <1>6 DEF AccessLock, Lock, Unflag, lock

\* The two ways in which it fails after it has pinned the object.
LEMMA AccessFails ==
    ASSUME CountInv, NEW t \in Threads, ~Idle(t),
           \/ /\ Head(stack[t]) \in {"access_sleep", "access_failed"}
              /\ stack' = [stack EXCEPT ![t] = FailedAccess]
           \/ /\ Head(stack[t]) = "access_check"
              /\ stack' = [stack EXCEPT ![t] = MarkedAccess],
           Flags' = Flags, removed' \subseteq removed \ {t},
           UNCHANGED <<record, counts, Queue, ThreadID, block, clients>>
    PROVE  CountInv'
<1>1. stack \in Stacks /\ Placed /\ OthersKept(t) /\ TypeOK
  BY DEF CountInv, TypeOK, Stacks, OthersKept, Placed, clients
<1>2. \/ Len(stack[t]) = 1
      \/ Len(stack[t]) = 2 /\ Height(stack[t], 1) = "msg_free"
  BY <1>1 DEF Placed, AccessAtBottom, Accessing
<1>3. ~Delivers(t) /\ Head(stack[t]) \in Doing(t)
  BY <1>1, Inside DEF Delivers, Accessing
<1>4. ASSUME /\ Head(stack[t]) \in {"access_sleep", "access_failed"}
             /\ stack' = [stack EXCEPT ![t] = FailedAccess]
      PROVE  /\ Plain(t) /\ \A L \in Counted : Count(L)' = Count(L)
             /\ Doing(t)' \cap OwnLock # {} => Doing(t) \cap OwnLock # {}
  <2>1. /\ Alone(t)
        /\ ~Idle(t)' /\ Head(stack'[t]) = "unpin" /\ Len(stack'[t]) = 2
        /\ Height(stack'[t], 1) = "ready" /\ Height(stack'[t], 2) = "unpin"
        /\ Doing(t)' = {"unpin", "ready"} /\ Below(t)' = {"ready"}
        /\ \A L : "msg_free" \notin L =>
              Count(L)' = Count(L) - W(Head(stack[t]), L) + W("unpin", L) + W("ready", L)
    BY <1>1, <1>2, <1>4, Fails
  <2>2. Nested'
    <3>1. 1..2 = {1, 2}
      OBVIOUS
    <3>2. \A i \in 1..Len(stack'[t]) : Height(stack'[t], i) # "msg_free"
      BY <2>1, <3>1
    <3>3. QED
      BY <1>1, <2>1, <3>2 DEF Placed, Nested, Alone, Callers
  <2>3. AccessAtBottom'
    BY <1>1, <2>1 DEF Placed, AccessAtBottom, Alone, Idle, Accessing, OthersKept
  <2>4. SharedUnpinned'
    BY <1>1, <2>1 DEF Placed, SharedUnpinned, Alone, Idle, At, OthersKept
  <2>5. \A u \in Threads : Delivers(u)' <=> Delivers(u)
    BY <1>3, <2>1 DEF Delivers, Alone
  <2>6. ASSUME NEW L \in Counted PROVE Count(L)' = Count(L)
    <3>1. "msg_free" \notin L
      BY <2>6 DEF Counted, Pinning, OwnLock, Locking
    <3>2. Count(L)' = Count(L) - W(Head(stack[t]), L) + W("unpin", L) + W("ready", L)
      BY <2>1, <3>1
    <3>3. W(Head(stack[t]), L) = W("unpin", L) /\ W("unpin", L) \in Nat /\ W("ready", L) = 0
      BY <1>4, <2>6 DEF W, Counted, Pinning, OwnLock, Locking
    <3>4. Count(L) \in Nat
      BY <1>1, CallsFinite DEF Count
    <3>5. QED
      BY <3>2, <3>3, <3>4
  <2>7. Doing(t)' \cap OwnLock = {}
    BY <2>1 DEF OwnLock, Locking
  <2>8. Plain(t)
    BY <2>1, <2>2, <2>3, <2>4, <2>5 DEF Plain
  <2>9. QED
    BY <2>6, <2>7, <2>8
<1>5. ASSUME /\ Head(stack[t]) = "access_check"
             /\ stack' = [stack EXCEPT ![t] = MarkedAccess]
      PROVE  /\ Plain(t) /\ \A L \in Counted : Count(L)' = Count(L)
             /\ Doing(t)' \cap OwnLock # {} => Doing(t) \cap OwnLock # {}
  <2>1. /\ Alone(t)
        /\ ~Idle(t)' /\ Head(stack'[t]) = "release" /\ Len(stack'[t]) = 3
        /\ Height(stack'[t], 1) = "ready" /\ Height(stack'[t], 2) = "unpin"
        /\ Height(stack'[t], 3) = "release"
        /\ Doing(t)' = {"release", "unpin", "ready"} /\ Below(t)' = {"unpin", "ready"}
        /\ \A L : "msg_free" \notin L =>
              Count(L)' = Count(L) - W(Head(stack[t]), L)
                            + W("unpin", L) + W("ready", L) + W("release", L)
    BY <1>1, <1>2, <1>5, FailsLocked
  <2>2. Nested'
    <3>1. 1..3 = {1, 2, 3}
      OBVIOUS
    <3>2. \A i \in 1..Len(stack'[t]) : Height(stack'[t], i) # "msg_free"
      BY <2>1, <3>1
    <3>3. QED
      BY <1>1, <2>1, <3>2 DEF Placed, Nested, Alone, Callers
  <2>3. AccessAtBottom'
    BY <1>1, <2>1 DEF Placed, AccessAtBottom, Alone, Idle, Accessing, OthersKept
  <2>4. SharedUnpinned'
    BY <1>1, <2>1 DEF Placed, SharedUnpinned, Alone, Idle, At, OthersKept
  <2>5. \A u \in Threads : Delivers(u)' <=> Delivers(u)
    BY <1>3, <2>1 DEF Delivers, Alone
  <2>6. ASSUME NEW L \in Counted PROVE Count(L)' = Count(L)
    <3>1. "msg_free" \notin L
      BY <2>6 DEF Counted, Pinning, OwnLock, Locking
    <3>2. Count(L)' = Count(L) - W(Head(stack[t]), L)
                        + W("unpin", L) + W("ready", L) + W("release", L)
      BY <2>1, <3>1
    <3>3. /\ W(Head(stack[t]), L) = W("unpin", L) + W("release", L) /\ W("ready", L) = 0
          /\ W("unpin", L) \in Nat /\ W("release", L) \in Nat
      BY <1>5, <2>6 DEF W, Counted, Pinning, OwnLock, Locking
    <3>4. Count(L) \in Nat
      BY <1>1, CallsFinite DEF Count
    <3>5. QED
      BY <3>2, <3>3, <3>4
  <2>7. Doing(t) \cap OwnLock # {}
    BY <1>3, <1>5 DEF OwnLock, Locking
  <2>8. Plain(t)
    BY <2>1, <2>2, <2>3, <2>4, <2>5 DEF Plain
  <2>9. QED
    BY <2>6, <2>7, <2>8
<1>6. /\ Plain(t) /\ \A L \in Counted : Count(L)' = Count(L)
      /\ Doing(t)' \cap OwnLock # {} => Doing(t) \cap OwnLock # {}
  BY <1>4, <1>5
<1>7. Strong' \in Nat /\ Weak' \in Nat /\ Queue' \in Nat => TypeOK'
  <2>1. Alone(t) /\ removed' \subseteq Sleepers'
    BY <1>1, <1>6, SleepersStay DEF TypeOK, Plain
  <2>2. QED
    BY <1>1, <2>1 DEF Alone, TypeOK, Stacks, record, counts, block, clients
<1>8. defined("PERMIT_TERMINATE")' <=> defined("PERMIT_TERMINATE")
  BY DEF defined
<1>9. UNCHANGED <<counts, Queue, ThreadID, clients>>
  OBVIOUS
<1>10. QED
  BY <1>6, <1>7, <1>8, <1>9, Neutral

LEMMA Count_AccessTimeout ==
    ASSUME CountInv, NEW t \in Threads, AccessTimeout(t)
    PROVE  CountInv'
  BY AccessFails DEF AccessTimeout, At, Unflag
\* It succeeds: the pin goes, the lock goes to the caller or stays with msg_free().
LEMMA AccessSucceeds ==
    ASSUME CountInv, NEW t \in Threads, ~Idle(t), Head(stack[t]) = "access_check",
           Continue(t, <<"unpin">>),
           locks' = IF Len(stack[t]) > 1 THEN locks ELSE [locks EXCEPT ![t] = @ + 1],
           UNCHANGED <<record, Flags, counts, lock, block, pins, weak>>
    PROVE  CountInv'
<1>1. stack \in Stacks /\ Placed /\ OthersKept(t) /\ TypeOK
  BY DEF CountInv, TypeOK, Stacks, OthersKept, Placed
<1>2. /\ Strong' = Strong + 0 /\ Weak' = Weak + 0 /\ Queue' = Queue + 0
      /\ pins' = pins /\ weak' = weak /\ ThreadID' = ThreadID /\ removed' = removed /\ Flags' = Flags
  BY <1>1 DEF counts, lock, TypeOK
<1>3. \/ Len(stack[t]) = 1 /\ locks[t] < MaxLocks
      \/ Len(stack[t]) = 2 /\ Height(stack[t], 1) = "msg_free"
  BY <1>1 DEF Placed, AccessAtBottom, Accessing
<1>4. ~Delivers(t) /\ Head(stack[t]) \in Doing(t) /\ HasLock(t)
  BY <1>1, Inside DEF Delivers, Accessing, HasLock, OwnLock, Locking
<1>5. /\ Alone(t)
      /\ Len(stack'[t]) = Len(stack[t])
      /\ \A i \in 1..(Len(stack[t]) - 1) : Height(stack'[t], i) = Height(stack[t], i)
      /\ ~Idle(t)' /\ Head(stack'[t]) = "unpin" /\ Height(stack'[t], Len(stack[t])) = "unpin"
      /\ Doing(t)' = Below(t) \cup {"unpin"} /\ Below(t)' = Below(t)
      /\ \A L : Count(L)' = Count(L) - W("access_check", L) + W("unpin", L)
  <2>1. "unpin" \in Labels
    BY DEF Labels
  <2>2. QED
    BY <1>1, <2>1, GoesOn
<1>6. /\ Count(Pinning)' = Count(Pinning) /\ Count({"unpinWeak"})' = Count({"unpinWeak"})
      /\ Count(OwnLock)' = Count(OwnLock) - 1
  <2>1. Count(Pinning) \in Nat /\ Count({"unpinWeak"}) \in Nat /\ Count(OwnLock) \in Nat
    BY <1>1, CallsFinite DEF Count
  <2>2. Count(Pinning)' = Count(Pinning) - W("access_check", Pinning) + W("unpin", Pinning)
    BY <1>5
  <2>3. Count({"unpinWeak"})' = Count({"unpinWeak"}) - W("access_check", {"unpinWeak"}) + W("unpin", {"unpinWeak"})
    BY <1>5
  <2>4. Count(OwnLock)' = Count(OwnLock) - W("access_check", OwnLock) + W("unpin", OwnLock)
    BY <1>5
  <2>5. /\ W("access_check", Pinning) = 1 /\ W("unpin", Pinning) = 1
        /\ W("access_check", {"unpinWeak"}) = 0 /\ W("unpin", {"unpinWeak"}) = 0
        /\ W("access_check", OwnLock) = 1 /\ W("unpin", OwnLock) = 0
    BY DEF W, Pinning, OwnLock, Locking
  <2>6. QED
    BY <2>1, <2>2, <2>3, <2>4, <2>5
<1>7. /\ Cardinality(Having(pins)) \in Nat /\ Cardinality(Having(weak)) \in Nat
      /\ Cardinality(LocksOf(locks)) \in Nat /\ Cardinality(Delivering) \in Nat
      /\ Count(Pinning) \in Nat /\ Count({"unpinWeak"}) \in Nat /\ Count(OwnLock) \in Nat
  <2>1. Sums
    BY <1>1, LifeAssumption DEF Sums, TypeOK, Stacks
  <2>2. QED
    BY <1>1, <2>1, Owed, CallsFinite DEF Count
<1>8. /\ Cardinality(Having(pins))' + Count(Pinning)' = Cardinality(Having(pins)) + Count(Pinning) + 0
      /\ Cardinality(Having(weak))' + Count({"unpinWeak"})'
            = Cardinality(Having(weak)) + Count({"unpinWeak"}) + 0
  BY <1>2, <1>6, <1>7
<1>9. AccessAtBottom' /\ SharedUnpinned'
  BY <1>1, <1>2, <1>5 DEF Placed, AccessAtBottom, SharedUnpinned, Alone, Idle, At, OthersKept, Accessing
<1>10. \A u \in Threads \ {t} : Delivers(u)' <=> Delivers(u)
  BY <1>5 DEF Delivers, Alone
<1>11. defined("PERMIT_TERMINATE")' <=> defined("PERMIT_TERMINATE")
  BY <1>2 DEF defined
<1>12. removed' \subseteq Sleepers'
  BY <1>1, <1>2, <1>5, SleepersStay DEF TypeOK
<1>13. CASE Len(stack[t]) = 1 /\ locks[t] < MaxLocks
  <2>1. locks' = [locks EXCEPT ![t] = @ + 1] /\ locks' \in [Threads -> 0..MaxLocks]
    <3>1. locks' = [locks EXCEPT ![t] = @ + 1]
      BY <1>13
    <3>2. locks[t] + 1 \in 0..MaxLocks
      BY <1>1, <1>13, LifeAssumption DEF TypeOK
    <3>3. QED
      BY <1>1, <3>1, <3>2 DEF TypeOK
  <2>2. Below(t) = {} /\ Doing(t)' = {"unpin"}
    BY <1>5, <1>13 DEF Below
  <2>3. Nested'
    <3>1. \A i \in 1..Len(stack'[t]) : Height(stack'[t], i) # "msg_free"
      BY <1>5, <1>13
    <3>2. QED
      BY <1>1, <1>5, <2>2, <3>1 DEF Placed, Nested, Alone
  <2>4. Plain(t)
    BY <1>4, <1>5, <1>9, <1>10, <2>2, <2>3 DEF Plain, Delivers
  <2>5. Cardinality(LocksOf(locks))' = Cardinality(LocksOf(locks)) + 1
    <3>1. locks \in [Threads -> Nat]
      BY <1>1, LifeAssumption DEF TypeOK
    <3>2. QED
      BY <2>1, <3>1, LockTaken
  <2>6. Cardinality(LocksOf(locks))' + Count(OwnLock)' = Cardinality(LocksOf(locks)) + Count(OwnLock)
    BY <1>6, <1>7, <2>5
  <2>7. OneHolder'
    BY <1>2, <1>4, <2>1, <2>4, HolderStays DEF CountInv
  <2>8. TypeOK' /\ locks' \in [Threads -> 0..MaxLocks]
    BY <1>1, <1>2, <1>5, <1>12, <2>1 DEF TypeOK, Alone, Stacks, record, block
  <2>9. Strong' = Strong /\ Weak' = Weak /\ Queue' = Queue
    BY <1>1, <1>2 DEF TypeOK
  <2>10. /\ Cardinality(Having(pins))' + Count(Pinning)' = Cardinality(Having(pins)) + Count(Pinning)
         /\ Cardinality(Having(weak))' + Count({"unpinWeak"})'
               = Cardinality(Having(weak)) + Count({"unpinWeak"})
    BY <1>2, <1>6
  <2>11. QED
    BY <1>11, <2>4, <2>6, <2>7, <2>8, <2>9, <2>10, Even
<1>14. CASE Len(stack[t]) = 2 /\ Height(stack[t], 1) = "msg_free"
  <2>1. locks' = locks
    BY <1>14
  <2>2. Height(stack'[t], 1) = "msg_free" /\ Height(stack'[t], 2) = "unpin" /\ Len(stack'[t]) = 2
    <3>1. 1 \in 1..(2 - 1)
      OBVIOUS
    <3>2. QED
      BY <1>5, <1>14, <3>1
  <2>3. Below(t) = {"msg_free"} /\ Doing(t)' = {"msg_free", "unpin"}
    <3>1. 1..(2 - 1) = {1}
      OBVIOUS
    <3>2. QED
      BY <1>5, <1>14, <3>1 DEF Below
  <2>4. Nested'
    <3>1. \A i \in 1..Len(stack'[t]) : Height(stack'[t], i) = "msg_free" => i = 1 /\ Messages
      <4>1. 1..2 = {1, 2} /\ 1 \in 1..2
        OBVIOUS
      <4>2. Messages
        BY <1>1, <1>14, <4>1 DEF Placed, Nested
      <4>3. QED
        BY <2>2, <4>1, <4>2
    <3>2. QED
      BY <1>1, <1>5, <3>1 DEF Placed, Nested, Alone
  <2>5. Delivers(t)'
    BY <2>3 DEF Delivers, Accessing
  <2>6. Cardinality(Delivering)' = Cardinality(Delivering) + 1
    <3>1. Delivering' = Delivering \cup {t} /\ t \notin Delivering
      BY <1>4, <1>10, <2>5 DEF Delivering
    <3>2. IsFiniteSet(Delivering)
      BY FS_Subset, LifeAssumption DEF Delivering
    <3>3. Cardinality(Delivering \cup {t}) = Cardinality(Delivering) + 1
      BY <3>1, <3>2, FS_AddElement
    <3>4. QED
      BY <3>1, <3>3
  <2>7. /\ Cardinality(LocksOf(locks))' = Cardinality(LocksOf(locks))
        /\ Kept' = Kept /\ Kept \in Nat
    BY <1>2, <2>1 DEF Kept, defined
  <2>8. /\ PinsOwed' = PinsOwed + 0 /\ WeakOwed' = WeakOwed + 0
        /\ LocksOwed' = LocksOwed + 0
    BY <1>6, <1>7, <1>8, <2>6, <2>7 DEF PinsOwed, WeakOwed, LocksOwed
  <2>9. OneHolder'
    <3>1. ThreadID = t
      BY <1>4 DEF CountInv, OneHolder
    <3>2. ASSUME NEW u \in Threads \ {t}, HasLock(u)' PROVE HasLock(u)
      BY <1>5, <1>10, <2>1, <3>2 DEF HasLock, Alone
    <3>3. QED
      BY <1>2, <3>1, <3>2 DEF CountInv, OneHolder
  <2>10. Strong' \in Nat /\ Weak' \in Nat /\ Queue' \in Nat => TypeOK'
    BY <1>1, <1>2, <1>5, <1>12, <2>1 DEF TypeOK, Alone, Stacks, record, block
  <2>11. /\ stack' \in Stacks /\ locks' \in [Threads -> 0..MaxLocks]
         /\ defined("PERMIT_TERMINATE")' => Messages
    BY <1>1, <1>5, <1>11, <2>1 DEF CountInv, TypeOK, Alone
  <2>12. QED
    BY <1>2, <1>9, <2>4, <2>8, <2>9, <2>10, <2>11, Recount
<1>15. QED
  BY <1>3, <1>13, <1>14

LEMMA Count_AccessCheck ==
    ASSUME CountInv, NEW t \in Threads, AccessCheck(t)
    PROVE  CountInv'
<1>1. ~Idle(t) /\ Head(stack[t]) \in {"access_check", "access_failed"}
  BY DEF AccessCheck, At
<1>2. UNCHANGED <<record, Flags, counts, lock, block, pins, weak>>
  BY DEF AccessCheck
<1>3. CASE At(t, "access_failed")
  <2>1. Head(stack[t]) = "access_failed" /\ stack' = [stack EXCEPT ![t] = FailedAccess] /\ locks' = locks
    BY <1>3 DEF AccessCheck, At
  <2>2. Flags' = Flags /\ removed' \subseteq removed \ {t}
    BY <1>1, <1>2 DEF CountInv, TypeOK, Sleepers, At, lock
  <2>3. UNCHANGED <<record, counts, Queue, ThreadID, block, clients>>
    BY <1>2, <2>1 DEF lock, clients
  <2>4. QED
    BY <1>1, <2>1, <2>2, <2>3, AccessFails
<1>4. CASE ~At(t, "access_failed") /\ collecting
  <2>1. Head(stack[t]) = "access_check" /\ stack' = [stack EXCEPT ![t] = MarkedAccess] /\ locks' = locks
    BY <1>1, <1>4 DEF AccessCheck, At
  <2>2. Flags' = Flags /\ removed' \subseteq removed \ {t}
    BY <1>1, <1>2 DEF CountInv, TypeOK, Sleepers, At, lock
  <2>3. UNCHANGED <<record, counts, Queue, ThreadID, block, clients>>
    BY <1>2, <2>1 DEF lock, clients
  <2>4. QED
    BY <1>1, <2>1, <2>2, <2>3, AccessFails
<1>5. CASE ~At(t, "access_failed") /\ ~collecting
  <2>1. Head(stack[t]) = "access_check"
    BY <1>1, <1>5 DEF At
  <2>2. /\ Continue(t, <<"unpin">>)
        /\ locks' = IF Len(stack[t]) > 1 THEN locks ELSE [locks EXCEPT ![t] = @ + 1]
    BY <1>5 DEF AccessCheck
  <2>3. QED
    BY <1>1, <1>2, <2>1, <2>2, AccessSucceeds
<1>6. QED
  BY <1>3, <1>4, <1>5

LEMMA Count_msg_free ==
    ASSUME CountInv, NEW t \in Threads, msg_free(t)
    PROVE  CountInv'
<1>1. /\ ~Idle(t) /\ Head(stack[t]) = "msg_free" /\ Continue(t, <<"free">>)
      /\ locks' = locks /\ pins' = pins /\ weak' = weak
      /\ Strong' = Strong /\ Weak' = Weak /\ Queue' = Queue /\ ThreadID' = ThreadID
      /\ removed' = removed /\ Flags' = Flags \cup {"PERMIT_TERMINATE"}
  BY DEF msg_free, At, lock, counts, clients
<1>2. stack \in Stacks /\ Placed /\ TypeOK /\ "free" \in Labels
  BY DEF CountInv, TypeOK, Stacks, Placed, Labels
<1>3. /\ Alone(t)
      /\ Len(stack[t]) \in Nat \ {0} /\ Len(stack'[t]) = Len(stack[t])
      /\ Height(stack'[t], Len(stack[t])) = "free"
      /\ Doing(t)' = Below(t) \cup {"free"} /\ Below(t)' = Below(t)
      /\ \A L : Count(L)' = Count(L) - W("msg_free", L) + W("free", L)
  BY <1>1, <1>2, GoesOn
<1>4. Len(stack[t]) = 1 /\ Messages
  <2>1. Height(stack[t], Len(stack[t])) = "msg_free"
    BY <1>1, <1>2, Popped DEF Idle
  <2>2. Len(stack[t]) \in 1..Len(stack[t])
    BY <1>3
  <2>3. QED
    BY <1>2, <2>1, <2>2 DEF Placed, Nested
<1>5. Below(t) = {}
  BY <1>4 DEF Below
<1>6. Doing(t) = {"msg_free"} /\ Doing(t)' = {"free"} /\ Below(t)' = {}
  BY <1>1, <1>2, <1>3, <1>5, Inside
<1>7. \A u \in Threads \ {t} : stack'[u] = stack[u] /\ Doing(u)' = Doing(u) /\ Below(u)' = Below(u)
  BY <1>3 DEF Alone
<1>8. Nested'
  <2>1. \A i \in 1..Len(stack'[t]) : Height(stack'[t], i) = "free"
    BY <1>3, <1>4
  <2>2. QED
    BY <1>2, <1>6, <1>7, <2>1 DEF Nested, Placed
<1>9. AccessAtBottom' /\ SharedUnpinned'
  <2>1. ~Idle(t)' /\ Head(stack'[t]) = "free"
    <3>1. stack'[t] # <<>>
      BY <1>3
    <3>2. Head(stack'[t]) \in Doing(t)'
      <4>1. Head(stack'[t]) = Height(stack'[t], Len(stack'[t]))
        BY <1>3, <3>1, Popped DEF Alone
      <4>2. QED
        BY <1>3, <1>6, <4>1
    <3>3. QED
      BY <1>6, <3>1, <3>2 DEF Idle
  <2>2. AccessAtBottom'
    BY <1>1, <1>2, <1>7, <2>1 DEF AccessAtBottom, Placed, Idle, Accessing
  <2>3. SharedUnpinned'
    BY <1>1, <1>2, <1>7, <2>1 DEF SharedUnpinned, Placed, At, Idle
  <2>4. QED
    BY <2>2, <2>3
<1>10. /\ Delivers(t) /\ ~Delivers(t)'
       /\ \A u \in Threads \ {t} : Delivers(u)' <=> Delivers(u)
  BY <1>6, <1>7 DEF Delivers, Accessing
<1>11. Cardinality(Delivering)' = Cardinality(Delivering) - 1
  <2>1. Delivering' = Delivering \ {t} /\ t \in Delivering
    BY <1>10 DEF Delivering
  <2>2. IsFiniteSet(Delivering)
    BY FS_Subset, LifeAssumption DEF Delivering
  <2>3. Cardinality(Delivering \ {t}) = Cardinality(Delivering) - 1
    BY <2>1, <2>2, FS_RemoveElement
  <2>4. Cardinality(Delivering)' = Cardinality(Delivering \ {t})
    BY <2>1, Zenon
  <2>5. QED
    BY <2>3, <2>4
<1>12. Count(Pinning) \in Nat /\ Count({"unpinWeak"}) \in Nat /\ Count(OwnLock) \in Nat
  BY <1>2, CallsFinite DEF Count
<1>13. /\ Count(Pinning)' = Count(Pinning) /\ Count({"unpinWeak"})' = Count({"unpinWeak"})
       /\ Count(OwnLock)' = Count(OwnLock)
  BY <1>3, <1>12 DEF W, Pinning, OwnLock, Locking
<1>14. /\ Cardinality(Having(pins))' = Cardinality(Having(pins))
       /\ Cardinality(Having(weak))' = Cardinality(Having(weak))
       /\ Cardinality(LocksOf(locks))' = Cardinality(LocksOf(locks))
  BY <1>1
<1>15. PinsCounted'
  <2>1. PinsOwed' = PinsOwed /\ WeakOwed' = WeakOwed
    BY <1>13, <1>14 DEF PinsOwed, WeakOwed
  <2>2. Strong = PinsOwed /\ Weak = WeakOwed
    BY PinsAreOwed DEF CountInv
  <2>3. QED
    BY <1>1, <2>1, <2>2, PinsAreOwedNext
<1>16. LocksAccounted'
  <2>1. /\ Cardinality(Delivering) \in Nat
        /\ Cardinality(LocksOf(locks)) \in Nat
    BY <1>2, Owed, LifeAssumption DEF Sums, TypeOK, Stacks
  <2>2. Kept' = 1 /\ Kept \in 0..1
    BY <1>1 DEF Kept, defined
  <2>3. LocksOwed' <= LocksOwed /\ LocksOwed' \in Int /\ LocksOwed \in Int
    BY <1>11, <1>12, <1>13, <1>14, <2>1, <2>2 DEF LocksOwed
  <2>4. Queue \in Int /\ Queue >= LocksOwed
    BY <1>2 DEF CountInv, LocksAccounted, TypeOK
  <2>5. Queue' >= LocksOwed'
    BY <1>1, <2>3, <2>4
  <2>6. QED
    BY <1>4, <2>5 DEF LocksAccounted
<1>17. OneHolder'
  <2>1. ASSUME NEW u \in Threads, HasLock(u)' PROVE HasLock(u)
    <3>1. CASE u = t
      BY <1>10, <3>1 DEF HasLock
    <3>2. CASE u # t
      BY <1>1, <1>7, <1>10, <2>1, <3>2 DEF HasLock
    <3>3. QED
      BY <3>1, <3>2
  <2>2. QED
    BY <1>1, <2>1 DEF CountInv, OneHolder
<1>18. TypeOK'
  <2>1. removed' \subseteq Sleepers'
    BY <1>1, <1>2, <1>3, SleepersStay DEF TypeOK
  <2>2. QED
    BY <1>1, <1>2, <1>3, <2>1 DEF Alone, msg_free, TypeOK, Stacks, record, block
<1>19. QED
  BY <1>4, <1>8, <1>9, <1>15, <1>16, <1>17, <1>18 DEF CountInv

-----------------------------------------------------------------------------
(* The counters are exact.                                                 *)

LEMMA CountInit == Init => CountInv
<1> SUFFICES ASSUME Init PROVE CountInv
  OBVIOUS
<1>1. stack = [t \in Threads |-> <<>>] /\ \A t \in Threads : stack[t] = <<>> /\ Len(stack[t]) = 0
  BY DEF Init
<1>2. TypeOK
  <2>1. <<>> \in Seq(Labels)
    OBVIOUS
  <2>2. 0 \in 0..MaxLocks
    BY LifeAssumption
  <2>3. stack \in [Threads -> Seq(Labels)] /\ locks \in [Threads -> 0..MaxLocks]
    BY <1>1, <2>1, <2>2 DEF Init
  <2>4. QED
    BY <2>3 DEF Init, TypeOK
<1>3. \A t \in Threads : Doing(t) = {} /\ Below(t) = {}
  BY <1>1 DEF Doing, Below
<1>4. Nested /\ AccessAtBottom /\ SharedUnpinned
  BY <1>1, <1>3 DEF Nested, AccessAtBottom, SharedUnpinned, Idle, At
<1>5. \A L : Count(L) = 0
  <2>1. ASSUME NEW L PROVE CallsIn(stack, L) = {}
    BY <1>1 DEF CallsIn
  <2>2. ASSUME NEW L PROVE Count(L) = 0
    BY <2>1, FS_EmptySet DEF Count
  <2>3. QED
    BY <2>2
<1>6. Cardinality(Having(pins)) = 0 /\ Cardinality(Having(weak)) = 0
  <2>1. Having(pins) = {} /\ Having(weak) = {}
    BY DEF Init, Having
  <2>2. QED
    BY <2>1, FS_EmptySet
<1>7. Cardinality(LocksOf(locks)) = 0
  <2>1. LocksOf(locks) = {}
    BY DEF Init, LocksOf
  <2>2. QED
    BY <2>1, FS_EmptySet
<1>8. Cardinality(Delivering) = 0
  <2>1. Delivering = {}
    BY <1>3 DEF Delivering, Delivers
  <2>2. QED
    BY <2>1, FS_EmptySet
<1>9. ~defined("PERMIT_TERMINATE") /\ Kept = 0
  BY DEF Init, defined, Kept
<1>10. PinsOwed = 0 /\ WeakOwed = 0 /\ LocksOwed = 0
  BY <1>5, <1>6, <1>7, <1>8, <1>9 DEF PinsOwed, WeakOwed, LocksOwed
<1>11. PinsCounted /\ LocksAccounted
  BY <1>10, PinsAreOwed DEF Init, LocksAccounted
<1>12. OneHolder
  BY <1>3 DEF OneHolder, HasLock, Delivers, Init
<1>13. QED
  BY <1>2, <1>4, <1>9, <1>11, <1>12 DEF CountInv

LEMMA CountStutter ==
    CountInv /\ UNCHANGED vars => CountInv'
<1> SUFFICES ASSUME CountInv, UNCHANGED vars PROVE CountInv'
  OBVIOUS
<1>1. /\ UNCHANGED <<registered, Terminating, CollectOnUnlock, Flags, Strong, Weak, Queue, ThreadID>>
      /\ UNCHANGED <<removed, glZombies, frees, stack, locks, pins, weak>>
  BY DEF vars, record, counts, lock, block, clients
<1>2. TypeOK' /\ Nested' /\ AccessAtBottom' /\ SharedUnpinned'
  BY <1>1 DEF CountInv, TypeOK, Sleepers, At, Idle, Nested, AccessAtBottom, SharedUnpinned, Below
<1>3. PinsCounted'
  BY <1>1 DEF CountInv, PinsCounted, Calls
<1>4. OneHolder' /\ (defined("PERMIT_TERMINATE")' => Messages)
  BY <1>1 DEF CountInv, OneHolder, HasLock, Delivers, Doing, defined
<1>5. LocksAccounted'
  <2>1. /\ Count(OwnLock)' = Count(OwnLock) /\ Kept' = Kept
        /\ Cardinality(LocksOf(locks))' = Cardinality(LocksOf(locks))
    BY <1>1 DEF Count, Kept, defined
  <2>2. Delivering' = Delivering
    BY <1>1 DEF Delivering, Delivers, Doing
  <2>3. Cardinality(Delivering)' = Cardinality(Delivering)
    BY <2>2, Zenon
  <2>4. QED
    BY <1>1, <2>1, <2>3 DEF CountInv, LocksAccounted, LocksOwed
<1>6. QED
  BY <1>2, <1>3, <1>4, <1>5 DEF CountInv

LEMMA CountCall ==
    ASSUME CountInv, NEW t \in Threads, Call(t)
    PROVE  CountInv'
<1>1. CASE AccessObject(t, <<>>)
  BY <1>1, Count_AccessObject
<1>2. CASE Messages /\ locks[t] = 0 /\ AccessObject(t, <<"msg_free">>)
  BY <1>2, Count_AccessObject
<1>3. CASE GiveBack(t, "release")
  BY <1>3, Count_GiveBack
<1>4. CASE GiveBack(t, "unlock")
  BY <1>4, Count_GiveBack
<1>5. CASE pin(t)
  BY <1>5, Count_pin
<1>6. CASE SharedObjectAccess(t)
  BY <1>6, Count_SharedObjectAccess
<1>7. CASE BeginUnpin(t)
  BY <1>7, Count_BeginUnpin
<1>8. CASE PinWeakObject(t)
  BY <1>8, Count_PinWeakObject
<1>9. CASE BeginUnpinWeak(t)
  BY <1>9, Count_BeginUnpinWeak
<1>10. CASE BeginFree(t)
  BY <1>10, Count_BeginFree
<1>11. QED
  BY <1>1, <1>2, <1>3, <1>4, <1>5, <1>6, <1>7, <1>8, <1>9, <1>10 DEF Call

LEMMA CountStep ==
    ASSUME CountInv, NEW t \in Threads, Step(t)
    PROVE  CountInv'
<1>1. CASE AccessTimeout(t)
  BY <1>1, Count_AccessTimeout
<1>2. CASE AccessLock(t)
  BY <1>2, Count_AccessLock
<1>3. CASE AccessCheck(t)
  BY <1>3, Count_AccessCheck
<1>4. CASE Unlock(t)
  BY <1>4, Count_Unlock
<1>5. CASE DecrementQueue(t)
  BY <1>5, Count_DecrementQueue
<1>6. CASE FetchSub(t)
  BY <1>6, Count_FetchSub
<1>7. CASE FlagSleepers(t)
  BY <1>7, Count_FlagSleepers
<1>8. CASE Collect(t)
  BY <1>8, Count_Collect
<1>9. CASE SharedCheck(t)
  BY <1>9, Count_SharedCheck
<1>10. CASE unpin(t)
  BY <1>10, Count_unpin
<1>11. CASE unpinWeak(t)
  BY <1>11, Count_unpinWeak
<1>12. CASE CheckZombie(t)
  BY <1>12, Count_CheckZombie
<1>13. CASE ReleaseZombie(t)
  BY <1>13, Count_ReleaseZombie
<1>14. CASE free_object_block(t)
  BY <1>14, Count_free_object_block
<1>15. CASE freeIfReady(t)
  BY <1>15, Count_freeIfReady
<1>16. CASE msg_free(t)
  BY <1>16, Count_msg_free
<1>17. CASE FreeObject(t)
  BY <1>17, Count_FreeObject
<1>18. CASE FreeLock(t)
  BY <1>18, Count_FreeLock
<1>19. CASE FreeCheck(t)
  BY <1>19, Count_FreeCheck
<1>20. CASE MarkForDeletion(t)
  BY <1>20, Count_MarkForDeletion
<1>21. CASE BeginTermination(t)
  BY <1>21, Count_BeginTermination
<1>22. CASE Teardown(t)
  BY <1>22, Count_Teardown
<1>23. CASE BecomeZombie(t)
  BY <1>23, Count_BecomeZombie
<1>24. CASE CheckPins(t)
  BY <1>24, Count_CheckPins
<1>25. CASE EmplaceZombie(t)
  BY <1>25, Count_EmplaceZombie
<1>26. CASE Refused(t)
  BY <1>26, Count_Refused
<1>27. CASE \E in_use \in BOOLEAN : FreeWarning(t, in_use)
  BY <1>27, Count_FreeWarning
<1>28. QED
  BY <1>1, <1>2, <1>3, <1>4, <1>5, <1>6, <1>7, <1>8, <1>9, <1>10, <1>11, <1>12, <1>13, <1>14,
      <1>15, <1>16, <1>17, <1>18, <1>19, <1>20, <1>21, <1>22, <1>23, <1>24, <1>25, <1>26, <1>27 DEF Step

\* Every step keeps the counters in line with the callers and the calls.
THEOREM Counting == Spec => []CountInv
<1>1. CountInv /\ [Next]_vars => CountInv'
  <2>1. CountInv /\ Next => CountInv'
    BY CountCall, CountStep, Count_FreeLockFails DEF Next
  <2>2. QED
    BY <2>1, CountStutter
<1>2. QED
  BY CountInit, <1>1, PTL DEF Spec

\* Without messages that free the object no lock is left behind.
LEMMA LocksAreCounted == CountInv /\ ~Messages => LocksCounted
<1> SUFFICES ASSUME CountInv, ~Messages PROVE LocksCounted
  OBVIOUS
<1>1. stack \in Stacks /\ locks \in [Threads -> Nat]
  BY LifeAssumption DEF CountInv, TypeOK, Stacks
<1>2. \A t \in Threads : \A i \in 1..Len(stack[t]) : Height(stack[t], i) # "msg_free"
  BY DEF CountInv, Nested
<1>3. Cardinality(Delivering) = 0 /\ Kept = 0
  <2>1. Delivering = {}
    BY <1>2 DEF Delivering, Delivers, Doing
  <2>2. QED
    BY <2>1, FS_EmptySet DEF CountInv, Kept
<1>4. CallsIn(stack, Locking) = CallsIn(stack, OwnLock)
  BY <1>2 DEF CallsIn, OwnLock
<1>5. Cardinality(Calls(Locking)) = Count(OwnLock)
  BY <1>4 DEF Calls, Count
<1>6. Count(OwnLock) \in Nat /\ Cardinality(LocksOf(locks)) \in Nat
  BY <1>1, CallsFinite, LocksFinite DEF Count
<1>7. QED
  BY <1>3, <1>5, <1>6 DEF CountInv, LocksAccounted, LocksOwed, LocksCounted

\* RefCount is exact in every reachable state: strong and weak pins are those of
\* the callers and of the calls in progress.
THEOREM PinsAreCounted == Spec => []PinsCounted
<1>1. CountInv => PinsCounted
  BY DEF CountInv
<1>2. QED
  BY Counting, <1>1, PTL

\* The variables have their types, Queue is exact and so is RefCount, as long as
\* nobody sends MSGID::FREE, which leaves a lock behind.
THEOREM CountersExact == ~Messages => (Spec => []LifeInv)
<1>1. CountInv /\ ~Messages => LifeInv
  BY LocksAreCounted DEF CountInv, LifeInv
<1>2. ~Messages /\ []CountInv => []LifeInv
  <2>1. ASSUME ~Messages PROVE []CountInv => []LifeInv
    <3>1. CountInv => LifeInv
      BY <1>1, <2>1
    <3>2. QED
      BY <3>1, PTL
  <2>2. QED
    BY <2>1
<1>3. QED
  BY Counting, <1>2, PTL

\* One thread at a time has the object locked, whether by AccessObject(), by a
\* call in progress or by msg_free().
THEOREM LockedByOne == Spec => []OneHolder
<1>1. CountInv => OneHolder
  BY DEF CountInv
<1>2. QED
  BY Counting, <1>1, PTL

-----------------------------------------------------------------------------
(* How the object ends: one thread at a time terminates it, and whoever     *)
(* drops the last pin of the zombie releases it.                            *)

\* FreeObject() from the claim of the record to the end of object_free().
Claiming == {"free_lock", "free_sleep", "free_check", "mark", "warn", "begin", "teardown",
             "denied", "refused"}
Ending   == {"finish", "pins", "emplace"}

\* The calls that know of a zombie, and those that may release one.
Knowing  == {"pins", "emplace", "fast", "zombie", "erase"}
Sweeping == {"last", "zombie", "erase"}

\* One call at a time has the record claimed, until there is no record.
OneClaim ==
    /\ Count(Claiming) + Count(Ending) <= 1
    /\ Count(Claiming) + Count(Ending) > 0 => Terminating
    /\ ~registered => Count(Claiming) = 0

\* A zombie is the header of an object that has been terminated.
ZombieLate ==
    /\ registered => ~defined("ZOMBIE") /\ Count(Ending) = 0
    /\ Count(Knowing) > 0 => defined("ZOMBIE")
    /\ defined("ZOMBIE") => Count({"finish"}) = 0

Held == Strong > 0 \/ Weak > 0

\* It has a pin, was released or is about to be looked at.
ZombieServed ==
    /\ glZombies => defined("ZOMBIE") /\ Count(Ending) = 0 /\ (Held \/ Count(Sweeping) > 0)
    /\ defined("ZOMBIE") => frees > 0 \/ Held \/ Count(Sweeping) > 0 \/ Count({"fast"}) > 0

EndInv == OneClaim /\ ZombieLate /\ ZombieServed

\* The numbers of calls are numbers, now and after a step.
LEMMA Tally ==
    ASSUME NEW L, stack \in Stacks
    PROVE  Count(L) \in Nat
  BY CallsFinite DEF Count

LEMMA TallyNext ==
    ASSUME NEW L, stack' \in Stacks
    PROVE  Count(L)' \in Nat
  BY CallsFinite DEF Count

LEMMA TallyPart ==
    ASSUME NEW S \in Stacks, NEW L, NEW M, L \subseteq M
    PROVE  Cardinality(CallsIn(S, L)) <= Cardinality(CallsIn(S, M))
<1>1. ASSUME NEW c \in CallsIn(S, L) PROVE c \in CallsIn(S, M)
  <2>1. PICK t, i : t \in Threads /\ c = <<t, i>>
    BY CallShape
  <2>2. i \in 1..Len(S[t]) /\ Height(S[t], i) \in M
    BY <2>1, CallMember
  <2>3. QED
    BY <2>1, <2>2, CallMember
<1>2. IsFiniteSet(CallsIn(S, M)) /\ CallsIn(S, L) \subseteq CallsIn(S, M)
  BY <1>1, CallsFinite
<1>3. QED
  BY <1>2, FS_Subset

\* Somebody is at one of the labels, or nobody is.
LEMMA TallyNone ==
    ASSUME NEW S \in Stacks, NEW L
    PROVE  /\ Cardinality(CallsIn(S, L)) \in Nat
           /\ Cardinality(CallsIn(S, L)) = 0 <=>
                \A t \in Threads : \A i \in 1..Len(S[t]) : Height(S[t], i) \notin L
<1>1. IsFiniteSet(CallsIn(S, L)) /\ Cardinality(CallsIn(S, L)) \in Nat
  BY CallsFinite
<1>2. Cardinality(CallsIn(S, L)) = 0 <=> CallsIn(S, L) = {}
  BY <1>1, FS_EmptySet
<1>3. CallsIn(S, L) = {} <=> \A t \in Threads : \A i \in 1..Len(S[t]) : Height(S[t], i) \notin L
  <2>1. ASSUME CallsIn(S, L) = {}, NEW t \in Threads, NEW i \in 1..Len(S[t])
        PROVE  Height(S[t], i) \notin L
    BY <2>1, CallMember
  <2>2. ASSUME \A t \in Threads : \A i \in 1..Len(S[t]) : Height(S[t], i) \notin L, NEW c \in CallsIn(S, L)
        PROVE  FALSE
    <3>1. PICK t, i : t \in Threads /\ c = <<t, i>>
      BY CallShape
    <3>2. i \in 1..Len(S[t]) /\ Height(S[t], i) \in L
      BY <3>1, CallMember
    <3>3. QED
      BY <2>2, <3>1, <3>2
  <2>3. QED
    BY <2>1, <2>2
<1>4. QED
  BY <1>1, <1>2, <1>3

LEMMA TallyDoing ==
    ASSUME stack \in Stacks, NEW L
    PROVE  Count(L) = 0 <=> \A t \in Threads : Doing(t) \cap L = {}
  BY TallyNone DEF Count, Doing

LEMMA TallyDoingNext ==
    ASSUME stack' \in Stacks, NEW L
    PROVE  Count(L)' = 0 <=> \A t \in Threads : Doing(t)' \cap L = {}
  BY TallyNone DEF Count, Doing

LEMMA TallyTop ==
    ASSUME stack \in Stacks, NEW t \in Threads, ~Idle(t), NEW L, Head(stack[t]) \in L
    PROVE  Count(L) \in Nat \ {0}
  BY Tally, TallyDoing, Inside

\* An object without pins: nobody has one, and no call has.
LEMMA NoPins ==
    ASSUME CountInv
    PROVE  /\ Strong = 0 => Count(Pinning) = 0 /\ \A t \in Threads : ~pins[t]
           /\ Weak = 0 => Count({"unpinWeak"}) = 0 /\ \A t \in Threads : ~weak[t]
<1>1. stack \in Stacks /\ pins \in [Threads -> BOOLEAN] /\ weak \in [Threads -> BOOLEAN]
  BY DEF CountInv, TypeOK, Stacks
<1>2. \A f \in [Threads -> BOOLEAN] : IsFiniteSet(Having(f)) /\ Cardinality(Having(f)) \in Nat
  BY LifeAssumption, FS_Subset, FS_CardinalityType DEF Having
<1>3. \A f \in [Threads -> BOOLEAN] : Cardinality(Having(f)) = 0 => \A t \in Threads : ~f[t]
  BY <1>2, FS_EmptySet DEF Having
<1>4. Count(Pinning) \in Nat /\ Count({"unpinWeak"}) \in Nat
  BY <1>1, Tally
<1>5. /\ Strong = Cardinality(Having(pins)) + Count(Pinning)
      /\ Weak = Cardinality(Having(weak)) + Count({"unpinWeak"})
  BY PinsAreOwed DEF CountInv, PinsOwed, WeakOwed
<1>6. QED
  BY <1>1, <1>2, <1>3, <1>4, <1>5

EndSets == {Claiming, Ending, Knowing, Sweeping, {"finish"}, {"fast"}}

\* The labels of calls that have no part in the end of the object.
Outer == {"access_lock", "access_sleep", "access_check", "access_failed", "msg_free", "unlock",
          "decrement", "release", "wake", "collect", "shared", "unpin", "unpinWeak", "ready", "free"}

LEMMA OuterWeight ==
    /\ Outer \subseteq Labels
    /\ \A L \in EndSets : "msg_free" \notin L /\ \A x \in Outer : W(x, L) = 0
  BY DEF Outer, Labels, EndSets, Claiming, Ending, Knowing, Sweeping, W

\* AccessObject() fails when it is in no other call, or in msg_free().
AtBottom(t) == Len(stack[t]) = 1 \/ (Len(stack[t]) = 2 /\ Height(stack[t], 1) = "msg_free")

\* How a thread may go on without touching them.
OuterMove(t) ==
    \/ stack' = stack
    \/ ~Idle(t) /\ Head(stack[t]) \in Outer /\ Return(t)
    \/ ~Idle(t) /\ Head(stack[t]) \in Outer /\ \E x \in Outer : Continue(t, <<x>>)
    \/ \E x \in Outer : Begin(t, <<x>>)
    \/ \E x, y \in Outer : Begin(t, <<x, y>>)
    \/ ~Idle(t) /\ Head(stack[t]) \in Outer /\ AtBottom(t) /\ stack' = [stack EXCEPT ![t] = FailedAccess]
    \/ ~Idle(t) /\ Head(stack[t]) \in Outer /\ AtBottom(t) /\ stack' = [stack EXCEPT ![t] = MarkedAccess]

LEMMA OuterCount ==
    ASSUME stack \in Stacks, NEW t \in Threads, OuterMove(t), NEW L \in EndSets
    PROVE  Count(L)' = Count(L)
<1>1. Count(L) \in Nat
  BY Tally
<1>2. "msg_free" \notin L /\ \A x \in Outer : x \in Labels /\ W(x, L) = 0
  BY OuterWeight
<1>3. {"unpin", "ready", "release"} \subseteq Outer
  BY DEF Outer
<1>4. CASE stack' = stack
  BY <1>4 DEF Count
<1>5. CASE ~Idle(t) /\ Head(stack[t]) \in Outer /\ Return(t)
  BY <1>1, <1>2, <1>5, Returns
<1>6. CASE ~Idle(t) /\ Head(stack[t]) \in Outer /\ \E x \in Outer : Continue(t, <<x>>)
  <2>1. PICK x \in Outer : Continue(t, <<x>>)
    BY <1>6
  <2>2. Count(L)' = Count(L) - W(Head(stack[t]), L) + W(x, L)
    BY <1>2, <1>6, <2>1, GoesOn
  <2>3. QED
    BY <1>1, <1>2, <1>6, <2>2
<1>7. CASE \E x \in Outer : Begin(t, <<x>>)
  <2>1. PICK x \in Outer : Begin(t, <<x>>)
    BY <1>7
  <2>2. Count(L)' = Count(L) + W(x, L)
    BY <1>2, <2>1, Begins
  <2>3. QED
    BY <1>1, <1>2, <2>2
<1>8. CASE \E x, y \in Outer : Begin(t, <<x, y>>)
  <2>1. PICK x \in Outer, y \in Outer : Begin(t, <<x, y>>)
    BY <1>8
  <2>2. Count(L)' = Count(L) + W(x, L) + W(y, L)
    BY <1>2, <2>1, BeginsTwo
  <2>3. QED
    BY <1>1, <1>2, <2>2
<1>9. CASE /\ ~Idle(t) /\ Head(stack[t]) \in Outer /\ AtBottom(t)
           /\ stack' = [stack EXCEPT ![t] = FailedAccess]
  <2>1. Count(L)' = Count(L) - W(Head(stack[t]), L) + W("unpin", L) + W("ready", L)
    BY <1>2, <1>9, Fails DEF AtBottom
  <2>2. QED
    BY <1>1, <1>2, <1>3, <1>9, <2>1
<1>10. CASE /\ ~Idle(t) /\ Head(stack[t]) \in Outer /\ AtBottom(t)
            /\ stack' = [stack EXCEPT ![t] = MarkedAccess]
  <2>1. Count(L)' = Count(L) - W(Head(stack[t]), L) + W("unpin", L) + W("ready", L) + W("release", L)
    BY <1>2, <1>10, FailsLocked DEF AtBottom
  <2>2. QED
    BY <1>1, <1>2, <1>3, <1>10, <2>1
<1>11. QED
  BY <1>4, <1>5, <1>6, <1>7, <1>8, <1>9, <1>10 DEF OuterMove

\* A step that leaves the end of the object alone.
LEMMA EndStays ==
    ASSUME EndInv, \A L \in EndSets : Count(L)' = Count(L),
           UNCHANGED <<registered, Terminating, block>>,
           defined("ZOMBIE")' <=> defined("ZOMBIE"), Held => Held'
    PROVE  EndInv'
<1>1. /\ Count(Claiming)' = Count(Claiming) /\ Count(Ending)' = Count(Ending)
      /\ Count(Knowing)' = Count(Knowing) /\ Count(Sweeping)' = Count(Sweeping)
      /\ Count({"finish"})' = Count({"finish"}) /\ Count({"fast"})' = Count({"fast"})
  BY DEF EndSets
<1>2. glZombies' = glZombies /\ frees' = frees /\ registered' = registered /\ Terminating' = Terminating
  BY DEF block
<1>3. OneClaim'
  BY <1>1, <1>2 DEF EndInv, OneClaim
<1>4. ZombieLate'
  BY <1>1, <1>2 DEF EndInv, ZombieLate
<1>5. ZombieServed'
  BY <1>1, <1>2 DEF EndInv, ZombieServed
<1>6. QED
  BY <1>3, <1>4, <1>5 DEF EndInv

\* The steps that do.
OuterStep(t) ==
    \/ AccessObject(t, <<>>) \/ AccessObject(t, <<"msg_free">>)
    \/ GiveBack(t, "release") \/ GiveBack(t, "unlock")
    \/ pin(t) \/ SharedObjectAccess(t) \/ BeginUnpin(t)
    \/ PinWeakObject(t) \/ BeginUnpinWeak(t) \/ BeginFree(t)
    \/ AccessTimeout(t) \/ AccessLock(t) \/ AccessCheck(t)
    \/ Unlock(t) \/ DecrementQueue(t) \/ FetchSub(t) \/ FlagSleepers(t) \/ Collect(t)
    \/ SharedCheck(t) \/ freeIfReady(t) \/ msg_free(t)

LEMMA OuterMoves ==
    ASSUME CountInv, NEW t \in Threads, OuterStep(t)
    PROVE  OuterMove(t)
<1>1. stack \in Stacks
  BY DEF CountInv, TypeOK, Stacks
<1>2. ~Idle(t) /\ Head(stack[t]) \in Accessing => AtBottom(t)
  BY DEF CountInv, AccessAtBottom, AtBottom
<1>3. CASE AccessObject(t, <<>>)
  <2>1. Begin(t, <<"access_lock">>)
    BY <1>3 DEF AccessObject
  <2>2. QED
    BY <2>1 DEF OuterMove, Outer
<1>4. CASE AccessObject(t, <<"msg_free">>)
  <2>1. <<"access_lock">> \o <<"msg_free">> = <<"access_lock", "msg_free">>
    <3>1. "access_lock" \in Labels /\ "msg_free" \in Labels
      BY DEF Labels
    <3>2. <<"msg_free">> \o <<>> = <<"msg_free">>
      BY <3>1, ConcatEmptySeq
    <3>3. <<"access_lock">> \o (<<"msg_free">> \o <<>>) = <<"access_lock", "msg_free">>
      BY <3>1, TwoLabels
    <3>4. QED
      BY <3>2, <3>3
  <2>2. Begin(t, <<"access_lock", "msg_free">>)
    BY <1>4, <2>1 DEF AccessObject
  <2>3. QED
    BY <2>2 DEF OuterMove, Outer
<1>5. CASE GiveBack(t, "release")
  BY <1>5 DEF GiveBack, OuterMove, Outer
<1>6. CASE GiveBack(t, "unlock")
  BY <1>6 DEF GiveBack, OuterMove, Outer
<1>7. CASE pin(t) \/ PinWeakObject(t)
  BY <1>7 DEF pin, PinWeakObject, OuterMove
<1>8. CASE SharedObjectAccess(t)
  BY <1>8 DEF SharedObjectAccess, OuterMove, Outer
<1>9. CASE BeginUnpin(t)
  BY <1>9 DEF BeginUnpin, OuterMove, Outer
<1>10. CASE BeginUnpinWeak(t)
  BY <1>10 DEF BeginUnpinWeak, OuterMove, Outer
<1>11. CASE BeginFree(t)
  BY <1>11 DEF BeginFree, OuterMove, Outer
<1>12. CASE AccessTimeout(t)
  BY <1>2, <1>12 DEF AccessTimeout, OuterMove, Outer, At, Accessing
<1>13. CASE AccessLock(t)
  <2>1. ~Idle(t) /\ Head(stack[t]) \in Outer
    BY <1>13 DEF AccessLock, At, Outer
  <2>2. \E x \in Outer : Continue(t, <<x>>)
    BY <1>13 DEF AccessLock, Lock, Outer
  <2>3. QED
    BY <2>1, <2>2 DEF OuterMove
<1>14. CASE AccessCheck(t)
  BY <1>2, <1>14 DEF AccessCheck, OuterMove, Outer, At, Accessing
<1>15. CASE Unlock(t)
  BY <1>15 DEF Unlock, OuterMove, Outer, At
<1>16. CASE DecrementQueue(t)
  BY <1>16 DEF DecrementQueue, OuterMove, Outer, At
<1>17. CASE FetchSub(t)
  BY <1>17 DEF FetchSub, OuterMove, Outer, At, Return
<1>18. CASE FlagSleepers(t)
  BY <1>18 DEF FlagSleepers, OuterMove, Outer, At
<1>19. CASE Collect(t)
  BY <1>19 DEF Collect, OuterMove, Outer, At
<1>20. CASE SharedCheck(t)
  BY <1>20 DEF SharedCheck, OuterMove, Outer, At
<1>21. CASE freeIfReady(t)
  BY <1>21 DEF freeIfReady, OuterMove, Outer, At, Return
<1>22. CASE msg_free(t)
  BY <1>22 DEF msg_free, OuterMove, Outer, At
<1>23. QED
  BY <1>3, <1>4, <1>5, <1>6, <1>7, <1>8, <1>9, <1>10, <1>11, <1>12, <1>13, <1>14, <1>15, <1>16,
     <1>17, <1>18, <1>19, <1>20, <1>21, <1>22 DEF OuterStep

LEMMA End_Outer ==
    ASSUME CountInv, EndInv, NEW t \in Threads, OuterStep(t)
    PROVE  EndInv'
<1>1. stack \in Stacks /\ Strong \in Nat /\ Weak \in Nat
  BY DEF CountInv, TypeOK, Stacks
<1>2. \A L \in EndSets : Count(L)' = Count(L)
  BY <1>1, OuterMoves, OuterCount
<1>3. UNCHANGED <<registered, Terminating, block>>
  BY DEF OuterStep, AccessObject, GiveBack, pin, SharedObjectAccess, BeginUnpin, PinWeakObject,
     BeginUnpinWeak, BeginFree, AccessTimeout, AccessLock, AccessCheck, Unlock, DecrementQueue,
     FetchSub, FlagSleepers, Collect, SharedCheck, freeIfReady, msg_free, record
<1>4. defined("ZOMBIE")' <=> defined("ZOMBIE")
  BY DEF OuterStep, AccessObject, GiveBack, pin, SharedObjectAccess, BeginUnpin, PinWeakObject,
     BeginUnpinWeak, BeginFree, AccessTimeout, AccessLock, AccessCheck, Unlock, DecrementQueue,
     FetchSub, FlagSleepers, Collect, SharedCheck, freeIfReady, msg_free, defined
<1>5. Strong' \in {Strong, Strong + 1} /\ Weak' \in {Weak, Weak + 1}
  BY DEF OuterStep, AccessObject, GiveBack, pin, SharedObjectAccess, BeginUnpin, PinWeakObject,
     BeginUnpinWeak, BeginFree, AccessTimeout, AccessLock, AccessCheck, Unlock, DecrementQueue,
     FetchSub, FlagSleepers, Collect, SharedCheck, freeIfReady, msg_free, counts
<1>6. Held => Held'
  BY <1>1, <1>5 DEF Held
<1>7. QED
  BY <1>2, <1>3, <1>4, <1>6, EndStays

\* A claim goes on.
ClaimMove(t) ==
    /\ ~Idle(t) /\ Head(stack[t]) \in Claiming
    /\ (\E x \in Claiming : Continue(t, <<x>>)) \/ Continue(t, <<"unlock", "refused">>)

LEMMA ClaimWeight ==
    /\ Claiming \subseteq Labels /\ {"unlock", "refused"} \subseteq Labels
    /\ \A L \in EndSets :
          /\ \A x \in Claiming : W(x, L) = (IF L = Claiming THEN 1 ELSE 0)
          /\ W("unlock", L) = 0
<1>1. \A x \in Claiming : W(x, Claiming) = 1 /\ W("unlock", Claiming) = 0
  BY DEF W, Claiming
<1>2. \A x \in Claiming : W(x, Ending) = 0 /\ W("unlock", Ending) = 0 /\ Ending # Claiming
  BY DEF W, Claiming, Ending
<1>3. \A x \in Claiming : W(x, Knowing) = 0 /\ W("unlock", Knowing) = 0 /\ Knowing # Claiming
  BY DEF W, Claiming, Knowing
<1>4. \A x \in Claiming : W(x, Sweeping) = 0 /\ W("unlock", Sweeping) = 0 /\ Sweeping # Claiming
  BY DEF W, Claiming, Sweeping
<1>5. \A x \in Claiming : W(x, {"finish"}) = 0 /\ W("unlock", {"finish"}) = 0 /\ {"finish"} # Claiming
  BY DEF W, Claiming
<1>6. \A x \in Claiming : W(x, {"fast"}) = 0 /\ W("unlock", {"fast"}) = 0 /\ {"fast"} # Claiming
  BY DEF W, Claiming
<1>7. Claiming \subseteq Labels /\ {"unlock", "refused"} \subseteq Labels /\ "free_lock" \in Claiming
  BY DEF Claiming, Labels
<1>8. QED
  BY <1>1, <1>2, <1>3, <1>4, <1>5, <1>6, <1>7 DEF EndSets

LEMMA ClaimCount ==
    ASSUME stack \in Stacks, NEW t \in Threads, ClaimMove(t), NEW L \in EndSets
    PROVE  Count(L)' = Count(L)
<1>1. Count(L) \in Nat
  BY Tally
<1>2. ~Idle(t) /\ Head(stack[t]) \in Claiming
  BY DEF ClaimMove
<1>3. CASE \E x \in Claiming : Continue(t, <<x>>)
  <2>1. PICK x \in Claiming : Continue(t, <<x>>)
    BY <1>3
  <2>2. Count(L)' = Count(L) - W(Head(stack[t]), L) + W(x, L)
    BY <1>2, <2>1, ClaimWeight, GoesOn
  <2>3. QED
    BY <1>1, <1>2, <2>2, ClaimWeight
<1>4. CASE Continue(t, <<"unlock", "refused">>)
  <2>1. Count(L)' = Count(L) - W(Head(stack[t]), L) + W("unlock", L) + W("refused", L)
    BY <1>2, <1>4, ClaimWeight, CallsTwo
  <2>2. "refused" \in Claiming
    BY DEF Claiming
  <2>3. QED
    BY <1>1, <1>2, <2>1, <2>2, ClaimWeight
<1>5. QED
  BY <1>3, <1>4 DEF ClaimMove

ClaimStep(t) ==
    \/ FreeLock(t) \/ FreeCheck(t) \/ MarkForDeletion(t) \/ BeginTermination(t)
    \/ FreeLockFails(t)
    \/ \E in_use \in BOOLEAN : FreeWarning(t, in_use)

LEMMA ClaimMoves ==
    ASSUME NEW t \in Threads, ClaimStep(t)
    PROVE  ClaimMove(t)
<1>1. CASE FreeLock(t)
  <2>1. ~Idle(t) /\ Head(stack[t]) \in Claiming
    BY <1>1 DEF FreeLock, At, Claiming
  <2>2. \E x \in Claiming : Continue(t, <<x>>)
    BY <1>1 DEF FreeLock, Lock, Claiming
  <2>3. QED
    BY <2>1, <2>2 DEF ClaimMove
<1>2. CASE FreeCheck(t)
  BY <1>2 DEF FreeCheck, At, ClaimMove, Claiming
<1>3. CASE MarkForDeletion(t)
  BY <1>3 DEF MarkForDeletion, At, ClaimMove, Claiming
<1>4. CASE BeginTermination(t)
  BY <1>4 DEF BeginTermination, At, ClaimMove, Claiming
<1>5. CASE \E in_use \in BOOLEAN : FreeWarning(t, in_use)
  BY <1>5 DEF FreeWarning, At, ClaimMove, Claiming
<1>6. CASE FreeLockFails(t)
  BY <1>6 DEF FreeLockFails, At, ClaimMove, Claiming
<1>7. QED
  BY <1>1, <1>2, <1>3, <1>4, <1>5, <1>6 DEF ClaimStep

LEMMA End_Claim ==
    ASSUME CountInv, EndInv, NEW t \in Threads, ClaimStep(t)
    PROVE  EndInv'
<1>1. stack \in Stacks /\ Strong \in Nat /\ Weak \in Nat
  BY DEF CountInv, TypeOK, Stacks
<1>2. \A L \in EndSets : Count(L)' = Count(L)
  BY <1>1, ClaimMoves, ClaimCount
<1>3. UNCHANGED <<registered, Terminating, block>>
  BY DEF ClaimStep, FreeLock, FreeLockFails, FreeCheck, MarkForDeletion, BeginTermination,
    FreeWarning, record
<1>4. defined("ZOMBIE")' <=> defined("ZOMBIE")
  BY DEF ClaimStep, FreeLock, FreeLockFails, FreeCheck, MarkForDeletion, BeginTermination,
    FreeWarning, defined
<1>5. Strong' \in {Strong, Strong + 1} /\ Weak' = Weak
  BY DEF ClaimStep, FreeLock, FreeLockFails, FreeCheck, MarkForDeletion, BeginTermination,
    FreeWarning, counts
<1>6. Held => Held'
  BY <1>1, <1>5 DEF Held
<1>7. QED
  BY <1>2, <1>3, <1>4, <1>6, EndStays

\* The numbers that are counted.
LEMMA EndTally ==
    ASSUME stack \in Stacks
    PROVE  /\ Count(Claiming) \in Nat /\ Count(Ending) \in Nat /\ Count(Knowing) \in Nat
           /\ Count(Sweeping) \in Nat /\ Count({"finish"}) \in Nat /\ Count({"fast"}) \in Nat
           /\ Count({"finish"}) <= Count(Ending)
<1>1. {"finish"} \subseteq Ending
  BY DEF Ending
<1>2. QED
  BY <1>1, Tally, TallyPart DEF Count

LEMMA EndTallyNext ==
    ASSUME stack' \in Stacks
    PROVE  /\ Count(Claiming)' \in Nat /\ Count(Ending)' \in Nat /\ Count(Knowing)' \in Nat
           /\ Count(Sweeping)' \in Nat /\ Count({"finish"})' \in Nat /\ Count({"fast"})' \in Nat
  BY TallyNext

\* The claim: nobody else has it.
LEMMA End_FreeObject ==
    ASSUME CountInv, EndInv, NEW t \in Threads, FreeObject(t)
    PROVE  EndInv'
<1>1. /\ stack \in Stacks /\ Strong \in Nat /\ Weak \in Nat /\ frees \in Nat
      /\ registered \in BOOLEAN /\ Terminating \in BOOLEAN /\ glZombies \in BOOLEAN
  BY DEF CountInv, TypeOK, Stacks
<1>2. CASE Claimable
  <2>1. /\ ~Idle(t) /\ Head(stack[t]) = "free" /\ Continue(t, <<"free_lock">>)
        /\ UNCHANGED <<registered, glZombies, frees, Strong, Weak>>
        /\ Terminating' = TRUE /\ registered /\ ~Terminating
        /\ defined("ZOMBIE")' <=> defined("ZOMBIE")
    BY <1>1, <1>2 DEF FreeObject, Claimable, At, defined, record, counts, block, Return
  <2>2. "free" \in Labels /\ "free_lock" \in Labels
    BY DEF Labels
  <2>3. /\ stack' \in Stacks
        /\ \A L : Count(L)' = Count(L) - W("free", L) + W("free_lock", L)
    BY <1>1, <2>1, <2>2, GoesOn DEF Alone
  <2>4. /\ Count(Claiming)' = Count(Claiming) + 1 /\ Count(Ending)' = Count(Ending)
        /\ Count(Knowing)' = Count(Knowing) /\ Count(Sweeping)' = Count(Sweeping)
        /\ Count({"finish"})' = Count({"finish"}) /\ Count({"fast"})' = Count({"fast"})
    BY <1>1, <2>3, EndTally DEF W, Claiming, Ending, Knowing, Sweeping
  <2>5. OneClaim'
    BY <1>1, <2>1, <2>3, <2>4, EndTally, EndTallyNext DEF EndInv, OneClaim, ZombieLate
  <2>6. ZombieLate'
    BY <1>1, <2>1, <2>3, <2>4, EndTally, EndTallyNext DEF EndInv, OneClaim, ZombieLate
  <2>7. ZombieServed'
    BY <1>1, <2>1, <2>3, <2>4, EndTally, EndTallyNext DEF EndInv, OneClaim, ZombieLate, ZombieServed, Held
  <2>8. QED
    BY <2>5, <2>6, <2>7 DEF EndInv
<1>3. CASE ~Claimable
  <2>1. /\ ~Idle(t) /\ Head(stack[t]) = "free" /\ Return(t)
        /\ UNCHANGED <<registered, Terminating, glZombies, frees>>
        /\ UNCHANGED <<Strong, Weak>>
        /\ defined("ZOMBIE")' <=> defined("ZOMBIE")
    BY <1>1, <1>3 DEF FreeObject, Claimable, At, defined, record, counts, block, Return
  <2>2. "free" \in Labels
    BY DEF Labels
  <2>3. /\ stack' \in Stacks
        /\ \A L : Count(L)' = Count(L) - W("free", L)
    BY <1>1, <2>1, <2>2, Returns DEF Alone
  <2>4. /\ Count(Claiming)' = Count(Claiming) /\ Count(Ending)' = Count(Ending)
        /\ Count(Knowing)' = Count(Knowing) /\ Count(Sweeping)' = Count(Sweeping)
        /\ Count({"finish"})' = Count({"finish"}) /\ Count({"fast"})' = Count({"fast"})
    BY <1>1, <2>3, EndTally DEF W, Claiming, Ending, Knowing, Sweeping
  <2>5. OneClaim'
    BY <1>1, <2>1, <2>3, <2>4, EndTally, EndTallyNext DEF EndInv, OneClaim, ZombieLate
  <2>6. ZombieLate'
    BY <1>1, <2>1, <2>3, <2>4, EndTally, EndTallyNext DEF EndInv, OneClaim, ZombieLate
  <2>7. ZombieServed'
    BY <1>1, <2>1, <2>3, <2>4, EndTally, EndTallyNext DEF EndInv, OneClaim, ZombieLate, ZombieServed, Held
  <2>8. QED
    BY <2>5, <2>6, <2>7 DEF EndInv
<1>4. QED
  BY <1>2, <1>3 DEF FreeObject

\* A pin goes; if it is the last somebody looks after the zombie.
LEMMA End_unpin ==
    ASSUME CountInv, EndInv, NEW t \in Threads, unpin(t)
    PROVE  EndInv'
<1>1. /\ stack \in Stacks /\ Strong \in Nat /\ Weak \in Nat /\ frees \in Nat
      /\ registered \in BOOLEAN /\ Terminating \in BOOLEAN /\ glZombies \in BOOLEAN
  BY DEF CountInv, TypeOK, Stacks
<1>2. CASE unpin(t) /\ LastPin
  <2>1. /\ ~Idle(t) /\ Head(stack[t]) = "unpin" /\ Continue(t, <<"last">>)
        /\ UNCHANGED <<registered, Terminating, glZombies, frees>>
        /\ defined("ZOMBIE")' <=> defined("ZOMBIE")
        /\ Weak' = Weak
    BY <1>1, <1>2 DEF unpin, LastPin, isPinned, At, defined, record, counts, block, Return
  <2>2. "unpin" \in Labels /\ "last" \in Labels
    BY DEF Labels
  <2>3. /\ stack' \in Stacks
        /\ \A L : Count(L)' = Count(L) - W("unpin", L) + W("last", L)
    BY <1>1, <2>1, <2>2, GoesOn DEF Alone
  <2>4. /\ Count(Claiming)' = Count(Claiming) /\ Count(Ending)' = Count(Ending)
        /\ Count(Knowing)' = Count(Knowing) /\ Count(Sweeping)' = Count(Sweeping) + 1
        /\ Count({"finish"})' = Count({"finish"}) /\ Count({"fast"})' = Count({"fast"})
    BY <1>1, <2>3, EndTally DEF W, Claiming, Ending, Knowing, Sweeping
  <2>5. OneClaim'
    BY <1>1, <2>1, <2>3, <2>4, EndTally, EndTallyNext DEF EndInv, OneClaim, ZombieLate
  <2>6. ZombieLate'
    BY <1>1, <2>1, <2>3, <2>4, EndTally, EndTallyNext DEF EndInv, OneClaim, ZombieLate
  <2>7. ZombieServed'
    BY <1>1, <2>1, <2>3, <2>4, EndTally, EndTallyNext DEF EndInv, OneClaim, ZombieLate, ZombieServed, Held
  <2>8. QED
    BY <2>5, <2>6, <2>7 DEF EndInv
<1>3. CASE unpin(t) /\ ~LastPin
  <2>1. /\ ~Idle(t) /\ Head(stack[t]) = "unpin" /\ Return(t)
        /\ UNCHANGED <<registered, Terminating, glZombies, frees>>
        /\ defined("ZOMBIE")' <=> defined("ZOMBIE")
        /\ Weak' = Weak /\ (Strong' = 0 => Strong = 0 \/ Weak > 0)
        /\ Strong' \in Nat
    BY <1>1, <1>3 DEF unpin, LastPin, isPinned, At, defined, record, counts, block, Return
  <2>2. "unpin" \in Labels
    BY DEF Labels
  <2>3. /\ stack' \in Stacks
        /\ \A L : Count(L)' = Count(L) - W("unpin", L)
    BY <1>1, <2>1, <2>2, Returns DEF Alone
  <2>4. /\ Count(Claiming)' = Count(Claiming) /\ Count(Ending)' = Count(Ending)
        /\ Count(Knowing)' = Count(Knowing) /\ Count(Sweeping)' = Count(Sweeping)
        /\ Count({"finish"})' = Count({"finish"}) /\ Count({"fast"})' = Count({"fast"})
    BY <1>1, <2>3, EndTally DEF W, Claiming, Ending, Knowing, Sweeping
  <2>5. OneClaim'
    BY <1>1, <2>1, <2>3, <2>4, EndTally, EndTallyNext DEF EndInv, OneClaim, ZombieLate
  <2>6. ZombieLate'
    BY <1>1, <2>1, <2>3, <2>4, EndTally, EndTallyNext DEF EndInv, OneClaim, ZombieLate
  <2>7. ZombieServed'
    BY <1>1, <2>1, <2>3, <2>4, EndTally, EndTallyNext DEF EndInv, OneClaim, ZombieLate, ZombieServed, Held
  <2>8. QED
    BY <2>5, <2>6, <2>7 DEF EndInv
<1>4. QED
  BY <1>2, <1>3 DEF unpin

LEMMA End_unpinWeak ==
    ASSUME CountInv, EndInv, NEW t \in Threads, unpinWeak(t)
    PROVE  EndInv'
<1>1. /\ stack \in Stacks /\ Strong \in Nat /\ Weak \in Nat /\ frees \in Nat
      /\ registered \in BOOLEAN /\ Terminating \in BOOLEAN /\ glZombies \in BOOLEAN
  BY DEF CountInv, TypeOK, Stacks
<1>2. CASE unpinWeak(t) /\ LastWeakPin
  <2>1. /\ ~Idle(t) /\ Head(stack[t]) = "unpinWeak" /\ Continue(t, <<"last">>)
        /\ UNCHANGED <<registered, Terminating, glZombies, frees>>
        /\ defined("ZOMBIE")' <=> defined("ZOMBIE")
        /\ Strong' = Strong
    BY <1>1, <1>2 DEF unpinWeak, LastWeakPin, At, defined, record, counts, block, Return
  <2>2. "unpinWeak" \in Labels /\ "last" \in Labels
    BY DEF Labels
  <2>3. /\ stack' \in Stacks
        /\ \A L : Count(L)' = Count(L) - W("unpinWeak", L) + W("last", L)
    BY <1>1, <2>1, <2>2, GoesOn DEF Alone
  <2>4. /\ Count(Claiming)' = Count(Claiming) /\ Count(Ending)' = Count(Ending)
        /\ Count(Knowing)' = Count(Knowing) /\ Count(Sweeping)' = Count(Sweeping) + 1
        /\ Count({"finish"})' = Count({"finish"}) /\ Count({"fast"})' = Count({"fast"})
    BY <1>1, <2>3, EndTally DEF W, Claiming, Ending, Knowing, Sweeping
  <2>5. OneClaim'
    BY <1>1, <2>1, <2>3, <2>4, EndTally, EndTallyNext DEF EndInv, OneClaim, ZombieLate
  <2>6. ZombieLate'
    BY <1>1, <2>1, <2>3, <2>4, EndTally, EndTallyNext DEF EndInv, OneClaim, ZombieLate
  <2>7. ZombieServed'
    BY <1>1, <2>1, <2>3, <2>4, EndTally, EndTallyNext DEF EndInv, OneClaim, ZombieLate, ZombieServed, Held
  <2>8. QED
    BY <2>5, <2>6, <2>7 DEF EndInv
<1>3. CASE unpinWeak(t) /\ ~LastWeakPin
  <2>1. /\ ~Idle(t) /\ Head(stack[t]) = "unpinWeak" /\ Return(t)
        /\ UNCHANGED <<registered, Terminating, glZombies, frees>>
        /\ defined("ZOMBIE")' <=> defined("ZOMBIE")
        /\ Strong' = Strong /\ Weak' = Weak - 1
        /\ ~(Weak = 1 /\ Strong = 0)
    BY <1>1, <1>3 DEF unpinWeak, LastWeakPin, At, defined, record, counts, block, Return
  <2>2. "unpinWeak" \in Labels
    BY DEF Labels
  <2>3. /\ stack' \in Stacks
        /\ \A L : Count(L)' = Count(L) - W("unpinWeak", L)
    BY <1>1, <2>1, <2>2, Returns DEF Alone
  <2>4. /\ Count(Claiming)' = Count(Claiming) /\ Count(Ending)' = Count(Ending)
        /\ Count(Knowing)' = Count(Knowing) /\ Count(Sweeping)' = Count(Sweeping)
        /\ Count({"finish"})' = Count({"finish"}) /\ Count({"fast"})' = Count({"fast"})
    BY <1>1, <2>3, EndTally DEF W, Claiming, Ending, Knowing, Sweeping
  <2>5. OneClaim'
    BY <1>1, <2>1, <2>3, <2>4, EndTally, EndTallyNext DEF EndInv, OneClaim, ZombieLate
  <2>6. ZombieLate'
    BY <1>1, <2>1, <2>3, <2>4, EndTally, EndTallyNext DEF EndInv, OneClaim, ZombieLate
  <2>7. ZombieServed'
    BY <1>1, <2>1, <2>3, <2>4, EndTally, EndTallyNext DEF EndInv, OneClaim, ZombieLate, ZombieServed, Held
  <2>8. QED
    BY <2>5, <2>6, <2>7 DEF EndInv
<1>4. QED
  BY <1>2, <1>3 DEF unpinWeak

LEMMA End_CheckZombie ==
    ASSUME CountInv, EndInv, NEW t \in Threads, CheckZombie(t)
    PROVE  EndInv'
<1>1. /\ stack \in Stacks /\ Strong \in Nat /\ Weak \in Nat /\ frees \in Nat
      /\ registered \in BOOLEAN /\ Terminating \in BOOLEAN /\ glZombies \in BOOLEAN
  BY DEF CountInv, TypeOK, Stacks
<1>2. CASE CheckZombie(t) /\ defined("ZOMBIE")
  <2>1. /\ ~Idle(t) /\ Head(stack[t]) = "last" /\ Continue(t, <<"zombie">>)
        /\ UNCHANGED <<registered, Terminating, glZombies, frees>>
        /\ defined("ZOMBIE")' <=> defined("ZOMBIE")
        /\ UNCHANGED <<Strong, Weak>> /\ defined("ZOMBIE")
    BY <1>1, <1>2 DEF CheckZombie, At, defined, record, counts, block, Return
  <2>2. "last" \in Labels /\ "zombie" \in Labels
    BY DEF Labels
  <2>3. /\ stack' \in Stacks
        /\ \A L : Count(L)' = Count(L) - W("last", L) + W("zombie", L)
    BY <1>1, <2>1, <2>2, GoesOn DEF Alone
  <2>4. /\ Count(Claiming)' = Count(Claiming) /\ Count(Ending)' = Count(Ending)
        /\ Count(Knowing)' = Count(Knowing) + 1 /\ Count(Sweeping)' = Count(Sweeping)
        /\ Count({"finish"})' = Count({"finish"}) /\ Count({"fast"})' = Count({"fast"})
    BY <1>1, <2>3, EndTally DEF W, Claiming, Ending, Knowing, Sweeping
  <2>5. OneClaim'
    BY <1>1, <2>1, <2>3, <2>4, EndTally, EndTallyNext DEF EndInv, OneClaim, ZombieLate
  <2>6. ZombieLate'
    BY <1>1, <2>1, <2>3, <2>4, EndTally, EndTallyNext DEF EndInv, OneClaim, ZombieLate
  <2>7. ZombieServed'
    BY <1>1, <2>1, <2>3, <2>4, EndTally, EndTallyNext DEF EndInv, OneClaim, ZombieLate, ZombieServed, Held
  <2>8. QED
    BY <2>5, <2>6, <2>7 DEF EndInv
<1>3. CASE CheckZombie(t) /\ ~defined("ZOMBIE")
  <2>1. /\ ~Idle(t) /\ Head(stack[t]) = "last" /\ Return(t)
        /\ UNCHANGED <<registered, Terminating, glZombies, frees>>
        /\ defined("ZOMBIE")' <=> defined("ZOMBIE")
        /\ UNCHANGED <<Strong, Weak>> /\ ~defined("ZOMBIE")
    BY <1>1, <1>3 DEF CheckZombie, At, defined, record, counts, block, Return
  <2>2. "last" \in Labels
    BY DEF Labels
  <2>3. /\ stack' \in Stacks
        /\ \A L : Count(L)' = Count(L) - W("last", L)
    BY <1>1, <2>1, <2>2, Returns DEF Alone
  <2>4. /\ Count(Claiming)' = Count(Claiming) /\ Count(Ending)' = Count(Ending)
        /\ Count(Knowing)' = Count(Knowing) /\ Count(Sweeping)' = Count(Sweeping) - 1
        /\ Count({"finish"})' = Count({"finish"}) /\ Count({"fast"})' = Count({"fast"})
    BY <1>1, <2>3, EndTally DEF W, Claiming, Ending, Knowing, Sweeping
  <2>5. OneClaim'
    BY <1>1, <2>1, <2>3, <2>4, EndTally, EndTallyNext DEF EndInv, OneClaim, ZombieLate
  <2>6. ZombieLate'
    BY <1>1, <2>1, <2>3, <2>4, EndTally, EndTallyNext DEF EndInv, OneClaim, ZombieLate
  <2>7. ZombieServed'
    BY <1>1, <2>1, <2>3, <2>4, EndTally, EndTallyNext DEF EndInv, OneClaim, ZombieLate, ZombieServed, Held
  <2>8. QED
    BY <2>5, <2>6, <2>7 DEF EndInv
<1>4. QED
  BY <1>2, <1>3 DEF CheckZombie

LEMMA End_ReleaseZombie ==
    ASSUME CountInv, EndInv, NEW t \in Threads, ReleaseZombie(t)
    PROVE  EndInv'
<1>1. /\ stack \in Stacks /\ Strong \in Nat /\ Weak \in Nat /\ frees \in Nat
      /\ registered \in BOOLEAN /\ Terminating \in BOOLEAN /\ glZombies \in BOOLEAN
  BY DEF CountInv, TypeOK, Stacks
<1>2. CASE ReleaseZombie(t) /\ Strong = 0 /\ Weak = 0
  <2>1. /\ ~Idle(t) /\ Head(stack[t]) = "zombie" /\ Continue(t, <<"erase">>)
        /\ UNCHANGED <<registered, Terminating, glZombies, frees>>
        /\ defined("ZOMBIE")' <=> defined("ZOMBIE")
        /\ UNCHANGED <<Strong, Weak>>
    BY <1>1, <1>2 DEF ReleaseZombie, At, defined, record, counts, block, Return
  <2>2. "zombie" \in Labels /\ "erase" \in Labels
    BY DEF Labels
  <2>3. /\ stack' \in Stacks
        /\ \A L : Count(L)' = Count(L) - W("zombie", L) + W("erase", L)
    BY <1>1, <2>1, <2>2, GoesOn DEF Alone
  <2>4. /\ Count(Claiming)' = Count(Claiming) /\ Count(Ending)' = Count(Ending)
        /\ Count(Knowing)' = Count(Knowing) /\ Count(Sweeping)' = Count(Sweeping)
        /\ Count({"finish"})' = Count({"finish"}) /\ Count({"fast"})' = Count({"fast"})
    BY <1>1, <2>3, EndTally DEF W, Claiming, Ending, Knowing, Sweeping
  <2>5. OneClaim'
    BY <1>1, <2>1, <2>3, <2>4, EndTally, EndTallyNext DEF EndInv, OneClaim, ZombieLate
  <2>6. ZombieLate'
    BY <1>1, <2>1, <2>3, <2>4, EndTally, EndTallyNext DEF EndInv, OneClaim, ZombieLate
  <2>7. ZombieServed'
    BY <1>1, <2>1, <2>3, <2>4, EndTally, EndTallyNext DEF EndInv, OneClaim, ZombieLate, ZombieServed, Held
  <2>8. QED
    BY <2>5, <2>6, <2>7 DEF EndInv
<1>3. CASE ReleaseZombie(t) /\ ~(Strong = 0 /\ Weak = 0)
  <2>1. /\ ~Idle(t) /\ Head(stack[t]) = "zombie" /\ Return(t)
        /\ UNCHANGED <<registered, Terminating, glZombies, frees>>
        /\ defined("ZOMBIE")' <=> defined("ZOMBIE")
        /\ UNCHANGED <<Strong, Weak>> /\ (Strong > 0 \/ Weak > 0)
    BY <1>1, <1>3 DEF ReleaseZombie, At, defined, record, counts, block, Return
  <2>2. "zombie" \in Labels
    BY DEF Labels
  <2>3. /\ stack' \in Stacks
        /\ \A L : Count(L)' = Count(L) - W("zombie", L)
    BY <1>1, <2>1, <2>2, Returns DEF Alone
  <2>4. /\ Count(Claiming)' = Count(Claiming) /\ Count(Ending)' = Count(Ending)
        /\ Count(Knowing)' = Count(Knowing) - 1 /\ Count(Sweeping)' = Count(Sweeping) - 1
        /\ Count({"finish"})' = Count({"finish"}) /\ Count({"fast"})' = Count({"fast"})
    BY <1>1, <2>3, EndTally DEF W, Claiming, Ending, Knowing, Sweeping
  <2>5. OneClaim'
    BY <1>1, <2>1, <2>3, <2>4, EndTally, EndTallyNext DEF EndInv, OneClaim, ZombieLate
  <2>6. ZombieLate'
    BY <1>1, <2>1, <2>3, <2>4, EndTally, EndTallyNext DEF EndInv, OneClaim, ZombieLate
  <2>7. ZombieServed'
    BY <1>1, <2>1, <2>3, <2>4, EndTally, EndTallyNext DEF EndInv, OneClaim, ZombieLate, ZombieServed, Held
  <2>8. QED
    BY <2>5, <2>6, <2>7 DEF EndInv
<1>4. QED
  BY <1>2, <1>3 DEF ReleaseZombie

LEMMA End_free_object_block ==
    ASSUME CountInv, EndInv, NEW t \in Threads, free_object_block(t)
    PROVE  EndInv'
<1>1. /\ stack \in Stacks /\ Strong \in Nat /\ Weak \in Nat /\ frees \in Nat
      /\ registered \in BOOLEAN /\ Terminating \in BOOLEAN /\ glZombies \in BOOLEAN
  BY DEF CountInv, TypeOK, Stacks
<1>2. CASE free_object_block(t) /\ At(t, "erase")
  <2>1. /\ ~Idle(t) /\ Head(stack[t]) = "erase" /\ Return(t)
        /\ UNCHANGED <<registered, Terminating, Strong, Weak>>
        /\ defined("ZOMBIE")' <=> defined("ZOMBIE")
        /\ glZombies' = FALSE /\ frees' = frees + 1
    BY <1>1, <1>2 DEF free_object_block, At, defined, record, counts, block, Return
  <2>2. "erase" \in Labels
    BY DEF Labels
  <2>3. /\ stack' \in Stacks
        /\ \A L : Count(L)' = Count(L) - W("erase", L)
    BY <1>1, <2>1, <2>2, Returns DEF Alone
  <2>4. /\ Count(Claiming)' = Count(Claiming) /\ Count(Ending)' = Count(Ending)
        /\ Count(Knowing)' = Count(Knowing) - 1 /\ Count(Sweeping)' = Count(Sweeping) - 1
        /\ Count({"finish"})' = Count({"finish"}) /\ Count({"fast"})' = Count({"fast"})
    BY <1>1, <2>3, EndTally DEF W, Claiming, Ending, Knowing, Sweeping
  <2>5. OneClaim'
    BY <1>1, <2>1, <2>3, <2>4, EndTally, EndTallyNext DEF EndInv, OneClaim, ZombieLate
  <2>6. ZombieLate'
    BY <1>1, <2>1, <2>3, <2>4, EndTally, EndTallyNext DEF EndInv, OneClaim, ZombieLate
  <2>7. ZombieServed'
    BY <1>1, <2>1, <2>3, <2>4, EndTally, EndTallyNext DEF EndInv, OneClaim, ZombieLate, ZombieServed, Held
  <2>8. QED
    BY <2>5, <2>6, <2>7 DEF EndInv
<1>3. CASE free_object_block(t) /\ ~At(t, "erase")
  <2>1. /\ ~Idle(t) /\ Head(stack[t]) = "fast" /\ Return(t)
        /\ UNCHANGED <<registered, Terminating, Strong, Weak, glZombies>>
        /\ defined("ZOMBIE")' <=> defined("ZOMBIE")
        /\ frees' = frees + 1
    BY <1>1, <1>3 DEF free_object_block, At, defined, record, counts, block, Return
  <2>2. "fast" \in Labels
    BY DEF Labels
  <2>3. /\ stack' \in Stacks
        /\ \A L : Count(L)' = Count(L) - W("fast", L)
    BY <1>1, <2>1, <2>2, Returns DEF Alone
  <2>4. /\ Count(Claiming)' = Count(Claiming) /\ Count(Ending)' = Count(Ending)
        /\ Count(Knowing)' = Count(Knowing) - 1 /\ Count(Sweeping)' = Count(Sweeping)
        /\ Count({"finish"})' = Count({"finish"}) /\ Count({"fast"})' = Count({"fast"}) - 1
    BY <1>1, <2>3, EndTally DEF W, Claiming, Ending, Knowing, Sweeping
  <2>5. OneClaim'
    BY <1>1, <2>1, <2>3, <2>4, EndTally, EndTallyNext DEF EndInv, OneClaim, ZombieLate
  <2>6. ZombieLate'
    BY <1>1, <2>1, <2>3, <2>4, EndTally, EndTallyNext DEF EndInv, OneClaim, ZombieLate
  <2>7. ZombieServed'
    BY <1>1, <2>1, <2>3, <2>4, EndTally, EndTallyNext DEF EndInv, OneClaim, ZombieLate, ZombieServed, Held
  <2>8. QED
    BY <2>5, <2>6, <2>7 DEF EndInv
<1>4. QED
  BY <1>2, <1>3 DEF free_object_block

\* The claim ends with the record.
LEMMA End_Teardown ==
    ASSUME CountInv, EndInv, NEW t \in Threads, Teardown(t)
    PROVE  EndInv'
<1>1. /\ stack \in Stacks /\ Strong \in Nat /\ Weak \in Nat /\ frees \in Nat
      /\ registered \in BOOLEAN /\ Terminating \in BOOLEAN /\ glZombies \in BOOLEAN
  BY DEF CountInv, TypeOK, Stacks
<1>2. CASE Teardown(t)
  <2>1. /\ ~Idle(t) /\ Head(stack[t]) = "teardown" /\ Continue(t, <<"unlock", "finish">>)
        /\ UNCHANGED <<Terminating, glZombies, frees, Strong, Weak>>
        /\ defined("ZOMBIE")' <=> defined("ZOMBIE")
        /\ registered' = FALSE
    BY <1>1, <1>2 DEF Teardown, At, defined, record, counts, block, Return
  <2>2. "teardown" \in Labels /\ "unlock" \in Labels /\ "finish" \in Labels
    BY DEF Labels
  <2>3. /\ stack' \in Stacks
        /\ \A L : Count(L)' = Count(L) - W("teardown", L) + W("unlock", L) + W("finish", L)
    BY <1>1, <2>1, <2>2, CallsTwo DEF Alone
  <2>4. /\ Count(Claiming)' = Count(Claiming) - 1 /\ Count(Ending)' = Count(Ending) + 1
        /\ Count(Knowing)' = Count(Knowing) /\ Count(Sweeping)' = Count(Sweeping)
        /\ Count({"finish"})' = Count({"finish"}) + 1 /\ Count({"fast"})' = Count({"fast"})
    BY <1>1, <2>3, EndTally DEF W, Claiming, Ending, Knowing, Sweeping
  <2>5. OneClaim'
    BY <1>1, <2>1, <2>3, <2>4, EndTally, EndTallyNext DEF EndInv, OneClaim, ZombieLate
  <2>6. ZombieLate'
    BY <1>1, <2>1, <2>3, <2>4, EndTally, EndTallyNext DEF EndInv, OneClaim, ZombieLate
  <2>7. ZombieServed'
    BY <1>1, <2>1, <2>3, <2>4, EndTally, EndTallyNext DEF EndInv, OneClaim, ZombieLate, ZombieServed, Held
  <2>8. QED
    BY <2>5, <2>6, <2>7 DEF EndInv
<1>3. QED
  BY <1>2 DEF Teardown

LEMMA End_BecomeZombie ==
    ASSUME CountInv, EndInv, NEW t \in Threads, BecomeZombie(t)
    PROVE  EndInv'
<1>1. /\ stack \in Stacks /\ Strong \in Nat /\ Weak \in Nat /\ frees \in Nat
      /\ registered \in BOOLEAN /\ Terminating \in BOOLEAN /\ glZombies \in BOOLEAN
  BY DEF CountInv, TypeOK, Stacks
<1>2. CASE BecomeZombie(t)
  <2>1. /\ ~Idle(t) /\ Head(stack[t]) = "finish" /\ Continue(t, <<"pins">>)
        /\ UNCHANGED <<registered, Terminating, glZombies, frees>>
        /\ UNCHANGED <<Strong, Weak>>
        /\ defined("ZOMBIE")'
    BY <1>1, <1>2 DEF BecomeZombie, At, defined, record, counts, block, Return
  <2>2. "finish" \in Labels /\ "pins" \in Labels
    BY DEF Labels
  <2>3. /\ stack' \in Stacks
        /\ \A L : Count(L)' = Count(L) - W("finish", L) + W("pins", L)
    BY <1>1, <2>1, <2>2, GoesOn DEF Alone
  <2>4. /\ Count(Claiming)' = Count(Claiming) /\ Count(Ending)' = Count(Ending)
        /\ Count(Knowing)' = Count(Knowing) + 1 /\ Count(Sweeping)' = Count(Sweeping)
        /\ Count({"finish"})' = Count({"finish"}) - 1 /\ Count({"fast"})' = Count({"fast"})
    BY <1>1, <2>3, EndTally DEF W, Claiming, Ending, Knowing, Sweeping
  <2>5. Strong > 0
    BY <1>1, <2>1, TallyTop, NoPins DEF Pinning
  <2>6. OneClaim'
    BY <1>1, <2>1, <2>3, <2>4, <2>5, EndTally, EndTallyNext DEF EndInv, OneClaim, ZombieLate
  <2>7. ZombieLate'
    BY <1>1, <2>1, <2>3, <2>4, <2>5, EndTally, EndTallyNext DEF EndInv, OneClaim, ZombieLate
  <2>8. ZombieServed'
    BY <1>1, <2>1, <2>3, <2>4, <2>5, EndTally, EndTallyNext DEF EndInv, OneClaim, ZombieLate, ZombieServed, Held
  <2>9. QED
    BY <2>6, <2>7, <2>8 DEF EndInv
<1>3. QED
  BY <1>2 DEF BecomeZombie

LEMMA End_CheckPins ==
    ASSUME CountInv, EndInv, NEW t \in Threads, CheckPins(t)
    PROVE  EndInv'
<1>1. /\ stack \in Stacks /\ Strong \in Nat /\ Weak \in Nat /\ frees \in Nat
      /\ registered \in BOOLEAN /\ Terminating \in BOOLEAN /\ glZombies \in BOOLEAN
  BY DEF CountInv, TypeOK, Stacks
<1>2. CASE CheckPins(t) /\ LastPin
  <2>1. /\ ~Idle(t) /\ Head(stack[t]) = "pins" /\ Continue(t, <<"fast">>)
        /\ UNCHANGED <<registered, Terminating, glZombies, frees>>
        /\ defined("ZOMBIE")' <=> defined("ZOMBIE")
        /\ Weak' = Weak
    BY <1>1, <1>2 DEF CheckPins, At, defined, record, counts, block, Return
  <2>2. "pins" \in Labels /\ "fast" \in Labels
    BY DEF Labels
  <2>3. /\ stack' \in Stacks
        /\ \A L : Count(L)' = Count(L) - W("pins", L) + W("fast", L)
    BY <1>1, <2>1, <2>2, GoesOn DEF Alone
  <2>4. /\ Count(Claiming)' = Count(Claiming) /\ Count(Ending)' = Count(Ending) - 1
        /\ Count(Knowing)' = Count(Knowing) /\ Count(Sweeping)' = Count(Sweeping)
        /\ Count({"finish"})' = Count({"finish"}) /\ Count({"fast"})' = Count({"fast"}) + 1
    BY <1>1, <2>3, EndTally DEF W, Claiming, Ending, Knowing, Sweeping
  <2>5. Strong > 0
    BY <1>1, <2>1, TallyTop, NoPins DEF Pinning
  <2>6. OneClaim'
    BY <1>1, <2>1, <2>3, <2>4, <2>5, EndTally, EndTallyNext DEF EndInv, OneClaim, ZombieLate
  <2>7. ZombieLate'
    BY <1>1, <2>1, <2>3, <2>4, <2>5, EndTally, EndTallyNext DEF EndInv, OneClaim, ZombieLate
  <2>8. ZombieServed'
    BY <1>1, <2>1, <2>3, <2>4, <2>5, EndTally, EndTallyNext DEF EndInv, OneClaim, ZombieLate, ZombieServed, Held
  <2>9. QED
    BY <2>6, <2>7, <2>8 DEF EndInv
<1>3. CASE CheckPins(t) /\ ~LastPin
  <2>1. /\ ~Idle(t) /\ Head(stack[t]) = "pins" /\ Continue(t, <<"emplace">>)
        /\ UNCHANGED <<registered, Terminating, glZombies, frees>>
        /\ defined("ZOMBIE")' <=> defined("ZOMBIE")
        /\ UNCHANGED <<Strong, Weak>>
    BY <1>1, <1>3 DEF CheckPins, At, defined, record, counts, block, Return
  <2>2. "pins" \in Labels /\ "emplace" \in Labels
    BY DEF Labels
  <2>3. /\ stack' \in Stacks
        /\ \A L : Count(L)' = Count(L) - W("pins", L) + W("emplace", L)
    BY <1>1, <2>1, <2>2, GoesOn DEF Alone
  <2>4. /\ Count(Claiming)' = Count(Claiming) /\ Count(Ending)' = Count(Ending)
        /\ Count(Knowing)' = Count(Knowing) /\ Count(Sweeping)' = Count(Sweeping)
        /\ Count({"finish"})' = Count({"finish"}) /\ Count({"fast"})' = Count({"fast"})
    BY <1>1, <2>3, EndTally DEF W, Claiming, Ending, Knowing, Sweeping
  <2>5. Strong > 0
    BY <1>1, <2>1, TallyTop, NoPins DEF Pinning
  <2>6. OneClaim'
    BY <1>1, <2>1, <2>3, <2>4, <2>5, EndTally, EndTallyNext DEF EndInv, OneClaim, ZombieLate
  <2>7. ZombieLate'
    BY <1>1, <2>1, <2>3, <2>4, <2>5, EndTally, EndTallyNext DEF EndInv, OneClaim, ZombieLate
  <2>8. ZombieServed'
    BY <1>1, <2>1, <2>3, <2>4, <2>5, EndTally, EndTallyNext DEF EndInv, OneClaim, ZombieLate, ZombieServed, Held
  <2>9. QED
    BY <2>6, <2>7, <2>8 DEF EndInv
<1>4. QED
  BY <1>2, <1>3 DEF CheckPins

LEMMA End_EmplaceZombie ==
    ASSUME CountInv, EndInv, NEW t \in Threads, EmplaceZombie(t)
    PROVE  EndInv'
<1>1. /\ stack \in Stacks /\ Strong \in Nat /\ Weak \in Nat /\ frees \in Nat
      /\ registered \in BOOLEAN /\ Terminating \in BOOLEAN /\ glZombies \in BOOLEAN
  BY DEF CountInv, TypeOK, Stacks
<1>2. CASE EmplaceZombie(t)
  <2>1. /\ ~Idle(t) /\ Head(stack[t]) = "emplace" /\ Continue(t, <<"unpin">>)
        /\ UNCHANGED <<registered, Terminating, frees, Strong, Weak>>
        /\ defined("ZOMBIE")' <=> defined("ZOMBIE")
    BY <1>1, <1>2 DEF EmplaceZombie, At, defined, record, counts, block, Return
  <2>2. "emplace" \in Labels /\ "unpin" \in Labels
    BY DEF Labels
  <2>3. /\ stack' \in Stacks
        /\ \A L : Count(L)' = Count(L) - W("emplace", L) + W("unpin", L)
    BY <1>1, <2>1, <2>2, GoesOn DEF Alone
  <2>4. /\ Count(Claiming)' = Count(Claiming) /\ Count(Ending)' = Count(Ending) - 1
        /\ Count(Knowing)' = Count(Knowing) - 1 /\ Count(Sweeping)' = Count(Sweeping)
        /\ Count({"finish"})' = Count({"finish"}) /\ Count({"fast"})' = Count({"fast"})
    BY <1>1, <2>3, EndTally DEF W, Claiming, Ending, Knowing, Sweeping
  <2>5. Strong > 0
    BY <1>1, <2>1, TallyTop, NoPins DEF Pinning
  <2>6. OneClaim'
    BY <1>1, <2>1, <2>3, <2>4, <2>5, EndTally, EndTallyNext DEF EndInv, OneClaim, ZombieLate
  <2>7. ZombieLate'
    BY <1>1, <2>1, <2>3, <2>4, <2>5, EndTally, EndTallyNext DEF EndInv, OneClaim, ZombieLate
  <2>8. ZombieServed'
    BY <1>1, <2>1, <2>3, <2>4, <2>5, EndTally, EndTallyNext DEF EndInv, OneClaim, ZombieLate, ZombieServed, Held
  <2>9. QED
    BY <2>6, <2>7, <2>8 DEF EndInv
<1>3. QED
  BY <1>2 DEF EmplaceZombie

LEMMA End_Refused ==
    ASSUME CountInv, EndInv, NEW t \in Threads, Refused(t)
    PROVE  EndInv'
<1>1. /\ stack \in Stacks /\ Strong \in Nat /\ Weak \in Nat /\ frees \in Nat
      /\ registered \in BOOLEAN /\ Terminating \in BOOLEAN /\ glZombies \in BOOLEAN
  BY DEF CountInv, TypeOK, Stacks
<1>2. CASE Refused(t) /\ At(t, "refused")
  <2>1. /\ ~Idle(t) /\ Head(stack[t]) = "refused" /\ Return(t)
        /\ UNCHANGED <<registered, glZombies, frees, Strong, Weak>>
        /\ defined("ZOMBIE")' <=> defined("ZOMBIE")
        /\ Terminating' = (Terminating /\ ~registered)
    BY <1>1, <1>2 DEF Refused, At, defined, record, counts, block, Return
  <2>2. "refused" \in Labels
    BY DEF Labels
  <2>3. /\ stack' \in Stacks
        /\ \A L : Count(L)' = Count(L) - W("refused", L)
    BY <1>1, <2>1, <2>2, Returns DEF Alone
  <2>4. /\ Count(Claiming)' = Count(Claiming) - 1 /\ Count(Ending)' = Count(Ending)
        /\ Count(Knowing)' = Count(Knowing) /\ Count(Sweeping)' = Count(Sweeping)
        /\ Count({"finish"})' = Count({"finish"}) /\ Count({"fast"})' = Count({"fast"})
    BY <1>1, <2>3, EndTally DEF W, Claiming, Ending, Knowing, Sweeping
  <2>5. OneClaim'
    BY <1>1, <2>1, <2>3, <2>4, EndTally, EndTallyNext DEF EndInv, OneClaim, ZombieLate
  <2>6. ZombieLate'
    BY <1>1, <2>1, <2>3, <2>4, EndTally, EndTallyNext DEF EndInv, OneClaim, ZombieLate
  <2>7. ZombieServed'
    BY <1>1, <2>1, <2>3, <2>4, EndTally, EndTallyNext DEF EndInv, OneClaim, ZombieLate, ZombieServed, Held
  <2>8. QED
    BY <2>5, <2>6, <2>7 DEF EndInv
<1>3. CASE Refused(t) /\ At(t, "denied")
  <2>1. /\ ~Idle(t) /\ Head(stack[t]) = "denied" /\ Return(t)
        /\ UNCHANGED <<registered, glZombies, frees, Strong, Weak>>
        /\ defined("ZOMBIE")' <=> defined("ZOMBIE")
        /\ Terminating' = (Terminating /\ ~registered)
    BY <1>1, <1>3 DEF Refused, At, defined, record, counts, block, Return
  <2>2. "denied" \in Labels
    BY DEF Labels
  <2>3. /\ stack' \in Stacks
        /\ \A L : Count(L)' = Count(L) - W("denied", L)
    BY <1>1, <2>1, <2>2, Returns DEF Alone
  <2>4. /\ Count(Claiming)' = Count(Claiming) - 1 /\ Count(Ending)' = Count(Ending)
        /\ Count(Knowing)' = Count(Knowing) /\ Count(Sweeping)' = Count(Sweeping)
        /\ Count({"finish"})' = Count({"finish"}) /\ Count({"fast"})' = Count({"fast"})
    BY <1>1, <2>3, EndTally DEF W, Claiming, Ending, Knowing, Sweeping
  <2>5. OneClaim'
    BY <1>1, <2>1, <2>3, <2>4, EndTally, EndTallyNext DEF EndInv, OneClaim, ZombieLate
  <2>6. ZombieLate'
    BY <1>1, <2>1, <2>3, <2>4, EndTally, EndTallyNext DEF EndInv, OneClaim, ZombieLate
  <2>7. ZombieServed'
    BY <1>1, <2>1, <2>3, <2>4, EndTally, EndTallyNext DEF EndInv, OneClaim, ZombieLate, ZombieServed, Held
  <2>8. QED
    BY <2>5, <2>6, <2>7 DEF EndInv
<1>4. QED
  BY <1>2, <1>3 DEF Refused

LEMMA EndInit == Init => EndInv
<1> SUFFICES ASSUME Init PROVE EndInv
  OBVIOUS
<1>1. \A L : CallsIn(stack, L) = {}
  BY DEF Init, CallsIn
<1>2. \A L : Count(L) = 0
  BY <1>1, FS_EmptySet DEF Count
<1>3. OneClaim /\ ZombieLate /\ ZombieServed
  BY <1>2 DEF Init, OneClaim, ZombieLate, ZombieServed, defined
<1>4. QED
  BY <1>3 DEF EndInv

LEMMA EndStutter == EndInv /\ UNCHANGED vars => EndInv'
<1> SUFFICES ASSUME EndInv, UNCHANGED vars PROVE EndInv'
  OBVIOUS
<1>1. /\ stack' = stack /\ Flags' = Flags /\ UNCHANGED <<registered, Terminating, block>>
      /\ Strong' = Strong /\ Weak' = Weak
  BY DEF vars, record, counts
<1>2. \A L \in EndSets : Count(L)' = Count(L)
  BY <1>1 DEF Count
<1>3. defined("ZOMBIE")' <=> defined("ZOMBIE")
  BY <1>1 DEF defined
<1>4. Held => Held'
  BY <1>1 DEF Held
<1>5. QED
  BY <1>1, <1>2, <1>3, <1>4, EndStays

\* The steps of the calls that are in progress, and those that begin one.
LEMMA EndStep ==
    ASSUME CountInv, EndInv, NEW t \in Threads, Call(t) \/ Step(t) \/ FreeLockFails(t)
    PROVE  EndInv'
<1>1. CASE OuterStep(t)
  BY <1>1, End_Outer
<1>2. CASE ClaimStep(t)
  BY <1>2, End_Claim
<1>3. CASE FreeObject(t) \/ Teardown(t) \/ Refused(t)
  BY <1>3, End_FreeObject, End_Teardown, End_Refused
<1>4. CASE unpin(t) \/ unpinWeak(t) \/ CheckZombie(t) \/ ReleaseZombie(t) \/ free_object_block(t)
  BY <1>4, End_unpin, End_unpinWeak, End_CheckZombie, End_ReleaseZombie, End_free_object_block
<1>5. CASE BecomeZombie(t) \/ CheckPins(t) \/ EmplaceZombie(t)
  BY <1>5, End_BecomeZombie, End_CheckPins, End_EmplaceZombie
<1>6. QED
  BY <1>1, <1>2, <1>3, <1>4, <1>5 DEF Call, Step, OuterStep, ClaimStep

\* In every reachable state one call at a time has the record claimed, and the
\* header of a terminated object is pinned, released or about to be looked at.
THEOREM EndsOrderly == Spec => [](CountInv /\ EndInv)
<1>1. CountInv /\ EndInv /\ [Next]_vars => (CountInv /\ EndInv)'
  <2>1. CountInv /\ EndInv /\ Next => EndInv'
    BY EndStep DEF Next
  <2>2. CountInv /\ Next => CountInv'
    BY CountCall, CountStep, Count_FreeLockFails DEF Next
  <2>3. QED
    BY <2>1, <2>2, CountStutter, EndStutter
<1>2. QED
  BY CountInit, EndInit, <1>1, PTL DEF Spec

\* No call is in progress while all threads are outside.
LEMMA QuietCounts ==
    ASSUME CountInv, Quiet
    PROVE  \A L : Count(L) = 0
<1>1. stack \in Stacks
  BY DEF CountInv, TypeOK, Stacks
<1>2. \A t \in Threads : Doing(t) = {}
  BY <1>1, Inside DEF Quiet
<1>3. QED
  BY <1>1, <1>2, TallyDoing

\* When all threads are outside the calls and nobody has a pin, the header of a
\* terminated object has been released: neither side of the race for the last
\* pin leaves it to the other.
THEOREM NoZombieLingers == Spec => []ZombieReleased
<1>1. CountInv /\ EndInv => ZombieReleased
  <2> SUFFICES ASSUME CountInv, EndInv, Quiet, defined("ZOMBIE"),
                      \A t \in Threads : ~pins[t] /\ ~weak[t]
               PROVE  frees > 0 /\ ~glZombies
    BY DEF ZombieReleased
  <2>1. Count(Sweeping) = 0 /\ Count({"fast"}) = 0 /\ Count(Pinning) = 0 /\ Count({"unpinWeak"}) = 0
    BY QuietCounts
  <2>2. Having(pins) = {} /\ Having(weak) = {}
    BY DEF Having
  <2>3. Strong = 0 /\ Weak = 0
    <3>1. /\ Strong = Cardinality(Having(pins)) + Count(Pinning)
          /\ Weak = Cardinality(Having(weak)) + Count({"unpinWeak"})
      BY PinsAreOwed DEF CountInv, PinsOwed, WeakOwed
    <3>2. Cardinality(Having(pins)) = 0 /\ Cardinality(Having(weak)) = 0
      BY <2>2, FS_EmptySet
    <3>3. QED
      BY <2>1, <3>1, <3>2
  <2>4. ~Held
    BY <2>3 DEF Held
  <2>5. QED
    BY <2>1, <2>4 DEF EndInv, ZombieServed
<1>2. QED
  BY EndsOrderly, <1>1, PTL
-----------------------------------------------------------------------------
(* Who may still use the object while it ends.                              *)

Freeing == {"warn", "begin", "teardown"}
Errors  == {"denied", "refused"}

\* What may be true of the calls that are in progress.
NoCheck    == Count({"access_check"}) = 0
NoAccess   == Count(Accessing) = 0
NoMark     == Count({"mark"}) = 0
NoError    == Messages => Count(Errors) = 0
NoShared   == Count({"shared"}) = 0
InTeardown == Count({"teardown"}) > 0
NoDelivery == \A t \in Threads : ~Delivers(t)

\* And of the thread that has the object locked.
HolderOut   == \A t \in Threads : ThreadID = t => Doing(t) \cap Accessing = {}
HolderFrees == \E t \in Threads : ThreadID = t /\ "free" \in Doing(t)

Unlocked == \A t \in Threads : locks[t] = 0
NoPin    == \A t \in Threads : ~pins[t]
NoFlags  == removed = {}

\* msg_free() has been there.
Forced == defined("PERMIT_TERMINATE")

\* The object is about to be terminated, or was.
Doomed == Count(Freeing) > 0 \/ ~registered

\* It is not locked then, and nobody is on the way to a lock, unless the
\* termination was forced: those wait in vain.
UnusedInv == Doomed => Unlocked /\ NoCheck /\ (~Forced => NoAccess)

TornInv == defined("FREE") => ~registered \/ InTeardown

\* Without SharedObjectAccess there is no new pin, either.
SharedInv == ~Shared => NoShared /\ (Doomed /\ ~Forced => NoPin)

\* After msg_free() its thread has the lock for good: it terminates the object,
\* unless another thread waits for the lock to do so.
ForcedInv == Forced =>
    /\ Unlocked /\ NoCheck /\ NoMark /\ NoDelivery /\ HolderOut
    /\ ~defined("FREE_ON_UNLOCK")
    /\ registered => /\ NoError /\ (Terminating \/ HolderFrees)
                     /\ InTeardown \/ (~collecting /\ NoFlags)

\* A thread that wants to lock an object while another gives up its termination
\* finds it marked.
FlaggedInv == registered /\ ~Forced /\ ~collecting => NoAccess \/ (NoFlags /\ NoError)

\* msg_free() has locked an object that nobody marked.
Delivery == {"unpin", "last", "zombie", "erase", "msg_free"}
DeliverInv ==
    /\ \A t \in Threads : "msg_free" \in Doing(t) => locks[t] = 0
    /\ \A t \in Threads : Delivers(t) => Doing(t) \subseteq Delivery
    /\ NoDelivery \/ (registered /\ ~collecting /\ NoFlags /\ NoError)

\* A block is released without pins, and the terminator is the last to unlock.
Gone == frees > 0 \/ Count({"fast", "erase"}) > 0

GoneInv == Gone => defined("ZOMBIE") /\ ~Held

Finishes(t) == Doing(t) \cap OwnLock # {} => "finish" \in Doing(t)
FinishInv   == ~registered => \A t \in Threads : Finishes(t)

HoldInv ==
    /\ UnusedInv /\ TornInv /\ SharedInv /\ ForcedInv /\ FlaggedInv /\ DeliverInv
    /\ GoneInv /\ FinishInv

\* SharedObjectAccess matters where it is not in use.
HoldSets == {Freeing, Accessing, Errors, {"access_check"}, {"mark"}, {"teardown"}, {"fast", "erase"}}
              \cup IF Shared THEN {} ELSE {{"shared"}}

\* The labels that are in none of these sets.
Dull == Labels \ (Freeing \cup Accessing \cup Errors \cup {"mark", "fast", "erase"}
                     \cup IF Shared THEN {} ELSE {"shared"})

LEMMA DullWeight ==
    \A L \in HoldSets : "msg_free" \notin L /\ \A x \in Dull : W(x, L) = 0
<1>1. \A L \in {Freeing, Accessing, Errors, {"access_check"}, {"mark"}, {"teardown"}, {"fast", "erase"}} :
         "msg_free" \notin L /\ \A x \in Dull : W(x, L) = 0
  BY DEF Dull, Freeing, Accessing, Errors, W
<1>2. ~Shared => \A x \in Dull : W(x, {"shared"}) = 0
  BY DEF Dull, W
<1>3. QED
  BY <1>1, <1>2 DEF HoldSets

SameCalls == \A L \in HoldSets : Count(L)' = Count(L)

\* No call is at a label that was not there before.
Fades ==
    /\ NoCheck => NoCheck'
    /\ NoAccess => NoAccess'
    /\ NoMark => NoMark'
    /\ NoError => NoError'
    /\ ~Shared /\ NoShared => NoShared'
    /\ InTeardown => InTeardown'
    /\ Doomed' => Doomed

LEMMA SameFades ==
    ASSUME SameCalls, registered' = registered
    PROVE  Fades /\ Count({"fast", "erase"})' = Count({"fast", "erase"})
<1>1. /\ Count(Freeing)' = Count(Freeing) /\ Count(Accessing)' = Count(Accessing)
      /\ Count(Errors)' = Count(Errors) /\ Count({"access_check"})' = Count({"access_check"})
      /\ Count({"mark"})' = Count({"mark"}) /\ Count({"teardown"})' = Count({"teardown"})
      /\ Count({"fast", "erase"})' = Count({"fast", "erase"})
  BY DEF SameCalls, HoldSets
<1>2. ~Shared => Count({"shared"})' = Count({"shared"})
  BY DEF SameCalls, HoldSets
<1>3. QED
  BY <1>1, <1>2 DEF Fades, NoCheck, NoAccess, NoMark, NoError, NoShared, InTeardown, Doomed

\* The flags stay, except for the end of the object.
SameMarks ==
    /\ Forced' <=> Forced
    /\ collecting' <=> collecting
    /\ defined("FREE")' <=> defined("FREE")
    /\ defined("FREE_ON_UNLOCK")' <=> defined("FREE_ON_UNLOCK")

\* How the calls of a thread are related before and after a step.
Regular(t) ==
    /\ \A u \in Threads \ {t} : Doing(u)' = Doing(u)
    /\ \A u \in Threads : Delivers(u)' => Delivers(u)
    /\ Delivers(t)' => Doing(t)' \subseteq Delivery
    /\ "msg_free" \in Doing(t)' => "msg_free" \in Doing(t)
    /\ Doing(t)' \cap Accessing # {} => Doing(t) \cap Accessing # {}
    /\ ~registered /\ Finishes(t) => Finishes(t)'

LEMMA RegularStays ==
    ASSUME NEW t \in Threads, Regular(t)
    PROVE  /\ NoDelivery => NoDelivery'
           /\ ThreadID' = ThreadID /\ HolderOut => HolderOut'
           /\ ThreadID' = ThreadID /\ HolderFrees /\ "free" \in Doing(t)' => HolderFrees'
           /\ ThreadID' = ThreadID /\ HolderFrees /\ "free" \notin Doing(t) => HolderFrees'
           /\ ~registered /\ FinishInv => FinishInv'
<1>1. NoDelivery => NoDelivery'
  BY DEF Regular, NoDelivery
<1>2. ThreadID' = ThreadID /\ HolderOut => HolderOut'
  BY DEF Regular, HolderOut
<1>3. ThreadID' = ThreadID /\ HolderFrees /\ ("free" \in Doing(t)' \/ "free" \notin Doing(t)) => HolderFrees'
  BY DEF Regular, HolderFrees
<1>4. ~registered /\ FinishInv => FinishInv'
  BY DEF FinishInv, Regular, Finishes
<1>5. QED
  BY <1>1, <1>2, <1>3, <1>4

\* What the callers have.
LocksFade(t) ==
    /\ Unlocked => Unlocked'
    /\ locks[t] = 0 => locks'[t] = 0
    /\ \A u \in Threads \ {t} : locks'[u] = locks[u]

LEMMA DeliverStays ==
    ASSUME HoldInv, NEW t \in Threads, Regular(t), LocksFade(t),
           NoDelivery \/ (registered' /\ ~collecting' /\ NoFlags' /\ NoError')
    PROVE  DeliverInv'
<1>1. NoDelivery => NoDelivery'
  BY RegularStays
<1>2. \A u \in Threads : "msg_free" \in Doing(u)' => locks'[u] = 0
  BY DEF HoldInv, DeliverInv, Regular, LocksFade
<1>3. \A u \in Threads : Delivers(u)' => Doing(u)' \subseteq Delivery
  BY DEF HoldInv, DeliverInv, Regular
<1>4. QED
  BY <1>1, <1>2, <1>3 DEF DeliverInv

\* A step that has nothing to do with all this.
LEMMA HoldStays ==
    ASSUME HoldInv, NEW t \in Threads, Regular(t), Fades, SameMarks, LocksFade(t), GoneInv',
           registered' = registered, Forced => ThreadID' = ThreadID, NoFlags => NoFlags',
           registered /\ Forced /\ (Terminating \/ HolderFrees) => Terminating' \/ HolderFrees',
           Doomed /\ ~Shared /\ NoPin => NoPin'
    PROVE  HoldInv'
<1>1. /\ NoDelivery => NoDelivery'
      /\ Forced /\ HolderOut => HolderOut'
      /\ ~registered => FinishInv'
  BY RegularStays DEF HoldInv
<1>2. UnusedInv' /\ TornInv' /\ SharedInv'
  BY DEF Fades, SameMarks, LocksFade, HoldInv, UnusedInv, TornInv, SharedInv
<1>3. ForcedInv'
  BY <1>1 DEF Fades, SameMarks, LocksFade, HoldInv, ForcedInv
<1>4. FlaggedInv'
  BY DEF Fades, SameMarks, HoldInv, FlaggedInv
<1>5. DeliverInv'
  <2>1. NoDelivery \/ (registered' /\ ~collecting' /\ NoFlags' /\ NoError')
    BY DEF HoldInv, DeliverInv, Fades, SameMarks
  <2>2. QED
    BY <2>1, DeliverStays
<1>6. FinishInv'
  BY <1>1 DEF FinishInv
<1>7. QED
  BY <1>2, <1>3, <1>4, <1>5, <1>6 DEF HoldInv

\* A thread goes on with labels X in place of the topmost one.
LEMMA RegularMove ==
    ASSUME CountInv, HoldInv, NEW t \in Threads, ~Idle(t), Plain(t),
           Head(stack[t]) \notin Accessing \cup {"msg_free", "free"},
           NEW X, Doing(t)' = Below(t) \cup X,
           X \cap (Accessing \cup {"msg_free"}) = {},
           registered \/ X \cap OwnLock = {} \/ Head(stack[t]) \in OwnLock,
           Head(stack[t]) # "finish" \/ X \cap OwnLock = {},
           Head(stack[t]) \in Delivery => X \subseteq Delivery
    PROVE  Regular(t) /\ "free" \notin Doing(t)
<1>1. /\ Doing(t) = Below(t) \cup {Head(stack[t])}
      /\ Below(t) \subseteq Callers
  BY Inside DEF CountInv, TypeOK, Stacks, Nested
<1>2. Callers \cap (OwnLock \cup Accessing \cup {"free"}) = {}
  BY DEF Callers, OwnLock, Locking, Accessing
<1>3. /\ \A u \in Threads \ {t} : Doing(u)' = Doing(u)
      /\ \A u \in Threads : Delivers(u)' => Delivers(u)
  BY DEF Plain, Alone
<1>4. Delivers(t) => Doing(t) \subseteq Delivery
  BY DEF HoldInv, DeliverInv
<1>5. Delivers(t)' => Doing(t)' \subseteq Delivery
  BY <1>1, <1>3, <1>4
<1>6. "msg_free" \in Doing(t)' => "msg_free" \in Doing(t)
  BY <1>1
<1>7. Doing(t)' \cap Accessing = {}
  BY <1>1, <1>2
<1>8. "free" \notin Doing(t)
  BY <1>1, <1>2
<1>9. ~registered /\ Finishes(t) => Finishes(t)'
  <2>1. SUFFICES ASSUME ~registered, Finishes(t), Doing(t)' \cap OwnLock # {} PROVE "finish" \in Doing(t)'
    BY DEF Finishes
  <2>2. X \cap OwnLock # {}
    BY <1>1, <1>2, <2>1
  <2>3. Head(stack[t]) # "finish" /\ "finish" \in Doing(t)
    BY <1>1, <2>1, <2>2 DEF Finishes
  <2>4. QED
    BY <1>1, <2>3
<1>10. QED
  BY <1>3, <1>5, <1>6, <1>7, <1>8, <1>9 DEF Regular

\* A call begins, unless the thread stays outside.
LEMMA RegularBegin ==
    ASSUME CountInv, HoldInv, NEW t \in Threads, Plain(t),
           Doing(t) = {}, NEW X, Doing(t)' = X,
           X \cap (Accessing \cup {"msg_free"}) = {},
           registered \/ X \cap OwnLock = {}
    PROVE  Regular(t)
<1>1. /\ \A u \in Threads \ {t} : Doing(u)' = Doing(u)
      /\ \A u \in Threads : Delivers(u)' => Delivers(u)
  BY DEF Plain, Alone
<1>2. ~Delivers(t)'
  BY DEF Delivers
<1>3. ~registered => Finishes(t)'
  BY DEF Finishes
<1>4. QED
  BY <1>1, <1>2, <1>3 DEF Regular

\* What a step must leave alone besides.
Quietly(t) ==
    /\ UNCHANGED <<registered, Terminating, Flags, ThreadID, removed, frees, locks>>
    /\ \A u \in Threads : pins'[u] => pins[u]
    /\ Gone /\ ~Held => ~Held'

LEMMA QuietlyStays ==
    ASSUME HoldInv, NEW t \in Threads, Regular(t), SameCalls, Quietly(t),
           "free" \notin Doing(t) \/ "free" \in Doing(t)'
    PROVE  HoldInv'
<1>1. /\ UNCHANGED <<registered, Terminating, Flags, ThreadID, removed, frees>>
      /\ locks' = locks /\ (Gone /\ ~Held => ~Held')
      /\ NoPin => NoPin'
  BY DEF Quietly, NoPin
<1>2. LocksFade(t)
  BY <1>1 DEF LocksFade, Unlocked
<1>3. SameMarks /\ (NoFlags => NoFlags')
  BY <1>1 DEF SameMarks, Forced, collecting, defined, NoFlags
<1>4. Fades /\ (Gone' => Gone)
  BY <1>1, SameFades DEF Gone
<1>5. GoneInv'
  BY <1>1, <1>4 DEF HoldInv, GoneInv, defined
<1>6. Terminating \/ HolderFrees => Terminating' \/ HolderFrees'
  BY <1>1, RegularStays
<1>7. QED
  BY <1>1, <1>2, <1>3, <1>4, <1>5, <1>6, HoldStays

LEMMA HoldReturns ==
    ASSUME CountInv, HoldInv, NEW t \in Threads, ~Idle(t),
           Head(stack[t]) \in Dull \ {"msg_free", "free", "finish"}, Return(t), Quietly(t),
           \A u \in Threads \ {t} : pins'[u] = pins[u]
    PROVE  HoldInv'
<1>1. stack \in Stacks /\ Placed /\ OthersKept(t)
  BY DEF CountInv, TypeOK, Stacks, Placed, OthersKept, Quietly
<1>2. Head(stack[t]) \notin Accessing \cup {"msg_free"}
  BY DEF Dull
<1>3. /\ Plain(t)
      /\ \A L : Count(L)' = Count(L) - W(Head(stack[t]), L)
  BY <1>1, <1>2, PlainReturns
<1>4. Doing(t)' = Below(t) \cup {}
  BY <1>1, Returns
<1>5. SameCalls
  <2>1. ASSUME NEW L \in HoldSets PROVE Count(L)' = Count(L)
    BY <1>1, <1>3, DullWeight, Tally
  <2>2. QED
    BY <2>1 DEF SameCalls
<1>6. Regular(t) /\ "free" \notin Doing(t)
  BY <1>2, <1>3, <1>4, RegularMove
<1>7. QED
  BY <1>5, <1>6, QuietlyStays

LEMMA HoldGoesOn ==
    ASSUME CountInv, HoldInv, NEW t \in Threads, ~Idle(t),
           Head(stack[t]) \in Dull \ {"msg_free", "free"},
           NEW x \in Dull \ {"msg_free", "shared"}, Continue(t, <<x>>), Quietly(t),
           x \in OwnLock => Head(stack[t]) \in OwnLock,
           Head(stack[t]) \in Delivery => x \in Delivery,
           \A u \in Threads \ {t} : pins'[u] = pins[u]
    PROVE  HoldInv'
<1>1. stack \in Stacks /\ Placed /\ OthersKept(t)
  BY DEF CountInv, TypeOK, Stacks, Placed, OthersKept, Quietly
<1>2. /\ Head(stack[t]) \notin Accessing \cup {"msg_free"}
      /\ x \in Labels \ (Accessing \cup {"msg_free", "shared"})
  BY DEF Dull
<1>3. /\ Plain(t)
      /\ \A L : Count(L)' = Count(L) - W(Head(stack[t]), L) + W(x, L)
  BY <1>1, <1>2, PlainGoesOn
<1>4. Doing(t)' = Below(t) \cup {x}
  BY <1>1, <1>2, GoesOn
<1>5. SameCalls
  <2>1. ASSUME NEW L \in HoldSets PROVE Count(L)' = Count(L)
    BY <1>1, <1>3, DullWeight, Tally
  <2>2. QED
    BY <2>1 DEF SameCalls
<1>6. "finish" \notin OwnLock
  BY DEF OwnLock, Locking
<1>7. Regular(t) /\ "free" \notin Doing(t)
  BY <1>2, <1>3, <1>4, <1>6, RegularMove
<1>8. QED
  BY <1>5, <1>7, QuietlyStays

LEMMA HoldBegins ==
    ASSUME CountInv, HoldInv, NEW t \in Threads,
           NEW x \in Dull \ (OwnLock \cup {"msg_free", "shared"}), Begin(t, <<x>>), Quietly(t),
           \A u \in Threads \ {t} : pins'[u] = pins[u]
    PROVE  HoldInv'
<1>1. stack \in Stacks /\ Placed /\ OthersKept(t)
  BY DEF CountInv, TypeOK, Stacks, Placed, OthersKept, Quietly
<1>2. x \in Labels \ (Accessing \cup {"msg_free"}) /\ x # "shared"
  BY DEF Dull
<1>3. /\ Plain(t) /\ Doing(t) = {} /\ Doing(t)' = {x}
      /\ \A L : Count(L)' = Count(L) + W(x, L)
  BY <1>1, <1>2, PlainBegins
<1>4. SameCalls
  <2>1. ASSUME NEW L \in HoldSets PROVE Count(L)' = Count(L)
    BY <1>1, <1>3, DullWeight, Tally
  <2>2. QED
    BY <2>1 DEF SameCalls
<1>5. Regular(t)
  BY <1>2, <1>3, RegularBegin
<1>6. QED
  BY <1>3, <1>4, <1>5, QuietlyStays

LEMMA UnlockedEnd == HoldInv /\ Doomed => Unlocked
  BY DEF HoldInv, UnusedInv

\* While the object is registered, and while it is locked by a client, its block
\* is in place.
LEMMA NotGone ==
    ASSUME EndInv, HoldInv
    PROVE  /\ registered => ~Gone
           /\ ~Unlocked => registered /\ ~Doomed /\ ~Gone
<1>1. registered => ~Gone
  BY DEF EndInv, ZombieLate, HoldInv, GoneInv
<1>2. ~Unlocked => registered /\ ~Doomed
  BY UnlockedEnd DEF Doomed
<1>3. QED
  BY <1>1, <1>2

LEMMA Hold_unpin ==
    ASSUME CountInv, HoldInv, NEW t \in Threads, unpin(t)
    PROVE  HoldInv'
<1>1. /\ ~Idle(t) /\ Head(stack[t]) = "unpin" /\ (Continue(t, <<"last">>) \/ Return(t))
      /\ pins' = pins
  BY DEF unpin, At, Return, clients
<1>2. Quietly(t)
  BY <1>1 DEF unpin, Quietly, record, lock, block, clients, Held, isPinned, CountInv, TypeOK
<1>3. {"unpin", "last"} \subseteq Dull /\ {"unpin", "last"} \subseteq Delivery \ OwnLock
  BY DEF Dull, Labels, Freeing, Accessing, Errors, Delivery, OwnLock, Locking
<1>4. QED
  BY <1>1, <1>2, <1>3, HoldReturns, HoldGoesOn

LEMMA Hold_unpinWeak ==
    ASSUME CountInv, HoldInv, NEW t \in Threads, unpinWeak(t)
    PROVE  HoldInv'
<1>1. /\ ~Idle(t) /\ Head(stack[t]) = "unpinWeak" /\ (Continue(t, <<"last">>) \/ Return(t))
      /\ pins' = pins /\ stack \in Stacks /\ Weak \in Nat
  BY DEF unpinWeak, At, Return, clients, CountInv, TypeOK, Stacks
<1>2. Held
  BY <1>1, TallyTop, NoPins DEF Held
<1>3. Quietly(t)
  BY <1>1, <1>2 DEF unpinWeak, Quietly, record, lock, block, clients
<1>4. {"unpinWeak", "last"} \subseteq Dull \ OwnLock /\ "unpinWeak" \notin Delivery
  BY DEF Dull, Labels, Freeing, Accessing, Errors, Delivery, OwnLock, Locking
<1>5. QED
  BY <1>1, <1>3, <1>4, HoldReturns, HoldGoesOn

\* Steps of a call that change no variable but the stack, or none that matters.
DullStep(t) ==
    \/ Unlock(t) \/ DecrementQueue(t) \/ FetchSub(t) \/ CheckZombie(t) \/ freeIfReady(t)
    \/ EmplaceZombie(t)
    \/ Collect(t) /\ Return(t) /\ Flags' = Flags
    \/ ReleaseZombie(t) /\ Return(t)
    \/ CheckPins(t) /\ Continue(t, <<"emplace">>) /\ Strong' = Strong

LEMMA DullStepQuietly ==
    ASSUME NEW t \in Threads, DullStep(t)
    PROVE  Quietly(t) /\ pins' = pins
<1>1. Strong' = Strong /\ Weak' = Weak
  BY DEF DullStep, Unlock, DecrementQueue, FetchSub, CheckZombie, freeIfReady, EmplaceZombie, Collect,
     ReleaseZombie, CheckPins, counts
<1>2. Held' <=> Held
  BY <1>1 DEF Held
<1>3. UNCHANGED <<registered, Terminating, Flags, ThreadID, removed, frees, locks, pins>>
  BY DEF DullStep, Unlock, DecrementQueue, FetchSub, CheckZombie, freeIfReady, EmplaceZombie, Collect,
     ReleaseZombie, CheckPins, record, lock, block, clients
<1>4. QED
  BY <1>2, <1>3 DEF Quietly

LEMMA Hold_Dull ==
    ASSUME CountInv, HoldInv, NEW t \in Threads, DullStep(t)
    PROVE  HoldInv'
<1>1. Quietly(t) /\ pins' = pins
  BY DullStepQuietly
<1>2. /\ {"unlock", "decrement", "release", "wake", "collect", "last", "zombie", "ready", "pins",
          "emplace", "unpin", "free"} \subseteq Dull
      /\ {"unlock", "decrement", "release"} \subseteq OwnLock
      /\ {"wake", "unpin", "zombie", "free", "emplace"} \cap OwnLock = {}
      /\ Delivery = {"unpin", "last", "zombie", "erase", "msg_free"}
  BY DEF Dull, Labels, Freeing, Accessing, Errors, OwnLock, Locking, Delivery
<1>3. CASE Unlock(t)
  <2>1. /\ ~Idle(t) /\ Head(stack[t]) = "unlock"
        /\ Continue(t, <<"release">>) \/ Continue(t, <<"decrement">>)
    BY <1>3 DEF Unlock, At
  <2>2. QED
    BY <1>1, <1>2, <2>1, HoldGoesOn
<1>4. CASE DecrementQueue(t)
  <2>1. ~Idle(t) /\ Head(stack[t]) = "decrement" /\ Return(t)
    BY <1>4 DEF DecrementQueue, At
  <2>2. QED
    BY <1>1, <1>2, <2>1, HoldReturns
<1>5. CASE FetchSub(t)
  <2>1. ~Idle(t) /\ Head(stack[t]) = "release" /\ (Continue(t, <<"wake">>) \/ Return(t))
    BY <1>5 DEF FetchSub, At, Return
  <2>2. QED
    BY <1>1, <1>2, <2>1, HoldReturns, HoldGoesOn
<1>6. CASE CheckZombie(t)
  <2>1. ~Idle(t) /\ Head(stack[t]) = "last" /\ (Continue(t, <<"zombie">>) \/ Return(t))
    BY <1>6 DEF CheckZombie, At, Return
  <2>2. QED
    BY <1>1, <1>2, <2>1, HoldReturns, HoldGoesOn
<1>7. CASE freeIfReady(t)
  <2>1. ~Idle(t) /\ Head(stack[t]) = "ready" /\ (Continue(t, <<"free">>) \/ Return(t))
    BY <1>7 DEF freeIfReady, At, Return
  <2>2. QED
    BY <1>1, <1>2, <2>1, HoldReturns, HoldGoesOn
<1>8. CASE EmplaceZombie(t)
  <2>1. ~Idle(t) /\ Head(stack[t]) = "emplace" /\ Continue(t, <<"unpin">>)
    BY <1>8 DEF EmplaceZombie, At
  <2>2. QED
    BY <1>1, <1>2, <2>1, HoldGoesOn
<1>9. CASE Collect(t) /\ Return(t)
  <2>1. ~Idle(t) /\ Head(stack[t]) = "collect" /\ Return(t)
    BY <1>9 DEF Collect, At
  <2>2. QED
    BY <1>1, <1>2, <2>1, HoldReturns
<1>10. CASE ReleaseZombie(t) /\ Return(t)
  <2>1. ~Idle(t) /\ Head(stack[t]) = "zombie" /\ Return(t)
    BY <1>10 DEF ReleaseZombie, At
  <2>2. QED
    BY <1>1, <1>2, <2>1, HoldReturns
<1>11. CASE CheckPins(t) /\ Continue(t, <<"emplace">>)
  <2>1. ~Idle(t) /\ Head(stack[t]) = "pins" /\ Continue(t, <<"emplace">>)
    BY <1>11 DEF CheckPins, At
  <2>2. QED
    BY <1>1, <1>2, <2>1, HoldGoesOn
<1>12. QED
  BY <1>3, <1>4, <1>5, <1>6, <1>7, <1>8, <1>9, <1>10, <1>11 DEF DullStep

\* Calls that begin.
LEMMA Hold_Begin ==
    ASSUME CountInv, HoldInv, NEW t \in Threads, BeginFree(t) \/ BeginUnpinWeak(t)
    PROVE  HoldInv'
<1>1. Begin(t, <<"free">>) \/ Begin(t, <<"unpinWeak">>)
  BY DEF BeginFree, BeginUnpinWeak
<1>2. UNCHANGED <<registered, Terminating, Flags, ThreadID, removed, frees, locks, pins, Strong, Weak>>
  BY DEF BeginFree, BeginUnpinWeak, record, lock, block, clients, counts
<1>3. Quietly(t) /\ pins' = pins
  BY <1>2 DEF Quietly, Held
<1>4. {"free", "unpinWeak"} \subseteq Dull \ (OwnLock \cup {"msg_free", "shared"})
  BY DEF Dull, Labels, Freeing, Accessing, Errors, OwnLock, Locking
<1>5. QED
  BY <1>1, <1>3, <1>4, HoldBegins

LEMMA Hold_BeginUnpin ==
    ASSUME CountInv, HoldInv, NEW t \in Threads, BeginUnpin(t)
    PROVE  HoldInv'
<1>1. /\ Begin(t, <<"unpin", "ready">>)
      /\ UNCHANGED <<registered, Terminating, Flags, ThreadID, removed, frees, locks, Strong, Weak>>
      /\ pins' = [pins EXCEPT ![t] = FALSE]
  BY DEF BeginUnpin, record, lock, block, counts
<1>2. /\ stack \in Stacks /\ Placed /\ OthersKept(t)
      /\ \A u \in Threads : pins'[u] => pins[u]
  BY <1>1 DEF CountInv, TypeOK, Stacks, Placed, OthersKept
<1>3. Quietly(t)
  BY <1>1, <1>2 DEF Quietly, Held
<1>4. /\ Plain(t) /\ Idle(t) /\ Doing(t)' = {"unpin", "ready"}
      /\ \A L : Count(L)' = Count(L) + W("unpin", L) + W("ready", L)
  BY <1>1, <1>2, PlainBeginsTwo
<1>5. {"unpin", "ready"} \subseteq Dull /\ {"unpin", "ready"} \cap (Accessing \cup OwnLock \cup {"msg_free"}) = {}
  BY DEF Dull, Labels, Freeing, Accessing, Errors, OwnLock, Locking
<1>6. SameCalls
  <2>1. ASSUME NEW L \in HoldSets PROVE Count(L)' = Count(L)
    BY <1>2, <1>4, <1>5, DullWeight, Tally
  <2>2. QED
    BY <2>1 DEF SameCalls
<1>7. Doing(t) = {}
  BY <1>2, <1>4, Inside
<1>8. Regular(t)
  BY <1>4, <1>5, <1>7, RegularBegin
<1>9. QED
  BY <1>3, <1>6, <1>7, <1>8, QuietlyStays

\* A step while the object is in place: no block is released by it.
LEMMA InPlace ==
    ASSUME EndInv, HoldInv, registered, registered' = registered, frees' = frees, SameCalls
    PROVE  GoneInv'
<1>1. ~Gone
  BY NotGone
<1>2. ~Gone'
  BY <1>1, SameFades DEF Gone
<1>3. QED
  BY <1>2 DEF GoneInv

LEMMA Hold_GiveBack ==
    ASSUME CountInv, EndInv, HoldInv, NEW t \in Threads, NEW call \in {"release", "unlock"},
           GiveBack(t, call)
    PROVE  HoldInv'
<1>1. /\ Begin(t, <<call>>) /\ locks[t] > 0 /\ locks' = [locks EXCEPT ![t] = @ - 1]
      /\ UNCHANGED <<registered, Terminating, Flags, ThreadID, removed, frees, pins>>
  BY DEF GiveBack, record, lock, block
<1>2. /\ stack \in Stacks /\ Placed /\ OthersKept(t)
      /\ locks \in [Threads -> 0..MaxLocks] /\ MaxLocks \in Nat
  BY <1>1, LifeAssumption DEF CountInv, TypeOK, Stacks, Placed, OthersKept
<1>3. ~Unlocked /\ locks[t] # 0
  BY <1>1, <1>2 DEF Unlocked
<1>4. registered /\ ~Doomed /\ ~Forced
  BY <1>3, NotGone DEF HoldInv, ForcedInv
<1>5. /\ call \in Dull /\ call \in Labels \ (Accessing \cup {"msg_free"}) /\ call # "shared"
  BY DEF Dull, Labels, Freeing, Accessing, Errors
<1>6. /\ Plain(t) /\ Doing(t) = {} /\ Doing(t)' = {call}
      /\ \A L : Count(L)' = Count(L) + W(call, L)
  BY <1>1, <1>2, <1>5, PlainBegins
<1>7. SameCalls
  <2>1. ASSUME NEW L \in HoldSets PROVE Count(L)' = Count(L)
    BY <1>2, <1>5, <1>6, DullWeight, Tally
  <2>2. QED
    BY <2>1 DEF SameCalls
<1>8. Regular(t)
  BY <1>4, <1>5, <1>6, RegularBegin
<1>9. LocksFade(t)
  BY <1>1, <1>2, <1>3 DEF LocksFade
<1>10. SameMarks /\ (NoFlags => NoFlags') /\ Fades /\ GoneInv'
  <2>1. SameMarks /\ (NoFlags => NoFlags')
    BY <1>1 DEF SameMarks, Forced, collecting, defined, NoFlags
  <2>2. Fades /\ GoneInv'
    BY <1>1, <1>4, <1>7, SameFades, InPlace
  <2>3. QED
    BY <2>1, <2>2
<1>11. QED
  BY <1>1, <1>4, <1>8, <1>9, <1>10, HoldStays

\* The stack stays.
LEMMA RegularSame ==
    ASSUME NEW t \in Threads, HoldInv, stack' = stack
    PROVE  /\ Regular(t) /\ SameCalls
           /\ \A u \in Threads : Doing(u)' = Doing(u)
<1>1. \A u \in Threads : Doing(u)' = Doing(u)
  BY DEF Doing
<1>2. \A u \in Threads : Delivers(u)' <=> Delivers(u)
  BY <1>1 DEF Delivers
<1>3. SameCalls
  BY DEF SameCalls, Count
<1>4. QED
  BY <1>1, <1>2, <1>3 DEF Regular, Finishes, HoldInv, DeliverInv

LEMMA Hold_pin ==
    ASSUME CountInv, EndInv, HoldInv, NEW t \in Threads, pin(t) \/ PinWeakObject(t)
    PROVE  HoldInv'
<1>1. /\ stack' = stack
      /\ UNCHANGED <<registered, Terminating, Flags, ThreadID, removed, frees, locks>>
      /\ locks[t] > 0 \/ (registered /\ pins' = pins)
  BY DEF pin, PinWeakObject, record, lock, block
<1>2. locks[t] \in Nat
  BY LifeAssumption DEF CountInv, TypeOK
<1>3. registered /\ (~Doomed \/ pins' = pins)
  BY <1>1, <1>2, NotGone DEF Unlocked
<1>4. /\ Regular(t) /\ SameCalls
      /\ \A u \in Threads : Doing(u)' = Doing(u)
  BY <1>1, RegularSame
<1>5. SameMarks /\ (NoFlags => NoFlags') /\ LocksFade(t)
  BY <1>1 DEF SameMarks, Forced, collecting, defined, NoFlags, LocksFade, Unlocked
<1>6. Fades /\ GoneInv'
  BY <1>1, <1>3, <1>4, SameFades, InPlace
<1>7. Terminating \/ HolderFrees => Terminating' \/ HolderFrees'
  BY <1>1, <1>4 DEF HolderFrees
<1>8. Doomed /\ ~Shared /\ NoPin => NoPin'
  BY <1>3 DEF NoPin
<1>9. QED
  BY <1>1, <1>4, <1>5, <1>6, <1>7, <1>8, HoldStays

\* SharedObjectAccess is called where a weak pin keeps the header.
LEMMA Hold_SharedObjectAccess ==
    ASSUME CountInv, EndInv, HoldInv, NEW t \in Threads, SharedObjectAccess(t)
    PROVE  HoldInv'
<1>1. /\ Begin(t, <<"shared">>) /\ Shared /\ weak[t] /\ ~pins[t]
      /\ UNCHANGED <<registered, Terminating, Flags, ThreadID, removed, frees, locks, pins>>
  BY DEF SharedObjectAccess, record, lock, block, clients
<1>2. /\ stack \in Stacks /\ Placed /\ OthersKept(t) /\ Weak \in Nat
  BY <1>1 DEF CountInv, TypeOK, Stacks, Placed, OthersKept
<1>3. Held
  BY <1>1, <1>2, NoPins DEF Held
<1>4. "shared" \in Dull /\ "shared" \in Labels \ (Accessing \cup OwnLock \cup {"msg_free"})
  BY <1>1 DEF Dull, Labels, Freeing, Accessing, Errors, OwnLock, Locking
<1>5. /\ Plain(t) /\ Doing(t) = {} /\ Doing(t)' = {"shared"}
      /\ \A L : Count(L)' = Count(L) + W("shared", L)
  BY <1>1, <1>2, <1>4, PlainBegins
<1>6. SameCalls
  <2>1. ASSUME NEW L \in HoldSets PROVE Count(L)' = Count(L)
    BY <1>2, <1>4, <1>5, DullWeight, Tally
  <2>2. QED
    BY <2>1 DEF SameCalls
<1>7. Regular(t)
  BY <1>4, <1>5, RegularBegin
<1>8. Quietly(t)
  BY <1>1, <1>3 DEF Quietly
<1>9. QED
  BY <1>5, <1>6, <1>7, <1>8, QuietlyStays

LEMMA Hold_SharedCheck ==
    ASSUME CountInv, EndInv, HoldInv, NEW t \in Threads, SharedCheck(t)
    PROVE  HoldInv'
<1>1. /\ ~Idle(t) /\ Head(stack[t]) = "shared" /\ (Continue(t, <<"unpin">>) \/ Return(t))
      /\ UNCHANGED <<registered, Terminating, Flags, ThreadID, removed, frees, locks, Strong, Weak>>
      /\ \A u \in Threads \ {t} : pins'[u] = pins[u]
  BY DEF SharedCheck, At, record, lock, block, counts, CountInv, TypeOK
<1>2. /\ stack \in Stacks /\ Placed /\ OthersKept(t)
  BY <1>1 DEF CountInv, TypeOK, Stacks, Placed, OthersKept
<1>3. Shared
  <2>1. ~NoShared
    BY <1>1, <1>2, TallyTop DEF NoShared
  <2>2. QED
    BY <2>1 DEF HoldInv, SharedInv
<1>4. /\ {"shared", "unpin"} \subseteq Dull /\ "shared" \notin Accessing \cup Delivery \cup {"msg_free", "free", "finish"}
      /\ "unpin" \in Labels \ (Accessing \cup OwnLock \cup {"msg_free", "shared"})
  BY <1>3 DEF Dull, Labels, Freeing, Accessing, Errors, OwnLock, Locking, Delivery
<1>5. /\ Regular(t) /\ "free" \notin Doing(t)
      /\ \A L \in HoldSets : Count(L)' = Count(L)
  <2>1. CASE Return(t)
    <3>1. /\ Plain(t) /\ Doing(t)' = Below(t) \cup {}
          /\ \A L : Count(L)' = Count(L) - W("shared", L)
      BY <1>1, <1>2, <1>4, <2>1, PlainReturns, Returns
    <3>2. \A L \in HoldSets : Count(L)' = Count(L)
      BY <1>2, <1>4, <3>1, DullWeight, Tally
    <3>3. QED
      BY <1>1, <1>4, <3>1, <3>2, RegularMove
  <2>2. CASE Continue(t, <<"unpin">>)
    <3>1. /\ Plain(t) /\ Doing(t)' = Below(t) \cup {"unpin"}
          /\ \A L : Count(L)' = Count(L) - W("shared", L) + W("unpin", L)
      BY <1>1, <1>2, <1>4, <2>2, PlainGoesOn, GoesOn
    <3>2. \A L \in HoldSets : Count(L)' = Count(L)
      BY <1>2, <1>4, <3>1, DullWeight, Tally
    <3>3. {"unpin"} \cap (OwnLock \cup Accessing \cup {"msg_free"}) = {}
      BY <1>4
    <3>4. QED
      BY <1>1, <1>4, <3>1, <3>2, <3>3, RegularMove
  <2>3. QED
    BY <1>1, <2>1, <2>2
<1>6. SameCalls
  BY <1>5 DEF SameCalls
<1>8. SameMarks /\ (NoFlags => NoFlags') /\ LocksFade(t)
  BY <1>1 DEF SameMarks, Forced, collecting, defined, NoFlags, LocksFade, Unlocked
<1>9. Fades /\ (Gone' => Gone)
  BY <1>1, <1>6, SameFades DEF Gone
<1>10. GoneInv'
  BY <1>1, <1>9 DEF HoldInv, GoneInv, Held, defined
<1>11. Terminating \/ HolderFrees => Terminating' \/ HolderFrees'
  BY <1>1, <1>5, RegularStays
<1>12. QED
  BY <1>1, <1>3, <1>5, <1>8, <1>9, <1>10, <1>11, HoldStays

\* AccessObject() comes to an end: the calls of the other kinds are as they were.
LEMMA AccessFades ==
    ASSUME stack \in Stacks, stack' \in Stacks, registered' = registered, NEW h \in Accessing,
           \A L \in HoldSets : Count(L)' = Count(L) - W(h, L)
    PROVE  Fades /\ Count({"fast", "erase"})' = Count({"fast", "erase"})
<1>1. /\ Count(Accessing)' = Count(Accessing) - 1
      /\ Count({"access_check"})' = Count({"access_check"}) - W(h, {"access_check"})
  BY DEF HoldSets, W
<1>2. /\ Count(Freeing)' = Count(Freeing) /\ Count(Errors)' = Count(Errors)
      /\ Count({"mark"})' = Count({"mark"}) /\ Count({"teardown"})' = Count({"teardown"})
      /\ Count({"fast", "erase"})' = Count({"fast", "erase"})
  <2>1. \A L \in {Freeing, Errors, {"mark"}, {"teardown"}, {"fast", "erase"}} : W(h, L) = 0
    BY DEF W, Accessing, Freeing, Errors
  <2>2. \A L \in {Freeing, Errors, {"mark"}, {"teardown"}, {"fast", "erase"}} : Count(L)' = Count(L) - 0
    BY <2>1 DEF HoldSets
  <2>3. QED
    BY <2>2, Tally
<1>3. ~Shared => Count({"shared"})' = Count({"shared"})
  <2>1. ~Shared => {"shared"} \in HoldSets
    BY DEF HoldSets
  <2>2. W(h, {"shared"}) = 0 /\ Count({"shared"}) \in Nat
    BY Tally DEF W, Accessing
  <2>3. QED
    BY <2>1, <2>2
<1>4. /\ Count(Accessing) \in Nat /\ Count(Accessing)' \in Nat
      /\ Count({"access_check"}) \in Nat /\ Count({"access_check"})' \in Nat
      /\ W(h, {"access_check"}) \in {0, 1}
  BY Tally, TallyNext DEF W
<1>5. QED
  BY <1>1, <1>2, <1>3, <1>4
     DEF Fades, NoCheck, NoAccess, NoMark, NoError, NoShared, InTeardown, Doomed

\* A thread that looks the object up has no other call than msg_free().
LEMMA AccessAlone ==
    ASSUME CountInv, NEW t \in Threads, ~Idle(t), Head(stack[t]) \in Accessing
    PROVE  /\ AtBottom(t)
           /\ Doing(t) \subseteq {Head(stack[t]), "msg_free"} /\ Head(stack[t]) \in Doing(t)
           /\ ~Delivers(t) /\ "free" \notin Doing(t)
<1>1. AtBottom(t)
  BY DEF CountInv, AccessAtBottom, AtBottom
<1>2. /\ Doing(t) = Below(t) \cup {Head(stack[t])} /\ stack \in Stacks
  BY Inside DEF CountInv, TypeOK, Stacks
<1>3. Below(t) \subseteq {"msg_free"}
  <2>1. CASE Len(stack[t]) = 1
    <3>1. Below(t) = {Height(stack[t], i) : i \in 1..0}
      BY <2>1 DEF Below
    <3>2. QED
      BY <3>1
  <2>2. CASE Len(stack[t]) = 2 /\ Height(stack[t], 1) = "msg_free"
    <3>1. Below(t) = {Height(stack[t], i) : i \in 1..1}
      BY <2>2 DEF Below
    <3>2. QED
      BY <2>2, <3>1
  <2>3. QED
    BY <1>1, <2>1, <2>2 DEF AtBottom
<1>4. QED
  BY <1>1, <1>2, <1>3 DEF Delivers, Accessing

\* It fails and drops its pin.
LEMMA HoldFails ==
    ASSUME CountInv, HoldInv, NEW t \in Threads, ~Idle(t), Head(stack[t]) \in Accessing,
           \/ stack' = [stack EXCEPT ![t] = FailedAccess]
           \/ registered /\ stack' = [stack EXCEPT ![t] = MarkedAccess],
           UNCHANGED <<registered, Terminating, Flags, ThreadID, frees, locks, pins, Strong, Weak>>,
           removed' \subseteq removed
    PROVE  HoldInv'
<1>1. /\ stack \in Stacks
      /\ AtBottom(t) /\ ~Delivers(t) /\ "free" \notin Doing(t)
      /\ Head(stack[t]) \in Doing(t)
  BY AccessAlone DEF CountInv, TypeOK, Stacks
<1>2. {"unpin", "ready", "release"} \subseteq Dull
  BY DEF Dull, Labels, Freeing, Accessing, Errors
<1>3. /\ Alone(t) /\ stack' \in Stacks
      /\ Doing(t)' \subseteq {"release", "unpin", "ready"}
      /\ registered \/ "release" \notin Doing(t)'
      /\ \A L \in HoldSets : Count(L)' = Count(L) - W(Head(stack[t]), L)
  <2>1. \A L \in HoldSets : Count(L) \in Nat /\ W(Head(stack[t]), L) \in {0, 1}
    BY <1>1, Tally DEF W
  <2>2. CASE stack' = [stack EXCEPT ![t] = FailedAccess]
    <3>1. /\ Alone(t) /\ Doing(t)' = {"unpin", "ready"}
          /\ \A L : "msg_free" \notin L =>
                Count(L)' = Count(L) - W(Head(stack[t]), L) + W("unpin", L) + W("ready", L)
      BY <1>1, <2>2, Fails DEF AtBottom
    <3>2. \A L \in HoldSets : Count(L)' = Count(L) - W(Head(stack[t]), L)
      BY <1>2, <2>1, <3>1, DullWeight
    <3>3. QED
      BY <3>1, <3>2 DEF Alone
  <2>3. CASE registered /\ stack' = [stack EXCEPT ![t] = MarkedAccess]
    <3>1. /\ Alone(t) /\ Doing(t)' = {"release", "unpin", "ready"}
          /\ \A L : "msg_free" \notin L =>
                Count(L)' = Count(L) - W(Head(stack[t]), L)
                             + W("unpin", L) + W("ready", L) + W("release", L)
      BY <1>1, <2>3, FailsLocked DEF AtBottom
    <3>2. \A L \in HoldSets : Count(L)' = Count(L) - W(Head(stack[t]), L)
      BY <1>2, <2>1, <3>1, DullWeight
    <3>3. QED
      BY <2>3, <3>1, <3>2 DEF Alone
  <2>4. QED
    BY <2>2, <2>3
<1>4. Fades /\ Count({"fast", "erase"})' = Count({"fast", "erase"})
  BY <1>1, <1>3, AccessFades
<1>5. Regular(t)
  <2>1. /\ \A u \in Threads \ {t} : Doing(u)' = Doing(u)
        /\ \A u \in Threads : Delivers(u)' => Delivers(u)
    BY <1>3 DEF Alone, Delivers
  <2>2. ~registered => Finishes(t)'
    BY <1>3 DEF Finishes, OwnLock, Locking
  <2>3. QED
    BY <1>1, <1>3, <2>1, <2>2 DEF Regular, Accessing
<1>6. SameMarks /\ (NoFlags => NoFlags') /\ LocksFade(t)
  BY DEF SameMarks, Forced, collecting, defined, NoFlags, LocksFade, Unlocked
<1>7. GoneInv'
  BY <1>4 DEF HoldInv, GoneInv, Gone, Held, defined
<1>8. Terminating \/ HolderFrees => Terminating' \/ HolderFrees'
  BY <1>1, <1>5, RegularStays
<1>9. NoPin => NoPin'
  BY DEF NoPin
<1>10. QED
  BY <1>4, <1>5, <1>6, <1>7, <1>8, <1>9, HoldStays

LEMMA Hold_AccessTimeout ==
    ASSUME CountInv, HoldInv, NEW t \in Threads, AccessTimeout(t)
    PROVE  HoldInv'
<1>1. /\ ~Idle(t) /\ Head(stack[t]) \in Accessing /\ stack' = [stack EXCEPT ![t] = FailedAccess]
      /\ UNCHANGED <<registered, Terminating, Flags, ThreadID, frees, locks, pins, Strong, Weak>>
      /\ removed' \subseteq removed
  BY DEF AccessTimeout, At, Accessing, Unflag, record, block, clients, counts
<1>2. QED
  BY <1>1, HoldFails

\* Nobody is about to get a lock of an object that is doomed or forced.
LEMMA CheckLive ==
    ASSUME CountInv, HoldInv, NEW t \in Threads, At(t, "access_check")
    PROVE  /\ registered /\ ~Doomed /\ ~Forced /\ ~NoAccess
           /\ ~collecting => NoFlags /\ NoError
<1>1. stack \in Stacks
  BY DEF CountInv, TypeOK, Stacks
<1>2. ~NoCheck /\ ~NoAccess
  BY <1>1, TallyTop DEF At, NoCheck, NoAccess, Accessing
<1>3. registered /\ ~Doomed /\ ~Forced
  BY <1>2 DEF HoldInv, UnusedInv, ForcedInv, Doomed
<1>4. QED
  BY <1>2, <1>3 DEF HoldInv, FlaggedInv

\* An object that is neither doomed nor forced to go.
LEMMA LiveHolds ==
    ASSUME HoldInv, ~Doomed', ~Forced', ~Gone',
           defined("FREE")' <=> defined("FREE"), registered, InTeardown => InTeardown',
           ~Shared /\ NoShared => NoShared',
           FlaggedInv', DeliverInv'
    PROVE  HoldInv'
<1>1. registered'
  BY DEF Doomed
<1>2. UnusedInv' /\ ForcedInv' /\ GoneInv' /\ FinishInv'
  BY <1>1 DEF UnusedInv, ForcedInv, GoneInv, FinishInv
<1>3. TornInv' /\ SharedInv'
  BY DEF HoldInv, TornInv, SharedInv
<1>4. QED
  BY <1>2, <1>3 DEF HoldInv

LEMMA Hold_AccessCheck ==
    ASSUME CountInv, EndInv, HoldInv, NEW t \in Threads, AccessCheck(t)
    PROVE  HoldInv'
<1>1. /\ ~Idle(t) /\ Head(stack[t]) \in Accessing
      /\ UNCHANGED <<registered, Terminating, Flags, ThreadID, frees, pins, Strong, Weak>>
      /\ removed' = removed
      /\ stack \in Stacks /\ locks \in [Threads -> 0..MaxLocks]
  BY DEF AccessCheck, At, Accessing, record, lock, block, counts, CountInv, TypeOK, Stacks
<1>2. CASE At(t, "access_failed")
  <2>1. stack' = [stack EXCEPT ![t] = FailedAccess] /\ locks' = locks
    BY <1>2 DEF AccessCheck
  <2>2. QED
    BY <1>1, <2>1, HoldFails
<1>3. CASE At(t, "access_check") /\ ~At(t, "access_failed")
  <2>1. /\ registered /\ ~Doomed /\ ~Forced /\ ~NoAccess
        /\ ~collecting => NoFlags /\ NoError
    BY <1>3, CheckLive
  <2>2. CASE collecting
    <3>1. stack' = [stack EXCEPT ![t] = MarkedAccess] /\ locks' = locks
      BY <1>3, <2>2 DEF AccessCheck
    <3>2. QED
      BY <1>1, <2>1, <3>1, HoldFails
  <2>3. CASE ~collecting
    <3>1. /\ Continue(t, <<"unpin">>)
          /\ locks' = IF Len(stack[t]) > 1 THEN locks ELSE [locks EXCEPT ![t] = @ + 1]
      BY <1>3, <2>3 DEF AccessCheck
    <3>2. /\ Head(stack[t]) = "access_check"
          /\ AtBottom(t) /\ Doing(t) \subseteq {"access_check", "msg_free"}
      BY <1>1, <1>3, AccessAlone DEF At
    <3>3. /\ Alone(t) /\ stack' \in Stacks /\ Doing(t)' = Below(t) \cup {"unpin"}
          /\ \A L : Count(L)' = Count(L) - W("access_check", L) + W("unpin", L)
      BY <1>1, <3>1, <3>2, GoesOn DEF Labels, Alone
    <3>4. Doing(t)' \subseteq {"unpin", "msg_free"} /\ ("msg_free" \in Doing(t)' => "msg_free" \in Doing(t))
      <4>1. Below(t) \subseteq Doing(t) /\ Below(t) \subseteq Callers
        BY <1>1, Inside DEF CountInv, Nested
      <4>2. QED
        BY <3>2, <3>3, <4>1 DEF Callers
    <3>5. \A L \in HoldSets : Count(L)' = Count(L) - W("access_check", L)
      <4>1. "unpin" \in Dull
        BY DEF Dull, Labels, Freeing, Accessing, Errors
      <4>2. \A L \in HoldSets : Count(L) \in Nat /\ W("access_check", L) \in {0, 1}
        BY <1>1, Tally DEF W
      <4>3. QED
        BY <3>3, <4>1, <4>2, DullWeight
    <3>6. Fades /\ Count({"fast", "erase"})' = Count({"fast", "erase"})
      BY <1>1, <3>3, <3>5, AccessFades DEF Accessing
    <3>7. ~Doomed' /\ ~Forced' /\ ~Gone' /\ (defined("FREE")' <=> defined("FREE"))
      <4>1. ~Gone
        BY <2>1, NotGone
      <4>2. QED
        BY <1>1, <2>1, <3>6, <4>1 DEF Fades, Forced, defined, Gone
    <3>8. NoFlags' /\ NoError' /\ ~collecting' /\ registered'
      BY <1>1, <2>1, <2>3, <3>6 DEF Fades, NoFlags, collecting, defined
    <3>9. DeliverInv'
      <4>1. \A u \in Threads \ {t} : Doing(u)' = Doing(u) /\ (Delivers(u)' <=> Delivers(u)) /\ locks'[u] = locks[u]
        BY <1>1, <3>1, <3>3 DEF Alone, Delivers
      <4>2. "msg_free" \in Doing(t)' => locks'[t] = 0
        <5>1. SUFFICES ASSUME "msg_free" \in Doing(t)' PROVE locks'[t] = 0
          OBVIOUS
        <5>2. "msg_free" \in Below(t)
          BY <3>3, <5>1
        <5>3. Len(stack[t]) = 2
          <6>1. CASE Len(stack[t]) = 1
            <7>1. Below(t) = {Height(stack[t], i) : i \in 1..0}
              BY <6>1 DEF Below
            <7>2. QED
              BY <5>2, <7>1
          <6>2. QED
            BY <3>2, <6>1 DEF AtBottom
        <5>4. QED
          BY <3>1, <3>4, <5>1, <5>3 DEF HoldInv, DeliverInv
      <4>3. Delivers(t)' => Doing(t)' \subseteq Delivery
        BY <3>4 DEF Delivery
      <4>4. \A u \in Threads : "msg_free" \in Doing(u)' => locks'[u] = 0
        BY <4>1, <4>2 DEF HoldInv, DeliverInv
      <4>5. \A u \in Threads : Delivers(u)' => Doing(u)' \subseteq Delivery
        BY <4>1, <4>3 DEF HoldInv, DeliverInv
      <4>6. QED
        BY <3>8, <4>4, <4>5 DEF DeliverInv
    <3>10. FlaggedInv'
      BY <3>8 DEF FlaggedInv
    <3>11. QED
      BY <2>1, <3>6, <3>7, <3>9, <3>10, LiveHolds DEF Fades
  <2>4. QED
    BY <2>2, <2>3
<1>4. QED
  BY <1>2, <1>3 DEF AccessCheck

\* The lock that msg_free() left behind goes to nobody else.
LEMMA NotGranted ==
    ASSUME CountInv, HoldInv, Forced, NEW t \in Threads, TakeLock(t)
    PROVE  ThreadID = t /\ ThreadID' = ThreadID
<1>1. /\ Kept = 1 /\ Queue >= LocksOwed /\ Queue \in Nat
      /\ stack \in Stacks /\ locks \in [Threads -> Nat]
  BY LifeAssumption DEF Forced, Kept, CountInv, LocksAccounted, TypeOK, Stacks
<1>2. LocksOwed >= 1
  <2>1. /\ Cardinality(LocksOf(locks)) \in Nat /\ Count(OwnLock) \in Nat /\ Cardinality(Delivering) \in Nat
    BY <1>1, Tally, Owed DEF Sums
  <2>2. QED
    BY <1>1, <2>1 DEF LocksOwed
<1>3. Queue # 0
  BY <1>1, <1>2, Owed DEF Sums
<1>4. QED
  BY <1>3 DEF TakeLock

\* What a call of AccessObject() that waits implies.
LEMMA AccessDoomed ==
    ASSUME CountInv, HoldInv, NEW t \in Threads, ~Idle(t), Head(stack[t]) \in Accessing
    PROVE  /\ ~NoAccess /\ (Doomed => Forced)
           /\ Forced => ThreadID # t
           /\ registered /\ ~Forced /\ ~collecting => NoFlags /\ NoError
<1>1. stack \in Stacks
  BY DEF CountInv, TypeOK, Stacks
<1>2. ~NoAccess
  BY <1>1, TallyTop DEF NoAccess
<1>3. Doing(t) \cap Accessing # {}
  BY AccessAlone
<1>4. Forced => ThreadID # t
  BY <1>3 DEF HoldInv, ForcedInv, HolderOut
<1>5. QED
  BY <1>2, <1>4 DEF HoldInv, UnusedInv, FlaggedInv

\* It goes on without the lock.
LEMMA Hold_AccessWaits ==
    ASSUME CountInv, HoldInv, NEW t \in Threads, ~Idle(t), Head(stack[t]) \in {"access_lock", "access_sleep"},
           NEW x \in {"access_sleep", "access_failed"}, Continue(t, <<x>>),
           UNCHANGED <<registered, Terminating, Flags, ThreadID, frees, locks, pins, Strong, Weak>>,
           removed' \subseteq removed
    PROVE  HoldInv'
<1>1. /\ stack \in Stacks /\ Placed /\ OthersKept(t) /\ Head(stack[t]) \in Accessing /\ x \in Accessing
      /\ x \in Labels
  BY DEF CountInv, TypeOK, Stacks, Placed, OthersKept, Accessing, Labels
<1>2. /\ Plain(t) /\ Alone(t) /\ Doing(t)' = Below(t) \cup {x}
      /\ \A L : Count(L)' = Count(L) - W(Head(stack[t]), L) + W(x, L)
  BY <1>1, AccessGoesOn, GoesOn
<1>3. SameCalls
  <2>1. ASSUME NEW L \in HoldSets PROVE W(x, L) = W(Head(stack[t]), L)
    <3>1. \A y \in {"access_lock", "access_sleep", "access_failed"} :
            /\ W(y, Accessing) = 1
            /\ \A M \in {Freeing, Errors, {"access_check"}, {"mark"}, {"teardown"}, {"fast", "erase"},
                         {"shared"}} : W(y, M) = 0
      BY DEF W, Accessing, Freeing, Errors
    <3>2. QED
      BY <3>1 DEF HoldSets
  <2>2. ASSUME NEW L \in HoldSets PROVE Count(L)' = Count(L)
    <3>1. Count(L) \in Nat /\ W(x, L) \in {0, 1}
      BY <1>1, Tally DEF W
    <3>2. QED
      BY <1>2, <2>1, <3>1
  <2>3. QED
    BY <2>2 DEF SameCalls
<1>4. /\ Doing(t) = Below(t) \cup {Head(stack[t])} /\ Below(t) \subseteq Callers
      /\ ~Delivers(t) /\ "free" \notin Doing(t)
  BY <1>1, Inside, AccessAlone DEF CountInv, Nested
<1>5. Regular(t)
  <2>1. /\ \A u \in Threads \ {t} : Doing(u)' = Doing(u)
        /\ \A u \in Threads : Delivers(u)' => Delivers(u)
    BY <1>2 DEF Plain, Alone
  <2>2. Finishes(t)'
    BY <1>2, <1>4 DEF Finishes, OwnLock, Locking, Callers
  <2>3. "msg_free" \in Doing(t)' => "msg_free" \in Doing(t)
    BY <1>2, <1>4
  <2>4. Doing(t) \cap Accessing # {}
    BY <1>1, <1>4
  <2>5. QED
    BY <1>4, <2>1, <2>2, <2>3, <2>4 DEF Regular
<1>6. SameMarks /\ (NoFlags => NoFlags') /\ LocksFade(t) /\ (NoPin => NoPin')
  BY DEF SameMarks, Forced, collecting, defined, NoFlags, LocksFade, Unlocked, NoPin
<1>7. Fades /\ (Gone' => Gone)
  BY <1>3, SameFades DEF Gone
<1>8. GoneInv'
  BY <1>7 DEF HoldInv, GoneInv, Held, defined
<1>9. Terminating \/ HolderFrees => Terminating' \/ HolderFrees'
  BY <1>4, <1>5, RegularStays
<1>10. QED
  BY <1>5, <1>6, <1>7, <1>8, <1>9, HoldStays

\* It gets the lock.
LEMMA Hold_AccessGranted ==
    ASSUME CountInv, EndInv, HoldInv, NEW t \in Threads, ~Idle(t),
           Head(stack[t]) \in {"access_lock", "access_sleep"},
           Continue(t, <<"access_check">>), TakeLock(t),
           UNCHANGED <<registered, Terminating, Flags, removed, frees, locks, pins, Strong, Weak>>
    PROVE  HoldInv'
<1>1. /\ stack \in Stacks /\ Placed /\ OthersKept(t) /\ Head(stack[t]) \in Accessing
      /\ "access_check" \in Labels /\ "access_check" \in Accessing
  BY DEF CountInv, TypeOK, Stacks, Placed, OthersKept, Accessing, Labels
<1>2. /\ ~NoAccess /\ ~Forced /\ ~Doomed /\ registered
      /\ ~collecting => NoFlags /\ NoError
  BY <1>1, AccessDoomed, NotGranted DEF Doomed
<1>3. /\ Alone(t) /\ stack' \in Stacks /\ Doing(t)' = Below(t) \cup {"access_check"}
      /\ \A L : Count(L)' = Count(L) - W(Head(stack[t]), L) + W("access_check", L)
  BY <1>1, GoesOn DEF Alone
<1>4. ASSUME NEW L \in {Freeing, Errors, {"teardown"}, {"shared"}, {"fast", "erase"}}
      PROVE  Count(L)' = Count(L)
  <2>1. W(Head(stack[t]), L) = 0 /\ W("access_check", L) = 0
    BY DEF W, Freeing, Errors
  <2>2. QED
    BY <1>1, <1>3, <2>1, Tally
<1>5. /\ ~Doomed' /\ ~Forced' /\ (defined("FREE")' <=> defined("FREE"))
      /\ InTeardown => InTeardown'
      /\ NoShared => NoShared'
      /\ NoFlags => NoFlags'
      /\ NoError => NoError'
      /\ collecting' <=> collecting
  BY <1>2, <1>4 DEF Doomed, Forced, defined, InTeardown, NoShared, NoFlags, NoError, collecting
<1>6. ~Gone'
  <2>1. ~Gone
    BY <1>2, NotGone
  <2>2. QED
    BY <1>4, <2>1 DEF Gone
<1>7. FlaggedInv'
  BY <1>2, <1>5 DEF FlaggedInv
<1>8. DeliverInv'
  <2>1. ~Delivers(t) /\ ~Delivers(t)'
    BY <1>1, <1>3, AccessAlone DEF Delivers
  <2>2. \A u \in Threads \ {t} : Doing(u)' = Doing(u) /\ (Delivers(u)' <=> Delivers(u))
    BY <1>3 DEF Alone, Delivers
  <2>3. "msg_free" \in Doing(t)' => "msg_free" \in Doing(t)
    BY <1>1, <1>3, Inside
  <2>4. \A u \in Threads : "msg_free" \in Doing(u)' => locks'[u] = 0
    BY <2>2, <2>3 DEF HoldInv, DeliverInv
  <2>5. \A u \in Threads : Delivers(u)' => Doing(u)' \subseteq Delivery
    BY <2>1, <2>2 DEF HoldInv, DeliverInv
  <2>6. NoDelivery => NoDelivery'
    BY <2>1, <2>2 DEF NoDelivery
  <2>7. NoDelivery' \/ (registered' /\ ~collecting' /\ NoFlags' /\ NoError')
    BY <1>5, <2>6 DEF HoldInv, DeliverInv
  <2>8. QED
    BY <2>4, <2>5, <2>7 DEF DeliverInv
<1>9. QED
  BY <1>2, <1>5, <1>6, <1>7, <1>8, LiveHolds

LEMMA Hold_AccessLock ==
    ASSUME CountInv, EndInv, HoldInv, NEW t \in Threads, AccessLock(t)
    PROVE  HoldInv'
<1>1. /\ ~Idle(t) /\ Head(stack[t]) \in {"access_lock", "access_sleep"}
      /\ UNCHANGED <<registered, Terminating, Flags, frees, locks, pins, Strong, Weak>>
  BY DEF AccessLock, At, record, block, clients, counts
<1>2. CASE TakeLock(t) /\ Continue(t, <<"access_check">>) /\ removed' = removed
  BY <1>1, <1>2, Hold_AccessGranted
<1>3. CASE /\ Continue(t, <<"access_sleep">>) \/ Continue(t, <<"access_failed">>)
           /\ ThreadID' = ThreadID /\ removed' \subseteq removed
  BY <1>1, <1>3, Hold_AccessWaits
<1>4. QED
  BY <1>2, <1>3 DEF AccessLock, Lock, Unflag, lock

\* A part of the calls at some labels, and two parts of them.
LEMMA TallyTwo ==
    ASSUME stack \in Stacks, NEW L, NEW M, NEW N, L \cap M = {}, L \subseteq N, M \subseteq N
    PROVE  Count(L) + Count(M) <= Count(N)
<1>1. /\ IsFiniteSet(CallsIn(stack, L)) /\ IsFiniteSet(CallsIn(stack, M)) /\ IsFiniteSet(CallsIn(stack, N))
      /\ Count(L) \in Nat /\ Count(M) \in Nat /\ Count(N) \in Nat
  BY CallsFinite DEF Count
<1>2. ASSUME NEW c, c \in CallsIn(stack, L) \/ c \in CallsIn(stack, M)
      PROVE  c \in CallsIn(stack, N) /\ ~(c \in CallsIn(stack, L) /\ c \in CallsIn(stack, M))
  <2>1. PICK t, i : t \in Threads /\ c = <<t, i>>
    BY <1>2, CallShape
  <2>2. QED
    BY <1>2, <2>1, CallMember
<1>3. /\ CallsIn(stack, L) \cap CallsIn(stack, M) = {}
      /\ CallsIn(stack, L) \cup CallsIn(stack, M) \subseteq CallsIn(stack, N)
  BY <1>2
<1>4. Cardinality(CallsIn(stack, L) \cup CallsIn(stack, M)) <= Cardinality(CallsIn(stack, N))
  BY <1>1, <1>3, FS_Subset
<1>5. Cardinality(CallsIn(stack, L) \cup CallsIn(stack, M))
        = Cardinality(CallsIn(stack, L)) + Cardinality(CallsIn(stack, M)) - Cardinality({})
  BY <1>1, <1>3, FS_Union
<1>6. QED
  BY <1>1, <1>4, <1>5, FS_EmptySet DEF Count

\* An object that may be found: it is not doomed, and no sleeper was told that
\* it is being removed.
LEMMA AccessibleFacts ==
    ASSUME CountInv, EndInv, HoldInv, Accessible
    PROVE  /\ registered /\ ~Doomed /\ ~collecting
           /\ Forced => HolderFrees
           /\ ~Forced => NoFlags /\ NoError
<1>1. /\ registered /\ ~Terminating /\ ~collecting /\ stack \in Stacks /\ removed \subseteq Sleepers
  BY DEF Accessible, CountInv, TypeOK, Stacks
<1>2. Count(Claiming) = 0
  BY <1>1, Tally DEF EndInv, OneClaim
<1>3. Count(Freeing) = 0 /\ NoError
  <2>1. Freeing \subseteq Claiming /\ Errors \subseteq Claiming
    BY DEF Freeing, Errors, Claiming
  <2>2. /\ Count(Freeing) <= Count(Claiming) /\ Count(Errors) <= Count(Claiming)
        /\ Count(Freeing) \in Nat /\ Count(Errors) \in Nat
    BY <1>1, <2>1, TallyPart, Tally DEF Count
  <2>3. QED
    BY <1>2, <2>2 DEF NoError
<1>4. ~Forced => NoFlags
  <2>1. SUFFICES ASSUME ~Forced, NEW s \in removed PROVE FALSE
    BY DEF NoFlags
  <2>2. s \in Threads /\ ~Idle(s) /\ Head(stack[s]) \in {"access_sleep", "free_sleep"}
    BY <1>1 DEF Sleepers, At
  <2>3. Head(stack[s]) # "free_sleep"
    BY <1>1, <1>2, <2>2, TallyTop DEF Claiming
  <2>4. ~NoAccess
    BY <1>1, <2>2, <2>3, TallyTop DEF NoAccess, Accessing
  <2>5. QED
    BY <1>1, <2>1, <2>4 DEF HoldInv, FlaggedInv, NoFlags
<1>5. QED
  BY <1>1, <1>3, <1>4 DEF HoldInv, ForcedInv, Doomed

\* A call of AccessObject() begins.
LEMMA HoldAccess ==
    ASSUME CountInv, EndInv, HoldInv, NEW t \in Threads, Accessible, Idle(t),
           \/ Begin(t, <<"access_lock">>)
           \/ locks[t] = 0 /\ Begin(t, <<"access_lock", "msg_free">>),
           UNCHANGED <<registered, Terminating, Flags, ThreadID, removed, frees, locks, pins>>
    PROVE  HoldInv'
<1>1. /\ registered /\ ~Doomed /\ ~collecting /\ ~Gone
      /\ Forced => HolderFrees
      /\ ~Forced => NoFlags /\ NoError
      /\ stack \in Stacks
  BY AccessibleFacts, NotGone DEF CountInv, TypeOK, Stacks
<1>2. /\ Alone(t) /\ stack' \in Stacks
      /\ Doing(t)' \subseteq {"access_lock", "msg_free"} /\ "access_lock" \in Doing(t)'
      /\ "msg_free" \in Doing(t)' => locks[t] = 0
      /\ \A L \in HoldSets : Count(L)' = Count(L) + W("access_lock", L)
  <2>1. {"access_lock", "msg_free"} \subseteq Labels /\ "msg_free" \in Dull
    BY DEF Labels, Dull, Freeing, Accessing, Errors
  <2>2. \A L \in HoldSets : Count(L) \in Nat /\ W("access_lock", L) \in {0, 1} /\ W("msg_free", L) = 0
    BY <1>1, <2>1, Tally, DullWeight DEF W
  <2>3. CASE Begin(t, <<"access_lock">>)
    <3>1. /\ Alone(t) /\ Doing(t)' = {"access_lock"}
          /\ \A L : Count(L)' = Count(L) + W("access_lock", L)
      BY <1>1, <2>1, <2>3, Begins
    <3>2. QED
      BY <3>1 DEF Alone
  <2>4. CASE locks[t] = 0 /\ Begin(t, <<"access_lock", "msg_free">>)
    <3>1. /\ Alone(t) /\ Doing(t)' = {"access_lock", "msg_free"}
          /\ \A L : Count(L)' = Count(L) + W("access_lock", L) + W("msg_free", L)
      BY <1>1, <2>1, <2>4, BeginsTwo
    <3>2. \A L \in HoldSets : Count(L)' = Count(L) + W("access_lock", L)
      BY <2>2, <3>1
    <3>3. QED
      BY <2>4, <3>1, <3>2 DEF Alone
  <2>5. QED
    BY <2>3, <2>4
<1>3. /\ Count(Freeing)' = Count(Freeing) /\ Count(Errors)' = Count(Errors)
      /\ Count({"access_check"})' = Count({"access_check"}) /\ Count({"mark"})' = Count({"mark"})
      /\ Count({"teardown"})' = Count({"teardown"}) /\ Count({"fast", "erase"})' = Count({"fast", "erase"})
  <2>1. \A L \in {Freeing, Errors, {"access_check"}, {"mark"}, {"teardown"}, {"fast", "erase"}} :
           W("access_lock", L) = 0 /\ L \in HoldSets
    BY DEF W, Freeing, Errors, HoldSets
  <2>2. \A L \in {Freeing, Errors, {"access_check"}, {"mark"}, {"teardown"}, {"fast", "erase"}} :
           Count(L)' = Count(L) + 0 /\ Count(L) \in Nat
    BY <1>1, <1>2, <2>1, Tally
  <2>3. QED
    BY <2>2
<1>4. ~Shared => Count({"shared"})' = Count({"shared"})
  <2>1. ~Shared => {"shared"} \in HoldSets
    BY DEF HoldSets
  <2>2. W("access_lock", {"shared"}) = 0 /\ Count({"shared"}) \in Nat
    BY <1>1, Tally DEF W
  <2>3. QED
    BY <1>2, <2>1, <2>2
<1>5. /\ ~Doomed' /\ ~Gone' /\ ~collecting'
      /\ NoCheck => NoCheck'
      /\ NoMark => NoMark'
      /\ NoError => NoError'
      /\ ~Shared /\ NoShared => NoShared'
      /\ InTeardown => InTeardown'
      /\ NoFlags => NoFlags'
      /\ Forced' <=> Forced
      /\ defined("FREE")' <=> defined("FREE")
      /\ defined("FREE_ON_UNLOCK")' <=> defined("FREE_ON_UNLOCK")
  BY <1>1, <1>3, <1>4 DEF Doomed, Gone, collecting, NoCheck, NoMark, NoError, NoShared, InTeardown,
     NoFlags, Forced, defined
<1>6. /\ Doing(t) = {} /\ ~Delivers(t)'
      /\ \A u \in Threads \ {t} : Doing(u)' = Doing(u) /\ (Delivers(u)' <=> Delivers(u))
  BY <1>1, <1>2, Inside DEF Alone, Delivers, Accessing
<1>7. NoDelivery => NoDelivery'
  BY <1>6 DEF NoDelivery
<1>8. Forced => HolderOut' /\ HolderFrees'
  <2>1. SUFFICES ASSUME Forced PROVE HolderOut' /\ HolderFrees'
    OBVIOUS
  <2>2. PICK h \in Threads : ThreadID = h /\ "free" \in Doing(h)
    BY <1>1, <2>1 DEF HolderFrees
  <2>3. h # t /\ Doing(h)' = Doing(h)
    BY <1>6, <2>2
  <2>4. HolderFrees'
    BY <2>2, <2>3 DEF HolderFrees
  <2>5. HolderOut'
    BY <2>1, <2>2, <2>3 DEF HolderOut, HoldInv, ForcedInv
  <2>6. QED
    BY <2>4, <2>5
<1>9. UnusedInv' /\ TornInv' /\ SharedInv' /\ GoneInv'
  BY <1>5 DEF HoldInv, UnusedInv, TornInv, SharedInv, GoneInv
<1>10. ForcedInv'
  <2>1. Unlocked => Unlocked'
    BY DEF Unlocked
  <2>2. QED
    BY <1>5, <1>7, <1>8, <2>1 DEF HoldInv, ForcedInv
<1>11. FlaggedInv'
  BY <1>1, <1>5 DEF FlaggedInv
<1>12. DeliverInv'
  <2>1. \A u \in Threads : "msg_free" \in Doing(u)' => locks'[u] = 0
    BY <1>2, <1>6 DEF HoldInv, DeliverInv
  <2>2. \A u \in Threads : Delivers(u)' => Doing(u)' \subseteq Delivery
    BY <1>6 DEF HoldInv, DeliverInv
  <2>3. QED
    BY <1>5, <1>7, <2>1, <2>2 DEF HoldInv, DeliverInv
<1>13. FinishInv'
  BY <1>1 DEF FinishInv
<1>14. QED
  BY <1>9, <1>10, <1>11, <1>12, <1>13 DEF HoldInv

LEMMA Hold_AccessObject ==
    ASSUME CountInv, EndInv, HoldInv, NEW t \in Threads,
           \/ AccessObject(t, <<>>)
           \/ locks[t] = 0 /\ AccessObject(t, <<"msg_free">>)
    PROVE  HoldInv'
<1>1. /\ Accessible
      /\ UNCHANGED <<registered, Terminating, Flags, ThreadID, removed, frees, locks, pins>>
  BY DEF AccessObject, record, lock, block, clients
<1>2. <<"access_lock">> \o <<"msg_free">> = <<"access_lock", "msg_free">>
  <2>1. "access_lock" \in Labels /\ "msg_free" \in Labels
    BY DEF Labels
  <2>2. <<"msg_free">> \o <<>> = <<"msg_free">>
    BY <2>1, ConcatEmptySeq
  <2>3. <<"access_lock">> \o (<<"msg_free">> \o <<>>) = <<"access_lock", "msg_free">>
    BY <2>1, TwoLabels
  <2>4. QED
    BY <2>2, <2>3
<1>3. CASE AccessObject(t, <<>>)
  <2>1. Begin(t, <<"access_lock">>) /\ Idle(t)
    BY <1>3 DEF AccessObject, Begin
  <2>2. QED
    BY <1>1, <2>1, HoldAccess
<1>4. CASE locks[t] = 0 /\ AccessObject(t, <<"msg_free">>)
  <2>1. Begin(t, <<"access_lock", "msg_free">>) /\ Idle(t)
    BY <1>2, <1>4 DEF AccessObject, Begin
  <2>2. QED
    BY <1>1, <1>4, <2>1, HoldAccess
<1>5. QED
  BY <1>3, <1>4

\* A call goes on at another label, or returns.
LEMMA HoldMoves ==
    ASSUME CountInv, HoldInv, NEW t \in Threads, OthersKept(t), ~Idle(t),
           Head(stack[t]) \notin Accessing \cup {"msg_free", "free"},
           NEW x \in Labels \ (Accessing \cup {"msg_free", "shared"}), Continue(t, <<x>>),
           registered \/ x \notin OwnLock \/ Head(stack[t]) \in OwnLock,
           Head(stack[t]) # "finish" \/ x \notin OwnLock,
           Head(stack[t]) \in Delivery => x \in Delivery
    PROVE  /\ Plain(t) /\ Regular(t) /\ "free" \notin Doing(t)
           /\ Doing(t)' = Below(t) \cup {x}
           /\ \A L : /\ Count(L)' = Count(L) - W(Head(stack[t]), L) + W(x, L)
                     /\ Count(L) \in Nat /\ Count(L)' \in Nat
<1>1. stack \in Stacks /\ Placed
  BY DEF CountInv, TypeOK, Stacks, Placed
<1>2. /\ Plain(t)
      /\ \A L : Count(L)' = Count(L) - W(Head(stack[t]), L) + W(x, L)
  BY <1>1, PlainGoesOn
<1>3. Doing(t)' = Below(t) \cup {x} /\ stack' \in Stacks
  BY <1>1, <1>2, GoesOn DEF Alone
<1>4. Regular(t) /\ "free" \notin Doing(t)
  <2>1. /\ {x} \cap (Accessing \cup {"msg_free"}) = {}
        /\ registered \/ {x} \cap OwnLock = {} \/ Head(stack[t]) \in OwnLock
        /\ Head(stack[t]) # "finish" \/ {x} \cap OwnLock = {}
        /\ Head(stack[t]) \in Delivery => {x} \subseteq Delivery
    OBVIOUS
  <2>2. QED
    BY <1>2, <1>3, <2>1, RegularMove
<1>5. QED
  BY <1>1, <1>2, <1>3, <1>4, Tally, TallyNext

LEMMA HoldLeaves ==
    ASSUME CountInv, HoldInv, NEW t \in Threads, OthersKept(t), ~Idle(t),
           Head(stack[t]) \notin Accessing \cup {"msg_free", "free"}, Return(t)
    PROVE  /\ Plain(t) /\ Regular(t) /\ "free" \notin Doing(t)
           /\ Doing(t)' = Below(t)
           /\ \A L : /\ Count(L)' = Count(L) - W(Head(stack[t]), L)
                     /\ Count(L) \in Nat /\ Count(L)' \in Nat
<1>1. stack \in Stacks /\ Placed
  BY DEF CountInv, TypeOK, Stacks, Placed
<1>2. /\ Plain(t)
      /\ \A L : Count(L)' = Count(L) - W(Head(stack[t]), L)
  BY <1>1, PlainReturns
<1>3. Doing(t)' = Below(t) /\ stack' \in Stacks
  BY <1>1, <1>2, Returns DEF Alone
<1>4. Doing(t)' = Below(t) \cup {}
  BY <1>3
<1>5. Regular(t) /\ "free" \notin Doing(t)
  BY <1>2, <1>4, RegularMove
<1>6. QED
  BY <1>1, <1>2, <1>3, <1>5, Tally, TallyNext

\* Where the two labels are of no interest.
LEMMA DullCalls ==
    ASSUME NEW t \in Threads, Head(stack[t]) \in Dull, NEW x \in Dull,
           \A L : /\ Count(L)' = Count(L) - W(Head(stack[t]), L) + W(x, L)
                  /\ Count(L) \in Nat
    PROVE  SameCalls
<1>1. ASSUME NEW L \in HoldSets PROVE Count(L)' = Count(L)
  BY DullWeight
<1>2. QED
  BY <1>1 DEF SameCalls

\* The release of the block is not among what fades.
LEMMA FadesButGone ==
    ASSUME \A L \in {Freeing, Accessing, Errors, {"access_check"}, {"mark"}, {"teardown"}, {"shared"}} :
               Count(L)' = Count(L),
           registered' = registered
    PROVE  Fades
  BY DEF Fades, NoCheck, NoAccess, NoMark, NoError, NoShared, InTeardown, Doomed

LEMMA Hold_FlagSleepers ==
    ASSUME CountInv, EndInv, HoldInv, NEW t \in Threads, FlagSleepers(t)
    PROVE  HoldInv'
<1>1. /\ ~Idle(t) /\ Head(stack[t]) = "wake" /\ Continue(t, <<"collect">>)
      /\ UNCHANGED <<registered, Terminating, Flags, ThreadID, frees, locks, pins, Strong, Weak>>
  BY DEF FlagSleepers, At, record, block, clients, counts
<1>2. /\ OthersKept(t) /\ {"wake", "collect"} \subseteq Dull
      /\ "collect" \in Labels \ (Accessing \cup {"msg_free", "shared"}) /\ "collect" \notin OwnLock
      /\ "wake" \notin Accessing \cup {"msg_free", "free"} /\ "wake" \notin Delivery
  BY <1>1 DEF OthersKept, Dull, Labels, Freeing, Accessing, Errors, OwnLock, Locking, Delivery
<1>3. CASE ~(collecting /\ registered)
  <2>1. removed' = removed
    BY <1>3 DEF FlagSleepers
  <2>2. Quietly(t)
    BY <1>1, <2>1 DEF Quietly, Held
  <2>3. QED
    BY <1>1, <1>2, <2>2, HoldGoesOn
<1>4. CASE collecting /\ registered
  <2>1. /\ Regular(t)
        /\ \A L : /\ Count(L)' = Count(L) - W(Head(stack[t]), L) + W("collect", L)
                  /\ Count(L) \in Nat
    BY <1>1, <1>2, HoldMoves
  <2>2. SameCalls
    BY <1>1, <1>2, <2>1, DullCalls
  <2>3. Fades /\ GoneInv' /\ NoDelivery
    BY <1>1, <1>4, <2>2, SameFades, InPlace DEF HoldInv, DeliverInv
  <2>4. SameMarks /\ LocksFade(t) /\ (NoPin => NoPin') /\ collecting'
    BY <1>1, <1>4 DEF SameMarks, Forced, collecting, defined, LocksFade, Unlocked, NoPin
  <2>5. Terminating \/ HolderFrees => Terminating' \/ HolderFrees'
    <3>1. "free" \notin Doing(t)
      BY <1>1, <1>2, HoldMoves
    <3>2. QED
      BY <1>1, <2>1, <3>1, RegularStays
  <2>6. (NoDelivery => NoDelivery') /\ (HolderOut => HolderOut')
    BY <1>1, <2>1, RegularStays
  <2>7. UnusedInv' /\ TornInv' /\ SharedInv'
    BY <1>1, <2>3, <2>4 DEF Fades, SameMarks, LocksFade, HoldInv, UnusedInv, TornInv, SharedInv
  <2>8. ForcedInv'
    BY <1>1, <1>4, <2>3, <2>4, <2>5, <2>6 DEF Fades, SameMarks, LocksFade, HoldInv, ForcedInv
  <2>9. FlaggedInv' /\ FinishInv'
    BY <1>1, <1>4, <2>4 DEF FlaggedInv, FinishInv
  <2>10. DeliverInv'
    BY <2>1, <2>3, <2>4, DeliverStays
  <2>11. QED
    BY <2>3, <2>7, <2>8, <2>9, <2>10 DEF HoldInv
<1>5. QED
  BY <1>3, <1>4

\* ReleaseObject() collects the object: nobody has it pinned.
LEMMA Hold_Collect ==
    ASSUME CountInv, EndInv, HoldInv, NEW t \in Threads, Collect(t)
    PROVE  HoldInv'
<1>1. /\ ~Idle(t) /\ Head(stack[t]) = "collect" /\ stack \in Stacks /\ Strong \in Nat
      /\ UNCHANGED <<registered, Terminating, ThreadID, removed, frees, locks, pins, Strong, Weak>>
  BY DEF Collect, At, record, lock, block, clients, counts, CountInv, TypeOK, Stacks
<1>2. CASE Return(t) /\ UNCHANGED Flags
  BY <1>2, Hold_Dull DEF DullStep
<1>3. CASE /\ defined("FREE_ON_UNLOCK") /\ ~defined("FREE") /\ Unpinned
           /\ Flags' = Flags \ {"FREE_ON_UNLOCK"} /\ Continue(t, <<"free">>)
  <2>1. /\ OthersKept(t) /\ {"collect", "free"} \subseteq Dull
        /\ "free" \in Labels \ (Accessing \cup {"msg_free", "shared"}) /\ "free" \notin OwnLock
        /\ "collect" \notin Accessing \cup {"msg_free", "free"} /\ "collect" \notin Delivery
    BY <1>1 DEF OthersKept, Dull, Labels, Freeing, Accessing, Errors, OwnLock, Locking, Delivery
  <2>2. /\ Regular(t)
        /\ \A L : /\ Count(L)' = Count(L) - W(Head(stack[t]), L) + W("free", L)
                  /\ Count(L) \in Nat
    BY <1>1, <1>3, <2>1, HoldMoves
  <2>3. SameCalls
    BY <1>1, <2>1, <2>2, DullCalls
  <2>4. NoAccess
    <3>1. Count(Pinning) = 0 /\ Accessing \subseteq Pinning
      BY <1>1, <1>3, NoPins DEF Unpinned, isPinned, Accessing, Pinning
    <3>2. Count(Accessing) <= Count(Pinning) /\ Count(Accessing) \in Nat
      BY <1>1, <3>1, TallyPart, Tally DEF Count
    <3>3. QED
      BY <3>1, <3>2 DEF NoAccess
  <2>5. Fades /\ (Gone' => Gone)
    BY <1>1, <2>3, SameFades DEF Gone
  <2>6. /\ ~Forced /\ ~Forced' /\ NoDelivery
        /\ defined("FREE")' <=> defined("FREE")
        /\ defined("ZOMBIE")' <=> defined("ZOMBIE")
    BY <1>3 DEF HoldInv, ForcedInv, DeliverInv, Forced, collecting, defined
  <2>7. (NoDelivery => NoDelivery') /\ (~registered /\ FinishInv => FinishInv')
    BY <2>2, RegularStays
  <2>8. LocksFade(t) /\ (NoPin => NoPin')
    BY <1>1 DEF LocksFade, Unlocked, NoPin
  <2>9. UnusedInv' /\ TornInv' /\ SharedInv'
    BY <1>1, <2>5, <2>6, <2>8 DEF Fades, LocksFade, HoldInv, UnusedInv, TornInv, SharedInv
  <2>10. ForcedInv' /\ FlaggedInv' /\ FinishInv'
    BY <1>1, <2>4, <2>5, <2>6, <2>7 DEF Fades, HoldInv, ForcedInv, FlaggedInv, FinishInv
  <2>11. GoneInv'
    BY <1>1, <2>5, <2>6 DEF HoldInv, GoneInv, Held
  <2>12. DeliverInv'
    BY <2>2, <2>6, <2>8, DeliverStays
  <2>13. QED
    BY <2>9, <2>10, <2>11, <2>12 DEF HoldInv
<1>4. QED
  BY <1>2, <1>3 DEF Collect

\* The label tells that the block is as good as released: there is no pin.
LEMMA HoldGoes ==
    ASSUME CountInv, HoldInv, NEW t \in Threads, ~Idle(t), Head(stack[t]) \in {"zombie", "pins"},
           NEW x \in {"erase", "fast"}, Continue(t, <<x>>),
           x = "fast" => Head(stack[t]) = "pins",
           UNCHANGED <<registered, Terminating, Flags, ThreadID, removed, frees, locks, pins>>,
           defined("ZOMBIE"), ~Held'
    PROVE  HoldInv'
<1>1. /\ OthersKept(t)
      /\ x \in Labels \ (Accessing \cup {"msg_free", "shared"}) /\ x \notin OwnLock
      /\ Head(stack[t]) \notin Accessing \cup {"msg_free", "free"}
      /\ Head(stack[t]) \in Delivery => x \in Delivery
  BY DEF OthersKept, Labels, Accessing, OwnLock, Locking, Delivery
<1>2. /\ Regular(t) /\ "free" \notin Doing(t)
      /\ \A L : /\ Count(L)' = Count(L) - W(Head(stack[t]), L) + W(x, L)
                /\ Count(L) \in Nat
  BY <1>1, HoldMoves
<1>3. \A L \in {Freeing, Accessing, Errors, {"access_check"}, {"mark"}, {"teardown"}, {"shared"}} :
          W(Head(stack[t]), L) = 0 /\ W(x, L) = 0
  BY DEF W, Freeing, Accessing, Errors
<1>4. Fades
  BY <1>2, <1>3, FadesButGone
<1>5. SameMarks /\ (NoFlags => NoFlags') /\ LocksFade(t) /\ (NoPin => NoPin') /\ GoneInv'
  BY DEF SameMarks, Forced, collecting, defined, NoFlags, LocksFade, Unlocked, NoPin, GoneInv
<1>6. Terminating \/ HolderFrees => Terminating' \/ HolderFrees'
  BY <1>2, RegularStays
<1>7. QED
  BY <1>2, <1>4, <1>5, <1>6, HoldStays

LEMMA Hold_ReleaseZombie ==
    ASSUME CountInv, EndInv, HoldInv, NEW t \in Threads, ReleaseZombie(t)
    PROVE  HoldInv'
<1>1. /\ ~Idle(t) /\ Head(stack[t]) = "zombie" /\ stack \in Stacks
      /\ UNCHANGED <<registered, Terminating, Flags, ThreadID, removed, frees, locks, pins, Strong, Weak>>
  BY DEF ReleaseZombie, At, record, lock, block, clients, counts, CountInv, TypeOK, Stacks
<1>2. CASE Return(t)
  BY <1>2, Hold_Dull DEF DullStep
<1>3. CASE Strong = 0 /\ Weak = 0 /\ Continue(t, <<"erase">>)
  <2>1. defined("ZOMBIE")
    BY <1>1, TallyTop DEF EndInv, ZombieLate, Knowing
  <2>2. ~Held'
    BY <1>1, <1>3 DEF Held
  <2>3. QED
    BY <1>1, <1>3, <2>1, <2>2, HoldGoes
<1>4. QED
  BY <1>2, <1>3 DEF ReleaseZombie, Return

LEMMA Hold_CheckPins ==
    ASSUME CountInv, EndInv, HoldInv, NEW t \in Threads, CheckPins(t)
    PROVE  HoldInv'
<1>1. /\ ~Idle(t) /\ Head(stack[t]) = "pins" /\ stack \in Stacks
      /\ UNCHANGED <<registered, Terminating, Flags, ThreadID, removed, frees, locks, pins, Weak>>
  BY DEF CheckPins, At, record, lock, block, clients, CountInv, TypeOK, Stacks
<1>2. CASE Continue(t, <<"emplace">>) /\ UNCHANGED Strong
  BY <1>2, Hold_Dull DEF DullStep
<1>3. CASE LastPin /\ Strong' = 0 /\ Continue(t, <<"fast">>)
  <2>1. defined("ZOMBIE")
    BY <1>1, TallyTop DEF EndInv, ZombieLate, Knowing
  <2>2. ~Held'
    BY <1>1, <1>3 DEF Held, LastPin
  <2>3. QED
    BY <1>1, <1>3, <2>1, <2>2, HoldGoes
<1>4. QED
  BY <1>2, <1>3 DEF CheckPins

\* The block is released: it was as good as gone.
LEMMA Hold_free_object_block ==
    ASSUME CountInv, HoldInv, NEW t \in Threads, free_object_block(t)
    PROVE  HoldInv'
<1>1. /\ ~Idle(t) /\ Head(stack[t]) \in {"fast", "erase"} /\ Return(t) /\ stack \in Stacks
      /\ UNCHANGED <<registered, Terminating, Flags, ThreadID, removed, locks, pins, Strong, Weak>>
  BY DEF free_object_block, At, record, lock, clients, counts, CountInv, TypeOK, Stacks
<1>2. Gone
  BY <1>1, TallyTop DEF Gone
<1>3. GoneInv'
  BY <1>1, <1>2 DEF HoldInv, GoneInv, Held, defined
<1>4. OthersKept(t) /\ Head(stack[t]) \notin Accessing \cup {"msg_free", "free"}
  BY <1>1 DEF OthersKept, Accessing
<1>5. /\ Regular(t) /\ "free" \notin Doing(t)
      /\ \A L : Count(L)' = Count(L) - W(Head(stack[t]), L) /\ Count(L) \in Nat
  BY <1>1, <1>4, HoldLeaves
<1>6. \A L \in {Freeing, Accessing, Errors, {"access_check"}, {"mark"}, {"teardown"}, {"shared"}} :
          W(Head(stack[t]), L) = 0
  BY <1>1 DEF W, Freeing, Accessing, Errors
<1>7. Fades
  BY <1>1, <1>5, <1>6, FadesButGone
<1>8. SameMarks /\ (NoFlags => NoFlags') /\ LocksFade(t) /\ (NoPin => NoPin')
  BY <1>1 DEF SameMarks, Forced, collecting, defined, NoFlags, LocksFade, Unlocked, NoPin
<1>9. Terminating \/ HolderFrees => Terminating' \/ HolderFrees'
  BY <1>1, <1>5, RegularStays
<1>10. QED
  BY <1>1, <1>3, <1>5, <1>7, <1>8, <1>9, HoldStays

LEMMA Hold_BecomeZombie ==
    ASSUME CountInv, HoldInv, NEW t \in Threads, BecomeZombie(t)
    PROVE  HoldInv'
<1>1. /\ ~Idle(t) /\ Head(stack[t]) = "finish" /\ Continue(t, <<"pins">>)
      /\ Flags' = Flags \cup {"ZOMBIE"}
      /\ UNCHANGED <<registered, Terminating, ThreadID, removed, frees, locks, pins, Strong, Weak>>
  BY DEF BecomeZombie, At, record, lock, block, clients, counts
<1>2. /\ OthersKept(t) /\ {"finish", "pins"} \subseteq Dull
      /\ "pins" \in Labels \ (Accessing \cup {"msg_free", "shared"}) /\ "pins" \notin OwnLock
      /\ "finish" \notin Accessing \cup {"msg_free", "free"} /\ "finish" \notin Delivery
  BY <1>1 DEF OthersKept, Dull, Labels, Freeing, Accessing, Errors, OwnLock, Locking, Delivery
<1>3. /\ Regular(t) /\ "free" \notin Doing(t)
      /\ \A L : /\ Count(L)' = Count(L) - W(Head(stack[t]), L) + W("pins", L)
                /\ Count(L) \in Nat
  BY <1>1, <1>2, HoldMoves
<1>4. SameCalls
  BY <1>1, <1>2, <1>3, DullCalls
<1>5. Fades /\ (Gone' => Gone)
  BY <1>1, <1>4, SameFades DEF Gone
<1>6. SameMarks
  BY <1>1 DEF SameMarks, Forced, collecting, defined
<1>7. (NoFlags => NoFlags') /\ LocksFade(t) /\ (NoPin => NoPin')
  BY <1>1 DEF NoFlags, LocksFade, Unlocked, NoPin
<1>8. GoneInv'
  BY <1>1, <1>5 DEF HoldInv, GoneInv, Held, defined
<1>9. Terminating \/ HolderFrees => Terminating' \/ HolderFrees'
  BY <1>1, <1>3, RegularStays
<1>10. QED
  BY <1>1, <1>3, <1>5, <1>6, <1>7, <1>8, <1>9, HoldStays
-----------------------------------------------------------------------------
(* FreeObject() and msg_free().                                             *)

\* The claim is made, or another thread has it.
LEMMA Hold_FreeObject ==
    ASSUME CountInv, HoldInv, NEW t \in Threads, FreeObject(t)
    PROVE  HoldInv'
<1>1. /\ ~Idle(t) /\ Head(stack[t]) = "free"
      /\ Continue(t, <<"free_lock">>) \/ Return(t)
      /\ registered => Terminating'
      /\ UNCHANGED <<registered, Flags, ThreadID, removed, frees, locks, pins, Strong, Weak>>
      /\ Terminating \in BOOLEAN
  BY DEF FreeObject, Claimable, At, lock, block, clients, counts, CountInv, TypeOK
<1>2. /\ stack \in Stacks /\ Placed /\ OthersKept(t)
  BY <1>1 DEF CountInv, TypeOK, Stacks, Placed, OthersKept
<1>3. /\ {"free", "free_lock"} \subseteq Dull
      /\ "free_lock" \in Labels \ (Accessing \cup {"msg_free", "shared"})
      /\ "free" \notin Accessing \cup Delivery \cup {"msg_free"}
      /\ ({"free_lock"} \cup Callers) \cap (Accessing \cup OwnLock) = {}
  BY DEF Dull, Labels, Freeing, Accessing, Errors, OwnLock, Locking, Delivery, Callers
<1>4. /\ Plain(t) /\ Doing(t)' \subseteq Below(t) \cup {"free_lock"}
      /\ \A L \in HoldSets : Count(L)' = Count(L)
  <2>1. CASE Return(t)
    <3>1. /\ Plain(t) /\ Doing(t)' = Below(t)
          /\ \A L : Count(L)' = Count(L) - W("free", L)
      BY <1>1, <1>2, <1>3, <2>1, PlainReturns, Returns
    <3>2. QED
      BY <1>2, <1>3, <3>1, DullWeight, Tally
  <2>2. CASE Continue(t, <<"free_lock">>)
    <3>1. /\ Plain(t) /\ Doing(t)' = Below(t) \cup {"free_lock"}
          /\ \A L : Count(L)' = Count(L) - W("free", L) + W("free_lock", L)
      BY <1>1, <1>2, <1>3, <2>2, PlainGoesOn, GoesOn
    <3>2. QED
      BY <1>2, <1>3, <3>1, DullWeight, Tally
  <2>3. QED
    BY <1>1, <2>1, <2>2
<1>5. Doing(t) = Below(t) \cup {"free"} /\ Below(t) \subseteq Callers
  BY <1>1, <1>2, Inside DEF CountInv, Nested
<1>6. Regular(t)
  <2>1. /\ \A u \in Threads \ {t} : Doing(u)' = Doing(u)
        /\ \A u \in Threads : Delivers(u)' => Delivers(u)
    BY <1>4 DEF Plain, Alone
  <2>2. ~Delivers(t)'
    BY <1>3, <1>5, <2>1 DEF HoldInv, DeliverInv
  <2>3. Doing(t)' \cap Accessing = {} /\ Finishes(t)'
    BY <1>3, <1>4, <1>5 DEF Finishes
  <2>4. "msg_free" \in Doing(t)' => "msg_free" \in Doing(t)
    BY <1>4, <1>5
  <2>5. QED
    BY <2>1, <2>2, <2>3, <2>4 DEF Regular
<1>7. SameCalls
  BY <1>4 DEF SameCalls
<1>8. Fades /\ (Gone' => Gone)
  BY <1>1, <1>7, SameFades DEF Gone
<1>9. SameMarks /\ (NoFlags => NoFlags') /\ LocksFade(t) /\ (NoPin => NoPin')
  BY <1>1 DEF SameMarks, Forced, collecting, defined, NoFlags, LocksFade, Unlocked, NoPin
<1>10. GoneInv'
  BY <1>1, <1>8 DEF HoldInv, GoneInv, Held, defined
<1>11. QED
  BY <1>1, <1>6, <1>8, <1>9, <1>10, HoldStays

\* A thread that has the lock: no other has, and no other is at a label of one
\* that has.
LEMMA OnlyHolder ==
    ASSUME CountInv, NEW t \in Threads, HasLock(t)
    PROVE  /\ ThreadID = t
           /\ \A u \in Threads \ {t} :
                  locks[u] = 0 /\ ~Delivers(u) /\ Doing(u) \cap OwnLock = {}
<1>1. ThreadID = t
  BY DEF CountInv, OneHolder
<1>2. \A u \in Threads \ {t} : ~HasLock(u)
  BY <1>1 DEF CountInv, OneHolder
<1>3. \A u \in Threads : locks[u] \in Nat
  BY LifeAssumption DEF CountInv, TypeOK
<1>4. QED
  BY <1>1, <1>2, <1>3 DEF HasLock

\* msg_free() has the lock, and the object to itself.
LEMMA DeliveryAlone ==
    ASSUME CountInv, HoldInv, NEW t \in Threads, At(t, "msg_free")
    PROVE  /\ Doing(t) = {"msg_free"} /\ Below(t) = {} /\ ThreadID = t
           /\ registered /\ ~collecting /\ NoFlags /\ NoError
           /\ Unlocked /\ NoCheck /\ NoMark /\ Count(Freeing) = 0
           /\ \A u \in Threads \ {t} : ~Delivers(u)
<1>1. stack \in Stacks /\ ~Idle(t) /\ Head(stack[t]) = "msg_free"
  BY DEF CountInv, TypeOK, Stacks, At
<1>2. Len(stack[t]) \in Nat \ {0} /\ Height(stack[t], Len(stack[t])) = "msg_free"
  BY <1>1, Popped DEF Idle
<1>3. Len(stack[t]) = 1
  <2>1. Len(stack[t]) \in 1..Len(stack[t])
    BY <1>2
  <2>2. QED
    BY <1>2, <2>1 DEF CountInv, Nested
<1>4. Below(t) = {}
  BY <1>3 DEF Below
<1>5. Doing(t) = {"msg_free"}
  BY <1>1, <1>4, Inside
<1>6. Delivers(t)
  BY <1>5 DEF Delivers, Accessing
<1>7. /\ ThreadID = t
      /\ \A u \in Threads \ {t} : locks[u] = 0 /\ ~Delivers(u) /\ Doing(u) \cap OwnLock = {}
  BY <1>6, OnlyHolder DEF HasLock
<1>8. registered /\ ~collecting /\ NoFlags /\ NoError /\ Unlocked
  BY <1>5, <1>6, <1>7 DEF HoldInv, DeliverInv, NoDelivery, Unlocked
<1>9. \A u \in Threads : Doing(u) \cap OwnLock = {}
  BY <1>5, <1>7 DEF OwnLock
<1>10. \A L : L \subseteq OwnLock => Count(L) = 0
  BY <1>1, <1>9, TallyDoing
<1>11. NoCheck /\ NoMark /\ Count(Freeing) = 0
  BY <1>10 DEF NoCheck, NoMark, Freeing, OwnLock, Locking
<1>12. QED
  BY <1>4, <1>5, <1>7, <1>8, <1>11

\* From here on the termination is forced.
LEMMA Hold_msg_free ==
    ASSUME CountInv, EndInv, HoldInv, NEW t \in Threads, msg_free(t)
    PROVE  HoldInv'
<1>1. /\ ~Idle(t) /\ Head(stack[t]) = "msg_free" /\ Continue(t, <<"free">>) /\ At(t, "msg_free")
      /\ Flags' = Flags \cup {"PERMIT_TERMINATE"}
      /\ UNCHANGED <<registered, Terminating, ThreadID, removed, frees, locks, pins, Strong, Weak>>
  BY DEF msg_free, At, record, lock, block, clients, counts
<1>2. /\ Doing(t) = {"msg_free"} /\ Below(t) = {} /\ ThreadID = t
      /\ registered /\ ~collecting /\ NoFlags /\ NoError
      /\ Unlocked /\ NoCheck /\ NoMark /\ Count(Freeing) = 0
      /\ \A u \in Threads \ {t} : ~Delivers(u)
  BY <1>1, DeliveryAlone
<1>3. stack \in Stacks /\ {"msg_free", "free"} \subseteq Dull /\ "free" \in Labels /\ ~Gone
  BY <1>2, NotGone DEF CountInv, TypeOK, Stacks, Dull, Labels, Freeing, Accessing, Errors
<1>4. /\ Alone(t) /\ Doing(t)' = {"free"}
      /\ \A L : Count(L)' = Count(L) - W("msg_free", L) + W("free", L)
  BY <1>1, <1>2, <1>3, GoesOn
<1>5. SameCalls
  <2>1. ASSUME NEW L \in HoldSets PROVE Count(L)' = Count(L)
    BY <1>3, <1>4, DullWeight, Tally
  <2>2. QED
    BY <2>1 DEF SameCalls
<1>6. Fades /\ ~Gone'
  BY <1>1, <1>3, <1>5, SameFades DEF Gone
<1>7. NoDelivery' /\ HolderOut' /\ HolderFrees'
  <2>1. \A u \in Threads : ~Delivers(u)'
    BY <1>2, <1>4 DEF Delivers, Alone
  <2>2. QED
    BY <1>1, <1>2, <1>4, <2>1 DEF NoDelivery, HolderOut, HolderFrees, Accessing
<1>8. /\ Forced' /\ ~Doomed' /\ ~collecting' /\ ~defined("FREE")' /\ ~defined("FREE_ON_UNLOCK")'
      /\ NoFlags' /\ NoError' /\ Unlocked' /\ NoCheck' /\ NoMark' /\ registered'
  <2>1. NoFlags' /\ Unlocked' /\ registered'
    BY <1>1, <1>2 DEF NoFlags, Unlocked
  <2>2. Forced' /\ ~collecting' /\ ~defined("FREE")' /\ ~defined("FREE_ON_UNLOCK")'
    BY <1>1, <1>2 DEF Forced, collecting, defined
  <2>3. ~Doomed' /\ NoError' /\ NoCheck' /\ NoMark'
    BY <1>2, <1>6 DEF Fades, Doomed
  <2>4. QED
    BY <2>1, <2>2, <2>3
<1>9. UnusedInv' /\ TornInv' /\ SharedInv' /\ FlaggedInv' /\ GoneInv' /\ FinishInv'
  BY <1>6, <1>8 DEF Fades, HoldInv, UnusedInv, TornInv, SharedInv, FlaggedInv, GoneInv, FinishInv
<1>10. ForcedInv'
  BY <1>7, <1>8 DEF ForcedInv
<1>11. DeliverInv'
  <2>1. \A u \in Threads : locks'[u] = 0 /\ ~Delivers(u)'
    BY <1>7, <1>8 DEF Unlocked, NoDelivery
  <2>2. QED
    BY <1>7, <2>1 DEF DeliverInv
<1>12. QED
  BY <1>9, <1>10, <1>11 DEF HoldInv
-----------------------------------------------------------------------------
(* object_free().                                                           *)

\* Whoever has the claim is the only one to have it.
LEMMA ClaimAlone ==
    ASSUME CountInv, EndInv, NEW t \in Threads, ~Idle(t), Head(stack[t]) \in Claiming
    PROVE  /\ registered /\ Terminating /\ Count(Claiming) = 1
           /\ \A L : L \subseteq Claiming /\ Head(stack[t]) \notin L => Count(L) = 0
           /\ \A L : L \subseteq Claiming /\ Head(stack[t]) \in L => Count(L) = 1
<1>1. stack \in Stacks
  BY DEF CountInv, TypeOK, Stacks
<1>2. Count(Claiming) \in Nat \ {0} /\ Count(Ending) \in Nat
  BY <1>1, TallyTop, Tally
<1>3. registered /\ Terminating /\ Count(Claiming) = 1
  BY <1>2 DEF EndInv, OneClaim
<1>4. ASSUME NEW L, L \subseteq Claiming, Head(stack[t]) \notin L PROVE Count(L) = 0
  <2>1. Count({Head(stack[t])}) \in Nat \ {0} /\ Count(L) \in Nat
    BY <1>1, TallyTop, Tally
  <2>2. Count({Head(stack[t])}) + Count(L) <= Count(Claiming)
    BY <1>1, <1>4, TallyTwo
  <2>3. QED
    BY <1>3, <2>1, <2>2
<1>5. ASSUME NEW L, L \subseteq Claiming, Head(stack[t]) \in L PROVE Count(L) = 1
  <2>1. Count(L) \in Nat \ {0}
    BY <1>1, <1>5, TallyTop
  <2>2. Count(L) <= Count(Claiming)
    BY <1>1, <1>5, TallyPart DEF Count
  <2>3. QED
    BY <1>3, <2>1, <2>2
<1>6. QED
  BY <1>3, <1>4, <1>5

\* Before the checks the object is not doomed.
LEMMA ClaimEarly ==
    ASSUME CountInv, EndInv, HoldInv, NEW t \in Threads, ~Idle(t),
           Head(stack[t]) \in Claiming \ Freeing
    PROVE  /\ registered /\ Terminating /\ ~Doomed /\ ~InTeardown /\ ~Gone
           /\ ~defined("FREE") /\ Count(Freeing) = 0
<1>1. registered /\ Terminating /\ Count(Freeing) = 0 /\ Count({"teardown"}) = 0
  <2>1. Freeing \subseteq Claiming /\ {"teardown"} \subseteq Freeing
    BY DEF Freeing, Claiming
  <2>2. QED
    BY <2>1, ClaimAlone
<1>2. ~Doomed /\ ~InTeardown
  BY <1>1 DEF Doomed, InTeardown
<1>3. ~Gone /\ ~defined("FREE")
  BY <1>1, <1>2, NotGone DEF HoldInv, TornInv
<1>4. QED
  BY <1>1, <1>2, <1>3

\* The other labels than those of two sets.
LEMMA FreeLabels ==
    /\ Claiming \subseteq Labels \ (Accessing \cup {"msg_free", "shared"} \cup Delivery)
    /\ Claiming \cap {"free", "finish"} = {}
    /\ Claiming \cap OwnLock = {"free_check", "mark", "warn", "begin", "teardown"}
    /\ {"free_lock", "free_sleep", "free_check"} \subseteq Dull
    /\ Freeing \subseteq Claiming /\ Errors \subseteq Claiming \ Freeing
  BY DEF Claiming, Labels, Accessing, Delivery, OwnLock, Locking, Dull, Freeing, Errors

\* object_free() has the lock.
LEMMA HoldLocked ==
    ASSUME CountInv, EndInv, HoldInv, NEW t \in Threads, ~Idle(t),
           Head(stack[t]) \in {"free_lock", "free_sleep"},
           TakeLock(t), Continue(t, <<"free_check">>),
           UNCHANGED <<registered, Terminating, Flags, removed, frees, locks, pins, Strong, Weak>>
    PROVE  HoldInv'
<1>1. OthersKept(t) /\ Head(stack[t]) \in Claiming \ Freeing
  BY DEF OthersKept, Claiming, Freeing
<1>2. registered /\ Terminating
  BY <1>1, ClaimEarly
<1>3. /\ Regular(t)
      /\ \A L : /\ Count(L)' = Count(L) - W(Head(stack[t]), L) + W("free_check", L)
                /\ Count(L) \in Nat
  <2>1. "free_check" \in Labels \ (Accessing \cup {"msg_free", "shared"})
    BY FreeLabels DEF Claiming
  <2>2. /\ Head(stack[t]) \notin Accessing \cup {"msg_free", "free"}
        /\ Head(stack[t]) # "finish" /\ Head(stack[t]) \notin Delivery
    BY <1>1, FreeLabels
  <2>3. QED
    BY <1>1, <1>2, <2>1, <2>2, HoldMoves
<1>4. SameCalls
  BY <1>3, FreeLabels, DullCalls
<1>5. Fades /\ GoneInv'
  BY <1>2, <1>4, SameFades, InPlace
<1>6. SameMarks /\ (NoFlags => NoFlags') /\ LocksFade(t) /\ (NoPin => NoPin')
  BY DEF SameMarks, Forced, collecting, defined, NoFlags, LocksFade, Unlocked, NoPin
<1>7. Forced => ThreadID' = ThreadID
  BY NotGranted
<1>8. QED
  BY <1>2, <1>3, <1>5, <1>6, <1>7, HoldStays

\* Without messages there is neither a delivery nor a forced termination.
LEMMA NobodyDelivers ==
    ASSUME CountInv, ~Messages
    PROVE  NoDelivery /\ ~Forced
  BY DEF CountInv, Nested, NoDelivery, Delivers, Doing, Forced

\* It is refused the lock: somebody else removes or has marked the object, or
\* the wait is broken off.
LEMMA HoldDenied ==
    ASSUME CountInv, EndInv, HoldInv, NEW t \in Threads, ~Idle(t),
           Head(stack[t]) \in {"free_lock", "free_sleep"},
           Continue(t, <<"denied">>), collecting \/ ~NoFlags \/ ~Messages,
           removed' \subseteq removed,
           UNCHANGED <<registered, Terminating, Flags, ThreadID, frees, locks, pins, Strong, Weak>>
    PROVE  HoldInv'
<1>1. OthersKept(t) /\ Head(stack[t]) \in Claiming \ Freeing
  BY DEF OthersKept, Claiming, Freeing
<1>2. registered /\ ~Doomed /\ ~InTeardown /\ ~Gone
  BY <1>1, ClaimEarly
<1>3. ~Forced /\ NoDelivery /\ (collecting \/ NoAccess \/ ~Messages)
  <2>1. CASE ~Messages
    BY <2>1, NobodyDelivers
  <2>2. CASE collecting \/ ~NoFlags
    BY <1>2, <2>2 DEF HoldInv, ForcedInv, DeliverInv, FlaggedInv
  <2>3. QED
    BY <2>1, <2>2
<1>4. /\ Regular(t)
      /\ \A L : /\ Count(L)' = Count(L) - W(Head(stack[t]), L) + W("denied", L)
                /\ Count(L) \in Nat
  <2>1. "denied" \in Labels \ (Accessing \cup {"msg_free", "shared"})
    BY FreeLabels DEF Claiming
  <2>2. /\ Head(stack[t]) \notin Accessing \cup {"msg_free", "free"}
        /\ Head(stack[t]) # "finish" /\ Head(stack[t]) \notin Delivery
    BY <1>1, FreeLabels
  <2>3. QED
    BY <1>1, <1>2, <2>1, <2>2, HoldMoves
<1>5. /\ Count(Freeing)' = Count(Freeing) /\ Count(Accessing)' = Count(Accessing)
      /\ Count({"shared"})' = Count({"shared"}) /\ Count({"teardown"})' = Count({"teardown"})
      /\ Count({"fast", "erase"})' = Count({"fast", "erase"})
  <2>1. \A L \in {Freeing, Accessing, {"shared"}, {"teardown"}, {"fast", "erase"}} :
            W(Head(stack[t]), L) = 0 /\ W("denied", L) = 0
    BY DEF W, Freeing, Accessing
  <2>2. ASSUME NEW L, W(Head(stack[t]), L) = 0 /\ W("denied", L) = 0 PROVE Count(L)' = Count(L)
    BY <1>4, <2>2
  <2>3. QED
    BY <2>1, <2>2
<1>6. /\ ~Doomed' /\ ~Forced' /\ ~Gone' /\ (defined("FREE")' <=> defined("FREE"))
      /\ NoShared => NoShared'
      /\ NoAccess => NoAccess'
      /\ InTeardown => InTeardown'
      /\ collecting => collecting'
      /\ NoFlags => NoFlags'
      /\ collecting' => collecting
  BY <1>2, <1>3, <1>5 DEF Doomed, Forced, Gone, defined, NoShared, NoAccess, InTeardown, collecting,
    NoFlags
<1>7. FlaggedInv'
  BY <1>2, <1>3, <1>6 DEF HoldInv, FlaggedInv, NoError
<1>8. DeliverInv'
  <2>1. LocksFade(t)
    BY DEF LocksFade, Unlocked
  <2>2. QED
    BY <1>3, <1>4, <2>1, DeliverStays
<1>9. QED
  BY <1>2, <1>6, <1>7, <1>8, LiveHolds

LEMMA Hold_FreeLock ==
    ASSUME CountInv, EndInv, HoldInv, NEW t \in Threads, FreeLock(t)
    PROVE  HoldInv'
<1>1. /\ ~Idle(t) /\ Head(stack[t]) \in {"free_lock", "free_sleep"}
      /\ UNCHANGED <<registered, Terminating, Flags, frees, locks, pins, Strong, Weak>>
  BY DEF FreeLock, At, record, block, clients, counts
<1>2. CASE TakeLock(t) /\ Continue(t, <<"free_check">>) /\ removed' = removed
  BY <1>1, <1>2, HoldLocked
<1>3. CASE Continue(t, <<"free_sleep">>) /\ removed' = removed /\ ThreadID' = ThreadID
  <2>1. Quietly(t) /\ pins' = pins
    BY <1>1, <1>3 DEF Quietly, Held
  <2>2. /\ {"free_lock", "free_sleep"} \subseteq Dull \ {"msg_free", "free"}
        /\ "free_sleep" \in Dull \ {"msg_free", "shared"} /\ "free_sleep" \notin OwnLock
        /\ {"free_lock", "free_sleep"} \cap Delivery = {}
    BY FreeLabels DEF OwnLock, Locking, Delivery
  <2>3. QED
    BY <1>1, <1>3, <2>1, <2>2, HoldGoesOn
<1>4. CASE /\ Continue(t, <<"denied">>) /\ (collecting \/ t \in removed)
           /\ removed' \subseteq removed /\ ThreadID' = ThreadID
  <2>1. collecting \/ ~NoFlags
    BY <1>4 DEF NoFlags
  <2>2. QED
    BY <1>1, <1>4, <2>1, HoldDenied
<1>5. QED
  BY <1>2, <1>3, <1>4 DEF FreeLock, Lock, Unflag, lock

LEMMA Hold_FreeLockFails ==
    ASSUME Messages => ~Interrupts, CountInv, EndInv, HoldInv, NEW t \in Threads, FreeLockFails(t)
    PROVE  HoldInv'
<1>1. /\ ~Idle(t) /\ Head(stack[t]) = "free_sleep" /\ ~Messages
      /\ Continue(t, <<"denied">>) /\ removed' \subseteq removed /\ ThreadID' = ThreadID
      /\ UNCHANGED <<registered, Terminating, Flags, frees, locks, pins, Strong, Weak>>
  BY DEF FreeLockFails, At, Unflag, record, block, clients, counts
<1>2. QED
  BY <1>1, HoldDenied

\* A call goes on at two labels.
LEMMA HoldCalls ==
    ASSUME CountInv, HoldInv, NEW t \in Threads, OthersKept(t), ~Idle(t),
           Head(stack[t]) \in OwnLock \ Delivery, Head(stack[t]) # "access_check",
           NEW y \in {"refused", "finish"}, Continue(t, <<"unlock", y>>)
    PROVE  /\ Plain(t) /\ Regular(t) /\ "free" \notin Doing(t)
           /\ Doing(t)' = Below(t) \cup {"unlock", y}
           /\ \A L : /\ Count(L)' = Count(L) - W(Head(stack[t]), L) + W("unlock", L) + W(y, L)
                     /\ Count(L) \in Nat /\ Count(L)' \in Nat
<1>1. stack \in Stacks /\ Placed /\ y \in Labels
  BY DEF CountInv, TypeOK, Stacks, Placed, Labels
<1>2. /\ Head(stack[t]) \notin Accessing \cup {"msg_free", "free"} /\ Head(stack[t]) # "finish"
      /\ Head(stack[t]) \notin Accessing \cup {"msg_free"}
      /\ "unlock" \in Labels \ (Accessing \cup {"msg_free", "shared"})
      /\ {"unlock", y} \cap (Accessing \cup {"msg_free"}) = {}
  BY DEF OwnLock, Locking, Accessing, Labels
<1>3. /\ Plain(t)
      /\ \A L : Count(L)' = Count(L) - W(Head(stack[t]), L) + W("unlock", L) + W(y, L)
  <2>1. "unlock" \in Labels /\ Head(stack[t]) \notin Accessing \cup {"msg_free"}
    BY <1>2
  <2>2. Plain(t)
    BY <1>1, <1>2, <2>1, PlainCallsTwo
  <2>3. \A L : Count(L)' = Count(L) - W(Head(stack[t]), L) + W("unlock", L) + W(y, L)
    BY <1>1, <2>1, CallsTwo
  <2>4. QED
    BY <2>2, <2>3
<1>4. Doing(t)' = Below(t) \cup {"unlock", y} /\ stack' \in Stacks
  BY <1>1, <1>2, <1>3, CallsTwo DEF Alone
<1>5. Regular(t) /\ "free" \notin Doing(t)
  BY <1>2, <1>3, <1>4, RegularMove
<1>6. QED
  BY <1>1, <1>3, <1>4, <1>5, Tally, TallyNext

\* The claimant has the lock: nobody else has, nor is msg_free() about to force
\* the termination.
LEMMA FreeAlone ==
    ASSUME CountInv, HoldInv, NEW t \in Threads, ~Idle(t),
           Head(stack[t]) \in {"free_check", "mark", "warn", "begin", "teardown"}
    PROVE  /\ ThreadID = t /\ NoDelivery
           /\ Head(stack[t]) \in OwnLock \ Delivery /\ Head(stack[t]) # "access_check"
           /\ Head(stack[t]) \notin Accessing \cup {"msg_free", "free", "finish"}
           /\ \A u \in Threads \ {t} : Doing(u) \cap OwnLock = {}
<1>1. /\ Head(stack[t]) \in OwnLock \ Delivery /\ Head(stack[t]) # "access_check"
      /\ Head(stack[t]) \notin Accessing \cup {"msg_free", "free", "finish"}
  BY DEF OwnLock, Locking, Delivery, Accessing
<1>2. Head(stack[t]) \in Doing(t)
  BY Inside DEF CountInv, TypeOK, Stacks
<1>3. /\ ThreadID = t
      /\ \A u \in Threads \ {t} : ~Delivers(u) /\ Doing(u) \cap OwnLock = {}
  BY <1>1, <1>2, OnlyHolder DEF HasLock
<1>4. ~Delivers(t)
  BY <1>1, <1>2 DEF HoldInv, DeliverInv
<1>5. QED
  BY <1>1, <1>3, <1>4 DEF NoDelivery

\* Its lock is the only one.
LEMMA OnlyLock ==
    ASSUME CountInv, NEW t \in Threads, ~Idle(t), Head(stack[t]) \in OwnLock, ~(Queue > 1)
    PROVE  Unlocked
<1>1. /\ stack \in Stacks /\ locks \in [Threads -> Nat] /\ Queue \in Nat /\ Queue >= LocksOwed
      /\ \A u \in Threads : locks[u] \in 0..MaxLocks /\ MaxLocks \in Nat
  BY LifeAssumption DEF CountInv, TypeOK, Stacks, LocksAccounted
<1>2. /\ Count(OwnLock) \in Nat \ {0} /\ Cardinality(LocksOf(locks)) \in Nat
      /\ Cardinality(Delivering) \in Nat /\ Kept \in {0, 1}
  BY <1>1, TallyTop, Owed DEF Sums, Kept
<1>3. Cardinality(LocksOf(locks)) = 0
  BY <1>1, <1>2 DEF LocksOwed
<1>4. LocksOf(locks) = {}
  BY <1>1, <1>3, LocksFinite, FS_EmptySet
<1>5. ASSUME NEW u \in Threads PROVE locks[u] = 0
  <2>1. SUFFICES ASSUME locks[u] > 0 PROVE FALSE
    BY <1>1
  <2>2. <<u, 1>> \in LocksOf(locks)
    BY <1>1, <2>1 DEF LocksOf
  <2>3. QED
    BY <1>4, <2>2
<1>6. QED
  BY <1>5 DEF Unlocked

\* The object is in use: it is to be marked.
LEMMA HoldInUse ==
    ASSUME CountInv, EndInv, HoldInv, NEW t \in Threads, ~Idle(t), Head(stack[t]) = "free_check",
           ~Forced, Continue(t, <<"mark">>),
           UNCHANGED <<registered, Terminating, Flags, ThreadID, removed, frees, locks, pins, Strong, Weak>>
    PROVE  HoldInv'
<1>1. registered /\ ~Doomed /\ ~Gone
  BY ClaimEarly DEF Claiming, Freeing
<1>2. OthersKept(t) /\ NoDelivery /\ Head(stack[t]) \notin Accessing \cup {"msg_free", "free", "finish"}
  BY FreeAlone DEF OthersKept
<1>3. /\ Regular(t)
      /\ \A L : /\ Count(L)' = Count(L) - W("free_check", L) + W("mark", L)
                /\ Count(L) \in Nat
  <2>1. "mark" \in Labels \ (Accessing \cup {"msg_free", "shared"})
    BY FreeLabels DEF Claiming
  <2>2. "free_check" \notin Delivery
    BY DEF Delivery
  <2>3. QED
    BY <1>1, <1>2, <2>1, <2>2, HoldMoves
<1>4. /\ Count(Freeing)' = Count(Freeing) /\ Count(Accessing)' = Count(Accessing)
      /\ Count({"shared"})' = Count({"shared"}) /\ Count({"teardown"})' = Count({"teardown"})
      /\ Count({"fast", "erase"})' = Count({"fast", "erase"}) /\ Count(Errors)' = Count(Errors)
  <2>1. \A L \in {Freeing, Accessing, {"shared"}, {"teardown"}, {"fast", "erase"}, Errors} :
            W("free_check", L) = 0 /\ W("mark", L) = 0
    BY DEF W, Freeing, Accessing, Errors
  <2>2. ASSUME NEW L, W("free_check", L) = 0 /\ W("mark", L) = 0 PROVE Count(L)' = Count(L)
    BY <1>3, <2>2
  <2>3. QED
    BY <2>1, <2>2
<1>5. /\ ~Doomed' /\ ~Forced' /\ ~Gone' /\ (defined("FREE")' <=> defined("FREE"))
      /\ NoShared => NoShared'
      /\ NoAccess => NoAccess'
      /\ NoError => NoError'
      /\ NoFlags => NoFlags'
      /\ InTeardown => InTeardown'
      /\ collecting => collecting'
  BY <1>1, <1>4
     DEF Doomed, Forced, Gone, defined, NoShared, NoAccess, NoError, NoFlags, InTeardown, collecting
<1>6. FlaggedInv'
  BY <1>1, <1>5 DEF HoldInv, FlaggedInv
<1>7. DeliverInv'
  <2>1. LocksFade(t)
    BY DEF LocksFade, Unlocked
  <2>2. QED
    BY <1>2, <1>3, <2>1, DeliverStays
<1>8. QED
  BY <1>1, <1>5, <1>6, <1>7, LiveHolds

\* It is not, or that does not matter: the object is doomed from here on.
LEMMA HoldDooms ==
    ASSUME CountInv, EndInv, HoldInv, NEW t \in Threads, ~Idle(t), Head(stack[t]) = "free_check",
           ~InUse, Continue(t, <<"warn">>),
           UNCHANGED <<registered, Terminating, Flags, ThreadID, removed, frees, locks, pins, Strong, Weak>>
    PROVE  HoldInv'
<1>1. registered /\ Terminating /\ ~Doomed /\ ~Gone
  BY ClaimEarly DEF Claiming, Freeing
<1>2. /\ OthersKept(t) /\ NoDelivery /\ stack \in Stacks
      /\ Head(stack[t]) \notin Accessing \cup {"msg_free", "free", "finish"}
  BY FreeAlone DEF OthersKept, CountInv, TypeOK, Stacks
<1>3. /\ Regular(t)
      /\ \A L : /\ Count(L)' = Count(L) - W("free_check", L) + W("warn", L)
                /\ Count(L) \in Nat
  <2>1. "warn" \in Labels \ (Accessing \cup {"msg_free", "shared"})
    BY FreeLabels DEF Claiming
  <2>2. "free_check" \notin Delivery
    BY DEF Delivery
  <2>3. QED
    BY <1>1, <1>2, <2>1, <2>2, HoldMoves
<1>4. /\ Count({"access_check"})' = Count({"access_check"}) /\ Count(Accessing)' = Count(Accessing)
      /\ Count({"shared"})' = Count({"shared"}) /\ Count({"teardown"})' = Count({"teardown"})
      /\ Count({"fast", "erase"})' = Count({"fast", "erase"}) /\ Count(Errors)' = Count(Errors)
      /\ Count({"mark"})' = Count({"mark"})
  <2>1. \A L \in {{"access_check"}, Accessing, {"shared"}, {"teardown"}, {"fast", "erase"}, Errors, {"mark"}} :
            W("free_check", L) = 0 /\ W("warn", L) = 0
    BY DEF W, Accessing, Errors
  <2>2. ASSUME NEW L, W("free_check", L) = 0 /\ W("warn", L) = 0 PROVE Count(L)' = Count(L)
    BY <1>3, <2>2
  <2>3. QED
    BY <2>1, <2>2
<1>5. ~Forced => Unlocked /\ NoCheck /\ NoAccess /\ NoPin
  <2>1. SUFFICES ASSUME ~Forced PROVE Unlocked /\ NoCheck /\ NoAccess /\ NoPin
    OBVIOUS
  <2>2. ~(Queue > 1) /\ Strong = 0
    BY <2>1 DEF InUse, Forced, isPinned, CountInv, TypeOK
  <2>3. Unlocked
    BY <2>2, OnlyLock DEF OwnLock, Locking
  <2>4. Count(Pinning) = 0 /\ NoPin
    BY <2>2, NoPins DEF NoPin
  <2>5. ASSUME NEW L, L \subseteq Pinning PROVE Count(L) = 0
    <3>1. Count(L) <= Count(Pinning) /\ Count(L) \in Nat
      BY <1>2, <2>5, TallyPart, Tally DEF Count
    <3>2. QED
      BY <2>4, <3>1
  <2>6. {"access_check"} \subseteq Pinning /\ Accessing \subseteq Pinning
    BY DEF Pinning, Accessing
  <2>7. QED
    BY <2>3, <2>4, <2>5, <2>6 DEF NoCheck, NoAccess
<1>6. Unlocked /\ NoCheck
  BY <1>5 DEF HoldInv, ForcedInv
<1>7. /\ Unlocked' /\ ~Gone'
      /\ NoCheck' <=> NoCheck
      /\ NoAccess' <=> NoAccess
      /\ NoMark' <=> NoMark
      /\ NoError' <=> NoError
      /\ NoShared' <=> NoShared
      /\ InTeardown' <=> InTeardown
      /\ NoPin' <=> NoPin
      /\ NoFlags' <=> NoFlags
      /\ SameMarks
  <2>1. Unlocked' /\ ~Gone' /\ (NoPin' <=> NoPin) /\ (NoFlags' <=> NoFlags)
    BY <1>1, <1>4, <1>6 DEF Unlocked, Gone, NoPin, NoFlags
  <2>2. /\ NoCheck' <=> NoCheck
        /\ NoAccess' <=> NoAccess
        /\ NoMark' <=> NoMark
        /\ NoError' <=> NoError
        /\ NoShared' <=> NoShared
        /\ InTeardown' <=> InTeardown
    BY <1>4 DEF NoCheck, NoAccess, NoMark, NoError, NoShared, InTeardown
  <2>3. SameMarks
    BY DEF SameMarks, Forced, collecting, defined
  <2>4. QED
    BY <2>1, <2>2, <2>3
<1>8. UnusedInv' /\ TornInv' /\ SharedInv'
  BY <1>5, <1>6, <1>7 DEF SameMarks, HoldInv, UnusedInv, TornInv, SharedInv
<1>9. ForcedInv'
  <2>1. (NoDelivery => NoDelivery') /\ (HolderOut => HolderOut') /\ Terminating'
    BY <1>1, <1>3, RegularStays
  <2>2. QED
    BY <1>1, <1>7, <2>1 DEF SameMarks, HoldInv, ForcedInv
<1>10. FlaggedInv' /\ GoneInv' /\ FinishInv'
  BY <1>1, <1>7 DEF SameMarks, HoldInv, FlaggedInv, GoneInv, FinishInv
<1>11. DeliverInv'
  <2>1. LocksFade(t)
    BY DEF LocksFade, Unlocked
  <2>2. QED
    BY <1>2, <1>3, <2>1, DeliverStays
<1>12. QED
  BY <1>8, <1>9, <1>10, <1>11 DEF HoldInv

LEMMA Hold_FreeCheck ==
    ASSUME CountInv, EndInv, HoldInv, NEW t \in Threads, FreeCheck(t)
    PROVE  HoldInv'
<1>1. /\ ~Idle(t) /\ Head(stack[t]) = "free_check"
      /\ UNCHANGED <<registered, Terminating, Flags, ThreadID, removed, frees, locks, pins, Strong, Weak>>
  BY DEF FreeCheck, At, record, lock, block, clients, counts
<1>2. ~defined("FREE")
  BY <1>1, ClaimEarly DEF Claiming, Freeing
<1>3. CASE InUse
  <2>1. ~Forced /\ Continue(t, <<"mark">>)
    BY <1>3 DEF FreeCheck, InUse, Forced
  <2>2. QED
    BY <1>1, <2>1, HoldInUse
<1>4. CASE ~InUse
  <2>1. Continue(t, <<"warn">>)
    BY <1>2, <1>4 DEF FreeCheck
  <2>2. QED
    BY <1>1, <1>4, <2>1, HoldDooms
<1>5. QED
  BY <1>3, <1>4

\* The object stays, and is marked instead.
LEMMA Hold_MarkForDeletion ==
    ASSUME CountInv, EndInv, HoldInv, NEW t \in Threads, MarkForDeletion(t)
    PROVE  HoldInv'
<1>1. /\ ~Idle(t) /\ Head(stack[t]) = "mark" /\ Continue(t, <<"unlock", "refused">>)
      /\ stack \in Stacks /\ Flags' = Flags \cup {"FREE_ON_UNLOCK"}
      /\ UNCHANGED <<registered, Terminating, ThreadID, removed, frees, locks, pins, Strong, Weak>>
  BY DEF MarkForDeletion, At, record, lock, block, clients, counts, CountInv, TypeOK, Stacks
<1>2. registered /\ ~Doomed /\ ~Gone
  BY <1>1, ClaimEarly DEF Claiming, Freeing
<1>3. OthersKept(t) /\ NoDelivery /\ Head(stack[t]) \in OwnLock \ Delivery
  BY <1>1, FreeAlone DEF OthersKept
<1>4. ~Forced
  <2>1. ~NoMark
    BY <1>1, TallyTop DEF NoMark
  <2>2. QED
    BY <2>1 DEF HoldInv, ForcedInv
<1>5. /\ Regular(t)
      /\ \A L : /\ Count(L)' = Count(L) - W("mark", L) + W("unlock", L) + W("refused", L)
                /\ Count(L) \in Nat
  BY <1>1, <1>3, HoldCalls
<1>6. /\ Count(Freeing)' = Count(Freeing) /\ Count({"shared"})' = Count({"shared"})
      /\ Count({"teardown"})' = Count({"teardown"}) /\ Count({"fast", "erase"})' = Count({"fast", "erase"})
  <2>1. \A L \in {Freeing, {"shared"}, {"teardown"}, {"fast", "erase"}} :
            W("mark", L) = 0 /\ W("unlock", L) = 0 /\ W("refused", L) = 0
    BY DEF W, Freeing
  <2>2. ASSUME NEW L, W("mark", L) = 0 /\ W("unlock", L) = 0 /\ W("refused", L) = 0
        PROVE  Count(L)' = Count(L)
    BY <1>5, <2>2
  <2>3. QED
    BY <2>1, <2>2
<1>7. /\ ~Doomed' /\ ~Forced' /\ ~Gone' /\ (defined("FREE")' <=> defined("FREE"))
      /\ NoShared => NoShared'
      /\ InTeardown => InTeardown'
      /\ collecting'
  BY <1>1, <1>2, <1>4, <1>6 DEF Doomed, Forced, Gone, defined, NoShared, InTeardown, collecting
<1>8. FlaggedInv'
  BY <1>7 DEF FlaggedInv
<1>9. DeliverInv'
  <2>1. LocksFade(t)
    BY <1>1 DEF LocksFade, Unlocked
  <2>2. QED
    BY <1>3, <1>5, <2>1, DeliverStays
<1>10. QED
  BY <1>2, <1>7, <1>8, <1>9, LiveHolds

\* The class refuses to let the object go: nobody has asked by message.
LEMMA HoldRefuses ==
    ASSUME CountInv, EndInv, HoldInv, NEW t \in Threads, ~Idle(t), Head(stack[t]) = "warn",
           ~Messages, Continue(t, <<"unlock", "refused">>),
           UNCHANGED <<registered, Terminating, Flags, ThreadID, removed, frees, locks, pins, Strong, Weak>>
    PROVE  HoldInv'
<1>1. registered /\ Count(Freeing) = 1 /\ Count({"teardown"}) = 0
  <2>1. /\ Freeing \subseteq Claiming /\ {"teardown"} \subseteq Claiming
        /\ "warn" \in Freeing /\ "warn" \in Claiming /\ "warn" \notin {"teardown"}
    BY DEF Freeing, Claiming
  <2>2. QED
    BY <2>1, ClaimAlone
<1>2. OthersKept(t) /\ NoDelivery /\ Head(stack[t]) \in OwnLock \ Delivery
  BY FreeAlone DEF OthersKept
<1>3. ~Forced
  BY DEF CountInv, Forced
<1>4. ~Gone /\ NoAccess
  BY <1>1, <1>3, NotGone DEF HoldInv, UnusedInv, Doomed
<1>5. /\ Regular(t)
      /\ \A L : /\ Count(L)' = Count(L) - W("warn", L) + W("unlock", L) + W("refused", L)
                /\ Count(L) \in Nat
  BY <1>2, HoldCalls
<1>6. /\ Count(Freeing)' = 0 /\ Count({"shared"})' = Count({"shared"})
      /\ Count(Accessing)' = Count(Accessing)
      /\ Count({"teardown"})' = Count({"teardown"}) /\ Count({"fast", "erase"})' = Count({"fast", "erase"})
  <2>1. \A L \in {Accessing, {"shared"}, {"teardown"}, {"fast", "erase"}} :
            W("warn", L) = 0 /\ W("unlock", L) = 0 /\ W("refused", L) = 0
    BY DEF W, Accessing
  <2>2. ASSUME NEW L, W("warn", L) = 0 /\ W("unlock", L) = 0 /\ W("refused", L) = 0
        PROVE  Count(L)' = Count(L)
    BY <1>5, <2>2
  <2>3. W("warn", Freeing) = 1 /\ W("unlock", Freeing) = 0 /\ W("refused", Freeing) = 0
    BY DEF W, Freeing
  <2>4. Count(Freeing)' = 0
    BY <1>1, <1>5, <2>3
  <2>5. QED
    BY <2>1, <2>2, <2>4
<1>7. /\ ~Doomed' /\ ~Forced' /\ ~Gone' /\ (defined("FREE")' <=> defined("FREE"))
      /\ NoShared => NoShared'
      /\ InTeardown => InTeardown'
      /\ NoAccess'
  BY <1>1, <1>3, <1>4, <1>6 DEF Doomed, Forced, Gone, defined, NoShared, InTeardown, NoAccess
<1>8. FlaggedInv'
  BY <1>7 DEF FlaggedInv
<1>9. DeliverInv'
  <2>1. LocksFade(t)
    BY DEF LocksFade, Unlocked
  <2>2. QED
    BY <1>2, <1>5, <2>1, DeliverStays
<1>10. QED
  BY <1>1, <1>7, <1>8, <1>9, LiveHolds

LEMMA Hold_FreeWarning ==
    ASSUME Messages => ~Veto, CountInv, EndInv, HoldInv, NEW t \in Threads,
           NEW in_use \in BOOLEAN, FreeWarning(t, in_use)
    PROVE  HoldInv'
<1>1. /\ ~Idle(t) /\ Head(stack[t]) = "warn"
      /\ UNCHANGED <<registered, Terminating, Flags, ThreadID, removed, frees, locks, pins, Strong, Weak>>
  BY DEF FreeWarning, At, record, lock, block, clients, counts
<1>2. CASE Continue(t, <<"unlock", "refused">>) /\ in_use
  <2>1. ~Messages
    BY <1>2, LifeAssumption DEF FreeWarning
  <2>2. QED
    BY <1>1, <1>2, <2>1, HoldRefuses
<1>3. CASE Continue(t, <<"begin">>)
  <2>1. registered
    BY <1>1, ClaimAlone DEF Claiming
  <2>2. OthersKept(t) /\ Head(stack[t]) \notin Accessing \cup {"msg_free", "free", "finish"}
    BY <1>1, FreeAlone DEF OthersKept
  <2>3. /\ Regular(t) /\ "free" \notin Doing(t)
        /\ \A L : /\ Count(L)' = Count(L) - W("warn", L) + W("begin", L)
                  /\ Count(L) \in Nat
    <3>1. "begin" \in Labels \ (Accessing \cup {"msg_free", "shared"})
      BY FreeLabels DEF Claiming
    <3>2. "warn" \notin Delivery
      BY DEF Delivery
    <3>3. QED
      BY <1>1, <1>3, <2>1, <2>2, <3>1, <3>2, HoldMoves
  <2>4. SameCalls
    <3>1. ASSUME NEW L \in HoldSets PROVE Count(L)' = Count(L)
      <4>1. \A M \in HoldSets : W("warn", M) = W("begin", M) /\ W("warn", M) \in {0, 1}
        BY DEF W, HoldSets, Freeing, Accessing, Errors
      <4>2. QED
        BY <2>3, <4>1
    <3>2. QED
      BY <3>1 DEF SameCalls
  <2>5. Quietly(t)
    BY <1>1 DEF Quietly, Held
  <2>6. QED
    BY <2>3, <2>4, <2>5, QuietlyStays
<1>4. QED
  BY <1>2, <1>3 DEF FreeWarning

\* The object is terminated: it is neither locked nor about to be, but for those
\* that a forced termination leaves waiting.
LEMMA Hold_BeginTermination ==
    ASSUME CountInv, EndInv, HoldInv, NEW t \in Threads, BeginTermination(t)
    PROVE  HoldInv'
<1>1. /\ ~Idle(t) /\ Head(stack[t]) = "begin" /\ Continue(t, <<"teardown">>)
      /\ Flags' = (Flags \cup {"FREE"}) \ {"FREE_ON_UNLOCK"} /\ stack \in Stacks
      /\ UNCHANGED <<registered, Terminating, ThreadID, removed, frees, locks, pins>>
  BY DEF BeginTermination, At, record, lock, block, clients, CountInv, TypeOK, Stacks
<1>2. registered /\ Terminating /\ Doomed /\ ~Gone
  <2>1. registered /\ Terminating /\ Count(Freeing) > 0
    BY <1>1, ClaimAlone, TallyTop DEF Claiming, Freeing
  <2>2. QED
    BY <2>1, NotGone DEF Doomed
<1>3. /\ OthersKept(t) /\ NoDelivery /\ Head(stack[t]) \notin Accessing \cup {"msg_free", "free", "finish"}
  BY <1>1, FreeAlone DEF OthersKept
<1>4. /\ Regular(t)
      /\ \A L : /\ Count(L)' = Count(L) - W("begin", L) + W("teardown", L)
                /\ Count(L) \in Nat
  <2>1. "teardown" \in Labels \ (Accessing \cup {"msg_free", "shared"})
    BY FreeLabels DEF Claiming
  <2>2. "begin" \notin Delivery
    BY DEF Delivery
  <2>3. QED
    BY <1>1, <1>2, <1>3, <2>1, <2>2, HoldMoves
<1>5. /\ Count({"access_check"})' = Count({"access_check"}) /\ Count(Accessing)' = Count(Accessing)
      /\ Count({"shared"})' = Count({"shared"})
      /\ Count({"fast", "erase"})' = Count({"fast", "erase"}) /\ Count(Errors)' = Count(Errors)
      /\ Count({"mark"})' = Count({"mark"}) /\ Count({"teardown"})' > 0
  <2>1. \A L \in {{"access_check"}, Accessing, {"shared"}, {"fast", "erase"}, Errors, {"mark"}} :
            W("begin", L) = 0 /\ W("teardown", L) = 0
    BY DEF W, Accessing, Errors
  <2>2. ASSUME NEW L, W("begin", L) = 0 /\ W("teardown", L) = 0 PROVE Count(L)' = Count(L)
    BY <1>4, <2>2
  <2>3. W("begin", {"teardown"}) = 0 /\ W("teardown", {"teardown"}) = 1
    BY DEF W
  <2>4. Count({"teardown"})' > 0
    BY <1>4, <2>3
  <2>5. QED
    BY <2>1, <2>2, <2>4
<1>6. /\ Unlocked => Unlocked'
      /\ NoCheck => NoCheck'
      /\ NoAccess => NoAccess'
      /\ NoMark => NoMark'
      /\ NoError => NoError'
      /\ NoShared => NoShared'
      /\ NoPin => NoPin'
      /\ Forced' <=> Forced
      /\ ~Gone' /\ InTeardown' /\ collecting' /\ ~defined("FREE_ON_UNLOCK")'
  <2>1. /\ Unlocked => Unlocked'
        /\ NoPin => NoPin'
        /\ ~Gone'
    BY <1>1, <1>2, <1>5 DEF Unlocked, NoPin, Gone
  <2>2. /\ Forced' <=> Forced
        /\ collecting' /\ ~defined("FREE_ON_UNLOCK")'
    BY <1>1 DEF Forced, collecting, defined
  <2>3. QED
    BY <1>5, <2>1, <2>2 DEF NoCheck, NoAccess, NoMark, NoError, NoShared, InTeardown
<1>7. UnusedInv' /\ TornInv' /\ SharedInv'
  BY <1>2, <1>6 DEF HoldInv, UnusedInv, TornInv, SharedInv
<1>8. ForcedInv'
  <2>1. (NoDelivery => NoDelivery') /\ (HolderOut => HolderOut') /\ Terminating'
    BY <1>1, <1>2, <1>4, RegularStays
  <2>2. QED
    BY <1>2, <1>6, <2>1 DEF HoldInv, ForcedInv
<1>9. FlaggedInv' /\ GoneInv' /\ FinishInv'
  BY <1>1, <1>2, <1>6 DEF FlaggedInv, GoneInv, FinishInv
<1>10. DeliverInv'
  <2>1. LocksFade(t)
    BY <1>1 DEF LocksFade, Unlocked
  <2>2. QED
    BY <1>3, <1>4, <2>1, DeliverStays
<1>11. QED
  BY <1>7, <1>8, <1>9, <1>10 DEF HoldInv

\* The object has no record any more.
LEMMA Hold_Teardown ==
    ASSUME CountInv, EndInv, HoldInv, NEW t \in Threads, Teardown(t)
    PROVE  HoldInv'
<1>1. /\ ~Idle(t) /\ Head(stack[t]) = "teardown" /\ Continue(t, <<"unlock", "finish">>)
      /\ stack \in Stacks /\ registered' = FALSE
      /\ UNCHANGED <<Terminating, Flags, ThreadID, removed, frees, locks, pins, Strong, Weak>>
  BY DEF Teardown, At, lock, block, clients, counts, CountInv, TypeOK, Stacks
<1>2. registered /\ Doomed /\ ~Gone
  <2>1. registered /\ Count(Freeing) > 0
    BY <1>1, ClaimAlone, TallyTop DEF Claiming, Freeing
  <2>2. QED
    BY <2>1, NotGone DEF Doomed
<1>3. /\ OthersKept(t) /\ NoDelivery /\ Head(stack[t]) \in OwnLock \ Delivery
      /\ \A u \in Threads \ {t} : Doing(u) \cap OwnLock = {}
  BY <1>1, FreeAlone DEF OthersKept
<1>4. /\ Plain(t) /\ Regular(t) /\ Doing(t)' = Below(t) \cup {"unlock", "finish"}
      /\ \A L : /\ Count(L)' = Count(L) - W("teardown", L) + W("unlock", L) + W("finish", L)
                /\ Count(L) \in Nat
  BY <1>1, <1>3, HoldCalls
<1>5. /\ Count({"access_check"})' = Count({"access_check"}) /\ Count(Accessing)' = Count(Accessing)
      /\ Count({"shared"})' = Count({"shared"})
      /\ Count({"fast", "erase"})' = Count({"fast", "erase"}) /\ Count({"mark"})' = Count({"mark"})
  <2>1. \A L \in {{"access_check"}, Accessing, {"shared"}, {"fast", "erase"}, {"mark"}} :
            W("teardown", L) = 0 /\ W("unlock", L) = 0 /\ W("finish", L) = 0
    BY DEF W, Accessing
  <2>2. ASSUME NEW L, W("teardown", L) = 0 /\ W("unlock", L) = 0 /\ W("finish", L) = 0
        PROVE  Count(L)' = Count(L)
    BY <1>4, <2>2
  <2>3. QED
    BY <2>1, <2>2
<1>6. /\ Unlocked => Unlocked'
      /\ NoCheck => NoCheck'
      /\ NoAccess => NoAccess'
      /\ NoMark => NoMark'
      /\ NoShared => NoShared'
      /\ NoPin => NoPin'
      /\ Forced' <=> Forced
      /\ defined("FREE_ON_UNLOCK")' <=> defined("FREE_ON_UNLOCK")
      /\ ~Gone' /\ ~registered'
  <2>1. /\ Unlocked => Unlocked'
        /\ NoPin => NoPin'
        /\ ~Gone' /\ ~registered'
    BY <1>1, <1>2, <1>5 DEF Unlocked, NoPin, Gone
  <2>2. /\ Forced' <=> Forced
        /\ defined("FREE_ON_UNLOCK")' <=> defined("FREE_ON_UNLOCK")
    BY <1>1 DEF Forced, defined
  <2>3. QED
    BY <1>5, <2>1, <2>2 DEF NoCheck, NoAccess, NoMark, NoShared
<1>7. UnusedInv' /\ TornInv' /\ SharedInv'
  BY <1>2, <1>6 DEF HoldInv, UnusedInv, TornInv, SharedInv
<1>8. ForcedInv'
  <2>1. (NoDelivery => NoDelivery') /\ (HolderOut => HolderOut')
    BY <1>1, <1>4, RegularStays
  <2>2. QED
    BY <1>6, <2>1 DEF HoldInv, ForcedInv
<1>9. FlaggedInv' /\ GoneInv'
  BY <1>6 DEF FlaggedInv, GoneInv
<1>10. FinishInv'
  <2>1. \A u \in Threads \ {t} : Doing(u)' \cap OwnLock = {}
    BY <1>3, <1>4 DEF Plain, Alone
  <2>2. "finish" \in Doing(t)'
    BY <1>4
  <2>3. QED
    BY <2>1, <2>2 DEF FinishInv, Finishes
<1>11. DeliverInv'
  <2>1. LocksFade(t)
    BY <1>1 DEF LocksFade, Unlocked
  <2>2. QED
    BY <1>3, <1>4, <2>1, DeliverStays
<1>12. QED
  BY <1>7, <1>8, <1>9, <1>10, <1>11 DEF HoldInv

\* The claim is dropped.
LEMMA Hold_Refused ==
    ASSUME CountInv, EndInv, HoldInv, NEW t \in Threads, Refused(t)
    PROVE  HoldInv'
<1>1. /\ ~Idle(t) /\ Head(stack[t]) \in Errors /\ Return(t) /\ stack \in Stacks
      /\ UNCHANGED <<registered, Flags, ThreadID, removed, frees, locks, pins, Strong, Weak>>
  BY DEF Refused, At, Errors, lock, block, clients, counts, CountInv, TypeOK, Stacks
<1>2. registered /\ ~Doomed /\ ~Gone
  BY <1>1, FreeLabels, ClaimEarly
<1>3. Messages => ~NoError
  BY <1>1, TallyTop DEF NoError
<1>4. ~Forced /\ NoDelivery /\ (collecting \/ NoAccess \/ ~Messages)
  BY <1>2, <1>3, NobodyDelivers DEF HoldInv, ForcedInv, DeliverInv, FlaggedInv
<1>5. /\ Regular(t)
      /\ \A L : Count(L)' = Count(L) - W(Head(stack[t]), L) /\ Count(L) \in Nat
  <2>1. OthersKept(t) /\ Head(stack[t]) \notin Accessing \cup {"msg_free", "free"}
    BY <1>1 DEF OthersKept, Accessing, Errors
  <2>2. QED
    BY <1>1, <2>1, HoldLeaves
<1>6. /\ Count(Freeing)' = Count(Freeing) /\ Count({"shared"})' = Count({"shared"})
      /\ Count(Accessing)' = Count(Accessing)
      /\ Count({"teardown"})' = Count({"teardown"}) /\ Count({"fast", "erase"})' = Count({"fast", "erase"})
  <2>1. \A L \in {Freeing, Accessing, {"shared"}, {"teardown"}, {"fast", "erase"}} : W(Head(stack[t]), L) = 0
    BY <1>1 DEF W, Freeing, Accessing, Errors
  <2>2. ASSUME NEW L, W(Head(stack[t]), L) = 0 PROVE Count(L)' = Count(L)
    BY <1>5, <2>2
  <2>3. QED
    BY <2>1, <2>2
<1>7. /\ ~Doomed' /\ ~Forced' /\ ~Gone' /\ (defined("FREE")' <=> defined("FREE"))
      /\ NoShared => NoShared'
      /\ InTeardown => InTeardown'
      /\ NoAccess => NoAccess'
      /\ collecting => collecting'
      /\ NoFlags => NoFlags'
      /\ collecting' => collecting
  BY <1>1, <1>2, <1>4, <1>6
     DEF Doomed, Forced, Gone, defined, NoShared, InTeardown, NoAccess, collecting, NoFlags
<1>8. FlaggedInv'
  BY <1>2, <1>4, <1>7 DEF HoldInv, FlaggedInv, NoError
<1>9. DeliverInv'
  <2>1. LocksFade(t)
    BY <1>1 DEF LocksFade, Unlocked
  <2>2. QED
    BY <1>4, <1>5, <2>1, DeliverStays
<1>10. QED
  BY <1>2, <1>7, <1>8, <1>9, LiveHolds
-----------------------------------------------------------------------------
(* The theorems.                                                            *)

LEMMA HoldInit == Init => HoldInv
<1> SUFFICES ASSUME Init PROVE HoldInv
  OBVIOUS
<1>1. /\ registered /\ Flags = {} /\ frees = 0
      /\ \A t \in Threads : stack[t] = <<>> /\ Len(stack[t]) = 0
  BY DEF Init
<1>2. \A t \in Threads : Doing(t) = {}
  BY <1>1 DEF Doing
<1>3. \A L : Count(L) = 0
  <2>1. ASSUME NEW L PROVE CallsIn(stack, L) = {}
    BY <1>1 DEF CallsIn
  <2>2. ASSUME NEW L PROVE Count(L) = 0
    BY <2>1, FS_EmptySet DEF Count
  <2>3. QED
    BY <2>2
<1>4. ~Doomed /\ ~Forced /\ ~Gone /\ NoShared /\ NoAccess /\ ~defined("FREE")
  BY <1>1, <1>3 DEF Doomed, Forced, Gone, NoShared, NoAccess, defined
<1>5. \A t \in Threads : "msg_free" \notin Doing(t) /\ ~Delivers(t)
  BY <1>2 DEF Delivers
<1>6. UnusedInv /\ TornInv /\ SharedInv /\ ForcedInv /\ FlaggedInv /\ GoneInv /\ FinishInv
  BY <1>1, <1>4 DEF UnusedInv, TornInv, SharedInv, ForcedInv, FlaggedInv, GoneInv, FinishInv
<1>7. DeliverInv
  BY <1>5 DEF DeliverInv, NoDelivery
<1>8. QED
  BY <1>6, <1>7 DEF HoldInv

LEMMA HoldStutter == HoldInv /\ UNCHANGED vars => HoldInv'
<1> SUFFICES ASSUME HoldInv, UNCHANGED vars PROVE HoldInv'
  OBVIOUS
<1>1. /\ UNCHANGED <<registered, Terminating, Flags, Strong, Weak, ThreadID>>
      /\ UNCHANGED <<removed, frees, stack, locks, pins>>
  BY DEF vars, record, counts, lock, block, clients
<1>2. \A L : Count(L)' = Count(L)
  BY <1>1 DEF Count
<1>3. \A t \in Threads : Doing(t)' = Doing(t) /\ (Delivers(t)' <=> Delivers(t))
  BY <1>1 DEF Doing, Delivers
<1>4. Fades /\ SameMarks /\ (Gone' => Gone)
  BY <1>1, <1>2
     DEF Fades, NoCheck, NoAccess, NoMark, NoError, NoShared, InTeardown, Doomed, SameMarks, Forced,
         collecting, defined, Gone
<1>5. /\ NoDelivery => NoDelivery'
      /\ HolderOut => HolderOut'
      /\ HolderFrees => HolderFrees'
      /\ Unlocked => Unlocked'
      /\ NoPin => NoPin'
      /\ NoFlags => NoFlags'
  BY <1>1, <1>3 DEF NoDelivery, HolderOut, HolderFrees, Unlocked, NoPin, NoFlags
<1>6. UnusedInv' /\ TornInv' /\ SharedInv' /\ ForcedInv' /\ FlaggedInv'
  BY <1>1, <1>4, <1>5
     DEF Fades, SameMarks, HoldInv, UnusedInv, TornInv, SharedInv, ForcedInv, FlaggedInv
<1>7. DeliverInv'
  BY <1>1, <1>3, <1>4, <1>5 DEF Fades, SameMarks, HoldInv, DeliverInv
<1>8. GoneInv' /\ FinishInv'
  BY <1>1, <1>3, <1>4 DEF HoldInv, GoneInv, Held, defined, FinishInv, Finishes
<1>9. QED
  BY <1>6, <1>7, <1>8 DEF HoldInv

LEMMA HoldCall ==
    ASSUME CountInv, EndInv, HoldInv, NEW t \in Threads, Call(t)
    PROVE  HoldInv'
<1>1. CASE AccessObject(t, <<>>) \/ (locks[t] = 0 /\ AccessObject(t, <<"msg_free">>))
  BY <1>1, Hold_AccessObject
<1>2. CASE GiveBack(t, "release") \/ GiveBack(t, "unlock")
  BY <1>2, Hold_GiveBack
<1>3. CASE pin(t) \/ PinWeakObject(t)
  BY <1>3, Hold_pin
<1>4. CASE SharedObjectAccess(t)
  BY <1>4, Hold_SharedObjectAccess
<1>5. CASE BeginUnpin(t)
  BY <1>5, Hold_BeginUnpin
<1>6. CASE BeginUnpinWeak(t) \/ BeginFree(t)
  BY <1>6, Hold_Begin
<1>7. QED
  BY <1>1, <1>2, <1>3, <1>4, <1>5, <1>6 DEF Call

LEMMA HoldStep ==
    ASSUME Messages => ~Veto, CountInv, EndInv, HoldInv, NEW t \in Threads, Step(t)
    PROVE  HoldInv'
<1>1. CASE AccessTimeout(t)
  BY <1>1, Hold_AccessTimeout
<1>2. CASE AccessLock(t)
  BY <1>2, Hold_AccessLock
<1>3. CASE AccessCheck(t)
  BY <1>3, Hold_AccessCheck
<1>4. CASE Unlock(t) \/ DecrementQueue(t) \/ FetchSub(t) \/ CheckZombie(t) \/ freeIfReady(t) \/ EmplaceZombie(t)
  BY <1>4, Hold_Dull DEF DullStep
<1>5. CASE FlagSleepers(t)
  BY <1>5, Hold_FlagSleepers
<1>6. CASE Collect(t)
  BY <1>6, Hold_Collect
<1>7. CASE SharedCheck(t)
  BY <1>7, Hold_SharedCheck
<1>8. CASE unpin(t)
  BY <1>8, Hold_unpin
<1>9. CASE unpinWeak(t)
  BY <1>9, Hold_unpinWeak
<1>10. CASE ReleaseZombie(t)
  BY <1>10, Hold_ReleaseZombie
<1>11. CASE free_object_block(t)
  BY <1>11, Hold_free_object_block
<1>12. CASE msg_free(t)
  BY <1>12, Hold_msg_free
<1>13. CASE FreeObject(t)
  BY <1>13, Hold_FreeObject
<1>14. CASE FreeLock(t)
  BY <1>14, Hold_FreeLock
<1>15. CASE FreeCheck(t)
  BY <1>15, Hold_FreeCheck
<1>16. CASE MarkForDeletion(t)
  BY <1>16, Hold_MarkForDeletion
<1>17. CASE \E in_use \in BOOLEAN : FreeWarning(t, in_use)
  <2>1. PICK in_use \in BOOLEAN : FreeWarning(t, in_use)
    BY <1>17
  <2>2. QED
    BY <2>1, Hold_FreeWarning
<1>18. CASE BeginTermination(t)
  BY <1>18, Hold_BeginTermination
<1>19. CASE Teardown(t)
  BY <1>19, Hold_Teardown
<1>20. CASE BecomeZombie(t)
  BY <1>20, Hold_BecomeZombie
<1>21. CASE CheckPins(t)
  BY <1>21, Hold_CheckPins
<1>22. CASE Refused(t)
  BY <1>22, Hold_Refused
<1>23. QED
  BY <1>1, <1>2, <1>3, <1>4, <1>5, <1>6, <1>7, <1>8, <1>9, <1>10, <1>11, <1>12, <1>13, <1>14,
      <1>15, <1>16, <1>17, <1>18, <1>19, <1>20, <1>21, <1>22 DEF Step

\* Who may still use an object that is about to be terminated or was, as long as
\* no class refuses a termination that a message has forced, and no wait of
\* object_free() is broken off when there are such messages.
THEOREM UsersKnown == (Messages => ~Veto /\ ~Interrupts) => (Spec => [](CountInv /\ EndInv /\ HoldInv))
<1>1. ASSUME Messages => ~Veto /\ ~Interrupts
      PROVE  CountInv /\ EndInv /\ HoldInv /\ [Next]_vars => (CountInv /\ EndInv /\ HoldInv)'
  <2>1. CountInv /\ EndInv /\ HoldInv /\ Next => HoldInv'
    BY <1>1, HoldCall, HoldStep, Hold_FreeLockFails DEF Next
  <2>2. CountInv /\ EndInv /\ Next => EndInv'
    BY EndStep DEF Next
  <2>3. CountInv /\ Next => CountInv'
    BY CountCall, CountStep, Count_FreeLockFails DEF Next
  <2>4. QED
    BY <2>1, <2>2, <2>3, CountStutter, EndStutter, HoldStutter
<1>2. (Messages => ~Veto /\ ~Interrupts) =>
        (CountInv /\ EndInv /\ HoldInv /\ [][Next]_vars => [](CountInv /\ EndInv /\ HoldInv))
  <2>1. ASSUME Messages => ~Veto /\ ~Interrupts
        PROVE  CountInv /\ EndInv /\ HoldInv /\ [][Next]_vars => [](CountInv /\ EndInv /\ HoldInv)
    <3>1. CountInv /\ EndInv /\ HoldInv /\ [Next]_vars => (CountInv /\ EndInv /\ HoldInv)'
      BY <1>1, <2>1
    <3>2. QED
      BY <3>1, PTL
  <2>2. QED
    BY <2>1
<1>3. QED
  BY CountInit, EndInit, HoldInit, <1>2, PTL DEF Spec

LEMMA HeaderStays == CountInv /\ EndInv /\ HoldInv => HeaderOutlivesUsers
<1> SUFFICES ASSUME CountInv, EndInv, HoldInv, frees > 0
             PROVE  /\ \A t \in Threads : ~pins[t] /\ ~weak[t]
                    /\ Calls(Pinning \cup Locking \cup Claimed \cup {"unpinWeak"}) = {}
  BY DEF HeaderOutlivesUsers
<1> DEFINE Users == Pinning \cup Locking \cup Claimed \cup {"unpinWeak"}
<1>1. stack \in Stacks /\ Strong = 0 /\ Weak = 0 /\ defined("ZOMBIE")
  BY DEF HoldInv, GoneInv, Gone, Held, CountInv, TypeOK, Stacks
<1>2. ~registered /\ Count({"finish"}) = 0 /\ Count(Claiming) = 0
  BY <1>1 DEF EndInv, ZombieLate, OneClaim
<1>3. /\ Count(Pinning) = 0 /\ Count({"unpinWeak"}) = 0
      /\ \A t \in Threads : ~pins[t] /\ ~weak[t]
  BY <1>1, NoPins
<1>4. ASSUME NEW t \in Threads PROVE Doing(t) \cap Users = {}
  <2>1. Doing(t) \cap (Pinning \cup Claiming \cup {"unpinWeak", "finish"}) = {}
    BY <1>1, <1>2, <1>3, TallyDoing
  <2>2. Doing(t) \cap OwnLock = {}
    BY <1>2, <2>1 DEF HoldInv, FinishInv, Finishes
  <2>3. "msg_free" \notin Doing(t)
    <3>1. ~Delivers(t)
      BY <1>2 DEF HoldInv, DeliverInv, NoDelivery
    <3>2. Doing(t) \cap Accessing = {}
      BY <2>1 DEF Accessing, Pinning
    <3>3. QED
      BY <3>1, <3>2 DEF Delivers
  <2>4. Claimed \subseteq Claiming /\ Locking = OwnLock \cup {"msg_free"}
    BY DEF Claimed, Claiming, OwnLock, Locking
  <2>5. QED
    BY <2>1, <2>2, <2>3, <2>4
<1>5. Count(Users) = 0
  BY <1>1, <1>4, TallyDoing
<1>6. CallsIn(stack, Users) = {}
  BY <1>1, <1>5, CallsFinite, FS_EmptySet DEF Count
<1>7. QED
  BY <1>3, <1>6 DEF Calls

\* The header of an object is not released under anybody who has a pin on it, nor
\* under a call that has a pin or a lock on it or the claim to free it.  (A call
\* that gave the last of these back has no such right: HeaderOutlivesReleases.)
THEOREM HeaderKept == (Messages => ~Veto /\ ~Interrupts) => (Spec => []HeaderOutlivesUsers)
<1>1. [](CountInv /\ EndInv /\ HoldInv) => []HeaderOutlivesUsers
  BY HeaderStays, PTL
<1>2. QED
  BY UsersKnown, <1>1, PTL

LEMMA InUseStays == ~Shared /\ ~Messages /\ CountInv /\ EndInv /\ HoldInv => InUseNotTerminated
<1> SUFFICES ASSUME ~Shared, ~Messages, CountInv, HoldInv, NEW t \in Threads,
                    locks[t] > 0 \/ pins[t], defined("FREE")
             PROVE  FALSE
  BY DEF InUseNotTerminated
<1>1. stack \in Stacks /\ locks[t] \in Nat
  BY LifeAssumption DEF CountInv, TypeOK, Stacks
<1>2. Doomed
  <2>1. InTeardown => Count(Freeing) > 0
    <3>1. {"teardown"} \subseteq Freeing
      BY DEF Freeing
    <3>2. /\ Count({"teardown"}) <= Count(Freeing)
          /\ Count({"teardown"}) \in Nat /\ Count(Freeing) \in Nat
      BY <1>1, <3>1, TallyPart, Tally DEF Count
    <3>3. QED
      BY <3>2 DEF InTeardown
  <2>2. QED
    BY <2>1 DEF HoldInv, TornInv, Doomed
<1>3. ~Forced
  BY DEF CountInv, Forced
<1>4. Unlocked /\ NoPin
  BY <1>2, <1>3 DEF HoldInv, UnusedInv, SharedInv
<1>5. QED
  BY <1>1, <1>4 DEF Unlocked, NoPin

\* As long as objects are freed by FreeObject() alone, and pinned by those who
\* have them locked, an object is not terminated while a caller has it locked or
\* strongly pinned.
THEOREM InUseKept == ~Shared /\ ~Messages => (Spec => []InUseNotTerminated)
<1>1. ~Shared /\ ~Messages => ([](CountInv /\ EndInv /\ HoldInv) => []InUseNotTerminated)
  <2>1. ASSUME ~Shared /\ ~Messages
        PROVE  [](CountInv /\ EndInv /\ HoldInv) => []InUseNotTerminated
    <3>1. CountInv /\ EndInv /\ HoldInv => InUseNotTerminated
      BY <2>1, InUseStays
    <3>2. QED
      BY <3>1, PTL
  <2>2. QED
    BY <2>1
<1>2. ~Shared /\ ~Messages => (Messages => ~Veto /\ ~Interrupts)
  OBVIOUS
<1>3. QED
  BY UsersKnown, <1>1, <1>2, PTL
=============================================================================
