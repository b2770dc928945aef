---------------------------- MODULE EventsProofs ----------------------------
(***************************************************************************)
(* Events, for any subscriptions, events, filters and number of messages:  *)
(* the list and its mask agree however dispatches nest, and a dispatch     *)
(* that does not nest calls each subscriber once, notices what its         *)
(* callbacks free, and leaves nobody out as long as it goes on from        *)
(* entries of the list.                                                    *)
(***************************************************************************)
EXTENDS Events, SequenceTheorems, TLAPS

\* Until the Core closes, what is subscribed to is in the list.
HandlesListed ==
    /\ ~closed => Live = Held
    /\ closed => glEventList = <<>>

\* The outer dispatches wait where code of the application runs, and the entry
\* that a scan is at is in the list.
Placed ==
    /\ \A i \in DOMAIN dispatch : i < Len(dispatch) => dispatch[i].step \in ClientSteps
    /\ dispatch # <<>> /\ Inner.step \in {"scan", "lock"} /\ Inner.at # None => Inner.at \in Live

ListInv == TypeOK /\ MaskAccurate /\ HandlesListed /\ Placed

\* A dispatch owes a call to those who are subscribed to its event and have not
\* been called.
Owing == dispatch # <<>> =>
    Inner.due = {s \in Live : Matches(Inner.event, s)} \ called

\* The entry that a callback belongs to is in the list as long as that has not
\* been changed.
Reading == dispatch # <<>> =>
    /\ Inner.step # "scan" => ~closed /\ Inner.at # None
    /\ Inner.step = "lock" => ~glEventListAltered
    /\ Inner.step \in {"refused", "callback"} /\ ~glEventListAltered => Inner.at \in Live

\* In this step the dispatch counts on the entry that it is at.
Holding(step, altered) ==
    step = "onward" \/ (step \in {"lock", "refused", "callback"} /\ ~altered)

\* The scan has left the position i behind it.
Passed(i) ==
    \/ Inner.step = "scan" /\ Inner.at = None
    \/ \E j \in DOMAIN glEventList :
          /\ glEventList[j] = Inner.at
          /\ \/ Inner.step = "scan" /\ i < j
             \/ Holding(Inner.step, glEventListAltered) /\ i <= j

NonePassed == dispatch # <<>> /\ ~Inner.astray =>
    \A i \in DOMAIN glEventList : Passed(i) => glEventList[i] \notin Inner.due

\* A dispatch that does not nest.
DispatchInv == Len(dispatch) <= 1 /\ Owing /\ Reading /\ NonePassed

-----------------------------------------------------------------------------
(* Lists.                                                                  *)

LEMMA Prepended ==
    ASSUME NEW S, NEW q \in Seq(S), NEW x \in S
    PROVE  /\ <<x>> \o q \in Seq(S) /\ Len(<<x>> \o q) = Len(q) + 1
           /\ (<<x>> \o q)[1] = x
           /\ \A i \in 1..Len(q) : (<<x>> \o q)[i + 1] = q[i]
  OBVIOUS

LEMMA Pushed ==
    ASSUME NEW S, NEW q \in Seq(S), NEW x \in S, IsInjective(q), x \notin Range(q)
    PROVE  /\ <<x>> \o q \in Seq(S) /\ IsInjective(<<x>> \o q)
           /\ Range(<<x>> \o q) = Range(q) \cup {x}
<1> DEFINE p == <<x>> \o q
<1>1. /\ p \in Seq(S) /\ DOMAIN p = 1..(Len(q) + 1) /\ DOMAIN q = 1..Len(q) /\ Len(q) \in Nat
      /\ p[1] = x /\ \A i \in 1..Len(q) : p[i + 1] = q[i]
  BY Prepended
<1> HIDE DEF p
<1>2. \A i \in 1..(Len(q) + 1) : i = 1 \/ (i - 1 \in 1..Len(q) /\ p[i] = q[i - 1])
  BY <1>1
<1>3. \A i \in 1..Len(q) : i + 1 \in 1..(Len(q) + 1)
  BY <1>1
<1>4. IsInjective(p)
  <2>1. /\ \A i, j \in 1..Len(q) : q[i] = q[j] => i = j
        /\ \A i \in 1..Len(q) : q[i] # x
    BY <1>1 DEF IsInjective, Range
  <2>2. ASSUME NEW i \in 1..(Len(q) + 1), NEW j \in 1..(Len(q) + 1), p[i] = p[j] PROVE i = j
    BY <1>1, <1>2, <2>1, <2>2
  <2>3. QED
    BY <1>1, <2>2 DEF IsInjective
<1>5. Range(p) = Range(q) \cup {x}
  <2>1. Range(p) \subseteq Range(q) \cup {x}
    BY <1>1, <1>2 DEF Range
  <2>2. Range(q) \cup {x} \subseteq Range(p)
    <3>1. x \in Range(p)
      BY <1>1 DEF Range
    <3>2. \A i \in 1..Len(q) : q[i] \in Range(p)
      BY <1>1, <1>3 DEF Range
    <3>3. QED
      BY <1>1, <3>1, <3>2 DEF Range
  <2>3. QED
    BY <2>1, <2>2
<1>6. QED
  BY <1>1, <1>4, <1>5 DEF p

LEMMA Taken ==
    ASSUME NEW S, NEW q \in Seq(S), NEW i \in DOMAIN q
    PROVE  /\ RemoveAt(q, i) \in Seq(S) /\ Len(RemoveAt(q, i)) = Len(q) - 1
           /\ \A j \in 1..(Len(q) - 1) : RemoveAt(q, i)[j] = IF j < i THEN q[j] ELSE q[j + 1]
<1> DEFINE a == SubSeq(q, 1, i - 1)
           b == SubSeq(q, i + 1, Len(q))
<1>1. i \in 1..Len(q) /\ Len(q) \in Nat
  OBVIOUS
<1>2. /\ a \in Seq(S) /\ Len(a) = i - 1
      /\ \A j \in 1..(i - 1) : a[j] = q[j]
  BY <1>1
<1>3. /\ b \in Seq(S) /\ Len(b) = Len(q) - i
      /\ \A j \in 1..(Len(q) - i) : b[j] = q[i + j]
  BY <1>1
<1> HIDE DEF a, b
<1>4. /\ a \o b \in Seq(S) /\ Len(a \o b) = Len(a) + Len(b)
      /\ \A j \in 1..(Len(a) + Len(b)) : (a \o b)[j] = IF j <= Len(a) THEN a[j] ELSE b[j - Len(a)]
  BY <1>2, <1>3, ConcatProperties
<1>5. ASSUME NEW j \in 1..(Len(q) - 1)
      PROVE  (a \o b)[j] = IF j < i THEN q[j] ELSE q[j + 1]
  <2>1. CASE j < i
    BY <1>1, <1>2, <1>3, <1>4, <2>1
  <2>2. CASE ~(j < i)
    <3>1. j - (i - 1) \in 1..(Len(q) - i) /\ i + (j - (i - 1)) = j + 1
      BY <1>1, <2>2
    <3>2. (a \o b)[j] = b[j - (i - 1)]
      <4>1. Len(a) = i - 1 /\ j \in 1..(Len(a) + Len(b)) /\ ~(j <= Len(a))
        BY <1>1, <1>2, <1>3, <2>2
      <4>2. (a \o b)[j] = b[j - Len(a)]
        BY <1>4, <4>1
      <4>3. QED
        BY <4>1, <4>2
    <3>3. QED
      BY <1>3, <2>2, <3>1, <3>2
  <2>3. QED
    BY <2>1, <2>2
<1>6. RemoveAt(q, i) = a \o b
  BY DEF a, b, RemoveAt
<1>7. Len(a \o b) = Len(q) - 1
  BY <1>1, <1>2, <1>3, <1>4
<1>8. QED
  BY <1>4, <1>5, <1>6, <1>7

LEMMA Unlinked ==
    ASSUME NEW S, NEW q \in Seq(S), NEW i \in DOMAIN q, IsInjective(q)
    PROVE  /\ RemoveAt(q, i) \in Seq(S) /\ IsInjective(RemoveAt(q, i))
           /\ Range(RemoveAt(q, i)) = Range(q) \ {q[i]}
<1> DEFINE p == RemoveAt(q, i)
<1>1. /\ p \in Seq(S) /\ Len(p) = Len(q) - 1
      /\ \A j \in 1..(Len(q) - 1) : p[j] = IF j < i THEN q[j] ELSE q[j + 1]
  BY Taken
<1> HIDE DEF p
<1>2. i \in 1..Len(q) /\ Len(q) \in Nat /\ DOMAIN q = 1..Len(q) /\ DOMAIN p = 1..(Len(q) - 1)
  BY <1>1
<1>3. IsInjective(p)
  <2>1. \A j, k \in 1..Len(q) : q[j] = q[k] => j = k
    BY <1>2 DEF IsInjective
  <2>2. ASSUME NEW j \in 1..(Len(q) - 1), NEW k \in 1..(Len(q) - 1), p[j] = p[k] PROVE j = k
    <3>1. /\ p[j] = q[IF j < i THEN j ELSE j + 1] /\ (IF j < i THEN j ELSE j + 1) \in 1..Len(q)
          /\ p[k] = q[IF k < i THEN k ELSE k + 1] /\ (IF k < i THEN k ELSE k + 1) \in 1..Len(q)
      BY <1>1, <1>2
    <3>2. (IF j < i THEN j ELSE j + 1) = (IF k < i THEN k ELSE k + 1)
      BY <2>1, <2>2, <3>1
    <3>3. QED
      BY <1>2, <3>2
  <2>3. QED
    BY <1>2, <2>2 DEF IsInjective
<1>4. Range(p) \subseteq Range(q) \ {q[i]}
  BY <1>1, <1>2 DEF Range, IsInjective
<1>5. Range(q) \ {q[i]} \subseteq Range(p)
  <2>1. SUFFICES ASSUME NEW j \in 1..Len(q), q[j] # q[i] PROVE q[j] \in Range(p)
    BY <1>2 DEF Range
  <2>2. CASE j < i
    BY <1>1, <1>2, <2>2 DEF Range
  <2>3. CASE j > i
    <3>1. j - 1 \in 1..(Len(q) - 1) /\ ~(j - 1 < i) /\ (j - 1) + 1 = j
      BY <1>2, <2>3
    <3>2. p[j - 1] = q[j]
      BY <1>1, <3>1
    <3>3. QED
      BY <1>2, <3>1, <3>2 DEF Range
  <2>4. QED
    BY <1>2, <2>1, <2>2, <2>3
<1>6. QED
  BY <1>1, <1>3, <1>4, <1>5 DEF p

\* An entry has one position in the list.
LEMMA Positioned ==
    ASSUME NEW s \in Live
    PROVE  Position(s) \in DOMAIN glEventList /\ glEventList[Position(s)] = s
  BY DEF Live, Range, Position

\* What comes after an entry, and what comes first.
LEMMA Following ==
    ASSUME TypeOK, NEW s \in Live
    PROVE  /\ After(s) = None \/ After(s) \in Live
           /\ Position(s) \in 1..Len(glEventList) /\ Len(glEventList) \in Nat
           /\ DOMAIN glEventList = 1..Len(glEventList)
           /\ glEventList[Position(s)] = s
           /\ After(s) = None => Position(s) = Len(glEventList)
           /\ After(s) # None => /\ Position(s) + 1 \in 1..Len(glEventList)
                                 /\ glEventList[Position(s) + 1] = After(s)
<1>1. Position(s) \in 1..Len(glEventList) /\ Len(glEventList) \in Nat
      /\ DOMAIN glEventList = 1..Len(glEventList) /\ glEventList[Position(s)] = s
  BY Positioned DEF TypeOK
<1>2. \A i \in 1..Len(glEventList) : glEventList[i] \in Live /\ glEventList[i] # None
  BY <1>1, EventAssumption DEF Live, Range, TypeOK
<1>3. QED
  BY <1>1, <1>2 DEF After

LEMMA Beginning ==
    ASSUME TypeOK
    PROVE  /\ First = None <=> glEventList = <<>>
           /\ First # None => First \in Live /\ glEventList[1] = First /\ 1 \in DOMAIN glEventList
<1>1. CASE glEventList = <<>>
  BY <1>1 DEF First
<1>2. CASE glEventList # <<>>
  <2>1. 1 \in DOMAIN glEventList /\ First = glEventList[1]
    BY <1>2 DEF First, TypeOK
  <2>2. glEventList[1] \in Subscriptions
    BY <2>1 DEF TypeOK
  <2>3. QED
    BY <1>2, <2>1, <2>2, EventAssumption DEF Live, Range
<1>3. QED
  BY <1>1, <1>2

\* The innermost dispatch.
LEMMA Innermost ==
    ASSUME dispatch \in Seq(Frame), dispatch # <<>>
    PROVE  /\ Len(dispatch) \in Nat \ {0} /\ DOMAIN dispatch = 1..Len(dispatch)
           /\ Len(dispatch) \in DOMAIN dispatch
           /\ Inner = dispatch[Len(dispatch)] /\ Inner \in Frame
  BY DEF Inner, Last

LEMMA WithoutLast ==
    ASSUME NEW S, NEW q \in Seq(S), q # <<>>
    PROVE  /\ Front(q) \in Seq(S) /\ Len(Front(q)) = Len(q) - 1
           /\ \A i \in 1..(Len(q) - 1) : Front(q)[i] = q[i]
<1> DEFINE n == Len(q) - 1
           p == SubSeq(q, 1, n)
<1>1. n \in Nat /\ \A i \in 1..n : q[i] \in S
  OBVIOUS
<1> HIDE DEF n
<1>2. /\ p \in Seq(S) /\ Len(p) = IF 1 <= n THEN n - 1 + 1 ELSE 0
      /\ \A i \in 1..(n - 1 + 1) : p[i] = q[1 + i - 1]
  BY <1>1, SubSeqProperties
<1>3. Front(q) = p
  BY DEF Front, n
<1> HIDE DEF p
<1>4. n - 1 + 1 = n /\ \A i \in 1..n : 1 + i - 1 = i
  BY <1>1
<1>5. Len(p) = n
  BY <1>1, <1>2
<1>6. QED
  BY <1>2, <1>3, <1>4, <1>5 DEF n

LEMMA InnerReplaced ==
    ASSUME dispatch \in Seq(Frame), dispatch # <<>>, NEW f \in Frame, InnerBecomes(f)
    PROVE  /\ dispatch' \in Seq(Frame) /\ dispatch' # <<>> /\ Len(dispatch') = Len(dispatch)
           /\ Inner' = f
           /\ \A i \in 1..(Len(dispatch) - 1) : dispatch'[i] = dispatch[i]
<1>1. Len(dispatch) \in Nat \ {0}
  OBVIOUS
<1>2. /\ Front(dispatch) \in Seq(Frame) /\ Len(Front(dispatch)) = Len(dispatch) - 1
      /\ \A i \in 1..(Len(dispatch) - 1) : Front(dispatch)[i] = dispatch[i]
  BY WithoutLast
<1>3. dispatch' = Append(Front(dispatch), f)
  BY DEF InnerBecomes
<1>4. /\ dispatch' \in Seq(Frame) /\ Len(dispatch') = Len(dispatch)
      /\ dispatch'[Len(dispatch)] = f
      /\ \A i \in 1..(Len(dispatch) - 1) : dispatch'[i] = Front(dispatch)[i]
  <2>1. /\ Append(Front(dispatch), f) \in Seq(Frame)
        /\ Len(Append(Front(dispatch), f)) = Len(Front(dispatch)) + 1
        /\ Append(Front(dispatch), f)[Len(Front(dispatch)) + 1] = f
        /\ \A i \in 1..Len(Front(dispatch)) : Append(Front(dispatch), f)[i] = Front(dispatch)[i]
    BY <1>2, AppendProperties
  <2>2. QED
    BY <1>1, <1>2, <1>3, <2>1
<1>5. QED
  BY <1>1, <1>2, <1>4 DEF Inner, Last

LEMMA InnerReturned ==
    ASSUME dispatch \in Seq(Frame), dispatch # <<>>, dispatch' = Front(dispatch)
    PROVE  /\ dispatch' \in Seq(Frame) /\ Len(dispatch') = Len(dispatch) - 1 /\ Len(dispatch) \in Nat \ {0}
           /\ \A i \in 1..(Len(dispatch) - 1) : dispatch'[i] = dispatch[i]
<1>1. Len(dispatch) \in Nat \ {0}
  OBVIOUS
<1>2. QED
  BY <1>1, WithoutLast

LEMMA InnerBegun ==
    ASSUME dispatch \in Seq(Frame), NEW f \in Frame, dispatch' = Append(dispatch, f)
    PROVE  /\ dispatch' \in Seq(Frame) /\ dispatch' # <<>> /\ Len(dispatch') = Len(dispatch) + 1
           /\ Inner' = f
           /\ \A i \in 1..Len(dispatch) : dispatch'[i] = dispatch[i]
<1>1. /\ Append(dispatch, f) \in Seq(Frame)
      /\ Len(Append(dispatch, f)) = Len(dispatch) + 1
      /\ Append(dispatch, f)[Len(dispatch) + 1] = f
      /\ \A i \in 1..Len(dispatch) : Append(dispatch, f)[i] = dispatch[i]
  BY AppendProperties
<1>2. QED
  BY <1>1 DEF Inner, Last

-----------------------------------------------------------------------------
(* The list and its mask, however dispatches nest.                         *)

\* What does not touch the list.
LEMMA ListKept ==
    ASSUME ListInv, UNCHANGED <<glEventList, EventID, glEventMask, closed>>,
           called' \subseteq Subscriptions, glEventListAltered' \in BOOLEAN,
           messages' \in Seq(EventIDs), dispatch' \in Seq(Frame), Placed'
    PROVE  ListInv'
<1>1. TypeOK'
  BY DEF ListInv, TypeOK
<1>2. MaskAccurate' /\ HandlesListed'
  BY DEF ListInv, MaskAccurate, HandlesListed, Live, Held
<1>3. QED
  BY <1>1, <1>2 DEF ListInv

\* The innermost dispatch goes on to an entry of the list.
LEMMA InnerStep ==
    ASSUME ListInv, dispatch # <<>>, NEW f \in Frame, InnerBecomes(f),
           f.step \in {"scan", "lock"} /\ f.at # None => f.at \in Live,
           UNCHANGED <<glEventList, EventID, glEventMask, closed, messages>>,
           called' \subseteq Subscriptions, glEventListAltered' \in BOOLEAN
    PROVE  ListInv'
<1>1. /\ dispatch' \in Seq(Frame) /\ dispatch' # <<>> /\ Len(dispatch') = Len(dispatch)
      /\ Inner' = f
      /\ \A i \in 1..(Len(dispatch) - 1) : dispatch'[i] = dispatch[i]
  BY InnerReplaced DEF ListInv, TypeOK
<1>2. Len(dispatch) \in Nat /\ DOMAIN dispatch' = 1..Len(dispatch) /\ DOMAIN dispatch = 1..Len(dispatch)
  BY <1>1, Innermost DEF ListInv, TypeOK
<1>3. Placed'
  <2>1. \A i \in 1..Len(dispatch) : i < Len(dispatch) => i \in 1..(Len(dispatch) - 1)
    BY <1>2
  <2>2. QED
    BY <1>1, <1>2, <2>1 DEF Placed, ListInv, Live
<1>4. QED
  BY <1>1, <1>3, ListKept DEF ListInv, TypeOK

LEMMA List_BroadcastEvent ==
    ASSUME ListInv, NEW e \in EventIDs, BroadcastEvent(e)
    PROVE  ListInv'
<1>1. messages' \in Seq(EventIDs)
  BY DEF BroadcastEvent, ListInv, TypeOK
<1>2. Placed'
  BY DEF BroadcastEvent, ListInv, Placed, Inner, Live
<1>3. QED
  BY <1>1, <1>2, ListKept DEF BroadcastEvent, ListInv, TypeOK

\* Code of the application runs when no dispatch looks at the list.
LEMMA ClientPlaced ==
    ASSUME ListInv, ClientRuns, DOMAIN dispatch' = DOMAIN dispatch, Len(dispatch') = Len(dispatch),
           \A i \in DOMAIN dispatch : dispatch'[i].step = dispatch[i].step,
           dispatch' # <<>> => dispatch # <<>>
    PROVE  Placed'
<1>1. \A i \in DOMAIN dispatch : dispatch[i].step \in ClientSteps
  <2>1. CASE dispatch = <<>>
    BY <2>1
  <2>2. CASE dispatch # <<>>
    BY <2>2, Innermost DEF ListInv, TypeOK, ClientRuns, Placed
  <2>3. QED
    BY <2>1, <2>2
<1>2. dispatch # <<>> => Len(dispatch) \in DOMAIN dispatch
  BY Innermost DEF ListInv, TypeOK
<1>3. QED
  BY <1>1, <1>2 DEF Placed, Inner, Last, ClientSteps

LEMMA List_SubscribeEvent ==
    ASSUME ListInv, NEW s \in Subscriptions, NEW f \in Filters, SubscribeEvent(s, f)
    PROVE  ListInv'
<1>1. s \notin Live /\ EventID \in [Subscriptions -> Filters \cup {None}] /\ Live \subseteq Subscriptions
  BY DEF SubscribeEvent, ListInv, HandlesListed, TypeOK, Live, Held
<1>2. /\ glEventList' \in Seq(Subscriptions) /\ IsInjective(glEventList')
      /\ Live' = Live \cup {s}
  BY <1>1, Pushed DEF SubscribeEvent, ListInv, TypeOK, Live
<1>3. EventID' \in [Subscriptions -> Filters \cup {None}] /\ EventID'[s] = f
      /\ \A u \in Subscriptions \ {s} : EventID'[u] = EventID[u]
  BY <1>1 DEF SubscribeEvent
<1>4. f.group \in Groups /\ f # None
  BY EventAssumption
<1>5. Held' = Held \cup {s}
  BY <1>3, <1>4 DEF Held
<1>6. TypeOK'
  BY <1>2, <1>3, <1>4 DEF SubscribeEvent, CalledSet, ListInv, TypeOK
<1>7. MaskAccurate' /\ HandlesListed'
  <2>1. {EventID'[u].group : u \in Live'} = {EventID[u].group : u \in Live} \cup {f.group}
    BY <1>1, <1>2, <1>3
  <2>2. QED
    BY <1>2, <1>5, <2>1 DEF SubscribeEvent, ListInv, MaskAccurate, HandlesListed
<1>8. Placed'
  BY ClientPlaced DEF SubscribeEvent
<1>9. QED
  BY <1>6, <1>7, <1>8 DEF ListInv

LEMMA List_UnsubscribeEvent ==
    ASSUME ListInv, NEW s \in Subscriptions, UnsubscribeEvent(s)
    PROVE  ListInv'
<1>1. /\ EventID \in [Subscriptions -> Filters \cup {None}] /\ Live \subseteq Subscriptions
      /\ EventID' \in [Subscriptions -> Filters \cup {None}] /\ EventID'[s] = None
      /\ \A u \in Subscriptions \ {s} : EventID'[u] = EventID[u]
  BY DEF UnsubscribeEvent, ListInv, TypeOK, Live, Range
<1>2. Held' = Held \ {s} /\ s \in Held
  BY <1>1 DEF Held, UnsubscribeEvent
<1>3. CASE glEventList = <<>>
  <2>1. UNCHANGED <<glEventList, glEventMask, called, glEventListAltered, dispatch, messages, closed>>
    BY <1>3 DEF UnsubscribeEvent
  <2>2. Live = {}
    BY <1>3 DEF Live, Range
  <2>3. closed
    BY <1>2, <2>2 DEF ListInv, HandlesListed
  <2>4. TypeOK'
    BY <1>1, <2>1 DEF ListInv, TypeOK
  <2>5. MaskAccurate' /\ HandlesListed'
    BY <1>3, <2>1, <2>3 DEF MaskAccurate, HandlesListed
  <2>6. Placed'
    BY <2>1, ClientPlaced DEF UnsubscribeEvent
  <2>7. QED
    BY <2>4, <2>5, <2>6 DEF ListInv
<1>4. CASE glEventList # <<>>
  <2>1. /\ glEventList' = RemoveAt(glEventList, Position(s))
        /\ glEventMask' = ClearMask(s, glEventList')
        /\ called' = called \ {s} /\ glEventListAltered' = TRUE
        /\ dispatch' = [i \in DOMAIN dispatch |-> [dispatch[i] EXCEPT !.due = @ \ {s}]]
        /\ messages' = messages /\ closed' = closed
    BY <1>4 DEF UnsubscribeEvent, Unlink, Altered
  <2>2. ~closed /\ s \in Live
    BY <1>2, <1>4 DEF ListInv, HandlesListed
  <2>3. Position(s) \in DOMAIN glEventList /\ glEventList[Position(s)] = s
    BY <2>2, Positioned
  <2>4. /\ glEventList' \in Seq(Subscriptions) /\ IsInjective(glEventList')
        /\ Live' = Live \ {s}
    BY <2>1, <2>3, Unlinked DEF ListInv, TypeOK, Live
  <2>5. dispatch' \in Seq(Frame) /\ DOMAIN dispatch' = DOMAIN dispatch /\ Len(dispatch') = Len(dispatch)
        /\ \A i \in DOMAIN dispatch : dispatch'[i].step = dispatch[i].step
    <3>1. dispatch \in Seq(Frame) /\ DOMAIN dispatch = 1..Len(dispatch) /\ Len(dispatch) \in Nat
      BY DEF ListInv, TypeOK
    <3>2. ASSUME NEW i \in DOMAIN dispatch
          PROVE  /\ [dispatch[i] EXCEPT !.due = @ \ {s}] \in Frame
                 /\ [dispatch[i] EXCEPT !.due = @ \ {s}].step = dispatch[i].step
      <4>1. dispatch[i] \in Frame
        BY <3>1
      <4>2. QED
        BY <4>1 DEF Frame
    <3>3. \A i \in DOMAIN dispatch : dispatch'[i].step = dispatch[i].step
      BY <2>1, <3>2
    <3>4. QED
      BY <2>1, <3>1, <3>2, <3>3
  <2>6. Placed'
    <3>1. dispatch' # <<>> => dispatch # <<>>
      BY <2>5
    <3>2. QED
      BY <2>5, <3>1, ClientPlaced DEF UnsubscribeEvent
  <2>7. MaskAccurate'
    <3>1. {EventID'[u].group : u \in Live'} = {EventID[u].group : u \in Live \ {s}}
      BY <1>1, <2>4
    <3>2. glEventMask = {EventID[u].group : u \in Live}
      BY <2>2 DEF ListInv, MaskAccurate
    <3>3. glEventMask' = IF \E u \in Live \ {s} : EventID[u].group = EventID[s].group
                         THEN glEventMask ELSE glEventMask \ {EventID[s].group}
      BY <2>1, <2>4 DEF ClearMask, Live
    <3>4. glEventMask' = {EventID[u].group : u \in Live \ {s}}
      BY <2>2, <3>2, <3>3
    <3>5. QED
      BY <3>1, <3>4 DEF MaskAccurate
  <2>8. glEventMask' \subseteq Groups
    BY <2>1 DEF ClearMask, ListInv, TypeOK
  <2>9. TypeOK'
    BY <1>1, <2>1, <2>4, <2>5, <2>8 DEF ListInv, TypeOK
  <2>10. HandlesListed'
    BY <1>2, <2>1, <2>2, <2>4 DEF ListInv, HandlesListed
  <2>11. QED
    BY <2>6, <2>7, <2>9, <2>10 DEF ListInv
<1>5. QED
  BY <1>3, <1>4

LEMMA List_FreeEvents == ListInv /\ FreeEvents => ListInv'
<1> SUFFICES ASSUME ListInv, FreeEvents PROVE ListInv'
  OBVIOUS
<1>1. glEventList' \in Seq(Subscriptions) /\ IsInjective(glEventList')
  BY DEF FreeEvents, IsInjective
<1>2. TypeOK'
  BY <1>1 DEF FreeEvents, ListInv, TypeOK
<1>3. Placed'
  BY DEF FreeEvents, Placed
<1>4. QED
  BY <1>2, <1>3 DEF FreeEvents, ListInv, MaskAccurate, HandlesListed

LEMMA List_MsgEvent == ListInv /\ MsgEvent => ListInv'
<1> SUFFICES ASSUME ListInv, MsgEvent PROVE ListInv'
  OBVIOUS
<1>1. PICK i \in DOMAIN messages :
         /\ messages' = RemoveAt(messages, i)
         /\ dispatch' = Append(dispatch,
              [event |-> messages[i], at |-> First, step |-> "scan",
               due |-> {s \in Live : Matches(messages[i], s)}, astray |-> FALSE])
  BY DEF MsgEvent
<1> DEFINE f == [event |-> messages[i], at |-> First, step |-> "scan",
                 due |-> {s \in Live : Matches(messages[i], s)}, astray |-> FALSE]
<1>2. messages' \in Seq(EventIDs) /\ messages[i] \in EventIDs
  BY <1>1, Taken DEF ListInv, TypeOK
<1>3. First # None => First \in Live
  BY Beginning DEF ListInv
<1>4. Live \subseteq Subscriptions
  BY DEF ListInv, TypeOK, Live, Range
<1>5. f \in Frame
  BY <1>2, <1>3, <1>4 DEF Frame, Steps
<1>6. f.step = "scan" /\ f.at = First /\ dispatch' = Append(dispatch, f)
  BY <1>1
<1> HIDE DEF f
<1>7. /\ dispatch' \in Seq(Frame) /\ dispatch' # <<>> /\ Len(dispatch') = Len(dispatch) + 1
      /\ Inner' = f
      /\ \A j \in 1..Len(dispatch) : dispatch'[j] = dispatch[j]
  BY <1>5, <1>6, InnerBegun DEF ListInv, TypeOK
<1>8. \A j \in 1..Len(dispatch) : dispatch[j].step \in ClientSteps
  <2>1. Len(dispatch) \in Nat /\ DOMAIN dispatch = 1..Len(dispatch)
    BY DEF ListInv, TypeOK
  <2>2. CASE dispatch = <<>>
    BY <2>1, <2>2
  <2>3. CASE dispatch # <<>>
    <3>1. dispatch[Len(dispatch)].step \in ClientSteps
      BY <2>3, Innermost DEF ListInv, TypeOK, MsgEvent, ClientRuns
    <3>2. \A n \in Nat : \A j \in 1..n : j < n \/ j = n
      OBVIOUS
    <3>3. QED
      BY <2>1, <3>1, <3>2 DEF ListInv, Placed
  <2>4. QED
    BY <2>2, <2>3
<1>9. Placed'
  <2>1. Len(dispatch) \in Nat /\ DOMAIN dispatch' = 1..(Len(dispatch) + 1)
    BY <1>7 DEF ListInv, TypeOK
  <2>2. \A j \in 1..(Len(dispatch) + 1) : j < Len(dispatch) + 1 => j \in 1..Len(dispatch)
    BY <2>1
  <2>3. glEventList' = glEventList
    BY DEF MsgEvent
  <2>4. QED
    BY <1>3, <1>6, <1>7, <1>8, <2>1, <2>2, <2>3 DEF Placed, Live
<1>10. called' \subseteq Subscriptions
  BY DEF MsgEvent, RaiseSignal
<1>11. QED
  BY <1>2, <1>7, <1>9, <1>10, ListKept DEF MsgEvent, ListInv, TypeOK

\* The scan starts again.
LEMMA List_Restart ==
    ASSUME ListInv, dispatch # <<>>, Restart,
           UNCHANGED <<glEventList, EventID, called, glEventListAltered, glEventMask, messages, closed>>
    PROVE  ListInv'
<1> DEFINE f == [Inner EXCEPT !.at = First, !.step = "scan"]
<1>1. Inner \in Frame /\ (First = None \/ First \in Live) /\ Live \subseteq Subscriptions
  BY Innermost, Beginning DEF ListInv, TypeOK, Live, Range
<1>2. f \in Frame /\ f.at = First /\ InnerBecomes(f)
  BY <1>1 DEF Frame, Steps, Restart
<1> HIDE DEF f
<1>3. QED
  BY <1>1, <1>2, InnerStep DEF ListInv, TypeOK

\* The scan goes on, if the entry is there.
LEMMA List_GoOn ==
    ASSUME ListInv, dispatch # <<>>, GoOn,
           UNCHANGED <<glEventList, EventID, called, glEventListAltered, glEventMask, messages, closed>>
    PROVE  ListInv'
<1>1. Inner \in Frame /\ Live \subseteq Subscriptions
  BY Innermost DEF ListInv, TypeOK, Live, Range
<1>2. CASE Inner.at \in Live
  <2> DEFINE x == After(Inner.at)
             f == [Inner EXCEPT !.at = x, !.step = "scan"]
  <2>1. x = None \/ x \in Live
    BY <1>2, Following DEF ListInv
  <2>2. InnerBecomes(f)
    BY <1>2 DEF GoOn
  <2> HIDE DEF x
  <2>3. f \in Frame /\ f.at = x
    BY <1>1, <2>1 DEF Frame, Steps
  <2> HIDE DEF f
  <2>4. QED
    BY <2>1, <2>2, <2>3, InnerStep DEF ListInv, TypeOK
<1>3. CASE Inner.at \notin Live
  <2> DEFINE f == [Inner EXCEPT !.step = "freed"]
  <2>1. InnerBecomes(f) /\ f \in Frame /\ f.step = "freed"
    BY <1>1, <1>3 DEF GoOn, Frame, Steps
  <2> HIDE DEF f
  <2>2. QED
    BY <2>1, InnerStep DEF ListInv, TypeOK
<1>4. QED
  BY <1>2, <1>3

\* The scan goes on from what it found in freed memory.
LEMMA List_GoAstray == ListInv /\ GoAstray => ListInv'
<1> SUFFICES ASSUME ListInv, GoAstray PROVE ListInv'
  OBVIOUS
<1>1. dispatch # <<>> /\ Inner \in Frame /\ Live \subseteq Subscriptions
  BY Innermost DEF GoAstray, In, ListInv, TypeOK, Live, Range
<1>2. PICK x \in Live \cup {None} :
         InnerBecomes([Inner EXCEPT !.at = x, !.step = "scan", !.astray = TRUE])
  BY DEF GoAstray
<1> DEFINE f == [Inner EXCEPT !.at = x, !.step = "scan", !.astray = TRUE]
<1>3. f \in Frame /\ f.at = x /\ InnerBecomes(f)
  BY <1>1, <1>2 DEF Frame, Steps
<1> HIDE DEF f
<1>4. QED
  BY <1>1, <1>2, <1>3, InnerStep DEF GoAstray, ListInv, TypeOK

LEMMA List_Loop == ListInv /\ Loop => ListInv'
<1> SUFFICES ASSUME ListInv, Loop PROVE ListInv'
  OBVIOUS
<1>1. dispatch # <<>> /\ Inner \in Frame
  BY Innermost DEF ListInv, TypeOK, Loop, ScanPast, ScanFinds, Granted, NotGranted, RefusalReturns,
                   CallbackReturns, Unlocked, DispatchEnds, In
<1>2. Live \subseteq Subscriptions
  BY DEF ListInv, TypeOK, Live, Range
<1>3. CASE ScanPast
  <2> DEFINE x == After(Inner.at)
  <2>1. Inner.at \in Live
    BY <1>3 DEF ScanPast, In, ListInv, Placed
  <2>2. x = None \/ x \in Live
    BY <2>1, Following DEF ListInv
  <2>3. InnerBecomes([Inner EXCEPT !.at = x])
    BY <1>3 DEF ScanPast
  <2> HIDE DEF x
  <2>4. [Inner EXCEPT !.at = x] \in Frame /\ [Inner EXCEPT !.at = x].at = x
    BY <1>1, <1>2, <2>2 DEF Frame
  <2>5. QED
    BY <1>1, <1>3, <2>2, <2>3, <2>4, InnerStep DEF ScanPast, ListInv, TypeOK
<1>4. CASE ScanFinds
  <2> DEFINE f == [Inner EXCEPT !.step = "lock", !.due = @ \ {Inner.at}]
  <2>1. Inner.at \in Live
    BY <1>4 DEF ScanFinds, In, ListInv, Placed
  <2>2. f \in Frame /\ f.at = Inner.at
    BY <1>1 DEF Frame, Steps
  <2>3. InnerBecomes(f)
    BY <1>4 DEF ScanFinds
  <2>4. called' \subseteq Subscriptions /\ glEventListAltered' \in BOOLEAN
    BY <1>2, <1>4, <2>1 DEF ScanFinds, SetCalled, ListInv, TypeOK
  <2> HIDE DEF f
  <2>5. QED
    BY <1>1, <1>4, <2>1, <2>2, <2>3, <2>4, InnerStep DEF ScanFinds
<1>5. CASE Granted \/ NotGranted \/ CallbackReturns
  <2>1. PICK st \in Steps \ {"scan", "lock"} : InnerBecomes([Inner EXCEPT !.step = st])
    BY <1>5 DEF Granted, NotGranted, CallbackReturns, Steps
  <2> DEFINE f == [Inner EXCEPT !.step = st]
  <2>2. f \in Frame /\ f.step = st /\ InnerBecomes(f)
    BY <1>1, <2>1 DEF Frame, Steps
  <2> HIDE DEF f
  <2>3. UNCHANGED <<glEventList, EventID, called, glEventListAltered, glEventMask, messages, closed>>
    BY <1>5 DEF Granted, NotGranted, CallbackReturns
  <2>4. QED
    BY <1>1, <2>1, <2>2, <2>3, InnerStep DEF ListInv, TypeOK
<1>6. CASE RefusalReturns \/ Unlocked
  BY <1>1, <1>6, List_Restart, List_GoOn DEF RefusalReturns, Unlocked
<1>7. CASE DispatchEnds
  <2>1. /\ dispatch' \in Seq(Frame) /\ Len(dispatch') = Len(dispatch) - 1 /\ Len(dispatch) \in Nat \ {0}
        /\ \A i \in 1..(Len(dispatch) - 1) : dispatch'[i] = dispatch[i]
    BY <1>1, <1>7, InnerReturned DEF DispatchEnds, ListInv, TypeOK
  <2>2. \A i \in 1..(Len(dispatch) - 1) : dispatch'[i].step \in ClientSteps
    <3>1. \A i \in 1..(Len(dispatch) - 1) : i \in DOMAIN dispatch /\ i < Len(dispatch)
      BY <2>1 DEF ListInv, TypeOK
    <3>2. QED
      BY <2>1, <3>1 DEF ListInv, Placed
  <2>3. dispatch' # <<>> => Inner'.step \in ClientSteps
    <3>1. dispatch' # <<>> => Len(dispatch') \in 1..(Len(dispatch) - 1)
      BY <2>1
    <3>2. QED
      BY <2>2, <3>1 DEF Inner, Last
  <2>4. DOMAIN dispatch' = 1..(Len(dispatch) - 1)
    BY <2>1
  <2>5. Placed'
    BY <2>2, <2>3, <2>4 DEF Placed, ClientSteps
  <2>6. QED
    BY <1>7, <2>1, <2>5, ListKept DEF DispatchEnds, ListInv, TypeOK
<1>8. QED
  BY <1>3, <1>4, <1>5, <1>6, <1>7 DEF Loop

LEMMA List_Init == Init => ListInv
<1> SUFFICES ASSUME Init PROVE ListInv
  OBVIOUS
<1>1. EventID \in [Subscriptions -> Filters \cup {None}] /\ Held = {}
  BY DEF Init, Held
<1>2. glEventList = <<>> /\ Live = {} /\ dispatch = <<>> /\ messages = <<>>
  BY DEF Init, Live, Range
<1>3. TypeOK
  <2>1. glEventList \in Seq(Subscriptions) /\ messages \in Seq(EventIDs) /\ dispatch \in Seq(Frame)
    BY <1>2
  <2>2. IsInjective(glEventList)
    BY <1>2 DEF IsInjective
  <2>3. QED
    BY <1>1, <2>1, <2>2 DEF Init, TypeOK
<1>4. MaskAccurate /\ HandlesListed /\ Placed
  BY <1>1, <1>2 DEF Init, MaskAccurate, HandlesListed, Placed
<1>5. QED
  BY <1>3, <1>4 DEF ListInv

LEMMA List_Next == ListInv /\ [Next]_vars => ListInv'
<1>1. ListInv /\ Next => ListInv'
  BY List_BroadcastEvent, List_SubscribeEvent, List_UnsubscribeEvent, List_FreeEvents,
     List_MsgEvent, List_Loop, List_GoAstray DEF Next
<1>2. ListInv /\ UNCHANGED vars => ListInv'
  BY DEF vars, ListInv, TypeOK, MaskAccurate, HandlesListed, Placed, Live, Held, Inner
<1>3. QED
  BY <1>1, <1>2

\* Whatever callbacks do to the list, and however dispatches nest, the list has
\* no entry twice and the mask has the groups of its entries.
THEOREM ListCorrect == Spec => []ListInv
  BY List_Init, List_Next, PTL DEF Spec

\* The types of all variables, and a mask that is exact: the list is walked if and only
\* if it has an entry for the group of an event.
THEOREM EventsTyped == Spec => []EventsInv
<1>1. ListInv => EventsInv
  BY DEF ListInv, EventsInv
<1>2. QED
  BY ListCorrect, <1>1, PTL

-----------------------------------------------------------------------------
(* A dispatch that does not nest.                                          *)

Wants(filter, e) == filter.group = e.group /\ filter.name \in {e.name, Wildcard}

LEMMA Wanted == \A e, s : Matches(e, s) <=> Wants(EventID[s], e)
  BY DEF Matches, Wants

\* The calls that a dispatch owes, when its next state is f.
LEMMA DispatchGoesOn ==
    ASSUME ListInv, DispatchInv, dispatch # <<>>, NEW f \in Frame, InnerBecomes(f),
           f.due = {s \in Live' : Wants(EventID'[s], f.event)} \ called',
           f.step # "scan" => ~closed' /\ f.at # None,
           f.step = "lock" => ~glEventListAltered',
           f.step \in {"refused", "callback"} /\ ~glEventListAltered' => f.at \in Live',
           ~f.astray =>
             \A i \in DOMAIN glEventList' :
              /\ f.step = "scan" /\ f.at = None => glEventList'[i] \notin f.due
              /\ \A j \in DOMAIN glEventList' :
                    /\ glEventList'[j] = f.at
                    /\ \/ f.step = "scan" /\ i < j
                       \/ Holding(f.step, glEventListAltered') /\ i <= j
                    => glEventList'[i] \notin f.due
    PROVE  DispatchInv'
<1>1. /\ dispatch' \in Seq(Frame) /\ dispatch' # <<>> /\ Len(dispatch') = Len(dispatch) /\ Inner' = f
      /\ Len(dispatch) \in Nat \ {0}
  BY InnerReplaced, Innermost DEF ListInv, TypeOK
<1>2. Len(dispatch') <= 1
  BY <1>1 DEF DispatchInv
<1>4. Owing' /\ Reading'
  BY <1>1 DEF Owing, Reading, Matches, Wants
<1>5. NonePassed'
  BY <1>1 DEF NonePassed, Passed
<1>6. QED
  BY <1>2, <1>4, <1>5 DEF DispatchInv

LEMMA Dispatch_BroadcastEvent ==
    ASSUME DispatchInv, NEW e \in EventIDs, BroadcastEvent(e)
    PROVE  DispatchInv'
<1>1. UNCHANGED <<glEventList, EventID, called, glEventListAltered, dispatch, closed>>
  BY DEF BroadcastEvent
<1>2. QED
  BY <1>1 DEF DispatchInv, Owing, Reading, NonePassed, Passed, Inner, Live, Matches

LEMMA Dispatch_SubscribeEvent ==
    ASSUME ListInv, DispatchInv, NEW s \in Subscriptions, NEW f \in Filters, SubscribeEvent(s, f)
    PROVE  DispatchInv'
<1>1. /\ glEventList' = <<s>> \o glEventList /\ called' = called \cup {s}
      /\ EventID' = [EventID EXCEPT ![s] = f]
      /\ UNCHANGED <<glEventListAltered, dispatch, closed>>
  BY DEF SubscribeEvent, CalledSet
<1>2. /\ s \notin Live /\ EventID \in [Subscriptions -> Filters \cup {None}] /\ Live \subseteq Subscriptions
  BY DEF SubscribeEvent, ListInv, HandlesListed, TypeOK, Live, Held
<1>3. Live' = Live \cup {s} /\ Inner' = Inner
  BY <1>1, <1>2, Pushed DEF ListInv, TypeOK, Live, Inner
<1>4. Len(dispatch') <= 1
  BY <1>1 DEF DispatchInv, FreedNotRead
<1>5. \A e : \A u \in Live : Matches(e, u)' <=> Matches(e, u)
  BY <1>1, <1>2 DEF Matches
<1>6. Owing'
  BY <1>1, <1>2, <1>3, <1>5 DEF DispatchInv, Owing
<1>7. Reading'
  BY <1>1, <1>3 DEF DispatchInv, Reading
<1>8. NonePassed'
  <2>1. SUFFICES ASSUME dispatch # <<>>, ~Inner.astray, NEW i \in DOMAIN glEventList', Passed(i)'
                 PROVE  glEventList'[i] \notin Inner.due
    BY <1>1, <1>3 DEF NonePassed
  <2>2. Inner.step # "scan"
    BY <2>1 DEF SubscribeEvent, ClientRuns, ClientSteps
  <2>3. PICK j \in DOMAIN glEventList' :
           glEventList'[j] = Inner.at /\ Holding(Inner.step, glEventListAltered) /\ i <= j
    BY <1>1, <1>3, <2>1, <2>2 DEF Passed
  <2>4. /\ Len(glEventList) \in Nat /\ DOMAIN glEventList = 1..Len(glEventList)
        /\ DOMAIN glEventList' = 1..(Len(glEventList) + 1)
        /\ glEventList'[1] = s
        /\ \A k \in 1..Len(glEventList) : glEventList'[k + 1] = glEventList[k]
    BY <1>1, Prepended DEF ListInv, TypeOK
  <2>5. CASE i = 1
    BY <1>2, <2>1, <2>4, <2>5 DEF DispatchInv, Owing
  <2>6. CASE i # 1
    <3>1. i - 1 \in 1..Len(glEventList) /\ j - 1 \in 1..Len(glEventList) /\ i - 1 <= j - 1
          /\ (i - 1) + 1 = i /\ (j - 1) + 1 = j
      BY <2>3, <2>4, <2>6
    <3>2. glEventList[j - 1] = Inner.at /\ glEventList[i - 1] = glEventList'[i]
      BY <2>3, <2>4, <3>1
    <3>3. Passed(i - 1)
      BY <2>2, <2>3, <2>4, <3>1, <3>2 DEF Passed
    <3>4. QED
      BY <2>1, <2>4, <3>1, <3>2, <3>3 DEF DispatchInv, NonePassed
  <2>7. QED
    BY <2>5, <2>6
<1>9. QED
  BY <1>4, <1>6, <1>7, <1>8 DEF DispatchInv

LEMMA Dispatch_UnsubscribeEvent ==
    ASSUME ListInv, DispatchInv, NEW s \in Subscriptions, UnsubscribeEvent(s)
    PROVE  DispatchInv'
<1>1. /\ EventID \in [Subscriptions -> Filters \cup {None}] /\ EventID' = [EventID EXCEPT ![s] = None]
      /\ closed' = closed /\ s \in Held
  BY DEF UnsubscribeEvent, ListInv, TypeOK
<1>2. \A e : \A u \in Subscriptions \ {s} : Matches(e, u)' <=> Matches(e, u)
  BY <1>1 DEF Matches
<1>3. Live \subseteq Subscriptions
  BY DEF ListInv, TypeOK, Live, Range
<1>4. CASE glEventList = <<>>
  <2>1. UNCHANGED <<glEventList, called, glEventListAltered, dispatch>>
    BY <1>4 DEF UnsubscribeEvent
  <2>2. Live = {} /\ Live' = {} /\ Inner' = Inner
    BY <1>4, <2>1 DEF Live, Range, Inner
  <2>3. Len(dispatch') <= 1
    BY <2>1 DEF DispatchInv
  <2>4. Owing' /\ Reading' /\ NonePassed'
    BY <1>1, <1>4, <2>1, <2>2 DEF DispatchInv, Owing, Reading, NonePassed
  <2>5. QED
    BY <2>3, <2>4 DEF DispatchInv
<1>5. CASE glEventList # <<>>
  <2>1. /\ glEventList' = RemoveAt(glEventList, Position(s))
        /\ called' = called \ {s} /\ glEventListAltered' = TRUE
        /\ dispatch' = [i \in DOMAIN dispatch |-> [dispatch[i] EXCEPT !.due = @ \ {s}]]
    BY <1>5 DEF UnsubscribeEvent, Unlink, Altered
  <2>2. s \in Live
    BY <1>1, <1>5 DEF ListInv, HandlesListed
  <2>3. Live' = Live \ {s}
    BY <2>1, <2>2, Positioned, Unlinked DEF ListInv, TypeOK, Live
  <2>4. CASE dispatch = <<>>
    <3>1. dispatch' = <<>>
      BY <2>1, <2>4
    <3>2. QED
      BY <3>1 DEF DispatchInv, Owing, Reading, NonePassed
  <2>5. CASE dispatch # <<>>
    <3>1. /\ Len(dispatch) = 1 /\ DOMAIN dispatch = {1} /\ Inner = dispatch[1] /\ Inner \in Frame
          /\ Inner.step \in ClientSteps
      BY <2>5, Innermost DEF ListInv, TypeOK, DispatchInv, UnsubscribeEvent, ClientRuns
    <3>2. dispatch' = [i \in 1..1 |-> [Inner EXCEPT !.due = @ \ {s}]]
      BY <2>1, <3>1
    <3>3. /\ Len(dispatch') = 1 /\ DOMAIN dispatch' = {1} /\ dispatch' # <<>>
          /\ dispatch'[1] = [Inner EXCEPT !.due = @ \ {s}]
      BY <3>2
    <3>4. Inner' = [Inner EXCEPT !.due = @ \ {s}] /\ dispatch'[1] = Inner'
      BY <3>3 DEF Inner, Last
    <3>5. /\ Inner'.step = Inner.step /\ Inner'.at = Inner.at /\ Inner'.event = Inner.event
          /\ Inner'.due = Inner.due \ {s} /\ Inner'.astray = Inner.astray
      BY <3>1, <3>4 DEF Frame
    <3>6. Len(dispatch') <= 1
      BY <3>3
    <3>7. Owing'
      BY <1>2, <1>3, <2>1, <2>3, <2>5, <3>3, <3>5 DEF DispatchInv, Owing
    <3>8. Reading'
      BY <1>1, <2>1, <2>5, <3>1, <3>5 DEF DispatchInv, Reading, ClientSteps
    <3>9. NonePassed'
      <4> DEFINE p == Position(s)
                 k(i) == IF i < p THEN i ELSE i + 1
      <4>1. SUFFICES ASSUME ~Inner.astray, NEW i \in DOMAIN glEventList', Passed(i)'
                     PROVE  glEventList'[i] \notin Inner.due
        BY <3>5 DEF NonePassed
      <4>2. PICK j \in DOMAIN glEventList' : glEventList'[j] = Inner.at /\ Inner.step = "onward" /\ i <= j
        BY <2>1, <3>1, <3>5, <4>1 DEF Passed, Holding, ClientSteps
      <4>3. /\ Len(glEventList) \in Nat /\ DOMAIN glEventList = 1..Len(glEventList)
            /\ DOMAIN glEventList' = 1..(Len(glEventList) - 1) /\ p \in 1..Len(glEventList)
            /\ \A n \in 1..(Len(glEventList) - 1) : glEventList'[n] = IF n < p THEN glEventList[n] ELSE glEventList[n + 1]
        <5>1. p \in DOMAIN glEventList /\ glEventList \in Seq(Subscriptions)
          BY <2>2, Positioned DEF ListInv, TypeOK
        <5> HIDE DEF p
        <5>2. /\ RemoveAt(glEventList, p) \in Seq(Subscriptions)
              /\ Len(RemoveAt(glEventList, p)) = Len(glEventList) - 1
              /\ \A n \in 1..(Len(glEventList) - 1) :
                    RemoveAt(glEventList, p)[n] = IF n < p THEN glEventList[n] ELSE glEventList[n + 1]
          BY <5>1, Taken
        <5>3. glEventList' = RemoveAt(glEventList, p)
          BY <2>1 DEF p
        <5>4. QED
          BY <5>1, <5>2, <5>3
      <4> HIDE DEF p
      <4>4. k(i) \in 1..Len(glEventList) /\ k(j) \in 1..Len(glEventList) /\ k(i) <= k(j)
        BY <4>2, <4>3
      <4>5. glEventList[k(i)] = glEventList'[i] /\ glEventList[k(j)] = Inner.at
        BY <4>2, <4>3
      <4> HIDE DEF k
      <4>6. Passed(k(i))
        BY <4>2, <4>3, <4>4, <4>5 DEF Passed, Holding
      <4>7. QED
        BY <2>5, <4>1, <4>3, <4>4, <4>5, <4>6 DEF DispatchInv, NonePassed
    <3>10. QED
      BY <3>6, <3>7, <3>8, <3>9 DEF DispatchInv
  <2>6. QED
    BY <2>4, <2>5
<1>6. QED
  BY <1>4, <1>5

LEMMA Dispatch_MsgEvent ==
    ASSUME ListInv, DispatchInv, MsgEvent, MaxNesting = 1
    PROVE  DispatchInv'
<1>1. dispatch = <<>> /\ dispatch \in Seq(Frame)
  BY DEF MsgEvent, ListInv, TypeOK
<1>2. PICK i \in DOMAIN messages :
         dispatch' = Append(dispatch,
              [event |-> messages[i], at |-> First, step |-> "scan",
               due |-> {s \in Live : Matches(messages[i], s)}, astray |-> FALSE])
  BY DEF MsgEvent
<1> DEFINE f == [event |-> messages[i], at |-> First, step |-> "scan",
                 due |-> {s \in Live : Matches(messages[i], s)}, astray |-> FALSE]
<1>3. f \in Frame
  <2>1. messages[i] \in EventIDs /\ (First = None \/ First \in Live) /\ Live \subseteq Subscriptions
    BY Beginning DEF ListInv, TypeOK, Live, Range
  <2>2. QED
    BY <2>1 DEF Frame, Steps
<1>4. dispatch' = Append(dispatch, f)
  BY <1>2
<1>5. /\ f.step = "scan" /\ f.at = First /\ f.due = {s \in Live : Matches(f.event, s)}
  OBVIOUS
<1> HIDE DEF f
<1>6. /\ dispatch' # <<>> /\ Len(dispatch') = 1 /\ Inner' = f /\ dispatch' \in Seq(Frame)
  BY <1>1, <1>3, <1>4, InnerBegun
<1>7. /\ UNCHANGED <<glEventList, EventID>> /\ called' = {}
  BY DEF MsgEvent, RaiseSignal
<1>8. Len(dispatch') <= 1
  BY <1>6
<1>9. Owing' /\ Reading'
  BY <1>5, <1>6, <1>7 DEF Owing, Reading, Live, Matches
<1>10. NonePassed'
  <2>1. SUFFICES ASSUME NEW k \in DOMAIN glEventList, Passed(k)' PROVE FALSE
    BY <1>7 DEF NonePassed
  <2>2. /\ First # None /\ glEventList[1] = First /\ DOMAIN glEventList = 1..Len(glEventList)
        /\ IsInjective(glEventList) /\ 1 \in DOMAIN glEventList
    BY <2>1, Beginning DEF ListInv, TypeOK
  <2>3. PICK j \in DOMAIN glEventList : glEventList[j] = First /\ k < j
    BY <1>5, <1>6, <1>7, <2>1, <2>2 DEF Passed, Holding
  <2>4. j = 1
    BY <2>2, <2>3 DEF IsInjective
  <2>5. QED
    BY <2>1, <2>2, <2>3, <2>4
<1>11. QED
  BY <1>6, <1>8, <1>9, <1>10 DEF DispatchInv

\* A step that looks at no entry.
LEMMA Dispatch_Step ==
    ASSUME ListInv, DispatchInv, dispatch # <<>>, NEW st \in Steps \ {"scan", "lock"}, Inner.step # "scan",
           InnerBecomes([Inner EXCEPT !.step = st]),
           UNCHANGED <<glEventList, EventID, called, glEventListAltered, closed>>,
           Holding(st, glEventListAltered) => Holding(Inner.step, glEventListAltered),
           st \in {"refused", "callback"} /\ ~glEventListAltered => Inner.at \in Live
    PROVE  DispatchInv'
<1>1. Inner \in Frame
  BY Innermost DEF ListInv, TypeOK
<1> DEFINE f == [Inner EXCEPT !.step = st]
<1>2. /\ f \in Frame /\ f.step = st /\ f.at = Inner.at /\ f.due = Inner.due /\ f.event = Inner.event
      /\ f.astray = Inner.astray /\ InnerBecomes(f)
  BY <1>1 DEF Frame
<1> HIDE DEF f
<1>3. f.due = {s \in Live' : Wants(EventID'[s], f.event)} \ called'
  <2>1. Inner.due = {s \in Live : Wants(EventID[s], Inner.event)} \ called
    BY Wanted DEF DispatchInv, Owing
  <2>2. Live' = Live
    BY DEF Live
  <2>3. QED
    BY <1>2, <2>1, <2>2
<1>4. ~closed' /\ f.at # None
  BY <1>2 DEF DispatchInv, Reading
<1>5. st \in {"refused", "callback"} /\ ~glEventListAltered' => f.at \in Live'
  BY <1>2 DEF Live
<1>6. ASSUME ~f.astray, NEW i \in DOMAIN glEventList', NEW j \in DOMAIN glEventList',
             glEventList'[j] = f.at, Holding(st, glEventListAltered'), i <= j
      PROVE  glEventList'[i] \notin f.due
  <2>1. Holding(Inner.step, glEventListAltered)
    BY <1>6
  <2>2. Passed(i)
    BY <1>2, <1>6, <2>1 DEF Passed
  <2>3. QED
    BY <1>2, <1>6, <2>2 DEF DispatchInv, NonePassed
<1>7. QED
  BY <1>2, <1>3, <1>4, <1>5, <1>6, DispatchGoesOn

\* The scan starts again.
LEMMA Dispatch_Restart ==
    ASSUME ListInv, DispatchInv, dispatch # <<>>, Restart,
           UNCHANGED <<glEventList, EventID, called, glEventListAltered, closed>>
    PROVE  DispatchInv'
<1>1. Inner \in Frame /\ Live \subseteq Subscriptions /\ IsInjective(glEventList)
      /\ (First = None \/ First \in Live)
  BY Innermost, Beginning DEF ListInv, TypeOK, Live, Range
<1> DEFINE f == [Inner EXCEPT !.at = First, !.step = "scan"]
<1>2. /\ f \in Frame /\ f.step = "scan" /\ f.at = First /\ f.due = Inner.due /\ f.event = Inner.event
      /\ InnerBecomes(f)
  BY <1>1 DEF Frame, Steps, Restart
<1> HIDE DEF f
<1>3. f.due = {s \in Live' : Wants(EventID'[s], f.event)} \ called'
  <2>1. Inner.due = {s \in Live : Wants(EventID[s], Inner.event)} \ called
    BY Wanted DEF DispatchInv, Owing
  <2>2. Live' = Live
    BY DEF Live
  <2>3. QED
    BY <1>2, <2>1, <2>2
<1>4. ASSUME NEW i \in DOMAIN glEventList
      PROVE  /\ First # None
             /\ \A j \in DOMAIN glEventList : glEventList[j] = First => ~(i < j)
  <2>1. First # None /\ glEventList[1] = First /\ DOMAIN glEventList = 1..Len(glEventList)
        /\ 1 \in DOMAIN glEventList
    BY <1>4, Beginning DEF ListInv, TypeOK
  <2>2. \A j \in DOMAIN glEventList : glEventList[j] = First => j = 1
    BY <1>1, <2>1 DEF IsInjective
  <2>3. QED
    BY <2>1, <2>2
<1>5. ~Holding("scan", glEventListAltered')
  BY DEF Holding
<1>6. \A i \in DOMAIN glEventList' :
          /\ f.step = "scan" /\ f.at = None => glEventList'[i] \notin f.due
          /\ \A j \in DOMAIN glEventList' :
                /\ glEventList'[j] = f.at
                /\ \/ f.step = "scan" /\ i < j
                   \/ Holding(f.step, glEventListAltered') /\ i <= j
                => glEventList'[i] \notin f.due
  BY <1>2, <1>4, <1>5
<1>7. QED
  BY <1>2, <1>3, <1>6, DispatchGoesOn

\* The scan goes on from an entry that is in the list, or that was freed.
LEMMA Dispatch_GoOn ==
    ASSUME ListInv, DispatchInv, dispatch # <<>>, GoOn, Holding(Inner.step, glEventListAltered),
           UNCHANGED <<glEventList, EventID, called, glEventListAltered, closed>>
    PROVE  DispatchInv'
<1>1. Inner \in Frame /\ Live \subseteq Subscriptions /\ IsInjective(glEventList) /\ Inner.step # "scan"
  BY Innermost DEF ListInv, TypeOK, Live, Range, Holding
<1>2. CASE Inner.at \notin Live
  <2>1. "freed" \in Steps \ {"scan", "lock"} /\ ~Holding("freed", glEventListAltered)
    BY DEF Steps, Holding
  <2>2. InnerBecomes([Inner EXCEPT !.step = "freed"])
    BY <1>2 DEF GoOn
  <2>3. QED
    BY <1>1, <2>1, <2>2, Dispatch_Step
<1>3. CASE Inner.at \in Live
  <2> DEFINE x == After(Inner.at)
             f == [Inner EXCEPT !.at = x, !.step = "scan"]
             p == Position(Inner.at)
  <2>1. InnerBecomes(f)
    BY <1>3 DEF GoOn
  <2>2. /\ x = None \/ x \in Live
        /\ p \in 1..Len(glEventList) /\ Len(glEventList) \in Nat
        /\ DOMAIN glEventList = 1..Len(glEventList) /\ glEventList[p] = Inner.at
        /\ x = None => p = Len(glEventList)
        /\ x # None => p + 1 \in 1..Len(glEventList) /\ glEventList[p + 1] = x
    BY <1>3, Following DEF ListInv
  <2> HIDE DEF x, p
  <2>3. /\ f \in Frame /\ f.step = "scan" /\ f.at = x /\ f.due = Inner.due /\ f.event = Inner.event
        /\ f.astray = Inner.astray
    BY <1>1, <2>2 DEF Frame, Steps
  <2> HIDE DEF f
  <2>4. f.due = {s \in Live' : Wants(EventID'[s], f.event)} \ called'
    <3>1. Inner.due = {s \in Live : Wants(EventID[s], Inner.event)} \ called
      BY Wanted DEF DispatchInv, Owing
    <3>2. Live' = Live
      BY DEF Live
    <3>3. QED
      BY <2>3, <3>1, <3>2
  <2>5. ASSUME ~Inner.astray, NEW i \in DOMAIN glEventList,
               x = None \/ \E j \in DOMAIN glEventList : glEventList[j] = x /\ i < j
        PROVE  glEventList[i] \notin Inner.due
    <3>1. i <= p
      <4>1. CASE x = None
        BY <2>2, <4>1
      <4>2. CASE x # None
        <5>1. PICK j \in DOMAIN glEventList : glEventList[j] = x /\ i < j
          BY <2>5, <4>2
        <5>2. j = p + 1
          BY <1>1, <2>2, <4>2, <5>1 DEF IsInjective
        <5>3. i \in 1..Len(glEventList) /\ i < p + 1
          BY <2>2, <5>1, <5>2
        <5>4. \A n \in Nat : \A a, b \in 1..n : a < b + 1 => a <= b
          OBVIOUS
        <5>5. QED
          BY <2>2, <5>3, <5>4
      <4>3. QED
        BY <4>1, <4>2
    <3>2. Passed(i)
      BY <2>2, <3>1 DEF Passed
    <3>3. QED
      BY <2>5, <3>2 DEF DispatchInv, NonePassed
  <2>6. ~Holding("scan", glEventListAltered')
    BY DEF Holding
  <2>7. ~f.astray =>
          \A i \in DOMAIN glEventList' :
            /\ f.step = "scan" /\ f.at = None => glEventList'[i] \notin f.due
            /\ \A j \in DOMAIN glEventList' :
                  /\ glEventList'[j] = f.at
                  /\ \/ f.step = "scan" /\ i < j
                     \/ Holding(f.step, glEventListAltered') /\ i <= j
                  => glEventList'[i] \notin f.due
    BY <2>3, <2>5, <2>6
  <2>8. QED
    BY <2>1, <2>3, <2>4, <2>7, DispatchGoesOn
<1>4. QED
  BY <1>2, <1>3

LEMMA Dispatch_Granted ==
    ASSUME ListInv, DispatchInv, Granted \/ NotGranted
    PROVE  DispatchInv'
<1>1. dispatch # <<>> /\ Inner.step = "lock" /\ Inner.at \in Live /\ ~glEventListAltered
  BY DEF Granted, NotGranted, In, ListInv, Placed, DispatchInv, Reading
<1>2. PICK st \in {"refused", "callback"} : InnerBecomes([Inner EXCEPT !.step = st])
  BY DEF Granted, NotGranted
<1>3. st \in Steps \ {"scan", "lock"} /\ Holding("lock", glEventListAltered)
  BY <1>1 DEF Steps, Holding
<1>4. UNCHANGED <<glEventList, EventID, called, glEventListAltered, closed>>
  BY DEF Granted, NotGranted
<1>5. QED
  BY <1>1, <1>2, <1>3, <1>4, Dispatch_Step

LEMMA Dispatch_CallbackReturns ==
    ASSUME ListInv, DispatchInv, CallbackReturns
    PROVE  DispatchInv'
<1>1. dispatch # <<>> /\ Inner.step = "callback"
  BY DEF CallbackReturns, In
<1> DEFINE st == IF glEventListAltered THEN "restart" ELSE "onward"
<1>2. /\ st \in Steps \ {"scan", "lock"} /\ st \notin {"refused", "callback"}
      /\ Holding(st, glEventListAltered) => Holding("callback", glEventListAltered)
  BY DEF Steps, Holding
<1>3. InnerBecomes([Inner EXCEPT !.step = st])
  BY DEF CallbackReturns
<1>4. UNCHANGED <<glEventList, EventID, called, glEventListAltered, closed>>
  BY DEF CallbackReturns
<1> HIDE DEF st
<1>5. QED
  BY <1>1, <1>2, <1>3, <1>4, Dispatch_Step

LEMMA Dispatch_Unlocked ==
    ASSUME ListInv, DispatchInv, RefusalReturns \/ Unlocked
    PROVE  DispatchInv'
<1>1. dispatch # <<>> /\ UNCHANGED <<glEventList, EventID, called, glEventListAltered, closed>>
  BY DEF RefusalReturns, Unlocked, In
<1>2. Restart \/ (GoOn /\ Holding(Inner.step, glEventListAltered))
  BY DEF RefusalReturns, Unlocked, In, Holding
<1>3. QED
  BY <1>1, <1>2, Dispatch_Restart, Dispatch_GoOn

LEMMA Dispatch_GoAstray ==
    ASSUME ListInv, DispatchInv, GoAstray
    PROVE  DispatchInv'
<1>1. dispatch # <<>> /\ Inner \in Frame /\ Live \subseteq Subscriptions
  BY Innermost DEF GoAstray, In, ListInv, TypeOK, Live, Range
<1>2. PICK x \in Live \cup {None} :
         InnerBecomes([Inner EXCEPT !.at = x, !.step = "scan", !.astray = TRUE])
  BY DEF GoAstray
<1> DEFINE f == [Inner EXCEPT !.at = x, !.step = "scan", !.astray = TRUE]
<1>3. /\ f \in Frame /\ f.step = "scan" /\ f.astray /\ f.due = Inner.due /\ f.event = Inner.event
      /\ InnerBecomes(f)
  BY <1>1, <1>2 DEF Frame, Steps
<1> HIDE DEF f
<1>4. UNCHANGED <<glEventList, EventID, called>>
  BY DEF GoAstray
<1>5. f.due = {s \in Live' : Wants(EventID'[s], f.event)} \ called'
  <2>1. Inner.due = {s \in Live : Wants(EventID[s], Inner.event)} \ called
    BY <1>1, Wanted DEF DispatchInv, Owing
  <2>2. Live' = Live
    BY <1>4 DEF Live
  <2>3. QED
    BY <1>3, <1>4, <2>1, <2>2
<1>6. QED
  BY <1>1, <1>3, <1>5, DispatchGoesOn

LEMMA Dispatch_ScanPast ==
    ASSUME ListInv, DispatchInv, ScanPast
    PROVE  DispatchInv'
<1>1. dispatch # <<>> /\ Inner.step = "scan" /\ Inner.at \in Live
  BY DEF ScanPast, In, ListInv, Placed
<1>2. Inner \in Frame /\ Live \subseteq Subscriptions /\ IsInjective(glEventList)
  BY <1>1, Innermost DEF ListInv, TypeOK, Live, Range
<1> DEFINE x == After(Inner.at)
           f == [Inner EXCEPT !.at = x]
           p == Position(Inner.at)
<1>3. InnerBecomes(f)
  BY DEF ScanPast
<1>4. /\ x = None \/ x \in Live
      /\ p \in 1..Len(glEventList) /\ Len(glEventList) \in Nat
      /\ DOMAIN glEventList = 1..Len(glEventList) /\ glEventList[p] = Inner.at
      /\ x = None => p = Len(glEventList)
      /\ x # None => p + 1 \in 1..Len(glEventList) /\ glEventList[p + 1] = x
  BY <1>1, Following DEF ListInv
<1> HIDE DEF x, p
<1>5. /\ f \in Frame /\ f.step = "scan" /\ f.at = x /\ f.due = Inner.due /\ f.event = Inner.event
      /\ f.astray = Inner.astray /\ ~Holding(f.step, glEventListAltered')
  BY <1>1, <1>2, <1>4 DEF Frame, Holding
<1> HIDE DEF f
<1>6. UNCHANGED <<glEventList, EventID, called, glEventListAltered, closed>>
  BY DEF ScanPast
<1>7. f.due = {s \in Live' : Wants(EventID'[s], f.event)} \ called'
  <2>1. Inner.due = {s \in Live : Wants(EventID[s], Inner.event)} \ called
    BY <1>1, Wanted DEF DispatchInv, Owing
  <2>2. Live' = Live
    BY <1>6 DEF Live
  <2>3. QED
    BY <1>5, <1>6, <2>1, <2>2
<1>8. Inner.at \notin Inner.due
  BY <1>1 DEF ScanPast, DispatchInv, Owing
<1>9. ASSUME ~Inner.astray, NEW i \in DOMAIN glEventList,
             x = None \/ \E j \in DOMAIN glEventList : glEventList[j] = x /\ i < j
      PROVE  glEventList[i] \notin Inner.due
  <2>1. i < p \/ i = p
    <3>1. CASE x = None
      BY <1>4, <3>1
    <3>2. CASE x # None
      <4>1. PICK j \in DOMAIN glEventList : glEventList[j] = x /\ i < j
        BY <1>9, <3>2
      <4>2. j = p + 1
        BY <1>2, <1>4, <3>2, <4>1 DEF IsInjective
      <4>3. i \in 1..Len(glEventList) /\ i < p + 1
        BY <1>4, <4>1, <4>2
      <4>4. \A n \in Nat : \A a, b \in 1..n : a < b + 1 => a < b \/ a = b
        OBVIOUS
      <4>5. p \in 1..Len(glEventList) /\ Len(glEventList) \in Nat
        BY <1>4
      <4>6. QED
        BY <4>3, <4>4, <4>5
    <3>3. QED
      BY <3>1, <3>2
  <2>2. CASE i < p
    <3>1. Passed(i)
      BY <1>1, <1>4, <2>2 DEF Passed
    <3>2. QED
      BY <1>1, <1>9, <3>1 DEF DispatchInv, NonePassed
  <2>3. CASE i = p
    BY <1>4, <1>8, <2>3
  <2>4. QED
    BY <2>1, <2>2, <2>3
<1>10. ~f.astray => \A i \in DOMAIN glEventList' :
          /\ f.step = "scan" /\ f.at = None => glEventList'[i] \notin f.due
          /\ \A j \in DOMAIN glEventList' :
                /\ glEventList'[j] = f.at
                /\ \/ f.step = "scan" /\ i < j
                   \/ Holding(f.step, glEventListAltered') /\ i <= j
                => glEventList'[i] \notin f.due
  BY <1>5, <1>6, <1>9
<1>11. QED
  BY <1>1, <1>3, <1>5, <1>7, <1>10, DispatchGoesOn

LEMMA Dispatch_ScanFinds ==
    ASSUME ListInv, DispatchInv, ScanFinds
    PROVE  DispatchInv'
<1>1. dispatch # <<>> /\ Inner.step = "scan" /\ Inner.at \in Live /\ Inner.at # None /\ ~closed
  <2>1. dispatch # <<>> /\ Inner.step = "scan" /\ Inner.at \in Live /\ Inner.at # None
    BY DEF ScanFinds, In, ListInv, Placed
  <2>2. closed => Live = {}
    BY DEF ListInv, HandlesListed, Live, Range
  <2>3. QED
    BY <2>1, <2>2
<1>2. Inner \in Frame /\ IsInjective(glEventList)
  BY <1>1, Innermost DEF ListInv, TypeOK
<1> DEFINE f == [Inner EXCEPT !.step = "lock", !.due = @ \ {Inner.at}]
<1>3. InnerBecomes(f)
  BY DEF ScanFinds
<1>4. f \in Frame /\ f.step = "lock" /\ f.at = Inner.at /\ f.due = Inner.due \ {Inner.at}
      /\ f.event = Inner.event /\ f.astray = Inner.astray
  BY <1>2 DEF Frame, Steps
<1> HIDE DEF f
<1>5. UNCHANGED <<glEventList, EventID, closed>> /\ called' = called \cup {Inner.at} /\ glEventListAltered' = FALSE
  BY DEF ScanFinds, SetCalled
<1>6. f.due = {s \in Live' : Wants(EventID'[s], f.event)} \ called'
  <2>1. Inner.due = {s \in Live : Wants(EventID[s], Inner.event)} \ called
    BY <1>1, Wanted DEF DispatchInv, Owing
  <2>2. Live' = Live
    BY <1>5 DEF Live
  <2>3. QED
    BY <1>4, <1>5, <2>1, <2>2
<1>7. ASSUME ~Inner.astray, NEW i \in DOMAIN glEventList, NEW j \in DOMAIN glEventList,
             glEventList[j] = Inner.at, i <= j
      PROVE  glEventList[i] \notin f.due
  <2>1. i < j \/ i = j
    BY <1>7 DEF ListInv, TypeOK
  <2>2. i < j => Passed(i)
    BY <1>1, <1>7 DEF Passed
  <2>3. QED
    BY <1>1, <1>4, <1>7, <2>1, <2>2 DEF DispatchInv, NonePassed
<1>8. ~f.astray => \A i \in DOMAIN glEventList' :
          /\ f.step = "scan" /\ f.at = None => glEventList'[i] \notin f.due
          /\ \A j \in DOMAIN glEventList' :
                /\ glEventList'[j] = f.at
                /\ \/ f.step = "scan" /\ i < j
                   \/ Holding(f.step, glEventListAltered') /\ i <= j
                => glEventList'[i] \notin f.due
  BY <1>4, <1>5, <1>7
<1>9. QED
  BY <1>1, <1>3, <1>4, <1>5, <1>6, <1>8, DispatchGoesOn

\* A dispatch ends, and nothing is left of it.
LEMMA Ending ==
    ASSUME ListInv, DispatchInv, DispatchEnds
    PROVE  dispatch' = <<>> /\ dispatch # <<>> /\ (Inner.astray \/ Inner.due = {})
<1>1. dispatch # <<>> /\ Inner.step = "scan" /\ Inner.at = None
  BY DEF DispatchEnds, In
<1>2. dispatch' \in Seq(Frame) /\ Len(dispatch') = 0
  BY <1>1, InnerReturned DEF DispatchEnds, ListInv, TypeOK, DispatchInv
<1>3. ~Inner.astray => \A i \in DOMAIN glEventList : glEventList[i] \notin Inner.due
  BY <1>1 DEF DispatchInv, NonePassed, Passed
<1>4. Inner.due \subseteq Live
  BY <1>1 DEF DispatchInv, Owing
<1>5. QED
  BY <1>1, <1>2, <1>3, <1>4 DEF Live, Range

LEMMA Dispatch_Init == Init => DispatchInv
  BY DEF Init, DispatchInv, Owing, Reading, NonePassed

LEMMA Dispatch_Next == MaxNesting = 1 /\ ListInv /\ DispatchInv /\ [Next]_vars => DispatchInv'
<1> SUFFICES ASSUME MaxNesting = 1, ListInv, DispatchInv, [Next]_vars PROVE DispatchInv'
  OBVIOUS
<1>1. CASE FreeEvents \/ DispatchEnds
  <2>1. dispatch' = <<>>
    BY <1>1, Ending DEF FreeEvents
  <2>2. QED
    BY <2>1 DEF DispatchInv, Owing, Reading, NonePassed
<1>3. CASE UNCHANGED vars
  BY <1>3 DEF vars, DispatchInv, Owing, Reading, NonePassed, Passed, Inner, Live, Matches
<1>4. QED
  BY <1>1, <1>3, Dispatch_BroadcastEvent, Dispatch_SubscribeEvent, Dispatch_UnsubscribeEvent,
     Dispatch_MsgEvent, Dispatch_ScanPast, Dispatch_ScanFinds, Dispatch_Granted,
     Dispatch_CallbackReturns, Dispatch_Unlocked, Dispatch_GoAstray DEF Next, Loop

\* What holds where dispatches do not nest.
THEOREM DispatchCorrect == MaxNesting = 1 => (Spec => []DispatchInv)
<1>1. ASSUME MaxNesting = 1 PROVE Spec => []DispatchInv
  <2>1. ListInv /\ DispatchInv /\ [Next]_vars => DispatchInv'
    BY <1>1, Dispatch_Next
  <2>2. QED
    BY <2>1, Dispatch_Init, ListCorrect, PTL DEF Spec
<1>2. QED
  BY <1>1

\* Clients neither end a dispatch nor move it.
LEMMA StepKept ==
    ASSUME ListInv, NEW s \in Subscriptions, UnsubscribeEvent(s)
    PROVE  /\ dispatch' # <<>> => dispatch # <<>>
           /\ dispatch # <<>> => Inner'.step = Inner.step
<1>1. CASE dispatch' = dispatch
  BY <1>1 DEF Inner
<1>2. CASE dispatch' = [i \in DOMAIN dispatch |-> [dispatch[i] EXCEPT !.due = @ \ {s}]]
  <2>1. dispatch \in Seq(Frame)
    BY DEF ListInv, TypeOK
  <2>2. dispatch = <<>> => dispatch' = <<>>
    BY <1>2
  <2>3. ASSUME dispatch # <<>> PROVE Inner'.step = Inner.step
    <3>1. /\ Len(dispatch) \in DOMAIN dispatch /\ Inner = dispatch[Len(dispatch)] /\ Inner \in Frame
          /\ DOMAIN dispatch = 1..Len(dispatch) /\ Len(dispatch) \in Nat
      BY <2>1, <2>3, Innermost
    <3>2. Len(dispatch') = Len(dispatch) /\ dispatch'[Len(dispatch)] = [Inner EXCEPT !.due = @ \ {s}]
      BY <1>2, <3>1
    <3>3. Inner' = [Inner EXCEPT !.due = @ \ {s}]
      BY <3>2 DEF Inner, Last
    <3>4. QED
      BY <3>1, <3>3 DEF Frame
  <2>4. QED
    BY <2>2, <2>3
<1>3. QED
  BY <1>1, <1>2 DEF UnsubscribeEvent

\* A dispatch begins with the scan.
LEMMA Begun ==
    ASSUME ListInv, MsgEvent
    PROVE  dispatch' # <<>> /\ Inner'.step = "scan"
<1>1. PICK f : dispatch' = Append(dispatch, f) /\ f.step = "scan"
  BY DEF MsgEvent
<1>2. dispatch \in Seq(Frame) /\ Len(dispatch) \in Nat
  BY DEF ListInv, TypeOK
<1>3. Len(dispatch') = Len(dispatch) + 1 /\ dispatch'[Len(dispatch) + 1] = f
  BY <1>1, <1>2
<1>4. QED
  BY <1>1, <1>2, <1>3 DEF Inner, Last

\* What a dispatch relies on after a callback or a refused lock: what callbacks
\* free is noticed, as long as they start no dispatch.
THEOREM NothingFreedUnnoticed == MaxNesting = 1 => (Spec => FreeNoticed)
<1>1. ASSUME MaxNesting = 1 PROVE Spec => FreeNoticed
  <2>1. Spec => []DispatchInv
    BY <1>1, DispatchCorrect
  <2> DEFINE A == /\ In("callback") /\ In("onward")' => Inner.at \in Live
                  /\ In("refused") => ~In("freed")'
  <2>2. ASSUME ListInv, DispatchInv, [Next]_vars PROVE A
    <3>1. dispatch # <<>> /\ Inner.step \in {"callback", "refused"} /\ ~glEventListAltered => Inner.at \in Live
      BY <2>2 DEF DispatchInv, Reading
    <3>2. ASSUME dispatch # <<>>, dispatch' = dispatch PROVE A
      BY <3>2 DEF In, Inner
    <3>3. ASSUME dispatch # <<>>, NEW f \in Frame, InnerBecomes(f) PROVE Inner' = f
      BY <2>2, <3>3, InnerReplaced DEF ListInv, TypeOK
    <3>4. dispatch # <<>> => Inner \in Frame /\ Live \subseteq Subscriptions
      BY <2>2, Innermost DEF ListInv, TypeOK, Live, Range
    <3>5. CASE CallbackReturns
      <4>1. In("callback") /\ dispatch # <<>> /\ Inner.step = "callback"
        BY <3>5 DEF CallbackReturns, In
      <4> DEFINE f == [Inner EXCEPT !.step = IF glEventListAltered THEN "restart" ELSE "onward"]
      <4>2. f \in Frame /\ f.step = (IF glEventListAltered THEN "restart" ELSE "onward") /\ InnerBecomes(f)
        BY <3>4, <3>5, <4>1 DEF CallbackReturns, Frame, Steps
      <4> HIDE DEF f
      <4>3. Inner'.step = IF glEventListAltered THEN "restart" ELSE "onward"
        BY <3>3, <4>1, <4>2
      <4>4. QED
        BY <3>1, <4>1, <4>3 DEF In
    <3>6. CASE RefusalReturns
      <4>1. In("refused") /\ dispatch # <<>> /\ Inner.step = "refused"
        BY <3>6 DEF RefusalReturns, In
      <4>2. PICK x : InnerBecomes([Inner EXCEPT !.at = x, !.step = "scan"]) /\ x \in Live \cup {None}
        BY <2>2, <3>1, <3>6, <4>1, Beginning, Following DEF RefusalReturns, Restart, GoOn, ListInv
      <4> DEFINE f == [Inner EXCEPT !.at = x, !.step = "scan"]
      <4>3. f \in Frame /\ f.step = "scan" /\ InnerBecomes(f)
        BY <3>4, <4>1, <4>2 DEF Frame, Steps
      <4> HIDE DEF f
      <4>4. Inner'.step = "scan"
        BY <3>3, <4>1, <4>3
      <4>5. QED
        BY <4>1, <4>4 DEF In
    <3>7. CASE \E s \in Subscriptions : UnsubscribeEvent(s)
      BY <2>2, <3>7, StepKept DEF In
    <3>8. CASE MsgEvent
      BY <2>2, <3>8, Begun DEF In
    <3>9. CASE ScanPast \/ ScanFinds \/ Granted \/ NotGranted \/ Unlocked \/ DispatchEnds \/ GoAstray \/ FreeEvents
      BY <3>9 DEF ScanPast, ScanFinds, Granted, NotGranted, Unlocked, DispatchEnds, GoAstray, FreeEvents, In
    <3>10. QED
      BY <2>2, <3>2, <3>5, <3>6, <3>7, <3>8, <3>9
         DEF Next, Loop, vars, BroadcastEvent, SubscribeEvent, In
  <2>3. ListInv /\ DispatchInv /\ [Next]_vars => [A]_vars
    BY <2>2
  <2>4. QED
    BY <2>1, <2>3, ListCorrect, PTL DEF Spec, FreeNoticed
<1>2. QED
  BY <1>1

\* A dispatch that ends has called everybody who was subscribed when it began
\* and still is, whatever its callbacks did to the list, unless it has gone on
\* from an entry that the end of its own block had freed.
THEOREM EverybodyIsCalled == MaxNesting = 1 => (Spec => NoneLeftOut)
<1>1. ASSUME MaxNesting = 1 PROVE Spec => NoneLeftOut
  <2>1. Spec => []DispatchInv
    BY <1>1, DispatchCorrect
  <2>2. ASSUME ListInv, DispatchInv, [Next]_vars, Len(dispatch') < Len(dispatch)
        PROVE  Inner.astray \/ Inner.due = {}
    <3>1. dispatch \in Seq(Frame) /\ Len(dispatch) \in Nat
      BY <2>2 DEF ListInv, TypeOK
    <3>2. CASE DispatchEnds
      BY <2>2, <3>2, Ending
    <3>3. ASSUME dispatch # <<>>, NEW f \in Frame, InnerBecomes(f) PROVE FALSE
      BY <2>2, <3>1, <3>3, InnerReplaced
    <3>4. dispatch' # dispatch
      BY <2>2, <3>1
    <3>5. CASE \E s \in Subscriptions : UnsubscribeEvent(s)
      <4>1. Len(dispatch') = Len(dispatch)
        BY <3>1, <3>5 DEF UnsubscribeEvent
      <4>2. QED
        BY <2>2, <3>1, <4>1
    <3>6. CASE MsgEvent
      <4>1. \E f : dispatch' = Append(dispatch, f)
        BY <3>6 DEF MsgEvent
      <4>2. QED
        BY <2>2, <3>1, <4>1
    <3>7. CASE ScanPast \/ ScanFinds \/ Granted \/ NotGranted \/ RefusalReturns \/ CallbackReturns
                 \/ Unlocked \/ GoAstray
      <4>1. \E f : dispatch # <<>> /\ InnerBecomes(f)
        BY <3>7 DEF ScanPast, ScanFinds, Granted, NotGranted, RefusalReturns, CallbackReturns, Unlocked,
                       GoAstray, Restart, GoOn, In
      <4>2. PICK f : dispatch # <<>> /\ dispatch' = Append(Front(dispatch), f)
        BY <4>1 DEF InnerBecomes
      <4>3. Front(dispatch) \in Seq(Frame) /\ Len(Front(dispatch)) = Len(dispatch) - 1
        BY <3>1, <4>2, WithoutLast
      <4>4. Len(dispatch') = Len(dispatch)
        BY <3>1, <4>2, <4>3
      <4>5. QED
        BY <2>2, <3>1, <4>4
    <3>8. QED
      BY <2>2, <3>2, <3>4, <3>5, <3>6, <3>7
         DEF Next, Loop, vars, BroadcastEvent, SubscribeEvent, FreeEvents
  <2>3. ListInv /\ DispatchInv /\ [Next]_vars => [Len(dispatch') < Len(dispatch) => Inner.astray \/ Inner.due = {}]_vars
    BY <2>2
  <2>4. QED
    BY <2>1, <2>3, ListCorrect, PTL DEF Spec, NoneLeftOut
<1>2. QED
  BY <1>1

\* A dispatch calls only those it owes a call, once each, and none who has come
\* since, in the memory of another or not.
THEOREM NobodyCalledTwice == MaxNesting = 1 => (Spec => NoneCalledTwice)
<1>1. ASSUME MaxNesting = 1 PROVE Spec => NoneCalledTwice
  <2>1. Spec => []DispatchInv
    BY <1>1, DispatchCorrect
  <2>2. ASSUME ListInv, DispatchInv, [Next]_vars, In("scan"), In("lock")'
        PROVE  Inner.at \in Inner.due
    <3>1. dispatch # <<>> /\ Inner.step = "scan" /\ dispatch' # <<>> /\ Inner'.step = "lock"
          /\ Inner \in Frame /\ dispatch \in Seq(Frame)
      BY <2>2, Innermost DEF In, ListInv, TypeOK
    <3>2. dispatch' # dispatch
      BY <3>1 DEF Inner
    <3>3. CASE ScanFinds
      <4>1. Inner.at \in Live
        BY <2>2, <3>3 DEF ScanFinds, In, ListInv, Placed
      <4>2. QED
        BY <2>2, <3>1, <3>3, <4>1 DEF ScanFinds, DispatchInv, Owing
    <3>4. CASE ScanPast
      <4>1. ListInv'
        BY <2>2, List_Next
      <4>2. PICK x : InnerBecomes([Inner EXCEPT !.at = x])
        BY <3>4 DEF ScanPast
      <4>3. Inner' = [Inner EXCEPT !.at = x]
        <5>1. Front(dispatch) \in Seq(Frame) /\ dispatch' = Append(Front(dispatch), [Inner EXCEPT !.at = x])
          BY <3>1, <4>2, WithoutLast DEF InnerBecomes
        <5>2. QED
          BY <5>1 DEF Inner, Last
      <4>4. Inner'.step = Inner.step
        BY <3>1, <4>3 DEF Frame
      <4>5. QED
        BY <3>1, <4>4
    <3>5. CASE DispatchEnds
      BY <2>2, <3>1, <3>5, Ending
    <3>6. QED
      BY <2>2, <3>1, <3>2, <3>3, <3>4, <3>5
         DEF Next, Loop, vars, BroadcastEvent, SubscribeEvent, UnsubscribeEvent, FreeEvents, MsgEvent,
             ClientRuns, ClientSteps, Granted, NotGranted, RefusalReturns, CallbackReturns, Unlocked, GoAstray, In
  <2>3. ListInv /\ DispatchInv /\ [Next]_vars
          => [In("scan") /\ In("lock")' => Inner.at \in Inner.due]_vars
    BY <2>2
  <2>4. QED
    BY <2>1, <2>3, ListCorrect, PTL DEF Spec, NoneCalledTwice
<1>2. QED
  BY <1>1

=============================================================================
