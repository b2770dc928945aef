----------------------------- MODULE WaitsProofs -----------------------------
(***************************************************************************)
(* Waits, for any objects, lists and nesting of calls: if objects can be   *)
(* locked when they are registered, the innermost wait would hear of       *)
(* whatever it waits for; if no claim comes to nothing either, no wait     *)
(* ends without an error before its time.                                  *)
(***************************************************************************)
EXTENDS Waits, SequenceTheorems, WellFoundedInduction, TLAPS

Call == WaitCall \cup LoopCall

\* A call that is not the innermost one goes on when the loop above it is over; the
\* objects that are to be registered are none once that is done.
FrameOK(c, top) == c.kind = "wait" =>
    /\ c.todo \subseteq c.objects
    /\ c.step # "register" => c.todo = {}
    /\ c.step \in {"register", "last"} => c.error = "Okay"
    /\ ~top => c.step \in {"loop", "clean"} /\ c.error = "Okay"
FramesOK == \A n \in 1..Len(calls) : FrameOK(calls[n], n = Len(calls))

\* A wait that contains another one has been disturbed.
OutersDisturbed == \A m, n \in Waiting : m < n => calls[m].disturbed

\* The objects that await registration are there to be locked.
AllReady == \A n \in Waiting : \A o \in calls[n].todo : state[o] = "live" /\ o \notin held

\* What has come of a wait's objects, given their states.
CameIn(c, st) == c.objects \ {o \in c.due : st[o] = "live"}

\* A wait and its list of objects L, whether any signal ends it (A) and whether it has
\* been ended (R), given the states of the objects and the pending signals: what has
\* left the list has come, a pending signal is newer than the wait, and the wait has
\* been ended only with good reason.
Told(c, L, A, R, st, sig) ==
    /\ A = c.any
    /\ L \subseteq c.objects \ c.todo
    /\ \A o \in L \cap sig : o \notin c.due
    /\ R => IF A THEN CameIn(c, st) # {} ELSE L = {} /\ c.todo = {}
    /\ ~(R /\ A) => c.objects \ (c.todo \cup L) \subseteq CameIn(c, st)
    /\ c.step \in {"last", "clean"} /\ c.error = "Okay" => R \/ L = {}

\* The list of the innermost wait is the current one, that of another one is kept by
\* the next wait inside it.
IsNext(m, n) == m < n /\ \A k \in Waiting : k <= m \/ n <= k
ToldNow(n) == Told(calls[n], glWFOList, glWFOAnySignal, glWFOSignalReceived, state, signalled)
ToldWith(m, n) ==
    Told(calls[m], calls[n].list, calls[n].anySignal, calls[n].received, state, signalled)
AllTold ==
    /\ \A n \in Waiting : Innermost(n) => ToldNow(n)
    /\ \A m, n \in Waiting : IsNext(m, n) => ToldWith(m, n)

StackInv == TypeOK /\ FramesOK /\ OutersDisturbed
ReadyInv == AllReady /\ MonitoredIsHeard
WaitInv == StackInv /\ (~Unready => ReadyInv) /\ (~Unready /\ ~FailedFrees => AllTold)

-----------------------------------------------------------------------------
(* The stack of calls.                                                     *)

\* The innermost call.
LEMMA InnerCall ==
    ASSUME calls \in Seq(Call), calls # <<>>
    PROVE  /\ Len(calls) \in Nat \ {0} /\ Len(calls) \in 1..Len(calls) /\ DOMAIN calls = 1..Len(calls)
           /\ Inner = calls[Len(calls)] /\ Inner \in Call
  BY DEF Inner, Last

LEMMA WithoutLast ==
    ASSUME NEW S, NEW q \in Seq(S), q # <<>>
    PROVE  /\ Front(q) \in Seq(S) /\ Len(Front(q)) = Len(q) - 1
           /\ \A i \in 1..(Len(q) - 1) : Front(q)[i] = q[i]
<1> DEFINE n == Len(q) - 1
           p == SubSeq(q, 1, n)
<1>1. n \in Nat /\ \A i \in 1..n : q[i] \in S
  OBVIOUS
<1> HIDE DEF n
<1>2. /\ p \in Seq(S) /\ Len(p) = IF 1 <= n THEN n - 1 + 1 ELSE 0
      /\ \A i \in 1..(n - 1 + 1) : p[i] = q[1 + i - 1]
  BY <1>1, SubSeqProperties
<1>3. Front(q) = p
  BY DEF Front, n
<1> HIDE DEF p
<1>4. n - 1 + 1 = n /\ \A i \in 1..n : 1 + i - 1 = i
  BY <1>1
<1>5. Len(p) = n
  BY <1>1, <1>2
<1>6. QED
  BY <1>2, <1>3, <1>4, <1>5 DEF n

\* The innermost element of a stack is replaced.
LEMMA LastReplaced ==
    ASSUME NEW S, NEW q \in Seq(S), q # <<>>, NEW f \in S
    PROVE  LET r == Append(Front(q), f) IN
           /\ r \in Seq(S) /\ r # <<>> /\ Len(r) = Len(q) /\ r[Len(q)] = f
           /\ \A i \in 1..(Len(q) - 1) : r[i] = q[i]
<1> DEFINE p == Front(q)
           r == Append(p, f)
<1>1. Len(q) \in Nat \ {0}
  OBVIOUS
<1>2. p \in Seq(S) /\ Len(p) = Len(q) - 1 /\ \A i \in 1..(Len(q) - 1) : p[i] = q[i]
  BY WithoutLast
<1> HIDE DEF p
<1>3. /\ r \in Seq(S) /\ Len(r) = Len(p) + 1 /\ r[Len(p) + 1] = f
      /\ \A i \in 1..Len(p) : r[i] = p[i]
  BY <1>2, AppendProperties
<1> HIDE DEF r
<1>4. /\ r \in Seq(S) /\ Len(r) = Len(q) /\ r[Len(q)] = f
      /\ \A i \in 1..(Len(q) - 1) : r[i] = q[i]
  BY <1>1, <1>2, <1>3
<1>5. r # <<>>
  BY <1>1, <1>4
<1>6. QED
  BY <1>4, <1>5 DEF r, p

\* The calls by their kinds.
LEMMA Kinds ==
    ASSUME NEW c \in Call
    PROVE  /\ c.kind \in {"wait", "loop"}
           /\ c.kind = "wait" => c \in WaitCall
           /\ c.kind = "loop" => c \in LoopCall
  BY DEF Call, WaitCall, LoopCall

\* What a step keeps of a wait, and of one that it does not work on.
SameWait(c, d) ==
    /\ d.kind = c.kind
    /\ c.kind = "wait" =>
        /\ d.objects = c.objects /\ d.any = c.any
        /\ d.list = c.list /\ d.anySignal = c.anySignal /\ d.received = c.received
        /\ d.todo \subseteq c.todo /\ d.due \subseteq c.due /\ (c.disturbed => d.disturbed)
KeptWait(c, d) ==
    /\ SameWait(c, d)
    /\ c.kind = "wait" => d.todo = c.todo /\ d.step = c.step /\ d.error = c.error

LEMMA KeptItself == ASSUME NEW c PROVE KeptWait(c, c)
  BY DEF KeptWait, SameWait

\* The waits, by the length of the stack.
LEMMA WaitingTyped ==
    ASSUME calls \in Seq(Call)
    PROVE  /\ Len(calls) \in Nat /\ Waiting \subseteq 1..Len(calls)
           /\ \A n \in 1..Len(calls) : n \in Waiting <=> calls[n].kind = "wait"
           /\ \A n \in Waiting : n \in Nat /\ n <= Len(calls) /\ calls[n] \in WaitCall
<1>1. Len(calls) \in Nat /\ DOMAIN calls = 1..Len(calls)
  OBVIOUS
<1>2. Waiting \subseteq 1..Len(calls) /\ \A n \in 1..Len(calls) : n \in Waiting <=> calls[n].kind = "wait"
  BY <1>1 DEF Waiting
<1>3. \A n \in Waiting : calls[n] \in Call /\ calls[n].kind = "wait"
  BY <1>1 DEF Waiting
<1>4. QED
  BY <1>1, <1>2, <1>3, Kinds

LEMMA WaitingTypedNext ==
    (calls \in Seq(Call) =>
        /\ Len(calls) \in Nat /\ Waiting \subseteq 1..Len(calls)
        /\ \A n \in 1..Len(calls) : n \in Waiting <=> calls[n].kind = "wait"
        /\ \A n \in Waiting : n \in Nat /\ n <= Len(calls) /\ calls[n] \in WaitCall)'
<1>1. calls \in Seq(Call) =>
        /\ Len(calls) \in Nat /\ Waiting \subseteq 1..Len(calls)
        /\ \A n \in 1..Len(calls) : n \in Waiting <=> calls[n].kind = "wait"
        /\ \A n \in Waiting : n \in Nat /\ n <= Len(calls) /\ calls[n] \in WaitCall
  BY WaitingTyped
<1>2. QED
  BY <1>1, PTL

\* A step leaves the waits in place, and may only change the innermost one.
SameWaits ==
    /\ calls' \in Seq(Call) /\ Waiting' = Waiting
    /\ \A n \in Waiting : /\ SameWait(calls[n], calls'[n])
                          /\ ~Innermost(n) => KeptWait(calls[n], calls'[n])

\* A step changes no call but, possibly, the innermost one.
LEMMA StackSame ==
    ASSUME StackInv, calls' \in Seq(Call), Len(calls') = Len(calls),
           \A n \in 1..Len(calls) : /\ SameWait(calls[n], calls'[n])
                                    /\ n < Len(calls) => KeptWait(calls[n], calls'[n]),
           calls # <<>> => FrameOK(calls'[Len(calls)], TRUE)
    PROVE  SameWaits /\ FramesOK' /\ OutersDisturbed'
<1>1. calls \in Seq(Call)
  BY DEF StackInv, TypeOK, Call
<1>2. /\ Len(calls) \in Nat /\ Waiting \subseteq 1..Len(calls)
      /\ \A n \in 1..Len(calls) : n \in Waiting <=> calls[n].kind = "wait"
      /\ \A n \in Waiting : n \in Nat /\ n <= Len(calls)
  BY <1>1, WaitingTyped
<1>3. /\ Waiting' \subseteq 1..Len(calls)
      /\ \A n \in 1..Len(calls) : n \in Waiting' <=> calls'[n].kind = "wait"
  BY WaitingTypedNext
<1>4. Waiting' = Waiting
  BY <1>2, <1>3 DEF SameWait
<1>5. \A n \in Waiting : ~Innermost(n) => n < Len(calls)
  BY <1>2 DEF Innermost
<1>6. SameWaits
  BY <1>2, <1>4, <1>5 DEF SameWaits
<1>7. ASSUME NEW n \in 1..Len(calls)
      PROVE  FrameOK(calls'[n], n = Len(calls))
  <2>1. CASE n = Len(calls)
    <3>1. calls # <<>>
      BY <1>1, <1>7
    <3>2. QED
      BY <2>1, <3>1
  <2>2. CASE n # Len(calls)
    <3>1. n < Len(calls) /\ (n = Len(calls)) = FALSE
      BY <1>2, <1>7, <2>2
    <3>4. FrameOK(calls[n], n = Len(calls))
      BY <1>7 DEF StackInv, FramesOK
    <3>5. FrameOK(calls[n], FALSE)
      BY <3>1, <3>4
    <3>2. KeptWait(calls[n], calls'[n])
      BY <1>7, <3>1
    <3>3. QED
      BY <2>2, <3>5, <3>2 DEF FrameOK, KeptWait, SameWait
  <2>3. QED
    BY <2>1, <2>2
<1>8. FramesOK'
  BY <1>7 DEF FramesOK
<1>9. OutersDisturbed'
  <2>1. SUFFICES ASSUME NEW m \in Waiting, NEW n \in Waiting, m < n
                 PROVE  calls'[m].disturbed
    BY <1>4, Zenon DEF OutersDisturbed
  <2>2. calls[m].disturbed
    BY <2>1, Zenon DEF StackInv, OutersDisturbed
  <2>3. SameWait(calls[m], calls'[m]) /\ calls[m].kind = "wait"
    BY <1>2
  <2>4. QED
    BY <2>2, <2>3, Zenon DEF SameWait
<1>10. QED
  BY <1>6, <1>8, <1>9

\* A message loop is called.
LEMMA LoopCalled ==
    ASSUME StackInv, calls' \in Seq(Call), Len(calls') = Len(calls) + 1,
           \A n \in 1..Len(calls) : /\ SameWait(calls[n], calls'[n])
                                    /\ n < Len(calls) => KeptWait(calls[n], calls'[n]),
           calls'[Len(calls) + 1].kind = "loop",
           calls # <<>> => FrameOK(calls'[Len(calls)], FALSE)
    PROVE  SameWaits /\ FramesOK' /\ OutersDisturbed'
<1>1. calls \in Seq(Call)
  BY DEF StackInv, TypeOK, Call
<1>2. /\ Len(calls) \in Nat /\ Waiting \subseteq 1..Len(calls)
      /\ \A n \in 1..Len(calls) : n \in Waiting <=> calls[n].kind = "wait"
      /\ \A n \in Waiting : n \in Nat /\ n <= Len(calls)
  BY <1>1, WaitingTyped
<1>3. /\ Waiting' \subseteq 1..(Len(calls) + 1)
      /\ \A n \in 1..(Len(calls) + 1) : n \in Waiting' <=> calls'[n].kind = "wait"
  BY WaitingTypedNext
<1>4. Waiting' = Waiting
  <2>1. \A n \in 1..Len(calls) : calls'[n].kind = calls[n].kind
    BY DEF SameWait
  <2>2. Len(calls) + 1 \notin Waiting' /\ Len(calls) + 1 \notin Waiting
    BY <1>2, <1>3
  <2>3. \A n \in 1..(Len(calls) + 1) : n # Len(calls) + 1 => n \in 1..Len(calls)
    BY <1>2
  <2>4. \A n \in 1..Len(calls) : n \in 1..(Len(calls) + 1)
    BY <1>2
  <2>5. ASSUME NEW n \in Waiting' PROVE n \in Waiting
    BY <1>2, <1>3, <2>1, <2>2, <2>3
  <2>6. ASSUME NEW n \in Waiting PROVE n \in Waiting'
    BY <1>2, <1>3, <2>1, <2>4
  <2>7. QED
    BY <2>5, <2>6
<1>5. \A n \in Waiting : ~Innermost(n) => n < Len(calls)
  BY <1>2 DEF Innermost
<1>6. SameWaits
  BY <1>2, <1>4, <1>5 DEF SameWaits
<1>7. ASSUME NEW n \in 1..(Len(calls) + 1)
      PROVE  FrameOK(calls'[n], n = Len(calls) + 1)
  <2>1. CASE n = Len(calls) + 1
    BY <2>1 DEF FrameOK
  <2>2. CASE n = Len(calls)
    <3>1. calls # <<>> /\ n # Len(calls) + 1
      BY <1>1, <1>2, <1>7, <2>2
    <3>2. QED
      BY <2>2, <3>1
  <2>3. CASE n < Len(calls)
    <3>1. n # Len(calls) /\ n # Len(calls) + 1 /\ n \in 1..Len(calls)
      BY <1>2, <1>7, <2>3
    <3>2. FrameOK(calls[n], FALSE)
      BY <3>1 DEF StackInv, FramesOK
    <3>3. KeptWait(calls[n], calls'[n])
      BY <2>3, <3>1
    <3>4. QED
      BY <3>1, <3>2, <3>3 DEF FrameOK, KeptWait, SameWait
  <2>4. QED
    BY <1>2, <1>7, <2>1, <2>2, <2>3
<1>8. FramesOK'
  BY <1>7 DEF FramesOK
<1>9. OutersDisturbed'
  <2>1. SUFFICES ASSUME NEW m \in Waiting, NEW n \in Waiting, m < n
                 PROVE  calls'[m].disturbed
    BY <1>4, Zenon DEF OutersDisturbed
  <2>2. calls[m].disturbed
    BY <2>1, Zenon DEF StackInv, OutersDisturbed
  <2>3. SameWait(calls[m], calls'[m]) /\ calls[m].kind = "wait"
    BY <1>2
  <2>4. QED
    BY <2>2, <2>3, Zenon DEF SameWait
<1>10. QED
  BY <1>6, <1>8, <1>9

-----------------------------------------------------------------------------
(* What is said of the waits outlives the steps.                           *)

\* States and signals change so that nothing that has come is taken back.
GentleStep == \A n \in Waiting :
    /\ \A o \in calls[n].objects : state[o] # "live" => state'[o] # "live"
    /\ \A o \in signalled' \ signalled : o \notin calls'[n].due

LEMMA ToldKept ==
    ASSUME NEW c, NEW d, c.kind = "wait", KeptWait(c, d), NEW L, NEW A, NEW R,
           NEW st, NEW st2, NEW sig, NEW sig2, Told(c, L, A, R, st, sig),
           \A o \in c.objects : st[o] # "live" => st2[o] # "live",
           \A o \in sig2 \ sig : o \notin d.due
    PROVE  Told(d, L, A, R, st2, sig2) /\ CameIn(c, st) \subseteq CameIn(d, st2)
<1>1. /\ d.objects = c.objects /\ d.any = c.any /\ d.due \subseteq c.due
      /\ d.todo = c.todo /\ d.step = c.step /\ d.error = c.error
  BY DEF KeptWait, SameWait
<1>2. CameIn(c, st) \subseteq CameIn(d, st2)
  BY <1>1 DEF CameIn
<1>3. A = d.any /\ L \subseteq d.objects \ d.todo
  BY <1>1 DEF Told
<1>4. \A o \in L \cap sig2 : o \notin d.due
  BY <1>1 DEF Told
<1>5. R => IF A THEN CameIn(d, st2) # {} ELSE L = {} /\ d.todo = {}
  BY <1>1, <1>2 DEF Told
<1>6. ~(R /\ A) => d.objects \ (d.todo \cup L) \subseteq CameIn(d, st2)
  BY <1>1, <1>2 DEF Told
<1>7. d.step \in {"last", "clean"} /\ d.error = "Okay" => R \/ L = {}
  BY <1>1 DEF Told
<1>8. QED
  BY <1>2, <1>3, <1>4, <1>5, <1>6, <1>7 DEF Told

LEMMA OutersTold ==
    ASSUME calls \in Seq(Call), AllTold, SameWaits, GentleStep
    PROVE  \A m, n \in Waiting' : IsNext(m, n)' => ToldWith(m, n)'
<1>1. SUFFICES ASSUME NEW m \in Waiting, NEW n \in Waiting, IsNext(m, n)
               PROVE  Told(calls'[m], calls'[n].list, calls'[n].anySignal, calls'[n].received,
                           state', signalled')
  <2>1. Waiting' = Waiting
    BY DEF SameWaits
  <2>2. \A m, n : IsNext(m, n)' = IsNext(m, n)
    BY <2>1 DEF IsNext
  <2>3. QED
    BY <2>1, <2>2 DEF ToldWith
<1>2. /\ \A k \in Waiting : k \in Nat /\ calls[k] \in WaitCall
      /\ calls[m].kind = "wait" /\ calls[n].kind = "wait"
  BY <1>1, WaitingTyped DEF WaitCall
<1>3. ~Innermost(m)
  BY <1>1, <1>2 DEF Innermost, IsNext
<1>4. KeptWait(calls[m], calls'[m])
  BY <1>1, <1>3 DEF SameWaits
<1>5. /\ calls'[n].list = calls[n].list /\ calls'[n].anySignal = calls[n].anySignal
      /\ calls'[n].received = calls[n].received
  BY <1>1, <1>2 DEF SameWaits, SameWait
<1>6. Told(calls[m], calls[n].list, calls[n].anySignal, calls[n].received, state, signalled)
  BY <1>1 DEF AllTold, ToldWith
<1>7. /\ \A o \in calls[m].objects : state[o] # "live" => state'[o] # "live"
      /\ \A o \in signalled' \ signalled : o \notin calls'[m].due
  BY <1>1 DEF GentleStep
<1>8. Told(calls'[m], calls[n].list, calls[n].anySignal, calls[n].received, state', signalled')
  BY <1>2, <1>4, <1>6, <1>7, ToldKept
<1>9. QED
  BY <1>5, <1>8

LEMMA InnermostTold ==
    ASSUME calls \in Seq(Call), AllTold, GentleStep, UNCHANGED wait,
           NEW n \in Waiting, Innermost(n), KeptWait(calls[n], calls'[n])
    PROVE  ToldNow(n)'
<1>1. calls[n].kind = "wait"
  BY WaitingTyped
<1>2. Told(calls[n], glWFOList, glWFOAnySignal, glWFOSignalReceived, state, signalled)
  BY DEF AllTold, ToldNow
<1>3. /\ \A o \in calls[n].objects : state[o] # "live" => state'[o] # "live"
      /\ \A o \in signalled' \ signalled : o \notin calls'[n].due
  BY DEF GentleStep
<1>4. Told(calls'[n], glWFOList, glWFOAnySignal, glWFOSignalReceived, state', signalled')
  BY <1>1, <1>2, <1>3, ToldKept
<1>5. QED
  BY <1>4 DEF ToldNow, wait

\* All waits, when the step does not work on one.
LEMMA ToldAll ==
    ASSUME calls \in Seq(Call), AllTold, SameWaits, GentleStep,
           \A n \in Waiting : Innermost(n) => ToldNow(n)'
    PROVE  AllTold'
<1>1. \A m, n \in Waiting' : IsNext(m, n)' => ToldWith(m, n)'
  BY OutersTold
<1>2. Waiting' = Waiting /\ \A n : Innermost(n)' = Innermost(n)
  BY DEF SameWaits, Innermost
<1>3. QED
  BY <1>1, <1>2 DEF AllTold

\* An object leaves the list because it has come.
LEMMA ToldHeard ==
    ASSUME NEW c, NEW d, c.kind = "wait", KeptWait(c, d), NEW L, NEW A \in BOOLEAN,
           NEW R \in BOOLEAN, NEW st, NEW st2, NEW sig, NEW sig2, Told(c, L, A, R, st, sig),
           \A o \in c.objects : st[o] # "live" => st2[o] # "live",
           \A o \in sig2 \ sig : o \notin d.due,
           NEW o \in L, o \in CameIn(d, st2), d.todo = {},
           NEW M, M = L \ {o}, NEW Q \in BOOLEAN, Q <=> R \/ A \/ M = {}
    PROVE  Told(d, M, A, Q, st2, sig2)
<1>1. Told(d, L, A, R, st2, sig2)
  BY ToldKept
<1>2. A = d.any /\ M \subseteq d.objects \ d.todo
  BY <1>1 DEF Told
<1>3. \A p \in M \cap sig2 : p \notin d.due
  BY <1>1 DEF Told
<1>4. Q => IF A THEN CameIn(d, st2) # {} ELSE M = {} /\ d.todo = {}
  BY <1>1 DEF Told
<1>5. ~(Q /\ A) => d.objects \ (d.todo \cup M) \subseteq CameIn(d, st2)
  BY <1>1 DEF Told
<1>6. d.step \in {"last", "clean"} /\ d.error = "Okay" => Q \/ M = {}
  BY <1>1 DEF Told
<1>7. QED
  BY <1>2, <1>3, <1>4, <1>5, <1>6 DEF Told

LEMMA ReadyKept ==
    ASSUME calls \in Seq(Call), AllReady, SameWaits,
           \A o \in Unregistered :
               state[o] = "live" /\ o \notin held => state'[o] = "live" /\ o \notin held'
    PROVE  AllReady'
<1>1. SUFFICES ASSUME NEW n \in Waiting, NEW o \in calls'[n].todo
               PROVE  state'[o] = "live" /\ o \notin held'
  BY DEF AllReady, SameWaits
<1>2. SameWait(calls[n], calls'[n]) /\ calls[n].kind = "wait"
  BY WaitingTyped DEF SameWaits
<1>3. o \in calls[n].todo
  BY <1>1, <1>2 DEF SameWait
<1>4. o \in Unregistered
  BY <1>3 DEF Unregistered
<1>5. QED
  BY <1>3, <1>4 DEF AllReady

LEMMA HeardKept ==
    ASSUME calls \in Seq(Call), MonitoredIsHeard, SameWaits, glWFOList' \subseteq glWFOList,
           \A o \in glWFOList' : state[o] = "freed" \/ o \in subscribed =>
               state'[o] = "freed" \/ o \in subscribed'
    PROVE  MonitoredIsHeard'
<1>1. Waiting' = Waiting /\ \A n : Innermost(n)' = Innermost(n)
  BY DEF SameWaits, Innermost
<1>2. SUFFICES ASSUME NEW n \in Waiting, Innermost(n), ~calls'[n].disturbed,
                      NEW o \in glWFOList', state'[o] # "freed"
               PROVE  o \in subscribed'
  BY <1>1, Zenon DEF MonitoredIsHeard
<1>3. SameWait(calls[n], calls'[n]) /\ calls[n].kind = "wait"
  BY WaitingTyped DEF SameWaits
<1>4. ~calls[n].disturbed
  BY <1>2, <1>3, Zenon DEF SameWait
<1>5. o \in glWFOList
  BY <1>2
<1>6. state[o] # "freed" => o \in subscribed
  BY <1>2, <1>4, <1>5, Zenon DEF MonitoredIsHeard
<1>7. QED
  BY <1>2, <1>6

-----------------------------------------------------------------------------
(* Signals and ends of objects.                                            *)

LEMMA StackTyped ==
    StackInv => /\ calls \in Seq(Call) /\ glWFOList \subseteq Objects
                /\ glWFOAnySignal \in BOOLEAN /\ glWFOSignalReceived \in BOOLEAN
                /\ state \in [Objects -> {"live", "claimed", "marked", "freed"}]
  BY DEF StackInv, TypeOK, Call

LEMMA DueKeeps ==
    ASSUME calls \in Seq(Call), NEW o
    PROVE  /\ Due(calls, o) \in Seq(Call) /\ Len(Due(calls, o)) = Len(calls)
           /\ \A n \in 1..Len(calls) :
                 /\ KeptWait(calls[n], Due(calls, o)[n])
                 /\ calls[n].kind = "wait" => o \notin Due(calls, o)[n].due
<1> DEFINE after(n) == IF calls[n].kind = "wait"
                       THEN [calls[n] EXCEPT !.due = @ \ {o}] ELSE calls[n]
           q == [n \in 1..Len(calls) |-> after(n)]
<1>1. Len(calls) \in Nat /\ DOMAIN calls = 1..Len(calls)
  OBVIOUS
<1>2. ASSUME NEW n \in 1..Len(calls)
      PROVE  /\ after(n) \in Call /\ KeptWait(calls[n], after(n))
             /\ calls[n].kind = "wait" => o \notin after(n).due
  <2>1. CASE calls[n].kind = "wait"
    <3>1. calls[n] \in WaitCall
      BY <2>1, <1>2, Kinds
    <3>2. after(n) = [calls[n] EXCEPT !.due = @ \ {o}]
      BY <2>1
    <3>3. after(n) \in WaitCall
      BY <3>1, <3>2 DEF WaitCall
    <3>4. KeptWait(calls[n], after(n)) /\ o \notin after(n).due
      BY <3>1, <3>2 DEF WaitCall, KeptWait, SameWait
    <3>5. QED
      BY <3>3, <3>4 DEF Call
  <2>2. CASE calls[n].kind # "wait"
    BY <2>2, KeptItself
  <2>3. QED
    BY <2>1, <2>2
<1>3. Due(calls, o) = q
  BY <1>1 DEF Due
<1> HIDE DEF after
<1>4. q \in Seq(Call) /\ Len(q) = Len(calls) /\ \A n \in 1..Len(calls) : q[n] = after(n)
  BY <1>1, <1>2
<1> HIDE DEF q
<1>5. QED
  BY <1>2, <1>3, <1>4

\* A step that may signal an object, or end it, but works on no call.
ObjectStep(o) == calls' = Due(calls, o) \/ calls' = calls

LEMMA StackObject ==
    ASSUME StackInv, NEW o, ObjectStep(o), TypeOK'
    PROVE  /\ StackInv' /\ SameWaits
           /\ \A n \in Waiting : KeptWait(calls[n], calls'[n])
           /\ calls' = Due(calls, o) => \A n \in Waiting : o \notin calls'[n].due
<1>1. calls \in Seq(Call)
  BY StackTyped
<1>2. /\ Due(calls, o) \in Seq(Call) /\ Len(Due(calls, o)) = Len(calls)
      /\ \A n \in 1..Len(calls) :
            /\ KeptWait(calls[n], Due(calls, o)[n])
            /\ calls[n].kind = "wait" => o \notin Due(calls, o)[n].due
  BY <1>1, DueKeeps
<1>3. /\ calls' \in Seq(Call) /\ Len(calls') = Len(calls)
      /\ \A n \in 1..Len(calls) : KeptWait(calls[n], calls'[n])
      /\ calls' = Due(calls, o) =>
            \A n \in 1..Len(calls) : calls[n].kind = "wait" => o \notin calls'[n].due
  <2>1. CASE calls' = Due(calls, o)
    BY <1>2, <2>1
  <2>2. CASE calls' = calls /\ calls' # Due(calls, o)
    BY <1>1, <2>2, KeptItself
  <2>3. QED
    BY <2>1, <2>2 DEF ObjectStep
<1>4. \A n \in 1..Len(calls) : SameWait(calls[n], calls'[n])
  BY <1>3 DEF KeptWait
<1>5. calls # <<>> => FrameOK(calls'[Len(calls)], TRUE)
  <2>1. SUFFICES ASSUME calls # <<>> PROVE FrameOK(calls'[Len(calls)], TRUE)
    OBVIOUS
  <2> DEFINE n == Len(calls)
  <2>2. n \in 1..Len(calls) /\ (n = Len(calls)) = TRUE
    BY <1>1, <2>1
  <2>3. FrameOK(calls[n], n = Len(calls))
    BY <2>2 DEF StackInv, FramesOK
  <2>4. FrameOK(calls[n], TRUE)
    BY <2>2, <2>3
  <2>5. KeptWait(calls[n], calls'[n])
    BY <1>3, <2>2
  <2>6. QED
    BY <2>4, <2>5 DEF FrameOK, KeptWait, SameWait
<1>6. SameWaits /\ FramesOK' /\ OutersDisturbed'
  BY <1>3, <1>4, <1>5, StackSame
<1>7. /\ Waiting \subseteq 1..Len(calls)
      /\ \A n \in Waiting : calls[n].kind = "wait"
  BY <1>1, WaitingTyped
<1>8. QED
  BY <1>3, <1>6, <1>7 DEF StackInv

\* A step of the kind that leaves the list alone.
LEMMA ObjectAside ==
    ASSUME WaitInv, NEW o, ObjectStep(o), TypeOK', UNCHANGED wait,
           signalled' \subseteq signalled \cup {o},
           signalled' \subseteq signalled \/ calls' = Due(calls, o),
           ~FailedFrees => \A p \in Awaited : state[p] # "live" => state'[p] # "live",
           ~Unready => \A p \in Unregistered :
               state[p] = "live" /\ p \notin held => state'[p] = "live" /\ p \notin held',
           \A p \in glWFOList : state[p] = "freed" \/ p \in subscribed =>
               state'[p] = "freed" \/ p \in subscribed'
    PROVE  WaitInv'
<1>1. calls \in Seq(Call)
  BY StackTyped DEF WaitInv
<1>2. /\ StackInv' /\ SameWaits
      /\ \A n \in Waiting : KeptWait(calls[n], calls'[n])
      /\ calls' = Due(calls, o) => \A n \in Waiting : o \notin calls'[n].due
  BY StackObject DEF WaitInv
<1>3. ASSUME ~Unready PROVE ReadyInv'
  <2>1. AllReady /\ MonitoredIsHeard
    BY <1>3 DEF WaitInv, ReadyInv
  <2>2. AllReady'
    BY <1>1, <1>2, <1>3, <2>1, ReadyKept
  <2>3. MonitoredIsHeard'
    <3>1. glWFOList' = glWFOList
      BY DEF wait
    <3>2. QED
      BY <1>1, <1>2, <2>1, <3>1, HeardKept
  <2>4. QED
    BY <2>2, <2>3 DEF ReadyInv
<1>4. ASSUME ~Unready, ~FailedFrees PROVE AllTold'
  <2>1. AllTold
    BY <1>4 DEF WaitInv
  <2>2. GentleStep
    <3>1. SUFFICES ASSUME NEW n \in Waiting
                   PROVE  /\ \A p \in calls[n].objects : state[p] # "live" => state'[p] # "live"
                          /\ \A p \in signalled' \ signalled : p \notin calls'[n].due
      BY DEF GentleStep
    <3>2. \A p \in calls[n].objects : p \in Awaited
      BY DEF Awaited
    <3>3. QED
      BY <1>2, <1>4, <3>2
  <2>3. \A n \in Waiting : Innermost(n) => ToldNow(n)'
    BY <1>1, <1>2, <2>1, <2>2, InnermostTold
  <2>4. QED
    BY <1>1, <1>2, <2>1, <2>2, <2>3, ToldAll
<1>5. QED
  BY <1>2, <1>3, <1>4 DEF WaitInv

\* The types, by what an object's step does.
LEMMA ObjectTyped ==
    ASSUME StackInv, NEW o \in Objects, ObjectStep(o),
           NEW st \in {"live", "claimed", "marked", "freed"},
           state' = state \/ state' = [state EXCEPT ![o] = st],
           signalled' \subseteq signalled \cup {o}, subscribed' \subseteq subscribed,
           held' \subseteq held \cup {o},
           \/ glQueue' = glQueue \/ glQueue' = Append(glQueue, o)
           \/ glQueue' = Append(glQueue, Nobody),
           glWFOList' \subseteq glWFOList, glWFOAnySignal' = glWFOAnySignal,
           glWFOSignalReceived' \in BOOLEAN
    PROVE  TypeOK'
<1>1. TypeOK /\ calls \in Seq(Call)
  BY StackTyped DEF StackInv
<1>2. calls' \in Seq(Call)
  BY <1>1, DueKeeps DEF ObjectStep
<1>3. calls' \in Seq(WaitCall \cup LoopCall)
  BY <1>2 DEF Call
<1>4. glQueue' \in Seq(Objects \cup {Nobody})
  <2>1. glQueue \in Seq(Objects \cup {Nobody}) /\ o \in Objects \cup {Nobody}
        /\ Nobody \in Objects \cup {Nobody}
    BY <1>1 DEF TypeOK
  <2>2. /\ Append(glQueue, o) \in Seq(Objects \cup {Nobody})
        /\ Append(glQueue, Nobody) \in Seq(Objects \cup {Nobody})
    BY <2>1, AppendProperties
  <2>3. QED
    BY <2>1, <2>2
<1>5. state' \in [Objects -> {"live", "claimed", "marked", "freed"}]
  BY <1>1 DEF TypeOK
<1>6. /\ signalled' \subseteq Objects /\ held' \subseteq Objects /\ subscribed' \subseteq Objects
      /\ glWFOList' \subseteq Objects /\ glWFOAnySignal' \in BOOLEAN
  BY <1>1, SMT DEF TypeOK
<1>7. QED
  BY <1>3, <1>4, <1>5, <1>6 DEF TypeOK

LEMMA Wait_SignalByThread ==
    ASSUME WaitInv, NEW o \in Objects, SignalByThread(o) PROVE WaitInv'
<1>1. /\ calls' = Due(calls, o) /\ signalled' = signalled \cup {o}
      /\ UNCHANGED <<state, subscribed, held>> /\ UNCHANGED wait
      /\ glQueue' = glQueue \/ glQueue' = Append(glQueue, o)
  BY DEF SignalByThread, Post
<1>2. StackInv /\ ObjectStep(o) /\ glWFOSignalReceived \in BOOLEAN
  BY <1>1, StackTyped DEF ObjectStep, WaitInv
<1>3. TypeOK'
  BY <1>1, <1>2, ObjectTyped DEF wait
<1>4. QED
  BY <1>1, <1>2, <1>3, ObjectAside

LEMMA AwaitedObjects == StackInv => Awaited \subseteq Objects
<1>1. SUFFICES ASSUME StackInv, NEW n \in Waiting PROVE calls[n].objects \subseteq Objects
  BY DEF Awaited
<1>2. calls[n] \in WaitCall
  BY <1>1, StackTyped, WaitingTyped
<1>3. QED
  BY <1>2 DEF WaitCall

LEMMA Wait_Claim ==
    ASSUME WaitInv, NEW o \in Objects, Claim(o) PROVE WaitInv'
<1>1. /\ state[o] = "live" /\ (o \in Unregistered => Unready)
      /\ state' = [state EXCEPT ![o] = "claimed"]
      /\ UNCHANGED <<signalled, subscribed, held, glQueue, calls>> /\ UNCHANGED wait
  BY DEF Claim
<1>2. /\ StackInv /\ ObjectStep(o) /\ glWFOSignalReceived \in BOOLEAN
      /\ state \in [Objects -> {"live", "claimed", "marked", "freed"}]
      /\ glWFOList \subseteq Objects
  BY <1>1, StackTyped DEF ObjectStep, WaitInv
<1>3. TypeOK'
  BY <1>1, <1>2, ObjectTyped DEF wait
<1>4. \A p : state[p] # "live" /\ p \in Objects => state'[p] # "live"
  BY <1>1, <1>2
<1>5. \A p : p # o => state'[p] = state[p]
  BY <1>1, <1>2
<1>6. Awaited \subseteq Objects
  BY <1>2, AwaitedObjects
<1>7. ~Unready => \A p \in Unregistered :
          state[p] = "live" /\ p \notin held => state'[p] = "live" /\ p \notin held'
  BY <1>1, <1>5
<1>8. \A p \in glWFOList : state[p] = "freed" \/ p \in subscribed =>
          state'[p] = "freed" \/ p \in subscribed'
  BY <1>1, <1>2
<1>9. QED
  BY <1>1, <1>2, <1>3, <1>4, <1>6, <1>7, <1>8, ObjectAside

LEMMA Wait_ClaimFails ==
    ASSUME WaitInv, NEW o \in Objects, ClaimFails(o) PROVE WaitInv'
<1>1. /\ state[o] = "claimed" /\ (o \in Awaited => FailedFrees)
      /\ state' = [state EXCEPT ![o] = "live"]
      /\ UNCHANGED <<signalled, subscribed, held, glQueue, calls>> /\ UNCHANGED wait
  BY DEF ClaimFails
<1>2. /\ StackInv /\ ObjectStep(o) /\ glWFOSignalReceived \in BOOLEAN
      /\ state \in [Objects -> {"live", "claimed", "marked", "freed"}]
      /\ glWFOList \subseteq Objects
  BY <1>1, StackTyped DEF ObjectStep, WaitInv
<1>3. TypeOK'
  BY <1>1, <1>2, ObjectTyped DEF wait
<1>4. \A p : p # o => state'[p] = state[p]
  BY <1>1, <1>2
<1>5. ~FailedFrees => \A p \in Awaited : state[p] # "live" => state'[p] # "live"
  BY <1>1, <1>4
<1>6. \A p : state[p] = "live" => state'[p] = "live"
  BY <1>1, <1>4
<1>7. \A p \in glWFOList : state[p] = "freed" \/ p \in subscribed =>
          state'[p] = "freed" \/ p \in subscribed'
  BY <1>1, <1>4
<1>8. QED
  BY <1>1, <1>2, <1>3, <1>5, <1>6, <1>7, ObjectAside

LEMMA Wait_Mark ==
    ASSUME WaitInv, NEW o \in Objects, Mark(o) PROVE WaitInv'
<1>1. /\ state[o] = "claimed"
      /\ state' = [state EXCEPT ![o] = "marked"] /\ calls' = Due(calls, o)
      /\ UNCHANGED <<signalled, subscribed, held, glQueue>> /\ UNCHANGED wait
  BY DEF Mark
<1>2. /\ StackInv /\ ObjectStep(o) /\ glWFOSignalReceived \in BOOLEAN
      /\ state \in [Objects -> {"live", "claimed", "marked", "freed"}]
      /\ glWFOList \subseteq Objects
  BY <1>1, StackTyped DEF ObjectStep, WaitInv
<1>3. TypeOK'
  BY <1>1, <1>2, ObjectTyped DEF wait
<1>4. \A p : p # o => state'[p] = state[p]
  BY <1>1, <1>2
<1>5. \A p \in Awaited : state[p] # "live" => state'[p] # "live"
  BY <1>1, <1>2, <1>4
<1>6. \A p : state[p] = "live" => state'[p] = "live"
  BY <1>1, <1>4
<1>7. \A p \in glWFOList : state[p] = "freed" \/ p \in subscribed =>
          state'[p] = "freed" \/ p \in subscribed'
  BY <1>1, <1>4
<1>8. QED
  BY <1>1, <1>2, <1>3, <1>5, <1>6, <1>7, ObjectAside

\* An object ends that the list is not concerned with.
LEMMA Wait_Freed ==
    ASSUME WaitInv, NEW o \in Objects, o \notin Unregistered,
           state' = [state EXCEPT ![o] = "freed"], calls' = Due(calls, o),
           subscribed' = subscribed \ {o}, UNCHANGED <<signalled, held>>, UNCHANGED wait,
           glQueue' = glQueue \/ glQueue' = Append(glQueue, o)
    PROVE  WaitInv'
<1>2. /\ StackInv /\ ObjectStep(o) /\ glWFOSignalReceived \in BOOLEAN
      /\ state \in [Objects -> {"live", "claimed", "marked", "freed"}]
      /\ glWFOList \subseteq Objects
  BY StackTyped DEF ObjectStep, WaitInv
<1>3. TypeOK'
  BY <1>2, ObjectTyped DEF wait
<1>4. (\A p : p # o => state'[p] = state[p]) /\ state'[o] = "freed"
  BY <1>2
<1>5. \A p \in Awaited : state[p] # "live" => state'[p] # "live"
  BY <1>4
<1>6. \A p \in Unregistered : state[p] = "live" => state'[p] = "live"
  BY <1>4
<1>7. \A p \in glWFOList : state[p] = "freed" \/ p \in subscribed =>
          state'[p] = "freed" \/ p \in subscribed'
  BY <1>4
<1>8. QED
  BY <1>2, <1>3, <1>5, <1>6, <1>7, ObjectAside

LEMMA Wait_FreeByThread ==
    ASSUME WaitInv, NEW o \in Objects, FreeByThread(o) PROVE WaitInv'
  BY Wait_Freed DEF FreeByThread, Post

LEMMA Wait_Locks ==
    ASSUME WaitInv, NEW o \in Objects, Hold(o) \/ LetGo(o) PROVE WaitInv'
<1>1. /\ UNCHANGED <<state, signalled, subscribed, glQueue, calls>> /\ UNCHANGED wait
      /\ held' \subseteq held \cup {o} /\ (o \in Unregistered => Unready \/ held' \subseteq held)
  BY DEF Hold, LetGo
<1>2. StackInv /\ ObjectStep(o) /\ glWFOSignalReceived \in BOOLEAN
  BY <1>1, StackTyped DEF ObjectStep, WaitInv
<1>3. TypeOK'
  BY <1>1, <1>2, ObjectTyped DEF wait
<1>4. ~Unready => \A p \in Unregistered :
          state[p] = "live" /\ p \notin held => state'[p] = "live" /\ p \notin held'
  BY <1>1
<1>5. QED
  BY <1>1, <1>2, <1>3, <1>4, ObjectAside

\* An object leaves the list because it is signalled or ends.
LEMMA ObjectHeard ==
    ASSUME WaitInv, NEW o \in Objects, Hears(o), Notify(o), ClientRuns, calls' = Due(calls, o),
           signalled' \subseteq signalled, UNCHANGED held,
           \/ state' = state
           \/ o \notin Unregistered /\ state' = [state EXCEPT ![o] = "freed"]
    PROVE  WaitInv'
<1>1. /\ glWFOList' = glWFOList \ {o} /\ subscribed' = subscribed \ {o}
      /\ glWFOAnySignal' = glWFOAnySignal
      /\ glQueue' = glQueue \/ glQueue' = Append(glQueue, Nobody)
      /\ glWFOSignalReceived' =
             (glWFOSignalReceived \/ glWFOAnySignal \/ glWFOList \ {o} = {})
      /\ o \in subscribed /\ o \in glWFOList
  <2>1. StackInv
    BY DEF WaitInv
  <2>2. glWFOAnySignal \in BOOLEAN /\ glWFOSignalReceived \in BOOLEAN
    BY <2>1, StackTyped
  <2>3. QED
    BY <2>2 DEF Notify, Hears, Over, Remaining
<1>2. /\ StackInv /\ ObjectStep(o) /\ glWFOSignalReceived \in BOOLEAN
      /\ glWFOAnySignal \in BOOLEAN
      /\ state \in [Objects -> {"live", "claimed", "marked", "freed"}]
      /\ glWFOList \subseteq Objects
      /\ calls \in Seq(Call)
  BY StackTyped DEF ObjectStep, WaitInv
<1>3. glWFOSignalReceived' \in BOOLEAN
  BY <1>1
<1>4. TypeOK'
  BY <1>1, <1>2, <1>3, ObjectTyped
<1>5. /\ StackInv' /\ SameWaits
      /\ \A n \in Waiting : KeptWait(calls[n], calls'[n]) /\ o \notin calls'[n].due
  BY <1>2, <1>4, StackObject
<1>6. /\ \A p : p # o => state'[p] = state[p]
      /\ state'[o] = state[o] \/ (o \notin Unregistered /\ state'[o] = "freed")
  <2>1. CASE state' = state
    BY <2>1, Zenon
  <2>2. CASE o \notin Unregistered /\ state' = [state EXCEPT ![o] = "freed"]
    BY <1>2, <2>2
  <2>3. QED
    BY <2>1, <2>2
<1>7. ASSUME ~Unready PROVE ReadyInv'
  <2>1. AllReady /\ MonitoredIsHeard
    BY <1>7 DEF WaitInv, ReadyInv
  <2>2. AllReady'
    BY <1>2, <1>5, <1>6, <2>1, ReadyKept
  <2>3. MonitoredIsHeard'
    BY <1>1, <1>2, <1>5, <1>6, <2>1, HeardKept
  <2>4. QED
    BY <2>2, <2>3 DEF ReadyInv
<1>8. ASSUME ~Unready, ~FailedFrees PROVE AllTold'
  <2>1. AllTold
    BY <1>8 DEF WaitInv
  <2>2. \A p \in Objects : state[p] # "live" => state'[p] # "live"
    BY <1>2, <1>6
  <2>3. \A n \in Waiting : calls[n].objects \subseteq Objects /\ calls[n] \in WaitCall
    BY <1>2, WaitingTyped DEF WaitCall
  <2>4. GentleStep
    BY <2>2, <2>3 DEF GentleStep
  <2>5. ASSUME NEW n \in Waiting, Innermost(n) PROVE ToldNow(n)'
    <3>1. Told(calls[n], glWFOList, glWFOAnySignal, glWFOSignalReceived, state, signalled)
      BY <2>1, <2>5 DEF AllTold, ToldNow
    <3>2. calls[n].kind = "wait" /\ n \in 1..Len(calls)
      BY <1>2, WaitingTyped
    <3>3. calls[n].todo = {}
      <4>1. n # Len(calls)
        BY <1>2, <3>2, InnerCall DEF ClientRuns, Is
      <4>2. FrameOK(calls[n], n = Len(calls))
        BY <3>2, <1>2 DEF StackInv, FramesOK
      <4>3. (n = Len(calls)) = FALSE
        BY <4>1
      <4>4. FrameOK(calls[n], FALSE)
        BY <4>2, <4>3
      <4>5. QED
        BY <3>2, <4>4 DEF FrameOK
    <3>4. KeptWait(calls[n], calls'[n]) /\ o \notin calls'[n].due
      BY <1>5
    <3>5. calls'[n].todo = {} /\ calls'[n].objects = calls[n].objects
      BY <3>2, <3>3, <3>4 DEF KeptWait, SameWait
    <3>6. o \in calls[n].objects /\ o \in glWFOList
      BY <1>1, <3>1 DEF Told
    <3>7. o \in CameIn(calls'[n], state')
      BY <3>4, <3>5, <3>6 DEF CameIn
    <3>8. \A p \in calls[n].objects : state[p] # "live" => state'[p] # "live"
      BY <2>2, <2>3
    <3>9. \A p \in signalled' \ signalled : p \notin calls'[n].due
      OBVIOUS
    <3>12. glWFOSignalReceived' <=> glWFOSignalReceived \/ glWFOAnySignal \/ glWFOList' = {}
      BY <1>1, Zenon
    <3> DEFINE c == calls[n]
               d == calls'[n]
               L == glWFOList
               M == glWFOList'
               A == glWFOAnySignal
               R == glWFOSignalReceived
               Q == glWFOSignalReceived'
               st == state
               st2 == state'
               sig == signalled
               sig2 == signalled'
    <3>13. /\ c.kind = "wait" /\ KeptWait(c, d) /\ A \in BOOLEAN /\ R \in BOOLEAN /\ Q \in BOOLEAN
           /\ Told(c, L, A, R, st, sig) /\ o \in CameIn(d, st2) /\ d.todo = {}
           /\ \A p \in c.objects : st[p] # "live" => st2[p] # "live"
           /\ \A p \in sig2 \ sig : p \notin d.due
      BY <1>2, <1>3, <3>1, <3>2, <3>4, <3>5, <3>7, <3>8, <3>9
    <3>14. M = L \ {o} /\ o \in L /\ (Q <=> R \/ A \/ M = {})
      BY <1>1, <3>12, <3>6
    <3> HIDE DEF c, d, L, M, A, R, Q, st, st2, sig, sig2
    <3>10. Told(d, M, A, Q, st2, sig2)
      BY <3>13, <3>14, ToldHeard
    <3>11. QED
      BY <1>1, <3>10 DEF ToldNow, c, d, L, M, A, R, Q, st, st2, sig, sig2
  <2>6. QED
    BY <1>2, <1>5, <2>1, <2>4, <2>5, ToldAll
<1>9. QED
  BY <1>5, <1>7, <1>8 DEF WaitInv

LEMMA Wait_FreeByMain ==
    ASSUME WaitInv, NEW o \in Objects, FreeByMain(o) PROVE WaitInv'
<1>1. CASE Hears(o) /\ Notify(o)
  BY <1>1, ObjectHeard DEF FreeByMain
<1>2. CASE subscribed' = subscribed \ {o} /\ UNCHANGED <<glQueue, wait>>
  BY <1>2, Wait_Freed DEF FreeByMain
<1>3. QED
  BY <1>1, <1>2 DEF FreeByMain

LEMMA Wait_SignalByMain ==
    ASSUME WaitInv, NEW o \in Objects, SignalByMain(o) PROVE WaitInv'
<1>1. /\ ClientRuns /\ calls' = Due(calls, o) /\ UNCHANGED <<state, held>>
  BY DEF SignalByMain
<1>2. CASE Hears(o) /\ Notify(o) /\ signalled' = signalled \ {o}
  <2>1. QED
    BY <1>1, <1>2, ObjectHeard
<1>3. CASE Silently(o) /\ signalled' = signalled \cup {o}
  <2>1. /\ UNCHANGED <<subscribed, glQueue>> /\ UNCHANGED wait
    BY <1>3 DEF Silently
  <2>2. StackInv /\ ObjectStep(o) /\ glWFOSignalReceived \in BOOLEAN
    BY <1>1, StackTyped DEF ObjectStep, WaitInv
  <2>3. TypeOK'
    BY <1>1, <1>3, <2>1, <2>2, ObjectTyped DEF wait
  <2>4. QED
    BY <1>1, <1>3, <2>1, <2>2, <2>3, ObjectAside
<1>4. QED
  BY <1>2, <1>3 DEF SignalByMain

-----------------------------------------------------------------------------
(* ProcessMessages().                                                      *)

\* A step that changes neither an object nor what is waited for.
LEMMA OnlyCalls ==
    ASSUME WaitInv, SameWaits, FramesOK', OutersDisturbed', TypeOK',
           UNCHANGED object, UNCHANGED wait,
           AllTold => \A n \in Waiting : Innermost(n) => ToldNow(n)'
    PROVE  WaitInv'
<1>1. calls \in Seq(Call) /\ StackInv'
  BY StackTyped DEF WaitInv, StackInv
<1>2. /\ state' = state /\ signalled' = signalled /\ held' = held /\ subscribed' = subscribed
      /\ glWFOList' = glWFOList
  BY DEF object, wait
<1>3. ASSUME ~Unready PROVE ReadyInv'
  <2>1. AllReady /\ MonitoredIsHeard
    BY <1>3 DEF WaitInv, ReadyInv
  <2>2. AllReady'
    BY <1>1, <1>2, <2>1, ReadyKept
  <2>3. MonitoredIsHeard'
    BY <1>1, <1>2, <2>1, HeardKept
  <2>4. QED
    BY <2>2, <2>3 DEF ReadyInv
<1>4. ASSUME ~Unready, ~FailedFrees PROVE AllTold'
  <2>1. AllTold
    BY <1>4 DEF WaitInv
  <2>2. GentleStep
    BY <1>2 DEF GentleStep
  <2>3. QED
    BY <1>1, <2>1, <2>2, ToldAll
<1>5. QED
  BY <1>1, <1>3, <1>4 DEF WaitInv

LEMMA NothingNew ==
    ASSUME WaitInv, SameWaits, FramesOK', OutersDisturbed', TypeOK',
           UNCHANGED object, UNCHANGED wait,
           \A n \in Waiting : Innermost(n) => KeptWait(calls[n], calls'[n])
    PROVE  WaitInv'
<1>1. calls \in Seq(Call)
  BY StackTyped DEF WaitInv
<1>2. GentleStep
  BY DEF GentleStep, object
<1>3. AllTold => \A n \in Waiting : Innermost(n) => ToldNow(n)'
  BY <1>1, <1>2, InnermostTold
<1>4. QED
  BY <1>3, OnlyCalls

\* The innermost call goes on.
LEMMA StackInner ==
    ASSUME StackInv, calls # <<>>, NEW f \in Call, InnerBecomes(f),
           SameWait(Inner, f), FrameOK(f, TRUE)
    PROVE  /\ SameWaits /\ FramesOK' /\ OutersDisturbed'
           /\ calls' \in Seq(Call) /\ calls'[Len(calls)] = f /\ Inner = calls[Len(calls)]
<1>1. calls \in Seq(Call)
  BY StackTyped
<1>2. calls' = Append(Front(calls), f)
  BY DEF InnerBecomes
<1>3. /\ calls' \in Seq(Call) /\ Len(calls') = Len(calls) /\ calls'[Len(calls)] = f
      /\ \A i \in 1..(Len(calls) - 1) : calls'[i] = calls[i]
  BY <1>1, <1>2, LastReplaced
<1>4. /\ Len(calls) \in Nat \ {0} /\ Len(calls) \in 1..Len(calls)
      /\ Inner = calls[Len(calls)]
  BY <1>1, InnerCall
<1>5. ASSUME NEW n \in 1..Len(calls)
      PROVE  /\ SameWait(calls[n], calls'[n])
             /\ n < Len(calls) => KeptWait(calls[n], calls'[n])
  <2>1. CASE n = Len(calls)
    BY <1>3, <1>4, <2>1
  <2>2. CASE n # Len(calls)
    <3>1. calls'[n] = calls[n]
      BY <1>3, <1>4, <1>5, <2>2
    <3>2. KeptWait(calls[n], calls'[n])
      BY <3>1, KeptItself
    <3>3. QED
      BY <3>2 DEF KeptWait
  <2>3. QED
    BY <2>1, <2>2
<1>6. SameWaits /\ FramesOK' /\ OutersDisturbed'
  BY <1>3, <1>5, StackSame
<1>7. QED
  BY <1>3, <1>4, <1>6

\* The wait that a message loop works for does not go on meanwhile.
LEMMA LoopInnermost ==
    ASSUME StackInv, Is("loop"), NEW f \in LoopCall, InnerBecomes(f)
    PROVE  /\ SameWaits /\ FramesOK' /\ OutersDisturbed'
           /\ calls' \in Seq(Call)
           /\ \A n \in Waiting : KeptWait(calls[n], calls'[n]) /\ calls[n].todo = {}
<1>1. calls \in Seq(Call) /\ calls # <<>> /\ Inner.kind = "loop"
  BY StackTyped DEF Is
<1>2. f \in Call /\ f.kind = "loop"
  BY DEF Call, LoopCall
<1>3. SameWait(Inner, f) /\ FrameOK(f, TRUE)
  BY <1>1, <1>2 DEF SameWait, FrameOK
<1>4. /\ SameWaits /\ FramesOK' /\ OutersDisturbed'
      /\ calls' \in Seq(Call) /\ calls'[Len(calls)] = f /\ Inner = calls[Len(calls)]
  BY <1>1, <1>2, <1>3, StackInner
<1>5. ASSUME NEW n \in Waiting PROVE KeptWait(calls[n], calls'[n]) /\ calls[n].todo = {}
  <2>1. n \in 1..Len(calls) /\ calls[n].kind = "wait" /\ Len(calls) \in Nat
    BY <1>1, WaitingTyped
  <2>2. n # Len(calls)
    BY <1>1, <1>4, <2>1
  <2>3. FrameOK(calls[n], n = Len(calls))
    BY <2>1 DEF StackInv, FramesOK
  <2>4. (n = Len(calls)) = FALSE
    BY <2>2
  <2>5. calls[n].todo = {}
    BY <2>1, <2>3, <2>4 DEF FrameOK
  <2>6. calls' = Append(Front(calls), f)
    BY DEF InnerBecomes
  <2>7. \A i \in 1..(Len(calls) - 1) : calls'[i] = calls[i]
    BY <1>1, <1>2, <2>6, LastReplaced
  <2>8. calls'[n] = calls[n]
    BY <2>1, <2>2, <2>7
  <2>9. QED
    BY <2>5, <2>8, KeptItself
<1>6. QED
  BY <1>4, <1>5

\* The types, when a step changes the calls and the queue only.
LEMMA CallsTyped ==
    ASSUME StackInv, calls' \in Seq(Call), UNCHANGED object, UNCHANGED wait,
           glQueue' \in Seq(Objects \cup {Nobody})
    PROVE  TypeOK'
  BY DEF StackInv, TypeOK, Call, object, wait

LEMMA InnerLoopTyped ==
    ASSUME StackInv, Is("loop")
    PROVE  /\ Inner \in LoopCall /\ Inner.batch \in Seq(Objects \cup {Nobody})
           /\ glQueue \in Seq(Objects \cup {Nobody})
           /\ Inner.batch # <<>> =>
                /\ Head(Inner.batch) \in Objects \cup {Nobody}
                /\ Tail(Inner.batch) \in Seq(Objects \cup {Nobody})
<1>1. calls \in Seq(Call) /\ calls # <<>> /\ Inner.kind = "loop"
  BY StackTyped DEF Is
<1>2. Inner \in Call
  BY <1>1, InnerCall
<1>3. Inner \in LoopCall
  BY <1>1, <1>2, Kinds
<1>4. Inner.batch \in Seq(Objects \cup {Nobody})
  BY <1>3 DEF LoopCall
<1>5. glQueue \in Seq(Objects \cup {Nobody})
  BY DEF StackInv, TypeOK
<1>6. QED
  BY <1>3, <1>4, <1>5

LEMMA Wait_Message ==
    ASSUME WaitInv, Is("loop"), NEW f \in LoopCall, InnerBecomes(f),
           UNCHANGED object, UNCHANGED wait, glQueue' \in Seq(Objects \cup {Nobody})
    PROVE  WaitInv'
<1>1. StackInv
  BY DEF WaitInv
<1>2. /\ SameWaits /\ FramesOK' /\ OutersDisturbed' /\ calls' \in Seq(Call)
      /\ \A n \in Waiting : KeptWait(calls[n], calls'[n])
  BY <1>1, LoopInnermost
<1>3. TypeOK'
  BY <1>1, <1>2, CallsTyped
<1>4. QED
  BY <1>2, <1>3, NothingNew

LEMMA Wait_FetchBatch == ASSUME WaitInv, FetchBatch PROVE WaitInv'
<1>1. /\ Is("loop") /\ InnerBecomes([Inner EXCEPT !.batch = glQueue])
      /\ UNCHANGED object /\ UNCHANGED wait /\ glQueue' = <<>>
  BY DEF FetchBatch
<1>2. Inner \in LoopCall /\ glQueue \in Seq(Objects \cup {Nobody})
  BY <1>1, InnerLoopTyped DEF WaitInv
<1>3. [Inner EXCEPT !.batch = glQueue] \in LoopCall
  BY <1>2 DEF LoopCall
<1>4. <<>> \in Seq(Objects \cup {Nobody})
  OBVIOUS
<1>5. QED
  BY <1>1, <1>3, <1>4, Wait_Message

LEMMA Wait_EmptyMessage == ASSUME WaitInv, EmptyMessage PROVE WaitInv'
<1>1. /\ Is("loop") /\ Inner.batch # <<>>
      /\ InnerBecomes([Inner EXCEPT !.batch = Tail(@), !.ended = TRUE])
      /\ UNCHANGED object /\ UNCHANGED wait /\ glQueue' = glQueue
  BY DEF EmptyMessage
<1>2. /\ Inner \in LoopCall /\ Tail(Inner.batch) \in Seq(Objects \cup {Nobody})
      /\ glQueue \in Seq(Objects \cup {Nobody})
  BY <1>1, InnerLoopTyped DEF WaitInv
<1>3. [Inner EXCEPT !.batch = Tail(@), !.ended = TRUE] \in LoopCall
  BY <1>2 DEF LoopCall
<1>4. QED
  BY <1>1, <1>2, <1>3, Wait_Message

LEMMA Wait_StaleMessage == ASSUME WaitInv, StaleMessage PROVE WaitInv'
<1>1. /\ Is("loop") /\ Inner.batch # <<>>
      /\ InnerBecomes([Inner EXCEPT !.batch = Tail(@)])
      /\ UNCHANGED object /\ UNCHANGED wait /\ glQueue' = glQueue
  BY DEF StaleMessage
<1>2. /\ Inner \in LoopCall /\ Tail(Inner.batch) \in Seq(Objects \cup {Nobody})
      /\ glQueue \in Seq(Objects \cup {Nobody})
  BY <1>1, InnerLoopTyped DEF WaitInv
<1>3. [Inner EXCEPT !.batch = Tail(@)] \in LoopCall
  BY <1>2 DEF LoopCall
<1>4. QED
  BY <1>1, <1>2, <1>3, Wait_Message

\* A message loop is called above a call that f is left as.
LEMMA StackCalls ==
    ASSUME StackInv, NEW q \in Seq(Call), Len(q) = Len(calls),
           \A n \in 1..Len(calls) : /\ SameWait(calls[n], q[n])
                                    /\ n < Len(calls) => KeptWait(calls[n], q[n]),
           calls # <<>> => FrameOK(q[Len(calls)], FALSE),
           NEW f \in LoopCall, calls' = Append(q, f)
    PROVE  /\ SameWaits /\ FramesOK' /\ OutersDisturbed' /\ calls' \in Seq(Call)
           /\ \A n \in 1..Len(calls) : calls'[n] = q[n]
<1>1. f \in Call /\ f.kind = "loop"
  BY DEF Call, LoopCall
<1>2. /\ calls' \in Seq(Call) /\ Len(calls') = Len(q) + 1 /\ calls'[Len(q) + 1] = f
      /\ \A n \in 1..Len(q) : calls'[n] = q[n]
  BY <1>1, AppendProperties
<1>3. calls # <<>> => Len(calls) \in 1..Len(calls)
  BY StackTyped, InnerCall
<1>4. SameWaits /\ FramesOK' /\ OutersDisturbed'
  BY <1>1, <1>2, <1>3, LoopCalled
<1>5. QED
  BY <1>2, <1>4

LEMMA NewLoopTyped == ASSUME NEW limit \in {"zero", "some"} PROVE NewLoop(limit) \in LoopCall
<1>1. <<>> \in Seq(Objects \cup {Nobody})
  OBVIOUS
<1>2. QED
  BY <1>1 DEF NewLoop, LoopCall

LEMMA DisturbedKeeps ==
    ASSUME calls \in Seq(Call)
    PROVE  /\ Disturbed \in Seq(Call) /\ Len(Disturbed) = Len(calls)
           /\ \A n \in 1..Len(calls) :
                 /\ KeptWait(calls[n], Disturbed[n])
                 /\ calls[n].kind = "wait" => Disturbed[n].disturbed
<1> DEFINE after(n) == IF calls[n].kind = "wait"
                       THEN [calls[n] EXCEPT !.disturbed = TRUE] ELSE calls[n]
           q == [n \in 1..Len(calls) |-> after(n)]
<1>1. Len(calls) \in Nat /\ DOMAIN calls = 1..Len(calls)
  OBVIOUS
<1>2. ASSUME NEW n \in 1..Len(calls)
      PROVE  /\ after(n) \in Call /\ KeptWait(calls[n], after(n))
             /\ calls[n].kind = "wait" => after(n).disturbed
  <2>1. CASE calls[n].kind = "wait"
    <3>1. calls[n] \in WaitCall
      BY <2>1, <1>2, Kinds
    <3>2. after(n) = [calls[n] EXCEPT !.disturbed = TRUE]
      BY <2>1
    <3>3. after(n) \in WaitCall
      BY <3>1, <3>2 DEF WaitCall
    <3>4. KeptWait(calls[n], after(n)) /\ after(n).disturbed
      BY <3>1, <3>2 DEF WaitCall, KeptWait, SameWait
    <3>5. QED
      BY <3>3, <3>4 DEF Call
  <2>2. CASE calls[n].kind # "wait"
    BY <2>2, KeptItself
  <2>3. QED
    BY <2>1, <2>2
<1>3. Disturbed = q
  BY <1>1 DEF Disturbed
<1> HIDE DEF after
<1>4. q \in Seq(Call) /\ Len(q) = Len(calls) /\ \A n \in 1..Len(calls) : q[n] = after(n)
  BY <1>1, <1>2
<1> HIDE DEF q
<1>5. QED
  BY <1>2, <1>3, <1>4

\* The innermost call of an application that runs is a message loop, if it is any.
LEMMA ClientLoop ==
    ASSUME calls \in Seq(Call), ClientRuns, calls # <<>>
    PROVE  calls[Len(calls)].kind = "loop"
  BY InnerCall DEF ClientRuns, Is

LEMMA Wait_ProcessMessages == ASSUME WaitInv, ProcessMessages PROVE WaitInv'
<1>1. /\ ClientRuns /\ calls' = Append(Disturbed, NewLoop("some"))
      /\ UNCHANGED object /\ glQueue' = glQueue /\ UNCHANGED wait
  BY DEF ProcessMessages, MayCall
<1>2. StackInv /\ calls \in Seq(Call) /\ glQueue \in Seq(Objects \cup {Nobody})
  BY StackTyped DEF WaitInv, StackInv, TypeOK
<1>3. /\ Disturbed \in Seq(Call) /\ Len(Disturbed) = Len(calls)
      /\ \A n \in 1..Len(calls) : KeptWait(calls[n], Disturbed[n])
  BY <1>2, DisturbedKeeps
<1>4. \A n \in 1..Len(calls) : SameWait(calls[n], Disturbed[n])
  BY <1>3 DEF KeptWait
<1>5. calls # <<>> => FrameOK(Disturbed[Len(calls)], FALSE)
  <2>1. SUFFICES ASSUME calls # <<>> PROVE Disturbed[Len(calls)].kind = "loop"
    BY DEF FrameOK
  <2>2. calls[Len(calls)].kind = "loop" /\ Len(calls) \in 1..Len(calls)
    BY <1>1, <1>2, <2>1, ClientLoop, InnerCall
  <2>3. QED
    BY <1>4, <2>2 DEF SameWait
<1>6. NewLoop("some") \in LoopCall
  BY NewLoopTyped
<1>7. /\ SameWaits /\ FramesOK' /\ OutersDisturbed' /\ calls' \in Seq(Call)
      /\ \A n \in 1..Len(calls) : calls'[n] = Disturbed[n]
  BY <1>1, <1>2, <1>3, <1>4, <1>5, <1>6, StackCalls
<1>8. TypeOK'
  BY <1>1, <1>2, <1>7, CallsTyped
<1>9. \A n \in Waiting : KeptWait(calls[n], calls'[n])
  BY <1>2, <1>3, <1>7, WaitingTyped
<1>10. QED
  BY <1>1, <1>7, <1>8, <1>9, NothingNew

-----------------------------------------------------------------------------
(* WaitForObjects().                                                       *)

\* The innermost call is a wait.
LEMMA InnerWait ==
    ASSUME StackInv, Is("wait")
    PROVE  /\ calls \in Seq(Call) /\ calls # <<>> /\ Inner \in WaitCall /\ Inner = calls[Len(calls)]
           /\ Len(calls) \in Nat \ {0} /\ Len(calls) \in 1..Len(calls) /\ Len(calls) \in Waiting
           /\ Innermost(Len(calls)) /\ \A n \in Waiting : Innermost(n) => n = Len(calls)
           /\ FrameOK(Inner, TRUE)
<1>1. calls \in Seq(Call) /\ calls # <<>> /\ Inner.kind = "wait"
  BY StackTyped DEF Is
<1>2. /\ Len(calls) \in Nat \ {0} /\ Len(calls) \in 1..Len(calls)
      /\ Inner = calls[Len(calls)] /\ Inner \in Call
  BY <1>1, InnerCall
<1>3. Inner \in WaitCall
  BY <1>1, <1>2, Kinds
<1>4. /\ \A n \in 1..Len(calls) : n \in Waiting <=> calls[n].kind = "wait"
      /\ \A n \in Waiting : n \in Nat /\ n <= Len(calls)
  BY <1>1, WaitingTyped
<1>5. Len(calls) \in Waiting
  BY <1>1, <1>2, <1>4
<1>6. Innermost(Len(calls)) /\ \A n \in Waiting : Innermost(n) => n = Len(calls)
  BY <1>2, <1>4, <1>5 DEF Innermost
<1>7. FrameOK(Inner, TRUE)
  <2>1. FrameOK(calls[Len(calls)], Len(calls) = Len(calls))
    BY <1>2 DEF StackInv, FramesOK
  <2>2. (Len(calls) = Len(calls)) = TRUE
    OBVIOUS
  <2>3. QED
    BY <1>2, <2>1, <2>2
<1>8. QED
  BY <1>1, <1>2, <1>3, <1>5, <1>6, <1>7

LEMMA Wait_WaitGoesOn == ASSUME WaitInv, WaitGoesOn PROVE WaitInv'
<1>1. /\ Is("wait") /\ Inner.step = "loop" /\ Inner.error = "Okay"
      /\ calls' = Append(calls, NewLoop("some"))
      /\ UNCHANGED object /\ glQueue' = glQueue /\ UNCHANGED wait
  BY DEF WaitGoesOn, At
<1>2. StackInv /\ glQueue \in Seq(Objects \cup {Nobody})
  BY DEF WaitInv, StackInv, TypeOK
<1>3. calls \in Seq(Call) /\ Inner = calls[Len(calls)] /\ FrameOK(Inner, TRUE)
  BY <1>1, <1>2, InnerWait
<1>4. FrameOK(calls[Len(calls)], FALSE)
  BY <1>1, <1>3 DEF FrameOK
<1>5. \A n \in 1..Len(calls) : KeptWait(calls[n], calls[n]) /\ SameWait(calls[n], calls[n])
  BY KeptItself DEF KeptWait
<1>6. NewLoop("some") \in LoopCall
  BY NewLoopTyped
<1>7. /\ SameWaits /\ FramesOK' /\ OutersDisturbed' /\ calls' \in Seq(Call)
      /\ \A n \in 1..Len(calls) : calls'[n] = calls[n]
  BY <1>1, <1>2, <1>3, <1>4, <1>5, <1>6, StackCalls
<1>8. TypeOK'
  BY <1>1, <1>2, <1>7, CallsTyped
<1>9. \A n \in Waiting : KeptWait(calls[n], calls'[n])
  BY <1>3, <1>5, <1>7, WaitingTyped
<1>10. QED
  BY <1>1, <1>7, <1>8, <1>9, NothingNew

\* The innermost wait takes a step of its own.
LEMMA Wait_Own ==
    ASSUME WaitInv, Is("wait"), NEW f \in WaitCall, InnerBecomes(f), SameWait(Inner, f),
           FrameOK(f, TRUE), UNCHANGED object, UNCHANGED wait, glQueue' = glQueue,
           ASSUME Told(Inner, glWFOList, glWFOAnySignal, glWFOSignalReceived, state, signalled)
           PROVE  Told(f, glWFOList, glWFOAnySignal, glWFOSignalReceived, state, signalled)
    PROVE  WaitInv'
<1>1. StackInv /\ glQueue \in Seq(Objects \cup {Nobody})
  BY DEF WaitInv, StackInv, TypeOK
<1>2. /\ calls \in Seq(Call) /\ calls # <<>> /\ Inner = calls[Len(calls)]
      /\ Len(calls) \in Waiting
      /\ Innermost(Len(calls)) /\ \A n \in Waiting : Innermost(n) => n = Len(calls)
  BY <1>1, InnerWait
<1>3. f \in Call
  BY DEF Call
<1>4. /\ SameWaits /\ FramesOK' /\ OutersDisturbed'
      /\ calls' \in Seq(Call) /\ calls'[Len(calls)] = f
  BY <1>1, <1>2, <1>3, StackInner
<1>5. TypeOK'
  BY <1>1, <1>4, CallsTyped
<1>6. AllTold => \A n \in Waiting : Innermost(n) => ToldNow(n)'
  <2>1. SUFFICES ASSUME AllTold, NEW n \in Waiting, n = Len(calls) PROVE ToldNow(n)'
    BY <1>2, Zenon
  <2>2. Told(Inner, glWFOList, glWFOAnySignal, glWFOSignalReceived, state, signalled)
    BY <1>2, <2>1 DEF AllTold, ToldNow
  <2>3. Told(f, glWFOList, glWFOAnySignal, glWFOSignalReceived, state, signalled)
    BY <2>2
  <2>4. QED
    BY <1>4, <2>1, <2>3 DEF ToldNow, object, wait
<1>7. QED
  BY <1>4, <1>5, <1>6, OnlyCalls

LEMMA Wait_WaitExpires == ASSUME WaitInv, WaitExpires PROVE WaitInv'
<1> DEFINE f == [Inner EXCEPT !.error = "Timeout"]
<1>1. /\ Is("wait") /\ Inner.step = "loop" /\ InnerBecomes(f)
      /\ UNCHANGED object /\ glQueue' = glQueue /\ UNCHANGED wait
  BY DEF WaitExpires, At
<1>2. Inner \in WaitCall /\ FrameOK(Inner, TRUE)
  BY <1>1, InnerWait DEF WaitInv
<1>3. f \in WaitCall
  BY <1>2 DEF WaitCall
<1>4. SameWait(Inner, f) /\ FrameOK(f, TRUE)
  BY <1>1, <1>2 DEF WaitCall, SameWait, FrameOK
<1>5. ASSUME Told(Inner, glWFOList, glWFOAnySignal, glWFOSignalReceived, state, signalled)
      PROVE  Told(f, glWFOList, glWFOAnySignal, glWFOSignalReceived, state, signalled)
  BY <1>1, <1>2, <1>5 DEF WaitCall, Told, CameIn
<1> HIDE DEF f
<1>6. QED
  BY <1>1, <1>3, <1>4, <1>5, Wait_Own

LEMMA Wait_WaitIsOver == ASSUME WaitInv, WaitIsOver PROVE WaitInv'
<1> DEFINE f == [Inner EXCEPT !.step = "clean"]
<1>1. /\ Is("wait") /\ Inner.step = "loop" /\ InnerBecomes(f)
      /\ glWFOSignalReceived \/ glWFOList = {} \/ Inner.error # "Okay"
      /\ UNCHANGED object /\ glQueue' = glQueue /\ UNCHANGED wait
  BY DEF WaitIsOver, At
<1>2. Inner \in WaitCall /\ FrameOK(Inner, TRUE)
  BY <1>1, InnerWait DEF WaitInv
<1>3. f \in WaitCall
  BY <1>2 DEF WaitCall
<1>4. SameWait(Inner, f) /\ FrameOK(f, TRUE)
  BY <1>1, <1>2 DEF WaitCall, SameWait, FrameOK
<1>5. ASSUME Told(Inner, glWFOList, glWFOAnySignal, glWFOSignalReceived, state, signalled)
      PROVE  Told(f, glWFOList, glWFOAnySignal, glWFOSignalReceived, state, signalled)
  BY <1>1, <1>2, <1>5 DEF WaitCall, Told, CameIn
<1> HIDE DEF f
<1>6. QED
  BY <1>1, <1>3, <1>4, <1>5, Wait_Own

LEMMA Wait_Registered == ASSUME WaitInv, Registered PROVE WaitInv'
<1> DEFINE next == IF ~glWFOSignalReceived /\ glWFOList # {} THEN "loop" ELSE "last"
           f == [Inner EXCEPT !.todo = {}, !.step = next]
<1>1. /\ Is("wait") /\ Inner.step = "register" /\ InnerBecomes(f)
      /\ Inner.todo = {} \/ glWFOSignalReceived
      /\ UNCHANGED object /\ glQueue' = glQueue /\ UNCHANGED wait
  BY DEF Registered, At
<1>2. Inner \in WaitCall /\ FrameOK(Inner, TRUE)
  BY <1>1, InnerWait DEF WaitInv
<1>3. /\ next \in {"loop", "last"} /\ (next = "last" => glWFOSignalReceived \/ glWFOList = {})
  OBVIOUS
<1> HIDE DEF next
<1>4. f \in WaitCall
  BY <1>2, <1>3 DEF WaitCall
<1>5. SameWait(Inner, f) /\ FrameOK(f, TRUE)
  BY <1>1, <1>2, <1>3 DEF WaitCall, SameWait, FrameOK
<1>6. ASSUME Told(Inner, glWFOList, glWFOAnySignal, glWFOSignalReceived, state, signalled)
      PROVE  Told(f, glWFOList, glWFOAnySignal, glWFOSignalReceived, state, signalled)
  <2>1. /\ f.todo = {} /\ f.step = next /\ f.objects = Inner.objects /\ f.any = Inner.any
        /\ f.due = Inner.due
    BY <1>2 DEF WaitCall
  <2>2. CameIn(f, state) = CameIn(Inner, state)
    BY <2>1 DEF CameIn
  <2> HIDE DEF f
  <2>3. QED
    BY <1>1, <1>3, <1>6, <2>1, <2>2 DEF Told
<1> HIDE DEF f
<1>7. QED
  BY <1>1, <1>4, <1>5, <1>6, Wait_Own

\* The wait that has no more to wait for processes messages once.
LEMMA Wait_ProcessOnce == ASSUME WaitInv, ProcessOnce PROVE WaitInv'
<1> DEFINE f == [Inner EXCEPT !.step = "clean"]
           q == Append(Front(calls), f)
<1>1. /\ Is("wait") /\ Inner.step = "last" /\ calls' = Append(q, NewLoop("zero"))
      /\ UNCHANGED object /\ glQueue' = glQueue /\ UNCHANGED wait
  BY DEF ProcessOnce, At
<1>2. StackInv /\ glQueue \in Seq(Objects \cup {Nobody})
  BY DEF WaitInv, StackInv, TypeOK
<1>3. /\ calls \in Seq(Call) /\ calls # <<>> /\ Inner \in WaitCall /\ Inner = calls[Len(calls)]
      /\ Len(calls) \in Nat \ {0} /\ Len(calls) \in 1..Len(calls) /\ Len(calls) \in Waiting
      /\ Innermost(Len(calls)) /\ \A n \in Waiting : Innermost(n) => n = Len(calls)
      /\ FrameOK(Inner, TRUE)
  BY <1>1, <1>2, InnerWait
<1>4. /\ f \in WaitCall /\ f \in Call
  BY <1>3 DEF WaitCall, Call
<1>5. SameWait(Inner, f) /\ FrameOK(f, FALSE)
  BY <1>1, <1>3 DEF WaitCall, SameWait, FrameOK
<1>6. ASSUME Told(Inner, glWFOList, glWFOAnySignal, glWFOSignalReceived, state, signalled)
      PROVE  Told(f, glWFOList, glWFOAnySignal, glWFOSignalReceived, state, signalled)
  BY <1>1, <1>3, <1>6 DEF WaitCall, Told, CameIn, FrameOK
<1> HIDE DEF f
<1>7. /\ q \in Seq(Call) /\ Len(q) = Len(calls) /\ q[Len(calls)] = f
      /\ \A i \in 1..(Len(calls) - 1) : q[i] = calls[i]
  BY <1>3, <1>4, LastReplaced
<1> HIDE DEF q
<1>8. ASSUME NEW n \in 1..Len(calls)
      PROVE  /\ SameWait(calls[n], q[n])
             /\ n < Len(calls) => KeptWait(calls[n], q[n])
  <2>1. CASE n = Len(calls)
    BY <1>3, <1>5, <1>7, <2>1
  <2>2. CASE n # Len(calls)
    <3>1. q[n] = calls[n]
      BY <1>3, <1>7, <1>8, <2>2
    <3>2. KeptWait(calls[n], q[n])
      BY <3>1, KeptItself
    <3>3. QED
      BY <3>2 DEF KeptWait
  <2>3. QED
    BY <2>1, <2>2
<1>9. NewLoop("zero") \in LoopCall
  BY NewLoopTyped
<1>10. FrameOK(q[Len(calls)], FALSE)
  BY <1>5, <1>7
<1>11. /\ SameWaits /\ FramesOK' /\ OutersDisturbed' /\ calls' \in Seq(Call)
       /\ \A n \in 1..Len(calls) : calls'[n] = q[n]
  BY <1>1, <1>2, <1>7, <1>8, <1>9, <1>10, StackCalls
<1>12. TypeOK'
  BY <1>1, <1>2, <1>11, CallsTyped
<1>13. AllTold => \A n \in Waiting : Innermost(n) => ToldNow(n)'
  <2>1. SUFFICES ASSUME AllTold, NEW n \in Waiting, n = Len(calls) PROVE ToldNow(n)'
    BY <1>3, Zenon
  <2>2. Told(Inner, glWFOList, glWFOAnySignal, glWFOSignalReceived, state, signalled)
    BY <1>3, <2>1 DEF AllTold, ToldNow
  <2>3. Told(f, glWFOList, glWFOAnySignal, glWFOSignalReceived, state, signalled)
    BY <1>6, <2>2
  <2>4. calls'[n] = f
    BY <1>3, <1>7, <1>11, <2>1
  <2>5. QED
    BY <1>1, <2>3, <2>4 DEF ToldNow, object, wait
<1>14. QED
  BY <1>1, <1>11, <1>12, <1>13, OnlyCalls

\* An object is locked and looked at.
LEMMA ToldRegister ==
    ASSUME NEW c \in WaitCall, c.step = "register", FrameOK(c, TRUE), NEW o \in c.todo,
           NEW L, NEW A, NEW R, ~R, NEW st, NEW sig, Told(c, L, A, R, st, sig)
    PROVE  /\ LET d == [c EXCEPT !.todo = @ \ {o}] IN
              o \notin sig => Told(d, L \cup {o}, A, R, st, sig)
           /\ LET d == [c EXCEPT !.todo = @ \ {o}, !.due = @ \ {o}] IN
              Told(d, L, A, A, st, sig \ {o})
<1>1. o \in c.objects
  BY DEF FrameOK, WaitCall
<1>2. ASSUME o \notin sig
      PROVE  Told([c EXCEPT !.todo = @ \ {o}], L \cup {o}, A, R, st, sig)
  <2> DEFINE d == [c EXCEPT !.todo = @ \ {o}]
  <2>1. /\ d.todo = c.todo \ {o} /\ d.step = c.step /\ d.objects = c.objects /\ d.any = c.any
        /\ d.due = c.due
    BY DEF WaitCall
  <2>2. CameIn(d, st) = CameIn(c, st)
    BY <2>1 DEF CameIn
  <2> HIDE DEF d
  <2>3. A = d.any /\ L \cup {o} \subseteq d.objects \ d.todo
    BY <1>1, <2>1 DEF Told
  <2>4. \A p \in (L \cup {o}) \cap sig : p \notin d.due
    BY <1>2, <2>1 DEF Told
  <2>5. d.objects \ (d.todo \cup (L \cup {o})) \subseteq CameIn(d, st)
    BY <2>1, <2>2 DEF Told
  <2>6. Told(d, L \cup {o}, A, R, st, sig)
    BY <2>1, <2>3, <2>4, <2>5 DEF Told
  <2>7. QED
    BY <2>6 DEF d
<1>3. Told([c EXCEPT !.todo = @ \ {o}, !.due = @ \ {o}], L, A, A, st, sig \ {o})
  <2> DEFINE d == [c EXCEPT !.todo = @ \ {o}, !.due = @ \ {o}]
  <2>1. /\ d.todo = c.todo \ {o} /\ d.step = c.step /\ d.objects = c.objects /\ d.any = c.any
        /\ d.due = c.due \ {o}
    BY DEF WaitCall
  <2>2. CameIn(c, st) \subseteq CameIn(d, st) /\ o \in CameIn(d, st)
    BY <1>1, <2>1 DEF CameIn
  <2> HIDE DEF d
  <2>3. A = d.any /\ L \subseteq d.objects \ d.todo
    BY <2>1 DEF Told
  <2>4. \A p \in L \cap (sig \ {o}) : p \notin d.due
    BY <2>1 DEF Told
  <2>5. d.objects \ (d.todo \cup L) \subseteq CameIn(d, st)
    BY <2>1, <2>2 DEF Told
  <2>6. Told(d, L, A, A, st, sig \ {o})
    BY <2>1, <2>2, <2>3, <2>4, <2>5 DEF Told
  <2>7. QED
    BY <2>6 DEF d
<1>4. QED
  BY <1>2, <1>3

LEMMA Wait_Register == ASSUME WaitInv, NEW o \in Objects, Register(o) PROVE WaitInv'
<1> DEFINE done == [Inner EXCEPT !.todo = @ \ {o}]
           found == [Inner EXCEPT !.todo = @ \ {o}, !.due = @ \ {o}]
           Passed == /\ o \in held /\ InnerBecomes(done)
                     /\ UNCHANGED <<signalled, subscribed, wait>>
           Found == /\ o \notin held /\ o \in signalled
                    /\ signalled' = signalled \ {o} /\ glWFOSignalReceived' = glWFOAnySignal
                    /\ InnerBecomes(found)
                    /\ UNCHANGED <<subscribed, glWFOList, glWFOAnySignal>>
           Watched == /\ o \notin held /\ o \notin signalled
                      /\ subscribed' = subscribed \cup ({o} \ {p \in Objects : state[p] = "marked"})
                      /\ glWFOList' = glWFOList \cup {o} /\ InnerBecomes(done)
                      /\ UNCHANGED <<signalled, glWFOAnySignal, glWFOSignalReceived>>
<1>1. /\ Is("wait") /\ Inner.step = "register" /\ ~glWFOSignalReceived /\ o \in Inner.todo
      /\ UNCHANGED <<state, held, glQueue>>
  BY DEF Register, At
<1>2. TypeOK /\ StackInv
  BY DEF WaitInv, StackInv
<1>3. /\ calls \in Seq(Call) /\ calls # <<>> /\ Inner \in WaitCall /\ Inner = calls[Len(calls)]
      /\ Len(calls) \in Waiting
      /\ Innermost(Len(calls)) /\ \A n \in Waiting : Innermost(n) => n = Len(calls)
      /\ FrameOK(Inner, TRUE)
  BY <1>1, <1>2, InnerWait
<1>4. Passed \/ Found \/ Watched
  <2>1. [done EXCEPT !.due = @ \ {o}] = found
    BY <1>3 DEF WaitCall
  <2> HIDE DEF done, found
  <2>2. QED
    BY <2>1 DEF Register, done
<1>5. /\ done \in WaitCall /\ done \in Call /\ found \in WaitCall /\ found \in Call
  BY <1>3 DEF WaitCall, Call
<1>6. /\ SameWait(Inner, done) /\ FrameOK(done, TRUE)
      /\ SameWait(Inner, found) /\ FrameOK(found, TRUE)
  BY <1>1, <1>3 DEF WaitCall, SameWait, FrameOK
<1>7. done.todo = Inner.todo \ {o} /\ found.todo = Inner.todo \ {o}
  BY <1>3 DEF WaitCall
<1>8. PICK f \in {done, found} : InnerBecomes(f) /\ (Found => f = found) /\ (~Found => f = done)
  <2> HIDE DEF done, found
  <2>1. QED
    BY <1>4
<1> HIDE DEF done, found
<1>9. /\ f \in Call /\ SameWait(Inner, f) /\ FrameOK(f, TRUE)
  BY <1>5, <1>6, <1>8
<1>10. /\ SameWaits /\ FramesOK' /\ OutersDisturbed'
       /\ calls' \in Seq(Call) /\ calls'[Len(calls)] = f
  BY <1>2, <1>3, <1>8, <1>9, StackInner
<1>11. /\ signalled' \subseteq signalled /\ subscribed' \subseteq subscribed \cup {o}
       /\ subscribed \subseteq subscribed'
       /\ glWFOList' \subseteq glWFOList \cup {o} /\ glWFOAnySignal' = glWFOAnySignal
       /\ glWFOSignalReceived' \in {glWFOAnySignal, glWFOSignalReceived}
  BY <1>4 DEF wait
<1>12. TypeOK'
  <2>1. calls' \in Seq(WaitCall \cup LoopCall)
    BY <1>10 DEF Call
  <2>2. /\ signalled' \subseteq Objects /\ subscribed' \subseteq Objects /\ glWFOList' \subseteq Objects
    BY <1>2, <1>11 DEF TypeOK
  <2>3. glWFOAnySignal' \in BOOLEAN /\ glWFOSignalReceived' \in BOOLEAN
    BY <1>2, <1>11 DEF TypeOK
  <2>4. QED
    BY <1>1, <1>2, <2>1, <2>2, <2>3 DEF TypeOK
<1>13. ASSUME ~Unready PROVE state[o] = "live" /\ o \notin held
  BY <1>1, <1>3, <1>13 DEF WaitInv, ReadyInv, AllReady
<1>14. ASSUME ~Unready PROVE ReadyInv'
  <2>1. AllReady /\ MonitoredIsHeard
    BY <1>14 DEF WaitInv, ReadyInv
  <2>2. AllReady'
    BY <1>1, <1>3, <1>10, <2>1, ReadyKept
  <2>3. MonitoredIsHeard'
    <3>1. Waiting' = Waiting /\ \A n : Innermost(n)' = Innermost(n)
      BY <1>10 DEF SameWaits, Innermost
    <3>2. SUFFICES ASSUME NEW n \in Waiting, Innermost(n), ~calls'[n].disturbed,
                          NEW p \in glWFOList', state'[p] # "freed"
                   PROVE  p \in subscribed'
      BY <3>1, Zenon DEF MonitoredIsHeard
    <3>3. SameWait(calls[n], calls'[n]) /\ calls[n].kind = "wait"
      BY <1>3, <1>10, WaitingTyped DEF SameWaits
    <3>4. ~calls[n].disturbed
      BY <3>2, <3>3, Zenon DEF SameWait
    <3>5. CASE p \in glWFOList
      <4>1. state[p] # "freed" => p \in subscribed
        BY <2>1, <3>2, <3>4, <3>5, Zenon DEF MonitoredIsHeard
      <4>2. QED
        BY <1>1, <1>11, <3>2, <4>1
    <3>6. CASE p \notin glWFOList
      <4>1. p = o /\ Watched
        BY <1>4, <3>2, <3>6 DEF wait
      <4>2. QED
        BY <1>13, <1>14, <4>1
    <3>7. QED
      BY <3>5, <3>6
  <2>4. QED
    BY <2>2, <2>3 DEF ReadyInv
<1>15. ASSUME ~Unready, ~FailedFrees PROVE AllTold'
  <2>1. AllTold
    BY <1>15 DEF WaitInv
  <2>2. GentleStep
    BY <1>1, <1>11 DEF GentleStep
  <2>3. Told(Inner, glWFOList, glWFOAnySignal, glWFOSignalReceived, state, signalled)
    BY <1>3, <2>1 DEF AllTold, ToldNow
  <2>4. /\ o \notin signalled =>
             Told(done, glWFOList \cup {o}, glWFOAnySignal, glWFOSignalReceived, state, signalled)
        /\ Told(found, glWFOList, glWFOAnySignal, glWFOAnySignal, state, signalled \ {o})
    BY <1>1, <1>3, <2>3, ToldRegister DEF done, found
  <2>5. Told(f, glWFOList', glWFOAnySignal', glWFOSignalReceived', state', signalled')
    <3>1. CASE Found
      BY <1>1, <1>8, <2>4, <3>1
    <3>2. CASE Watched
      <4>1. ~Found
        BY <3>2
      <4>2. QED
        BY <1>1, <1>8, <2>4, <3>2, <4>1
    <3>3. QED
      BY <1>4, <1>13, <1>15, <3>1, <3>2
  <2>6. \A n \in Waiting : Innermost(n) => ToldNow(n)'
    <3>1. SUFFICES ASSUME NEW n \in Waiting, n = Len(calls) PROVE ToldNow(n)'
      BY <1>3, Zenon
    <3>2. QED
      BY <1>10, <2>5, <3>1 DEF ToldNow
  <2>7. QED
    BY <1>3, <1>10, <2>1, <2>2, <2>6, ToldAll
<1>16. QED
  BY <1>10, <1>12, <1>14, <1>15 DEF WaitInv, StackInv

-----------------------------------------------------------------------------
(* The message of another thread, and the end of a message loop.           *)

LEMMA Wait_DeferredMessage == ASSUME WaitInv, DeferredMessage PROVE WaitInv'
<1> DEFINE o == Head(Inner.batch)
           came == Signalled(o) \/ Gone(o)
           over == came /\ Over(IF came THEN Remaining(o) ELSE glWFOList)
           f == [Inner EXCEPT !.batch = Tail(@), !.ended = @ \/ over]
<1>1. /\ Is("loop") /\ Inner.batch # <<>> /\ o \in glWFOList
      /\ glWFOList' = IF came THEN glWFOList \ {o} ELSE glWFOList
      /\ subscribed' = IF Signalled(o) THEN subscribed \ {o} ELSE subscribed
      /\ signalled' = IF Signalled(o) THEN signalled \ {o} ELSE signalled
      /\ glQueue' = IF Granted(o) \/ Gone(o) THEN glQueue ELSE Append(glQueue, o)
      /\ glWFOSignalReceived' = (glWFOSignalReceived \/ over)
      /\ InnerBecomes(f) /\ UNCHANGED <<state, held, glWFOAnySignal>>
  BY DEF DeferredMessage, Remaining, Requeue
<1>2. /\ StackInv /\ TypeOK
  BY DEF WaitInv, StackInv
<1>3. /\ Inner \in LoopCall /\ o \in Objects \cup {Nobody}
      /\ Tail(Inner.batch) \in Seq(Objects \cup {Nobody})
      /\ glQueue \in Seq(Objects \cup {Nobody})
  BY <1>1, <1>2, InnerLoopTyped
<1>4. f \in LoopCall
  <2>1. over \in BOOLEAN /\ Inner.ended \in BOOLEAN
    BY <1>3 DEF LoopCall, Over
  <2> HIDE DEF over
  <2>2. QED
    BY <1>3, <2>1 DEF LoopCall
<1>5. /\ SameWaits /\ FramesOK' /\ OutersDisturbed' /\ calls' \in Seq(Call)
      /\ \A n \in Waiting : KeptWait(calls[n], calls'[n]) /\ calls[n].todo = {}
  <2> HIDE DEF f
  <2>1. QED
    BY <1>1, <1>2, <1>4, LoopInnermost
<1>6. /\ signalled' \subseteq signalled /\ glWFOList' \subseteq glWFOList
      /\ subscribed' \subseteq subscribed
  BY <1>1
<1>7. /\ glWFOAnySignal \in BOOLEAN /\ glWFOSignalReceived \in BOOLEAN
      /\ glWFOSignalReceived' \in BOOLEAN
  BY <1>1, <1>2 DEF TypeOK
<1>8. came => (glWFOSignalReceived' <=> glWFOSignalReceived \/ glWFOAnySignal \/ glWFOList' = {})
  <2> HIDE DEF came
  <2>1. SUFFICES ASSUME came
                 PROVE  glWFOSignalReceived' <=> glWFOSignalReceived \/ glWFOAnySignal \/ glWFOList' = {}
    OBVIOUS
  <2>2. glWFOList' = glWFOList \ {o} /\ (over <=> glWFOAnySignal \/ glWFOList \ {o} = {})
    BY <1>1, <2>1 DEF Over, Remaining
  <2>3. QED
    BY <1>1, <1>7, <2>2
<1>9. TypeOK'
  <2>1. calls' \in Seq(WaitCall \cup LoopCall)
    BY <1>5 DEF Call
  <2>2. glQueue' \in Seq(Objects \cup {Nobody})
    <3>1. Append(glQueue, o) \in Seq(Objects \cup {Nobody})
      BY <1>3, AppendProperties
    <3> HIDE DEF o
    <3>2. QED
      BY <1>1, <1>3, <3>1
  <2>3. signalled' \subseteq Objects /\ subscribed' \subseteq Objects /\ glWFOList' \subseteq Objects
    BY <1>2, <1>6 DEF TypeOK
  <2>4. QED
    BY <1>1, <1>2, <1>7, <2>1, <2>2, <2>3 DEF TypeOK
<1>10. calls \in Seq(Call) /\ StackInv'
  BY <1>2, <1>5, <1>9, StackTyped DEF StackInv
<1>11. ASSUME ~Unready PROVE ReadyInv'
  <2>1. AllReady /\ MonitoredIsHeard
    BY <1>11 DEF WaitInv, ReadyInv
  <2>2. AllReady'
    BY <1>1, <1>5, <1>10, <2>1, ReadyKept
  <2>3. \A p \in glWFOList' : state[p] = "freed" \/ p \in subscribed =>
            state'[p] = "freed" \/ p \in subscribed'
    <3>1. Signalled(o) => glWFOList' = glWFOList \ {o}
      BY <1>1
    <3> HIDE DEF o
    <3>2. QED
      BY <1>1, <1>6, <3>1
  <2>4. MonitoredIsHeard'
    BY <1>5, <1>6, <1>10, <2>1, <2>3, HeardKept
  <2>5. QED
    BY <2>2, <2>4 DEF ReadyInv
<1>12. ASSUME ~Unready, ~FailedFrees PROVE AllTold'
  <2>1. AllTold
    BY <1>12 DEF WaitInv
  <2>2. GentleStep
    BY <1>1, <1>6 DEF GentleStep
  <2>3. ASSUME NEW n \in Waiting, Innermost(n) PROVE ToldNow(n)'
    <3>1. CASE ~came
      <4>1. glWFOList' = glWFOList /\ (~over)
        BY <1>1, <3>1
      <4>2. UNCHANGED wait
        BY <1>1, <1>7, <4>1 DEF wait
      <4>3. KeptWait(calls[n], calls'[n])
        BY <1>5
      <4>4. QED
        BY <1>10, <2>1, <2>2, <2>3, <4>2, <4>3, InnermostTold
    <3>2. CASE came
      <4> DEFINE c == calls[n]
                 d == calls'[n]
                 L == glWFOList
                 M == glWFOList'
                 A == glWFOAnySignal
                 R == glWFOSignalReceived
                 Q == glWFOSignalReceived'
                 st == state
                 sig == signalled
                 sig2 == signalled'
      <4>1. Told(c, L, A, R, st, sig)
        BY <2>1, <2>3 DEF AllTold, ToldNow
      <4>2. c.kind = "wait" /\ KeptWait(c, d) /\ c.todo = {}
        BY <1>5, <1>10, WaitingTyped
      <4>3. d.todo = {}
        BY <4>2 DEF KeptWait
      <4>4. o \in CameIn(c, st)
        <5>1. o \in c.objects /\ (o \in sig => o \notin c.due)
          BY <1>1, <4>1 DEF Told
        <5>2. o \in sig \/ st[o] # "live"
          BY <3>2 DEF Signalled, Gone
        <5>3. QED
          BY <5>1, <5>2 DEF CameIn
      <4>5. /\ \A p \in c.objects : st[p] # "live" => st[p] # "live"
            /\ \A p \in sig2 \ sig : p \notin d.due
        BY <1>6
      <4>6. A \in BOOLEAN /\ R \in BOOLEAN /\ Q \in BOOLEAN /\ M = L \ {o} /\ o \in L
            /\ (Q <=> R \/ A \/ M = {})
        BY <1>1, <1>7, <1>8, <3>2
      <4>8. state' = st
        BY <1>1
      <4> HIDE DEF c, d, L, M, A, R, Q, st, sig, sig2, o, came
      <4>7. o \in CameIn(d, st)
        BY <4>1, <4>2, <4>4, <4>5, ToldKept
      <4>9. Told(d, M, A, Q, st, sig2)
        BY <4>1, <4>2, <4>3, <4>5, <4>6, <4>7, ToldHeard
      <4>10. glWFOAnySignal' = A
        BY <1>1 DEF A
      <4>11. QED
        BY <4>8, <4>9, <4>10 DEF ToldNow, d, M, Q, sig2
    <3>3. QED
      BY <3>1, <3>2
  <2>4. QED
    BY <1>5, <1>10, <2>1, <2>2, <2>3, ToldAll
<1>13. QED
  BY <1>10, <1>11, <1>12 DEF WaitInv

\* A message loop comes back, and may tell the wait that called it about its time-out.
LEMMA StackReturns ==
    ASSUME StackInv, Is("loop"), NEW e \in {"Okay", "Timeout"}, Return(e)
    PROVE  /\ SameWaits /\ FramesOK' /\ OutersDisturbed' /\ calls' \in Seq(Call)
           /\ \A n \in Waiting : \/ calls'[n] = calls[n]
                                 \/ /\ calls'[n] = [calls[n] EXCEPT !.error = e]
                                    /\ FrameOK(calls[n], FALSE)
<1> DEFINE k == Len(calls) - 1
           p == Front(calls)
           OfWait == Len(calls) > 1 /\ calls[k].kind = "wait"
           told == [calls[k] EXCEPT !.error = e]
<1>1. calls \in Seq(Call) /\ calls # <<>>
  BY StackTyped DEF Is
<1>2. /\ Len(calls) \in Nat \ {0} /\ Inner = calls[Len(calls)] /\ Inner.kind = "loop"
  BY <1>1, InnerCall DEF Is
<1>3. p \in Seq(Call) /\ Len(p) = k /\ \A i \in 1..k : p[i] = calls[i]
  BY <1>1, WithoutLast
<1>4. k \in Nat /\ \A n \in 1..k : n \in 1..Len(calls)
  BY <1>2
<1>5. ASSUME OfWait PROVE /\ told \in Call /\ told.kind = "wait" /\ k \in 1..k
                          /\ calls[k] \in WaitCall
  <2>1. k \in 1..k /\ calls[k] \in Call /\ calls[k].kind = "wait"
    BY <1>1, <1>2, <1>5
  <2>2. calls[k] \in WaitCall
    BY <2>1, Kinds
  <2>3. told \in WaitCall
    BY <2>2 DEF WaitCall
  <2>4. QED
    BY <2>1, <2>2, <2>3 DEF Call, WaitCall
<1>6. calls' = IF OfWait THEN [p EXCEPT ![k] = told] ELSE p
  <2>1. ASSUME OfWait PROVE p[k] = calls[k]
    BY <1>3, <1>5, <2>1
  <2>2. ASSUME OfWait PROVE [p EXCEPT ![Len(calls) - 1].error = e] = [p EXCEPT ![k] = told]
    BY <2>1, <2>2
  <2>3. calls' = IF OfWait THEN [p EXCEPT ![Len(calls) - 1].error = e] ELSE p
    BY DEF Return
  <2> HIDE DEF told, p, OfWait
  <2>4. QED
    BY <2>2, <2>3
<1> HIDE DEF p, told
<1>7. /\ calls' \in Seq(Call) /\ Len(calls') = k
      /\ \A n \in 1..k : \/ calls'[n] = calls[n]
                         \/ n = k /\ OfWait /\ calls'[n] = told
  <2>1. CASE OfWait
    <3>1. calls' = [p EXCEPT ![k] = told]
      BY <1>6, <2>1
    <3>2. told \in Call /\ k \in 1..k
      BY <1>5, <2>1
    <3>3. calls' \in Seq(Call) /\ Len(calls') = Len(p)
      BY <1>3, <1>4, <3>1, <3>2
    <3>4. \A n \in 1..k : calls'[n] = IF n = k THEN told ELSE p[n]
      BY <1>3, <1>4, <3>1
    <3>5. QED
      BY <1>3, <2>1, <3>3, <3>4
  <2>2. CASE ~OfWait
    <3>1. calls' = p
      BY <1>6, <2>2
    <3>2. QED
      BY <1>3, <3>1
  <2>3. QED
    BY <2>1, <2>2
<1>8. /\ Waiting \subseteq 1..Len(calls)
      /\ \A n \in 1..Len(calls) : n \in Waiting <=> calls[n].kind = "wait"
      /\ \A n \in Waiting : n \in Nat /\ n <= Len(calls)
  BY <1>1, WaitingTyped
<1>9. \A n \in Waiting : n \in 1..k
  <2>1. \A n \in 1..Len(calls) : n # Len(calls) => n \in 1..k
    BY <1>2
  <2>2. QED
    BY <1>2, <1>8, <2>1
<1>10. /\ Waiting' \subseteq 1..k
       /\ \A n \in 1..k : n \in Waiting' <=> calls'[n].kind = "wait"
  BY <1>7, WaitingTypedNext
<1>11. \A n \in 1..k : /\ SameWait(calls[n], calls'[n])
                       /\ n < k => calls'[n] = calls[n]
  <2>1. SUFFICES ASSUME NEW n \in 1..k
                 PROVE  SameWait(calls[n], calls'[n]) /\ (n < k => calls'[n] = calls[n])
    OBVIOUS
  <2>2. CASE calls'[n] = calls[n]
    <3>1. KeptWait(calls[n], calls[n])
      BY KeptItself
    <3>2. QED
      BY <2>2, <3>1 DEF KeptWait
  <2>3. CASE n = k /\ OfWait /\ calls'[n] = told
    <3>1. SameWait(calls[k], told)
      BY <1>5, <2>3 DEF SameWait, told, WaitCall
    <3>2. QED
      BY <1>4, <2>3, <3>1
  <2>4. QED
    BY <1>7, <2>2, <2>3
<1>12. Waiting' = Waiting
  <2>1. \A n \in 1..k : calls'[n].kind = calls[n].kind
    BY <1>11 DEF SameWait
  <2>2. ASSUME NEW n \in Waiting' PROVE n \in Waiting
    BY <1>4, <1>8, <1>10, <2>1
  <2>3. ASSUME NEW n \in Waiting PROVE n \in Waiting'
    BY <1>8, <1>9, <1>10, <2>1
  <2>4. QED
    BY <2>2, <2>3
<1>13. \A n \in Waiting : ~Innermost(n) => n < k
  BY <1>4, <1>8, <1>9 DEF Innermost
<1>14. \A n \in Waiting : ~Innermost(n) => KeptWait(calls[n], calls'[n])
  BY <1>9, <1>11, <1>13, KeptItself
<1>15. SameWaits
  BY <1>7, <1>9, <1>11, <1>12, <1>14 DEF SameWaits
<1>16. \A n \in 1..k : FrameOK(calls[n], FALSE)
  <2>1. SUFFICES ASSUME NEW n \in 1..k PROVE FrameOK(calls[n], FALSE)
    OBVIOUS
  <2>2. n \in 1..Len(calls) /\ (n = Len(calls)) = FALSE
    BY <1>2, <2>1
  <2>3. FrameOK(calls[n], n = Len(calls))
    BY <2>2 DEF StackInv, FramesOK
  <2>4. QED
    BY <2>2, <2>3
<1>17. FramesOK'
  <2>1. SUFFICES ASSUME NEW n \in 1..k PROVE FrameOK(calls'[n], n = k)
    BY <1>7 DEF FramesOK
  <2>2. CASE calls'[n] = calls[n]
    BY <1>16, <2>2 DEF FrameOK
  <2>3. CASE n = k /\ OfWait /\ calls'[n] = told
    <3>1. FrameOK(told, TRUE)
      BY <1>4, <1>5, <1>16, <2>3 DEF FrameOK, told, WaitCall
    <3>2. (n = k) = TRUE
      BY <2>3
    <3>3. QED
      BY <2>3, <3>1, <3>2
  <2>4. QED
    BY <1>7, <2>2, <2>3
<1>18. OutersDisturbed'
  <2>1. SUFFICES ASSUME NEW m \in Waiting, NEW n \in Waiting, m < n
                 PROVE  calls'[m].disturbed
    BY <1>12, Zenon DEF OutersDisturbed
  <2>2. calls[m].disturbed
    BY <2>1, Zenon DEF StackInv, OutersDisturbed
  <2>3. SameWait(calls[m], calls'[m]) /\ calls[m].kind = "wait"
    BY <1>8, <1>9, <1>11
  <2>4. QED
    BY <2>2, <2>3, Zenon DEF SameWait
<1>19. \A n \in Waiting : \/ calls'[n] = calls[n]
                          \/ /\ calls'[n] = [calls[n] EXCEPT !.error = e]
                             /\ FrameOK(calls[n], FALSE)
  BY <1>7, <1>9, <1>16 DEF told
<1>20. QED
  BY <1>7, <1>15, <1>17, <1>18, <1>19

LEMMA Wait_Return ==
    ASSUME WaitInv, Is("loop"), NEW e \in {"Okay", "Timeout"}, Return(e),
           UNCHANGED object, UNCHANGED wait, glQueue' = glQueue
    PROVE  WaitInv'
<1>1. StackInv /\ glQueue \in Seq(Objects \cup {Nobody}) /\ calls \in Seq(Call)
  BY StackTyped DEF WaitInv, StackInv, TypeOK
<1>2. /\ SameWaits /\ FramesOK' /\ OutersDisturbed' /\ calls' \in Seq(Call)
      /\ \A n \in Waiting : \/ calls'[n] = calls[n]
                            \/ /\ calls'[n] = [calls[n] EXCEPT !.error = e]
                               /\ FrameOK(calls[n], FALSE)
  BY <1>1, StackReturns
<1>3. TypeOK'
  BY <1>1, <1>2, CallsTyped
<1>4. AllTold => \A n \in Waiting : Innermost(n) => ToldNow(n)'
  <2>1. SUFFICES ASSUME AllTold, NEW n \in Waiting, Innermost(n) PROVE ToldNow(n)'
    OBVIOUS
  <2>2. Told(calls[n], glWFOList, glWFOAnySignal, glWFOSignalReceived, state, signalled)
    BY <2>1 DEF AllTold, ToldNow
  <2>3. Told(calls'[n], glWFOList, glWFOAnySignal, glWFOSignalReceived, state, signalled)
    <3>1. CASE calls'[n] = calls[n]
      BY <2>2, <3>1
    <3>2. CASE calls'[n] = [calls[n] EXCEPT !.error = e] /\ FrameOK(calls[n], FALSE)
      <4>1. calls[n] \in WaitCall /\ calls[n].kind = "wait"
        BY <1>1, WaitingTyped DEF WaitCall
      <4> DEFINE c == calls[n]
                 d == calls'[n]
      <4>2. /\ d.any = c.any /\ d.objects = c.objects /\ d.todo = c.todo /\ d.due = c.due
            /\ d.step = c.step /\ c.error = "Okay"
        BY <3>2, <4>1 DEF WaitCall, FrameOK
      <4>3. CameIn(d, state) = CameIn(c, state)
        BY <4>2 DEF CameIn
      <4> HIDE DEF c, d
      <4>4. Told(d, glWFOList, glWFOAnySignal, glWFOSignalReceived, state, signalled)
        <5>1. Told(c, glWFOList, glWFOAnySignal, glWFOSignalReceived, state, signalled)
          BY <2>2 DEF c
        <5>2. QED
          BY <4>2, <4>3, <5>1 DEF Told
      <4>5. QED
        BY <4>4 DEF d
    <3>3. QED
      BY <1>2, <3>1, <3>2
  <2>4. QED
    BY <2>3 DEF ToldNow, object, wait
<1>5. QED
  BY <1>2, <1>3, <1>4, OnlyCalls

LEMMA Wait_LoopReturns ==
    ASSUME WaitInv, LoopEnds \/ LoopExpires \/ LoopBreaks PROVE WaitInv'
<1>1. /\ Is("loop") /\ (Return("Okay") \/ Return("Timeout"))
      /\ UNCHANGED object /\ UNCHANGED wait /\ glQueue' = glQueue
  BY DEF LoopEnds, LoopExpires, LoopBreaks, Idle
<1>2. QED
  BY <1>1, Wait_Return

-----------------------------------------------------------------------------
(* A wait begins and ends.                                                 *)

LEMMA Wait_WaitForObjects ==
    ASSUME WaitInv, WaitsAssumption, NEW objects \in Lists, NEW any \in BOOLEAN,
           WaitForObjects(objects, any)
    PROVE  WaitInv'
<1> DEFINE w == [kind |-> "wait", step |-> "register", objects |-> objects, todo |-> objects,
                 any |-> any, error |-> "Okay",
                 list |-> glWFOList, anySignal |-> glWFOAnySignal,
                 received |-> glWFOSignalReceived, due |-> objects, disturbed |-> FALSE]
           N == Len(calls) + 1
           q == Disturbed
<1>1. /\ ClientRuns /\ calls' = Append(q, w)
      /\ \A o \in objects : state[o] = "live" /\ (o \in held => Unready)
      /\ glWFOList' = {} /\ glWFOAnySignal' = any /\ glWFOSignalReceived' = FALSE
      /\ UNCHANGED object /\ glQueue' = glQueue
  BY DEF WaitForObjects, MayCall
<1>2. TypeOK /\ StackInv /\ calls \in Seq(Call) /\ Len(calls) \in Nat
  BY StackTyped DEF WaitInv, StackInv
<1>3. objects \subseteq Objects
  BY DEF WaitsAssumption
<1>4. w \in WaitCall /\ w \in Call /\ w.kind = "wait"
  BY <1>2, <1>3 DEF TypeOK, WaitCall, Call
<1>5. /\ q \in Seq(Call) /\ Len(q) = Len(calls)
      /\ \A n \in 1..Len(calls) : /\ KeptWait(calls[n], q[n])
                                  /\ calls[n].kind = "wait" => q[n].disturbed
  BY <1>2, DisturbedKeeps
<1>6. /\ w.step = "register" /\ w.objects = objects /\ w.todo = objects /\ w.any = any
      /\ w.list = glWFOList /\ w.anySignal = glWFOAnySignal /\ w.received = glWFOSignalReceived
      /\ w.due = objects /\ w.error = "Okay"
  OBVIOUS
<1> HIDE DEF w, q
<1>7. /\ calls' \in Seq(Call) /\ Len(calls') = N /\ calls'[N] = w
      /\ \A n \in 1..Len(calls) : calls'[n] = q[n]
  BY <1>1, <1>4, <1>5, AppendProperties
<1>8. /\ Waiting \subseteq 1..Len(calls)
      /\ \A n \in 1..Len(calls) : n \in Waiting <=> calls[n].kind = "wait"
      /\ \A n \in Waiting : n \in Nat /\ n <= Len(calls) /\ calls[n].kind = "wait"
  BY <1>2, WaitingTyped
<1>9. /\ Waiting' \subseteq 1..N
      /\ \A n \in 1..N : n \in Waiting' <=> calls'[n].kind = "wait"
  BY <1>7, WaitingTypedNext
<1>10. \A n \in 1..Len(calls) : KeptWait(calls[n], calls'[n]) /\ SameWait(calls[n], calls'[n])
  BY <1>5, <1>7 DEF KeptWait
<1>11. Waiting' = Waiting \cup {N} /\ N \notin Waiting
  <2>1. \A n \in 1..Len(calls) : calls'[n].kind = calls[n].kind
    BY <1>10 DEF SameWait
  <2>2. \A n \in 1..N : n # N => n \in 1..Len(calls)
    BY <1>2
  <2>3. (\A n \in 1..Len(calls) : n \in 1..N) /\ N \in 1..N /\ N \notin 1..Len(calls)
    BY <1>2
  <2>4. ASSUME NEW n \in Waiting' PROVE n \in Waiting \cup {N}
    BY <1>8, <1>9, <2>1, <2>2
  <2>5. ASSUME NEW n \in Waiting \cup {N} PROVE n \in Waiting'
    BY <1>4, <1>7, <1>8, <1>9, <2>1, <2>3
  <2>6. QED
    BY <1>8, <2>3, <2>4, <2>5
<1>12. TypeOK'
  <2>1. calls' \in Seq(WaitCall \cup LoopCall)
    BY <1>7 DEF Call
  <2>2. QED
    BY <1>1, <1>2, <2>1 DEF TypeOK, object
<1>13. FramesOK'
  <2>1. SUFFICES ASSUME NEW n \in 1..N PROVE FrameOK(calls'[n], n = N)
    BY <1>7 DEF FramesOK
  <2>2. CASE n = N
    <3>1. FrameOK(w, TRUE)
      BY <1>6 DEF FrameOK
    <3>2. (n = N) = TRUE
      BY <2>2
    <3>3. QED
      BY <1>7, <2>2, <3>1, <3>2
  <2>3. CASE n # N
    <3>1. n \in 1..Len(calls) /\ (n = N) = FALSE
      BY <1>2, <2>1, <2>3
    <3>2. FrameOK(calls[n], n = Len(calls))
      BY <1>2, <3>1 DEF StackInv, FramesOK
    <3>3. FrameOK(calls[n], FALSE)
      <4>1. CASE n = Len(calls)
        <5>1. calls # <<>>
          BY <1>2, <3>1
        <5>2. calls[n].kind = "loop"
          BY <1>1, <1>2, <4>1, <5>1, ClientLoop
        <5>3. QED
          BY <5>2 DEF FrameOK
      <4>2. CASE n # Len(calls)
        <5>1. (n = Len(calls)) = FALSE
          BY <4>2
        <5>2. QED
          BY <3>2, <5>1
      <4>3. QED
        BY <4>1, <4>2
    <3>4. KeptWait(calls[n], calls'[n])
      BY <1>10, <3>1
    <3>5. FrameOK(calls'[n], FALSE)
      BY <3>3, <3>4 DEF FrameOK, KeptWait, SameWait
    <3>6. QED
      BY <3>1, <3>5
  <2>4. QED
    BY <2>2, <2>3
<1>14. OutersDisturbed'
  <2>1. SUFFICES ASSUME NEW m \in Waiting \cup {N}, NEW n \in Waiting \cup {N}, m < n
                 PROVE  calls'[m].disturbed
    BY <1>11, Zenon DEF OutersDisturbed
  <2>2. m \in Waiting
    BY <1>2, <1>8, <2>1
  <2>3. m \in 1..Len(calls) /\ calls[m].kind = "wait"
    BY <1>8, <2>2
  <2>4. QED
    BY <1>5, <1>7, <2>3
<1>15. StackInv'
  BY <1>12, <1>13, <1>14 DEF StackInv
<1>16. ASSUME ~Unready PROVE ReadyInv'
  <2>1. AllReady
    BY <1>16 DEF WaitInv, ReadyInv
  <2>2. AllReady'
    <3>1. SUFFICES ASSUME NEW n \in Waiting \cup {N}, NEW o \in calls'[n].todo
                   PROVE  state[o] = "live" /\ o \notin held
      BY <1>1, <1>11 DEF AllReady, object
    <3>2. CASE n = N
      BY <1>1, <1>6, <1>7, <1>16, <3>1, <3>2
    <3>3. CASE n # N
      <4>1. n \in Waiting /\ calls'[n].todo \subseteq calls[n].todo
        BY <1>8, <1>10, <3>1, <3>3 DEF SameWait
      <4>2. QED
        BY <2>1, <3>1, <4>1 DEF AllReady
    <3>4. QED
      BY <3>2, <3>3
  <2>3. MonitoredIsHeard'
    BY <1>1 DEF MonitoredIsHeard
  <2>4. QED
    BY <2>2, <2>3 DEF ReadyInv
<1>17. ASSUME ~Unready, ~FailedFrees PROVE AllTold'
  <2>1. AllTold
    BY <1>17 DEF WaitInv
  <2>2. state' = state /\ signalled' = signalled
    BY <1>1 DEF object
  <2>3. ASSUME NEW n \in Waiting \cup {N}, Innermost(n)' PROVE ToldNow(n)'
    <3>1. n = N
      BY <1>2, <1>8, <1>11, <2>3 DEF Innermost
    <3>2. Told(w, {}, any, FALSE, state, signalled)
      BY <1>6 DEF Told, CameIn
    <3>3. QED
      BY <1>1, <1>7, <2>2, <3>1, <3>2 DEF ToldNow
  <2>4. ASSUME NEW m \in Waiting \cup {N}, NEW n \in Waiting \cup {N}, IsNext(m, n)'
        PROVE  ToldWith(m, n)'
    <3>1. m < n /\ \A k \in Waiting : k <= m \/ n <= k
      BY <1>11, <2>4 DEF IsNext
    <3>2. m \in Waiting
      BY <1>2, <1>8, <2>4, <3>1
    <3>3. m \in 1..Len(calls) /\ calls[m].kind = "wait"
      BY <1>8, <3>2
    <3>4. KeptWait(calls[m], calls'[m])
      BY <1>10, <3>3
    <3>5. CASE n = N
      <4>1. Innermost(m)
        BY <1>2, <1>8, <3>1, <3>2, <3>5 DEF Innermost
      <4>2. Told(calls[m], glWFOList, glWFOAnySignal, glWFOSignalReceived, state, signalled)
        BY <2>1, <3>2, <4>1 DEF AllTold, ToldNow
      <4>3. Told(calls'[m], glWFOList, glWFOAnySignal, glWFOSignalReceived, state, signalled)
        BY <3>3, <3>4, <4>2, ToldKept
      <4>4. QED
        BY <1>6, <1>7, <2>2, <3>5, <4>3 DEF ToldWith
    <3>6. CASE n # N
      <4>1. n \in Waiting /\ n \in 1..Len(calls) /\ calls[n].kind = "wait"
        BY <1>8, <2>4, <3>6
      <4>2. IsNext(m, n)
        BY <3>1 DEF IsNext
      <4>3. Told(calls[m], calls[n].list, calls[n].anySignal, calls[n].received, state, signalled)
        BY <2>1, <3>2, <4>1, <4>2 DEF AllTold, ToldWith
      <4>4. Told(calls'[m], calls[n].list, calls[n].anySignal, calls[n].received, state, signalled)
        BY <3>3, <3>4, <4>3, ToldKept
      <4>5. /\ calls'[n].list = calls[n].list /\ calls'[n].anySignal = calls[n].anySignal
            /\ calls'[n].received = calls[n].received
        BY <1>10, <4>1 DEF SameWait
      <4>6. QED
        BY <2>2, <4>4, <4>5 DEF ToldWith
    <3>7. QED
      BY <3>5, <3>6
  <2>5. QED
    BY <1>11, <2>3, <2>4 DEF AllTold
<1>18. QED
  BY <1>15, <1>16, <1>17 DEF WaitInv

LEMMA Wait_CleanUp == ASSUME WaitInv, CleanUp PROVE WaitInv'
<1> DEFINE N == Len(calls)
<1>1. /\ Is("wait") /\ calls' = Front(calls) /\ UNCHANGED <<state, signalled, held, glQueue>>
      /\ glWFOList' = Inner.list /\ glWFOAnySignal' = Inner.anySignal
      /\ glWFOSignalReceived' = Inner.received /\ subscribed' \subseteq subscribed
  BY DEF CleanUp, At
<1>2. TypeOK /\ StackInv
  BY DEF WaitInv, StackInv
<1>3. /\ calls \in Seq(Call) /\ calls # <<>> /\ Inner \in WaitCall /\ Inner = calls[N]
      /\ N \in Nat \ {0} /\ N \in 1..N /\ N \in Waiting
  BY <1>1, <1>2, InnerWait
<1>4. calls' \in Seq(Call) /\ Len(calls') = N - 1 /\ \A n \in 1..(N - 1) : calls'[n] = calls[n]
  BY <1>1, <1>3, WithoutLast
<1>5. /\ Waiting \subseteq 1..N
      /\ \A n \in 1..N : n \in Waiting <=> calls[n].kind = "wait"
      /\ \A n \in Waiting : n \in Nat /\ n <= N
  BY <1>3, WaitingTyped
<1>6. /\ Waiting' \subseteq 1..(N - 1)
      /\ \A n \in 1..(N - 1) : n \in Waiting' <=> calls'[n].kind = "wait"
  BY <1>4, WaitingTypedNext
<1>7. Waiting' = Waiting \ {N}
  <2>1. /\ \A n \in 1..N : n # N => n \in 1..(N - 1)
        /\ \A n \in 1..(N - 1) : n \in 1..N /\ n # N
    BY <1>3
  <2>2. ASSUME NEW n \in Waiting' PROVE n \in Waiting \ {N}
    BY <1>4, <1>5, <1>6, <2>1
  <2>3. ASSUME NEW n \in Waiting \ {N} PROVE n \in Waiting'
    BY <1>4, <1>5, <1>6, <2>1
  <2>4. QED
    BY <2>2, <2>3
<1>8. \A n \in Waiting \ {N} : n \in 1..(N - 1) /\ calls'[n] = calls[n] /\ n < N
  BY <1>4, <1>6, <1>7, <1>5
<1>9. TypeOK'
  <2>1. calls' \in Seq(WaitCall \cup LoopCall)
    BY <1>4 DEF Call
  <2>2. /\ glWFOList' \subseteq Objects /\ glWFOAnySignal' \in BOOLEAN
        /\ glWFOSignalReceived' \in BOOLEAN
    BY <1>1, <1>3 DEF WaitCall
  <2>3. subscribed' \subseteq Objects
    BY <1>1, <1>2 DEF TypeOK
  <2>4. QED
    BY <1>1, <1>2, <2>1, <2>2, <2>3 DEF TypeOK
<1>10. FramesOK'
  <2>1. SUFFICES ASSUME NEW n \in 1..(N - 1) PROVE FrameOK(calls'[n], n = N - 1)
    BY <1>4 DEF FramesOK
  <2>2. n \in 1..N /\ (n = N) = FALSE
    BY <1>3, <2>1
  <2>3. FrameOK(calls[n], n = N)
    BY <1>2, <2>2 DEF StackInv, FramesOK
  <2>4. FrameOK(calls'[n], FALSE)
    BY <1>4, <2>2, <2>3
  <2>5. QED
    BY <2>4 DEF FrameOK
<1>11. OutersDisturbed'
  <2>1. SUFFICES ASSUME NEW m \in Waiting \ {N}, NEW n \in Waiting \ {N}, m < n
                 PROVE  calls'[m].disturbed
    BY <1>7, Zenon DEF OutersDisturbed
  <2>2. calls[m].disturbed
    BY <1>2, <2>1, Zenon DEF StackInv, OutersDisturbed
  <2>3. QED
    BY <1>8, <2>1, <2>2
<1>12. StackInv'
  BY <1>9, <1>10, <1>11 DEF StackInv
<1>13. ASSUME ~Unready PROVE ReadyInv'
  <2>1. AllReady
    BY <1>13 DEF WaitInv, ReadyInv
  <2>2. AllReady'
    BY <1>1, <1>7, <1>8, <2>1 DEF AllReady
  <2>3. MonitoredIsHeard'
    <3>1. SUFFICES ASSUME NEW n \in Waiting \ {N}, ~calls'[n].disturbed PROVE FALSE
      BY <1>7, Zenon DEF MonitoredIsHeard
    <3>2. n < N /\ calls'[n] = calls[n]
      BY <1>8, <3>1
    <3>3. calls[n].disturbed
      BY <1>2, <1>3, <3>1, <3>2, Zenon DEF StackInv, OutersDisturbed
    <3>4. QED
      BY <3>1, <3>2, <3>3
  <2>4. QED
    BY <2>2, <2>3 DEF ReadyInv
<1>14. ASSUME ~Unready, ~FailedFrees PROVE AllTold'
  <2>1. AllTold
    BY <1>14 DEF WaitInv
  <2>2. ASSUME NEW n \in Waiting \ {N}, Innermost(n)' PROVE ToldNow(n)'
    <3>1. IsNext(n, N)
      <4>1. n < N /\ \A k \in Waiting \ {N} : k <= n
        BY <1>7, <1>8, <2>2 DEF Innermost
      <4>2. QED
        BY <1>3, <4>1 DEF IsNext
    <3>2. Told(calls[n], calls[N].list, calls[N].anySignal, calls[N].received, state, signalled)
      BY <1>3, <2>1, <2>2, <3>1 DEF AllTold, ToldWith
    <3>3. QED
      BY <1>1, <1>3, <1>8, <2>2, <3>2 DEF ToldNow
  <2>3. ASSUME NEW m \in Waiting \ {N}, NEW n \in Waiting \ {N}, IsNext(m, n)'
        PROVE  ToldWith(m, n)'
    <3>1. IsNext(m, n)
      <4>1. m < n /\ \A k \in Waiting \ {N} : k <= m \/ n <= k
        BY <1>7, <2>3 DEF IsNext
      <4>2. n <= N
        BY <1>5, <2>3
      <4>3. QED
        BY <4>1, <4>2 DEF IsNext
    <3>2. Told(calls[m], calls[n].list, calls[n].anySignal, calls[n].received, state, signalled)
      BY <2>1, <2>3, <3>1 DEF AllTold, ToldWith
    <3>3. QED
      BY <1>1, <1>8, <2>3, <3>2 DEF ToldWith
  <2>4. QED
    BY <1>7, <2>2, <2>3 DEF AllTold
<1>15. QED
  BY <1>12, <1>13, <1>14 DEF WaitInv

-----------------------------------------------------------------------------
(* The theorems.                                                           *)

LEMMA Wait_Init == Init => WaitInv
<1>1. SUFFICES ASSUME Init PROVE WaitInv
  OBVIOUS
<1>2. calls = <<>> /\ Waiting = {} /\ Len(calls) = 0
  BY <1>1 DEF Init, Waiting
<1>3. <<>> \in Seq(WaitCall \cup LoopCall) /\ <<>> \in Seq(Objects \cup {Nobody})
  OBVIOUS
<1>4. TypeOK
  BY <1>1, <1>3 DEF Init, TypeOK
<1>5. FramesOK
  BY <1>2 DEF FramesOK
<1>6. OutersDisturbed /\ AllReady /\ MonitoredIsHeard /\ AllTold
  BY <1>2 DEF OutersDisturbed, AllReady, MonitoredIsHeard, AllTold
<1>7. QED
  BY <1>4, <1>5, <1>6 DEF WaitInv, StackInv, ReadyInv

LEMMA Wait_Stutter == ASSUME WaitInv, UNCHANGED vars PROVE WaitInv'
<1>1. /\ UNCHANGED object /\ UNCHANGED wait /\ UNCHANGED <<glQueue, calls>>
  BY DEF vars, object, wait
<1>2. calls \in Seq(Call) /\ StackInv /\ Waiting' = Waiting
  BY <1>1, StackTyped DEF WaitInv, Waiting
<1>3. /\ FramesOK' /\ OutersDisturbed' /\ TypeOK'
  BY <1>1, <1>2, Zenon DEF StackInv, FramesOK, OutersDisturbed, TypeOK, object, wait
<1>4. \A n : KeptWait(calls[n], calls'[n]) /\ SameWait(calls[n], calls'[n])
  BY <1>1, KeptItself DEF KeptWait
<1>5. SameWaits
  BY <1>1, <1>2, <1>4 DEF SameWaits
<1>6. QED
  BY <1>1, <1>3, <1>4, <1>5, NothingNew

LEMMA Wait_Next == WaitInv /\ [Next]_vars => WaitInv'
<1>1. SUFFICES ASSUME WaitInv, [Next]_vars PROVE WaitInv'
  OBVIOUS
<1>2. ASSUME NEW o \in Objects, Register(o) PROVE WaitInv'
  BY <1>1, <1>2, Wait_Register
<1>3. CASE Registered
  BY <1>1, <1>3, Wait_Registered
<1>4. CASE WaitGoesOn
  BY <1>1, <1>4, Wait_WaitGoesOn
<1>5. CASE WaitIsOver
  BY <1>1, <1>5, Wait_WaitIsOver
<1>6. CASE ProcessOnce
  BY <1>1, <1>6, Wait_ProcessOnce
<1>7. CASE CleanUp
  BY <1>1, <1>7, Wait_CleanUp
<1>8. CASE FetchBatch
  BY <1>1, <1>8, Wait_FetchBatch
<1>9. CASE EmptyMessage
  BY <1>1, <1>9, Wait_EmptyMessage
<1>10. CASE StaleMessage
  BY <1>1, <1>10, Wait_StaleMessage
<1>11. CASE DeferredMessage
  BY <1>1, <1>11, Wait_DeferredMessage
<1>12. CASE LoopEnds \/ LoopExpires \/ LoopBreaks
  BY <1>1, <1>12, Wait_LoopReturns
<1>13. CASE WaitExpires
  BY <1>1, <1>13, Wait_WaitExpires
<1>14. ASSUME NEW o \in Objects, SignalByMain(o) PROVE WaitInv'
  BY <1>1, <1>14, Wait_SignalByMain
<1>15. ASSUME NEW o \in Objects, FreeByMain(o) PROVE WaitInv'
  BY <1>1, <1>15, Wait_FreeByMain
<1>16. ASSUME NEW l \in Lists, NEW any \in BOOLEAN, WaitForObjects(l, any) PROVE WaitInv'
  BY <1>1, <1>16, WaitsAssumption, Wait_WaitForObjects
<1>17. CASE ProcessMessages
  BY <1>1, <1>17, Wait_ProcessMessages
<1>18. ASSUME NEW o \in Objects, Thread(o) \/ LetGo(o) PROVE WaitInv'
  <2>1. CASE SignalByThread(o)
    BY <1>1, <2>1, Wait_SignalByThread
  <2>2. CASE Claim(o)
    BY <1>1, <2>2, Wait_Claim
  <2>3. CASE ClaimFails(o)
    BY <1>1, <2>3, Wait_ClaimFails
  <2>4. CASE Mark(o)
    BY <1>1, <2>4, Wait_Mark
  <2>5. CASE FreeByThread(o)
    BY <1>1, <2>5, Wait_FreeByThread
  <2>6. CASE Hold(o) \/ LetGo(o)
    BY <1>1, <2>6, Wait_Locks
  <2>7. QED
    BY <1>18, <2>1, <2>2, <2>3, <2>4, <2>5, <2>6 DEF Thread
<1>19. CASE UNCHANGED vars
  BY <1>1, <1>19, Wait_Stutter
<1>20. QED
  BY <1>1, <1>2, <1>3, <1>4, <1>5, <1>6, <1>7, <1>8, <1>9, <1>10, <1>11, <1>12, <1>13, <1>14,
     <1>15, <1>16, <1>17, <1>18, <1>19 DEF Next, Main, Client

\* A wait that contains others contains a next one.
LEMMA NextWait ==
    ASSUME calls \in Seq(Call), NEW n \in Waiting, ~Innermost(n)
    PROVE  \E k \in Waiting : IsNext(n, k)
<1> DEFINE T == {k \in Waiting : n < k}
           R == OpToRel(<, Nat)
<1>1. \A k \in Waiting : k \in Nat
  BY WaitingTyped
<1>2. T \subseteq Nat /\ T # {}
  BY <1>1 DEF Innermost
<1>3. IsWellFoundedOn(R, Nat)
  BY NatLessThanWellFounded, Zenon
<1>4. \A x, y \in Nat : y < x => <<y, x>> \in R
  BY DEF OpToRel
<1> HIDE DEF R
<1>5. PICK k \in T : \A m \in T : ~(<<m, k>> \in R)
  <2> HIDE DEF T
  <2>1. QED
    BY <1>2, <1>3, WFMin
<1>6. \A m \in T : ~(m < k)
  BY <1>2, <1>4, <1>5
<1>7. QED
  BY <1>1, <1>5, <1>6 DEF IsNext

\* What is waited for, what has come and what a call has left to do agree in every
\* reachable state.
THEOREM WaitCorrect == Spec => []WaitInv
<1>1. QED
  BY Wait_Init, Wait_Next, PTL DEF Spec

\* The list of objects that are waited for and the subscriptions of notify_signal_wfo()
\* agree for the innermost wait, in any nesting of waits and message loops, if objects
\* can be locked when WaitForObjects() registers them.
THEOREM WaitsCorrect == ~Unready => (Spec => []WaitsInv)
<1>1. ASSUME ~Unready PROVE WaitInv => WaitsInv
  BY <1>1 DEF WaitInv, StackInv, ReadyInv, WaitsInv
<1>2. ASSUME ~Unready PROVE Spec => []WaitsInv
  <2>1. WaitInv => WaitsInv
    BY <1>1, <1>2
  <2>2. QED
    BY <2>1, WaitCorrect, PTL
<1>3. QED
  BY <1>2

\* A wait that ends without an error has what it has waited for, whatever older
\* messages, waits inside of it and signals it meets, if its objects can be locked when
\* they are registered and no claim of an object that is waited for comes to nothing.
THEOREM NoneEarly == ~Unready /\ ~FailedFrees => (Spec => []NoEarlyReturn)
<1>1. ASSUME ~Unready /\ ~FailedFrees PROVE WaitInv => NoEarlyReturn
  <2>1. SUFFICES ASSUME WaitInv, NEW n \in Waiting, calls[n].step = "clean",
                        calls[n].error = "Okay", calls[n].objects # {}
                 PROVE  Satisfied(calls[n])
    BY DEF NoEarlyReturn
  <2> DEFINE c == calls[n]
  <2>2. StackInv /\ AllTold /\ calls \in Seq(Call)
    BY <1>1, <2>1, StackTyped DEF WaitInv
  <2>3. n \in 1..Len(calls) /\ c.kind = "wait"
    BY <2>2, WaitingTyped
  <2>4. c.todo = {}
    BY <2>1, <2>2, <2>3 DEF StackInv, FramesOK, FrameOK
  <2>5. \E L, A, R : Told(c, L, A, R, state, signalled)
    <3>1. CASE Innermost(n)
      BY <2>2, <3>1 DEF AllTold, ToldNow
    <3>2. CASE ~Innermost(n)
      <4>1. PICK k \in Waiting : IsNext(n, k)
        BY <2>2, <3>2, NextWait
      <4>2. QED
        BY <2>2, <4>1 DEF AllTold, ToldWith
    <3>3. QED
      BY <3>1, <3>2
  <2>6. PICK L, A, R : Told(c, L, A, R, state, signalled)
    BY <2>5
  <2>7. Came(c) = CameIn(c, state)
    BY DEF Came, CameIn
  <2> HIDE DEF c
  <2>8. IF c.any THEN CameIn(c, state) # {} ELSE CameIn(c, state) = c.objects
    <3>1. CameIn(c, state) \subseteq c.objects
      BY DEF CameIn
    <3>2. c.step = "clean" /\ c.error = "Okay" /\ c.objects # {}
      BY <2>1 DEF c
    <3>3. QED
      BY <2>4, <2>6, <3>1, <3>2 DEF Told
  <2>9. QED
    BY <2>7, <2>8 DEF Satisfied, c
<1>2. ASSUME ~Unready /\ ~FailedFrees PROVE Spec => []NoEarlyReturn
  <2>1. WaitInv => NoEarlyReturn
    BY <1>1, <1>2
  <2>2. QED
    BY <2>1, WaitCorrect, PTL
<1>3. QED
  BY <1>2
=============================================================================
