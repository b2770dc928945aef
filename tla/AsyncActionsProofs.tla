------------------------ MODULE AsyncActionsProofs ------------------------
(***************************************************************************)
(* Asynchronous actions, for any objects, threads and requests: the        *)
(* requests for an object are served one at a time and in order, an object *)
(* that counts as active is being served, no callback is lost or called    *)
(* twice, and AsyncWait() does not return early.                           *)
(***************************************************************************)
EXTENDS AsyncActions, FiniteSetTheorems, SequenceTheorems, TLAPS

----------------------------------------------------------------------------
(* Types and control.                                                      *)

FrameSteps == {"loop", "callback", "dispatch", "launch", "check", "drain", "clear",
               "count", "notify", "unlock"}
FrameType == [loop : {"events", "wait"}, breaking : BOOLEAN, batch : Seq(Messages),
              at : FrameSteps, locked : BOOLEAN, next : Requests \cup {None},
              drained : Seq(Requests)]
JobType == [object : Objects \cup {None}, thread : Requests \cup {None},
            running : SUBSET Requests, drained : Seq(Requests)]

\* TypeOK, with the contents of frames and jobs, and a counter that might be negative.
TablesTyped ==
    /\ glActiveAsyncObjects \subseteq Objects /\ glCancelledAsyncObjects \subseteq Objects
    /\ glActionQueues \in [Objects -> Seq(Requests)]
ObjectsTyped ==
    /\ object \in [Objects -> {"alive", "marked", "gone"}]
    /\ holder \in [Objects -> Requests \cup Users \cup {None}]
ThreadsTyped ==
    /\ glAsyncObjectThreads \in [Objects -> Requests \cup {None}] /\ STOPPING \subseteq Requests
    /\ worker \in [Requests -> {"none", "start", "registered", "lock", "locked",
                        "action", "release", "send", "cleanup", "finished"}]
WaitTyped ==
    /\ glAsyncWaiting \in BOOLEAN /\ glAsyncWaitTargets \subseteq Objects
    /\ glAsyncWaitCounter \in Int /\ covered \subseteq Requests
UsersTyped ==
    /\ pc \in [Users -> {"idle", "submitting", "wake", "drain", "notify"}]
    /\ job \in [Users -> JobType]
HistoryTyped == doomed \subseteq Requests /\ callbacks \in [Requests -> Nat]

Typed ==
    /\ TablesTyped /\ ObjectsTyped /\ ThreadsTyped /\ WaitTyped /\ UsersTyped /\ HistoryTyped
    /\ ASYNC_ACTIVE \subseteq Objects
    /\ target \in [Requests -> Objects \cup {None}]
    /\ glQueue \in Seq(Messages) /\ frames \in Seq(FrameType)
    /\ state \in {"running", "stopping", "closed", "done"}

\* A message is about a request that has been made, or it is BREAK.
MessagesOK(messages, t) == \A n \in DOMAIN messages :
    \/ messages[n] = BREAK
    \/ messages[n].request \in Requests /\ t[messages[n].request] # None

InLaunch(f) == f.at \in {"launch", "check"}

\* The message in hand is one that has a callback, and a completion in the dispatch; what
\* is launched next is for the same object.
FrameOK(f, t) ==
    /\ MessagesOK(f.batch, t)
    /\ f.at # "loop" => f.batch # <<>> /\ Head(f.batch).request \in Requests
    /\ f.at \notin {"loop", "callback"} => Head(f.batch).DispatchNext
    /\ InLaunch(f) => f.next \in Requests /\ t[f.next] = t[Head(f.batch).request]
    /\ f.drained # <<>> => f.at \in {"clear", "count", "notify"}

\* Only AsyncWait() nests the loop, in a callback of the event loop.
Nested ==
    /\ Len(frames) <= 2
    /\ Len(frames) = 2 => /\ frames[1].loop = "events" /\ frames[1].at = "callback"
                          /\ frames[2].loop = "wait"
    /\ glAsyncWaiting <=> \E i \in DOMAIN frames : frames[i].loop = "wait"

\* A user that is in a call is in it for an object.
JobOK(status, j, t) ==
    /\ status # "idle" => j.object \in Objects
    /\ status = "submitting" => j.thread \in Requests /\ t[j.thread] = j.object
    /\ j.drained # <<>> => status = "notify"

\* Requests are numbered in the order in which they are made.
Numbered(t) == \A r \in Requests : t[r] # None => \A q \in 1..r - 1 : t[q] # None

\* What is queued for an object is for that object.
QueueOK(queue, t, o) == \A i \in DOMAIN queue : t[queue[i]] = o

\* Nothing is begun once stop_async_actions() has begun to wait for the workers.
Closing ==
    /\ state \in {"closed", "done"} => frames = <<>> /\ glmActionQueue
    /\ state = "done" => ShutdownQuiet

PostedOK == MessagesOK(glQueue, target)
FramesOK == \A i \in DOMAIN frames : FrameOK(frames[i], target)
JobsOK   == \A u \in Users : JobOK(pc[u], job[u], target)
QueuesOK == \A o \in Objects : QueueOK(glActionQueues[o], target, o)

ControlInv ==
    /\ PostedOK /\ FramesOK /\ Nested /\ JobsOK /\ Numbered(target) /\ QueuesOK /\ Closing

----------------------------------------------------------------------------
(* Stores: lists under names, in which the members of X are kept.          *)

\* The members of X in a list; each of them is there once.
Inside(s, X) == {s[i] : i \in DOMAIN s} \cap X
Single(s, X) == \A i, j \in DOMAIN s : s[i] = s[j] /\ s[i] \in X => i = j

\* Each member of X is in one list at most, and there once.
Apart(S, N, X) ==
    /\ \A n \in N : Single(S[n], X)
    /\ \A m, n \in N : m # n => Inside(S[m], X) \cap Inside(S[n], X) = {}
Content(S, N, X) == UNION {Inside(S[n], X) : n \in N}

----------------------------------------------------------------------------
(* Where callbacks wait.                                                   *)

Levels == {1, 2}
Names == ({"queue"} \X Objects) \cup ({"submitter", "cancelled"} \X Users)
           \cup ({"worker"} \X Requests) \cup {<<"posted", 1>>}
           \cup ({"batch", "next", "drained"} \X Levels)

\* The lists of callbacks, by the lists, messages and frames that they are in.
Kept(Q, J, C, W, P, B, N, D) == [n \in Names |->
    CASE n[1] = "queue" -> Q[n[2]]   [] n[1] = "submitter" -> J[n[2]]
      [] n[1] = "cancelled" -> C[n[2]] [] n[1] = "worker" -> W[n[2]]
      [] n[1] = "posted" -> P        [] n[1] = "batch" -> B[n[2]]
      [] n[1] = "next" -> N[n[2]]    [] OTHER -> D[n[2]]]

RequestsOf(messages) == [n \in DOMAIN messages |-> messages[n].request]
OfJob(status, j) == IF status = "submitting" THEN <<j.thread>> ELSE <<>>
OfWorker(r, status) == IF status \in {"none", "cleanup", "finished"} THEN <<>> ELSE <<r>>
OfNext(f) == IF InLaunch(f) THEN <<f.next>> ELSE <<>>

Submitted == [u \in Users |-> OfJob(pc[u], job[u])]
Cancelled == [u \in Users |-> job[u].drained]
Working   == [r \in Requests |-> OfWorker(r, worker[r])]
Batches   == [i \in Levels |-> IF i \in DOMAIN frames THEN RequestsOf(Unseen(frames[i])) ELSE <<>>]
Nexts     == [i \in Levels |-> IF i \in DOMAIN frames THEN OfNext(frames[i]) ELSE <<>>]
Drains    == [i \in Levels |-> IF i \in DOMAIN frames THEN frames[i].drained ELSE <<>>]

Callbacks == Kept(glActionQueues, Submitted, Cancelled, Working, RequestsOf(glQueue),
                  Batches, Nexts, Drains)
Waiting == Content(Callbacks, Names, Requests)

CallbackInv ==
    /\ Apart(Callbacks, Names, Requests)
    /\ \A r \in Waiting : target[r] # None /\ callbacks[r] = 0
    /\ \A r \in Requests :
          /\ callbacks[r] <= 1 /\ (target[r] = None => callbacks[r] = 0)
          /\ state # "done" /\ target[r] # None /\ callbacks[r] = 0 => r \in Waiting

----------------------------------------------------------------------------
(* Who serves an object.                                                   *)

ObjectsOf(messages, t) ==
    [n \in DOMAIN messages |-> IF messages[n].DispatchNext THEN t[messages[n].request] ELSE None]
ForJob(status, j) == IF status = "submitting" THEN <<j.object>> ELSE <<>>
ForWorker(status, o) == IF status \in {"none", "cleanup", "finished"} THEN <<>> ELSE <<o>>
\* The messages of a frame that have yet to be dispatched.
Undone(f) == IF f.at \in {"clear", "count", "notify", "unlock"} THEN Tail(f.batch) ELSE f.batch

JobServes    == [u \in Users |-> ForJob(pc[u], job[u])]
WorkerServes == [r \in Requests |-> ForWorker(worker[r], target[r])]
FrameServes  == [i \in Levels |->
    IF i \in DOMAIN frames THEN ObjectsOf(Undone(frames[i]), target) ELSE <<>>]

\* The objects that are served, by the submitter, worker or message that serves them.
Idle(S)  == [x \in S |-> <<>>]
Services == Kept(Idle(Objects), JobServes, Idle(Users), WorkerServes,
                 ObjectsOf(glQueue, target), FrameServes, Idle(Levels), Idle(Levels))
Served == Content(Services, Names, Objects)

ServeInv ==
    /\ Apart(Services, Names, Objects)
    /\ glActiveAsyncObjects \subseteq Served
    /\ \A o \in Served : object[o] # "gone" /\ state # "done" => o \in glActiveAsyncObjects
    /\ \A o \in Objects : glActionQueues[o] # <<>> => o \in glActiveAsyncObjects

----------------------------------------------------------------------------
(* The order of requests.                                                  *)

Sorted(queue) == \A i, j \in DOMAIN queue : i < j => queue[i] < queue[j]

\* A request is older than all that is queued for its object.
Ahead(r) == \A q \in Range(glActionQueues[target[r]]) : r < q

\* What is served for an object is older than what is queued for it, in order.
OrderInv ==
    /\ \A o \in Objects : Sorted(glActionQueues[o])
    /\ \A u \in Users : pc[u] = "submitting" => Ahead(job[u].thread)
    /\ \A r \in Requests : InWorker(r) => Ahead(r)
    /\ \A i \in DOMAIN frames : InLaunch(frames[i]) => Ahead(frames[i].next)

\* A request that has no worker yet has never had one.
FreshInv ==
    /\ \A r \in Requests : target[r] = None => worker[r] = "none"
    /\ \A o \in Objects : \A r \in Range(glActionQueues[o]) : worker[r] = "none"
    /\ \A u \in Users : pc[u] = "submitting" => worker[job[u].thread] = "none"
    /\ \A i \in DOMAIN frames : InLaunch(frames[i]) => worker[frames[i].next] = "none"

----------------------------------------------------------------------------
(* AsyncWait().                                                            *)

Submitting(o) == \E u \in Users : pc[u] = "submitting" /\ job[u].object = o
Launching(o)  == \E i \in DOMAIN frames : InLaunch(frames[i]) /\ target[frames[i].next] = o

\* The objects that AsyncWait() must count, those included that have been freed since
\* the main thread took a request from their queue.
Counted == {o \in glAsyncWaitTargets :
    ~Submitting(o) /\ (o \in glActiveAsyncObjects \/ Launching(o))}
Launched == {r \in Requests : worker[r] # "none"}

\* The main thread is about to take an object off the count.
Discounts ==
    /\ frames # <<>>
    /\ Top.at = "count" \/ (Top.at = "clear" /\ object[Object] # "gone")
    /\ Object \in glAsyncWaitTargets

CounterInv ==
    /\ glAsyncWaitCounter >= Cardinality(Counted) + (IF Discounts THEN 1 ELSE 0)
    /\ glAsyncWaitCounter <= Cardinality(glAsyncWaitTargets) + Cardinality(Launched)
    /\ ~glAsyncWaiting => glAsyncWaitTargets = {} /\ glAsyncWaitCounter = 0 /\ covered = {}

\* Where a worker is about to lock the object or has it locked; what the main thread
\* has locked.
Has(f, o) == f.locked /\ target[Head(f.batch).request] = o
LockInv ==
    /\ \A r \in Requests :
          /\ worker[r] \in {"start", "registered", "lock"} => object[target[r]] = "alive"
          /\ worker[r] \in {"locked", "action", "release"} =>
                holder[target[r]] = r /\ object[target[r]] # "gone"
    /\ \A u \in Users : pc[u] = "submitting" => object[job[u].object] = "alive"
    /\ \A i \in DOMAIN frames : frames[i].locked => frames[i].at # "loop"
    /\ \A o \in Objects : \A i \in DOMAIN frames : Has(frames[i], o) =>
          holder[o] = Main /\ \A j \in DOMAIN frames : Has(frames[j], o) => j = i

\* A frame has been told to break, or will be by a message that it has fetched.
Breaks(f) == f.breaking \/ \E n \in DOMAIN f.batch : f.batch[n] = BREAK
Told == (\E n \in DOMAIN glQueue : glQueue[n] = BREAK) \/ \E i \in DOMAIN frames : Breaks(frames[i])

\* AsyncWait() is only told to break when nothing is left of what it covers.
Over == \A o \in Objects : covered \cap Outstanding(o) = {}
CoverInv ==
    /\ Told => glAsyncWaiting /\ Over
    /\ \A i \in DOMAIN frames : frames[i].loop = "events" => ~Breaks(frames[i])
    /\ \A r \in covered : target[r] \in glAsyncWaitTargets
    /\ \A u \in Users : pc[u] = "submitting" =>
          job[u].thread \notin covered /\ glActionQueues[job[u].object] = <<>>

----------------------------------------------------------------------------
(* Lists and stores.                                                       *)

\* Lists are changed one at a time.
Put(S, n, s) == [S EXCEPT ![n] = s]

LEMMA EmptyList == ASSUME NEW X PROVE Inside(<<>>, X) = {} /\ Single(<<>>, X)
  BY DEF Inside, Single

LEMMA OneElement ==
    ASSUME NEW x, NEW X
    PROVE  Inside(<<x>>, X) = {x} \cap X /\ Single(<<x>>, X)
  BY DEF Inside, Single

LEMMA JoinInside ==
    ASSUME NEW X, NEW Y, NEW s \in Seq(Y), NEW t \in Seq(Y)
    PROVE  Inside(s \o t, X) = Inside(s, X) \cup Inside(t, X)
<1>1. /\ s \o t \in Seq(Y) /\ DOMAIN (s \o t) = 1..(Len(s) + Len(t))
      /\ DOMAIN s = 1..Len(s) /\ DOMAIN t = 1..Len(t) /\ Len(s) \in Nat /\ Len(t) \in Nat
      /\ \A i \in 1..(Len(s) + Len(t)) :
            (s \o t)[i] = IF i <= Len(s) THEN s[i] ELSE t[i - Len(s)]
  OBVIOUS
<1>2. Inside(s \o t, X) \subseteq Inside(s, X) \cup Inside(t, X)
  BY <1>1 DEF Inside
<1>3. Inside(s, X) \subseteq Inside(s \o t, X)
  BY <1>1 DEF Inside
<1>4. Inside(t, X) \subseteq Inside(s \o t, X)
  BY <1>1 DEF Inside
<1>5. QED
  BY <1>2, <1>3, <1>4

LEMMA JoinSingle ==
    ASSUME NEW X, NEW Y, NEW s \in Seq(Y), NEW t \in Seq(Y),
           Single(s, X), Single(t, X), Inside(s, X) \cap Inside(t, X) = {}
    PROVE  Single(s \o t, X)
<1>1. /\ s \o t \in Seq(Y) /\ DOMAIN (s \o t) = 1..(Len(s) + Len(t))
      /\ DOMAIN s = 1..Len(s) /\ DOMAIN t = 1..Len(t) /\ Len(s) \in Nat /\ Len(t) \in Nat
      /\ \A i \in 1..(Len(s) + Len(t)) :
            (s \o t)[i] = IF i <= Len(s) THEN s[i] ELSE t[i - Len(s)]
  OBVIOUS
<1> SUFFICES ASSUME NEW i \in DOMAIN (s \o t), NEW j \in DOMAIN (s \o t),
                    (s \o t)[i] = (s \o t)[j], (s \o t)[i] \in X
             PROVE  i = j
  BY DEF Single
<1>2. CASE i <= Len(s) /\ j <= Len(s)
  BY <1>1, <1>2 DEF Single
<1>3. CASE ~(i <= Len(s)) /\ ~(j <= Len(s))
  BY <1>1, <1>3 DEF Single
<1>4. CASE i <= Len(s) /\ ~(j <= Len(s))
  BY <1>1, <1>4 DEF Inside
<1>5. CASE ~(i <= Len(s)) /\ j <= Len(s)
  BY <1>1, <1>5 DEF Inside
<1>6. QED
  BY <1>2, <1>3, <1>4, <1>5

LEMMA BeheadList ==
    ASSUME NEW X, NEW Y, NEW s \in Seq(Y), s # <<>>
    PROVE  /\ Head(s) \in Y /\ Tail(s) \in Seq(Y) /\ Inside(s, X) = Inside(Tail(s), X) \cup ({Head(s)} \cap X)
           /\ Single(s, X) => Single(Tail(s), X) /\ Inside(Tail(s), X) = Inside(s, X) \ {Head(s)}
<1>1. /\ Head(s) \in Y /\ Tail(s) \in Seq(Y) /\ Len(s) \in Nat /\ Len(s) >= 1 /\ DOMAIN s = 1..Len(s)
      /\ DOMAIN Tail(s) = 1..(Len(s) - 1) /\ Head(s) = s[1]
      /\ \A i \in 1..(Len(s) - 1) : Tail(s)[i] = s[i + 1]
  OBVIOUS
<1>2. Inside(Tail(s), X) \subseteq Inside(s, X)
  BY <1>1 DEF Inside
<1>3. Inside(s, X) \subseteq Inside(Tail(s), X) \cup ({Head(s)} \cap X)
  <2>1. ASSUME NEW i \in DOMAIN s PROVE s[i] = Head(s) \/ (i - 1 \in DOMAIN Tail(s) /\ Tail(s)[i - 1] = s[i])
    BY <1>1
  <2>2. QED
    BY <2>1 DEF Inside
<1>4. {Head(s)} \cap X \subseteq Inside(s, X)
  BY <1>1 DEF Inside
<1>5. ASSUME Single(s, X) PROVE Single(Tail(s), X)
  BY <1>1, <1>5 DEF Single
<1>6. ASSUME Single(s, X) PROVE Head(s) \notin Inside(Tail(s), X)
  <2>1. ASSUME NEW i \in DOMAIN Tail(s), Tail(s)[i] = Head(s), Head(s) \in X PROVE FALSE
    BY <1>1, <2>1, <1>6 DEF Single
  <2>2. QED
    BY <2>1 DEF Inside
<1>7. QED
  BY <1>1, <1>2, <1>3, <1>4, <1>5, <1>6

\* The list s, in place of S[n], has nothing of the others.
Fits(s, S, n, N, X) ==
    Single(s, X) /\ \A m \in N : m # n => Inside(s, X) \cap Inside(S[m], X) = {}

\* A list of the store is replaced by one that has nothing of the others.
LEMMA Replaced ==
    ASSUME NEW N, NEW X, NEW S, Apart(S, N, X), DOMAIN S = N, NEW n \in N, NEW s,
           Fits(s, S, n, N, X)
    PROVE  Apart(Put(S, n, s), N, X)
<1> DEFINE T == Put(S, n, s)
<1>1. T[n] = s /\ \A m \in N : m # n => T[m] = S[m]
  BY DEF Put
<1> HIDE DEF T
<1>2. ASSUME NEW m \in N PROVE Single(T[m], X)
  BY <1>1, Zenon DEF Apart, Fits
<1>3. ASSUME NEW m \in N, NEW k \in N, m # k PROVE Inside(T[m], X) \cap Inside(T[k], X) = {}
  BY <1>1, <1>3, Zenon DEF Apart, Fits
<1>4. Apart(T, N, X)
  BY <1>2, <1>3, Zenon DEF Apart
<1>5. QED
  BY <1>4 DEF T

\* What is in the store besides one list.
LEMMA Besides ==
    ASSUME NEW N, NEW X, NEW S, Apart(S, N, X), DOMAIN S = N, NEW n \in N, NEW s
    PROVE  /\ Content(Put(S, n, s), N, X) = (Content(S, N, X) \ Inside(S[n], X)) \cup Inside(s, X)
           /\ \A m \in N : m # n => Inside(S[m], X) \cap Inside(S[n], X) = {}
           /\ \A m \in N : Inside(S[m], X) \subseteq Content(S, N, X)
<1> DEFINE T == Put(S, n, s)
<1>1. T[n] = s /\ \A m \in N : m # n => T[m] = S[m]
  BY DEF Put
<1> HIDE DEF T
<1>2. \A m \in N : m # n => Inside(S[m], X) \cap Inside(S[n], X) = {}
  BY Zenon DEF Apart
<1>3. \A m \in N : Inside(S[m], X) \subseteq Content(S, N, X)
  BY DEF Content
<1>4. ASSUME NEW x \in Content(T, N, X) PROVE x \in (Content(S, N, X) \ Inside(S[n], X)) \cup Inside(s, X)
  <2>1. PICK m \in N : x \in Inside(T[m], X)
    BY <1>4 DEF Content
  <2>2. CASE m = n
    BY <1>1, <2>1, <2>2
  <2>3. CASE m # n
    BY <1>1, <2>1, <2>3, <1>2, <1>3
  <2>4. QED
    BY <2>2, <2>3
<1>5. ASSUME NEW x \in Content(S, N, X), x \notin Inside(S[n], X) PROVE x \in Content(T, N, X)
  BY <1>5, <1>1 DEF Content
<1>6. Inside(s, X) \subseteq Content(T, N, X)
  BY <1>1 DEF Content
<1>7. Content(T, N, X) = (Content(S, N, X) \ Inside(S[n], X)) \cup Inside(s, X)
  BY <1>4, <1>5, <1>6
<1>8. QED
  BY <1>2, <1>3, <1>7 DEF T

\* A store with contents A.
Store(S, N, Y, X, A) == S \in [N -> Seq(Y)] /\ Apart(S, N, X) /\ Content(S, N, X) = A

\* A list that has nothing of a store.
New(s, A, X) == Single(s, X) /\ Inside(s, X) \cap A = {}

LEMMA InStore ==
    ASSUME NEW N, NEW X, NEW Y, NEW A, NEW S, Store(S, N, Y, X, A), NEW n \in N
    PROVE  /\ DOMAIN S = N /\ S[n] \in Seq(Y) /\ Single(S[n], X) /\ Inside(S[n], X) \subseteq A
           /\ A \subseteq X
           /\ Fits(S[n], S, n, N, X)
<1>1. S \in [N -> Seq(Y)] /\ Apart(S, N, X) /\ Content(S, N, X) = A
  BY DEF Store
<1>2. DOMAIN S = N /\ S[n] \in Seq(Y)
  BY <1>1
<1>3. Single(S[n], X) /\ Fits(S[n], S, n, N, X)
  BY <1>1, Zenon DEF Apart, Fits
<1>4. Inside(S[n], X) \subseteq A /\ A \subseteq X
  BY <1>1 DEF Content, Inside
<1>5. QED
  BY <1>2, <1>3, <1>4

\* Something that is not in the store yet is added to one of its lists.
LEMMA Joined ==
    ASSUME NEW N, NEW X, NEW Y, NEW A, NEW S, Store(S, N, Y, X, A), NEW n \in N,
           NEW s \in Seq(Y), New(s, A, X)
    PROVE  Store(Put(S, n, S[n] \o s), N, Y, X, A \cup Inside(s, X))
<1>1. /\ DOMAIN S = N /\ S[n] \in Seq(Y) /\ Single(S[n], X) /\ Inside(S[n], X) \subseteq A
      /\ Fits(S[n], S, n, N, X)
  BY InStore
<1>2. S \in [N -> Seq(Y)] /\ Apart(S, N, X) /\ Content(S, N, X) = A
  BY DEF Store
<1>3. Single(s, X) /\ Inside(S[n], X) \cap Inside(s, X) = {} /\ Inside(s, X) \cap A = {}
  BY <1>1 DEF New
<1>4. PICK t : t = S[n] \o s
  OBVIOUS
<1>5. t \in Seq(Y)
  BY <1>1, <1>4
<1>6. Inside(t, X) = Inside(S[n], X) \cup Inside(s, X)
  BY <1>1, <1>4, JoinInside
<1>7. Single(t, X)
  BY <1>1, <1>3, <1>4, JoinSingle
<1>8. Fits(t, S, n, N, X)
  BY <1>2, <1>1, <1>3, <1>6, <1>7 DEF Content, Fits
<1>9. Apart(Put(S, n, t), N, X)
  BY <1>1, <1>2, <1>8, Replaced
<1>10. Content(Put(S, n, t), N, X) = (Content(S, N, X) \ Inside(S[n], X)) \cup Inside(t, X)
  BY <1>1, <1>2, Besides
<1>11. Content(Put(S, n, t), N, X) = A \cup Inside(s, X)
  BY <1>1, <1>2, <1>6, <1>10
<1>12. Put(S, n, t) \in [N -> Seq(Y)]
  BY <1>2, <1>5 DEF Put
<1>13. QED
  BY <1>4, <1>9, <1>11, <1>12 DEF Store

\* A list of the store loses its first element,
LEMMA Beheaded ==
    ASSUME NEW N, NEW X, NEW Y, NEW A, NEW S, Store(S, N, Y, X, A), NEW n \in N, S[n] # <<>>
    PROVE  /\ Store(Put(S, n, Tail(S[n])), N, Y, X, A \ {Head(S[n])})
           /\ Head(S[n]) \in X => Head(S[n]) \in A
<1>1. /\ DOMAIN S = N /\ S[n] \in Seq(Y) /\ Single(S[n], X) /\ Inside(S[n], X) \subseteq A
      /\ A \subseteq X
      /\ Fits(S[n], S, n, N, X)
  BY InStore
<1>2. S \in [N -> Seq(Y)] /\ Apart(S, N, X) /\ Content(S, N, X) = A
  BY DEF Store
<1>3. PICK t : t = Tail(S[n])
  OBVIOUS
<1>4. /\ t \in Seq(Y) /\ Inside(S[n], X) = Inside(t, X) \cup ({Head(S[n])} \cap X)
      /\ Single(t, X) /\ Inside(t, X) = Inside(S[n], X) \ {Head(S[n])}
  BY <1>1, <1>3, BeheadList
<1>5. Fits(t, S, n, N, X)
  BY <1>1, <1>4 DEF Fits
<1>6. Apart(Put(S, n, t), N, X)
  BY <1>1, <1>2, <1>5, Replaced
<1>7. Content(Put(S, n, t), N, X) = (Content(S, N, X) \ Inside(S[n], X)) \cup Inside(t, X)
  BY <1>1, <1>2, Besides
<1>8. Content(Put(S, n, t), N, X) = A \ {Head(S[n])} /\ (Head(S[n]) \in X => Head(S[n]) \in A)
  BY <1>1, <1>2, <1>4, <1>7
<1>9. Put(S, n, t) \in [N -> Seq(Y)]
  BY <1>2, <1>4 DEF Put
<1>10. QED
  BY <1>3, <1>6, <1>8, <1>9 DEF Store

\* or everything that it has.
LEMMA Emptied ==
    ASSUME NEW N, NEW X, NEW Y, NEW A, NEW S, Store(S, N, Y, X, A), NEW n \in N
    PROVE  /\ Store(Put(S, n, <<>>), N, Y, X, A \ Inside(S[n], X))
           /\ S[n] \in Seq(Y) /\ New(S[n], A \ Inside(S[n], X), X) /\ Inside(S[n], X) \subseteq A
<1>1. /\ DOMAIN S = N /\ S[n] \in Seq(Y) /\ Single(S[n], X) /\ Inside(S[n], X) \subseteq A
  BY InStore
<1>2. S \in [N -> Seq(Y)] /\ Apart(S, N, X) /\ Content(S, N, X) = A
  BY DEF Store
<1>3. Inside(<<>>, X) = {} /\ Single(<<>>, X) /\ <<>> \in Seq(Y)
  BY EmptyList
<1>4. Apart(Put(S, n, <<>>), N, X)
  BY <1>3, <1>1, <1>2, Replaced DEF Fits
<1>5. Content(Put(S, n, <<>>), N, X) = (Content(S, N, X) \ Inside(S[n], X)) \cup Inside(<<>>, X)
  BY <1>1, <1>2, Besides
<1>6. Put(S, n, <<>>) \in [N -> Seq(Y)]
  BY <1>2, <1>3 DEF Put
<1>7. Content(Put(S, n, <<>>), N, X) = A \ Inside(S[n], X)
  BY <1>2, <1>3, <1>5
<1>8. QED
  BY <1>1, <1>4, <1>6, <1>7 DEF Store, New

\* A list is moved behind another one of the store, which keeps what it has,
LEMMA Moved ==
    ASSUME NEW N, NEW X, NEW Y, NEW A, NEW S, Store(S, N, Y, X, A), NEW n \in N, NEW m \in N, m # n
    PROVE  Store(Put(Put(S, n, <<>>), m, S[m] \o S[n]), N, Y, X, A)
<1>1. PICK E, B, f : E = Put(S, n, <<>>) /\ B = A \ Inside(S[n], X) /\ f = S[n]
  OBVIOUS
<1>2. Store(E, N, Y, X, B) /\ f \in Seq(Y) /\ New(f, B, X) /\ Inside(f, X) \subseteq A
  BY <1>1, Emptied
<1>3. Store(Put(E, m, E[m] \o f), N, Y, X, B \cup Inside(f, X))
  BY <1>2, Joined
<1>4. B \cup Inside(f, X) = A
  BY <1>1, <1>2
<1>5. E[m] = S[m]
  BY <1>1 DEF Put
<1>6. QED
  BY <1>1, <1>3, <1>4, <1>5

\* and so is the first element of a list.
LEMMA Passed ==
    ASSUME NEW N, NEW X, NEW Y, NEW A, NEW S, Store(S, N, Y, X, A), NEW n \in N, NEW m \in N,
           m # n, S[n] # <<>>
    PROVE  Store(Put(Put(S, n, Tail(S[n])), m, S[m] \o <<Head(S[n])>>), N, Y, X, A)
<1>1. PICK E, B, x : E = Put(S, n, Tail(S[n])) /\ B = A \ {Head(S[n])} /\ x = Head(S[n])
  OBVIOUS
<1>2. Store(E, N, Y, X, B) /\ (x \in X => x \in A)
  BY <1>1, Beheaded
<1>3. S[n] \in Seq(Y) /\ A \subseteq X
  BY InStore
<1>4. <<x>> \in Seq(Y) /\ Inside(<<x>>, X) = {x} \cap X /\ Single(<<x>>, X)
  BY <1>1, <1>3, OneElement
<1>5. New(<<x>>, B, X)
  BY <1>1, <1>4 DEF New
<1>6. Store(Put(E, m, E[m] \o <<x>>), N, Y, X, B \cup Inside(<<x>>, X))
  BY <1>2, <1>4, <1>5, Joined
<1>7. B \cup Inside(<<x>>, X) = A
  BY <1>1, <1>2, <1>3, <1>4
<1>8. E[m] = S[m]
  BY <1>1 DEF Put
<1>9. QED
  BY <1>1, <1>6, <1>7, <1>8

----------------------------------------------------------------------------
(* The lists of the two stores.                                            *)

LEMMA NameCases ==
    ASSUME NEW n \in Names
    PROVE  \/ \E o \in Objects : n = <<"queue", o>>
           \/ \E u \in Users : n = <<"submitter", u>> \/ n = <<"cancelled", u>>
           \/ \E r \in Requests : n = <<"worker", r>>
           \/ n = <<"posted", 1>>
           \/ \E i \in Levels : n = <<"batch", i>> \/ n = <<"next", i>> \/ n = <<"drained", i>>
  BY DEF Names

LEMMA NamesAre ==
    /\ \A o \in Objects : <<"queue", o>> \in Names
    /\ \A u \in Users : <<"submitter", u>> \in Names /\ <<"cancelled", u>> \in Names
    /\ \A r \in Requests : <<"worker", r>> \in Names
    /\ <<"posted", 1>> \in Names
    /\ \A i \in Levels : <<"batch", i>> \in Names /\ <<"next", i>> \in Names /\ <<"drained", i>> \in Names
  BY DEF Names

\* The lists of a store, one by one.
Lists(S, Q, J, C, W, P, B, N, D) ==
    /\ S = [n \in Names |-> S[n]]
    /\ \A y \in Objects : S[<<"queue", y>>] = Q[y]
    /\ \A y \in Users : S[<<"submitter", y>>] = J[y]
    /\ \A y \in Users : S[<<"cancelled", y>>] = C[y]
    /\ \A y \in Requests : S[<<"worker", y>>] = W[y]
    /\ S[<<"posted", 1>>] = P
    /\ \A y \in Levels : S[<<"batch", y>>] = B[y]
    /\ \A y \in Levels : S[<<"next", y>>] = N[y]
    /\ \A y \in Levels : S[<<"drained", y>>] = D[y]

LEMMA KeptAt ==
    ASSUME NEW Q, NEW J, NEW C, NEW W, NEW P, NEW B, NEW N, NEW D
    PROVE  Lists(Kept(Q, J, C, W, P, B, N, D), Q, J, C, W, P, B, N, D)
  BY NamesAre DEF Kept, Lists

LEMMA KeptIs ==
    ASSUME NEW Q, NEW J, NEW C, NEW W, NEW P, NEW B, NEW N, NEW D, NEW S, Lists(S, Q, J, C, W, P, B, N, D)
    PROVE  S = Kept(Q, J, C, W, P, B, N, D)
<1>1. PICK K : K = Kept(Q, J, C, W, P, B, N, D)
  OBVIOUS
<1>2. Lists(K, Q, J, C, W, P, B, N, D)
  BY <1>1, KeptAt
<1>3. ASSUME NEW n \in Names PROVE S[n] = K[n]
  <2>1. CASE \E o \in Objects : n = <<"queue", o>>
    BY <1>2, <2>1 DEF Lists
  <2>2. CASE \E u \in Users : n = <<"submitter", u>> \/ n = <<"cancelled", u>>
    BY <1>2, <2>2 DEF Lists
  <2>3. CASE \E r \in Requests : n = <<"worker", r>>
    BY <1>2, <2>3 DEF Lists
  <2>4. CASE n = <<"posted", 1>>
    BY <1>2, <2>4 DEF Lists
  <2>5. CASE \E i \in Levels : n = <<"batch", i>> \/ n = <<"next", i>> \/ n = <<"drained", i>>
    BY <1>2, <2>5 DEF Lists
  <2>6. QED
    BY <2>1, <2>2, <2>3, <2>4, <2>5, NameCases
<1>4. S = [n \in Names |-> S[n]] /\ K = [n \in Names |-> K[n]]
  BY <1>2 DEF Lists
<1>5. S = K
  BY <1>3, <1>4
<1>6. QED
  BY <1>1, <1>5

\* f is a function on S.
On(f, S) == f = [x \in S |-> f[x]]

\* A list of the store is replaced, family by family.
LEMMA PutQueue ==
    ASSUME NEW Q, NEW J, NEW C, NEW W, NEW P, NEW B, NEW N, NEW D,
           On(Q, Objects), NEW o \in Objects, NEW s
    PROVE  Kept(Put(Q, o, s), J, C, W, P, B, N, D)
             = Put(Kept(Q, J, C, W, P, B, N, D), <<"queue", o>>, s)
<1>1. PICK S, T : S = Kept(Q, J, C, W, P, B, N, D) /\ T = Put(S, <<"queue", o>>, s)
  OBVIOUS
<1>2. Lists(S, Q, J, C, W, P, B, N, D)
  BY <1>1, KeptAt
<1>3. T = [n \in Names |-> T[n]] /\ \A n \in Names : T[n] = IF n = <<"queue", o>> THEN s ELSE S[n]
  BY <1>1, <1>2 DEF Put, Lists
<1>4. /\ \A y \in Objects : T[<<"queue", y>>] = Put(Q, o, s)[y]
  BY <1>2, <1>3, NamesAre DEF Lists, On, Put
<1>5. /\ \A y \in Users : T[<<"submitter", y>>] = J[y]
      /\ \A y \in Users : T[<<"cancelled", y>>] = C[y]
      /\ \A y \in Requests : T[<<"worker", y>>] = W[y]
      /\ T[<<"posted", 1>>] = P
      /\ \A y \in Levels : T[<<"batch", y>>] = B[y]
      /\ \A y \in Levels : T[<<"next", y>>] = N[y]
      /\ \A y \in Levels : T[<<"drained", y>>] = D[y]
  BY <1>2, <1>3, NamesAre DEF Lists, On, Put
<1>6. Lists(T, Put(Q, o, s), J, C, W, P, B, N, D)
  BY <1>3, <1>4, <1>5 DEF Lists
<1>7. QED
  BY <1>1, <1>6, KeptIs

LEMMA PutSubmitter ==
    ASSUME NEW Q, NEW J, NEW C, NEW W, NEW P, NEW B, NEW N, NEW D,
           On(J, Users), NEW u \in Users, NEW s
    PROVE  Kept(Q, Put(J, u, s), C, W, P, B, N, D)
             = Put(Kept(Q, J, C, W, P, B, N, D), <<"submitter", u>>, s)
<1>1. PICK S, T : S = Kept(Q, J, C, W, P, B, N, D) /\ T = Put(S, <<"submitter", u>>, s)
  OBVIOUS
<1>2. Lists(S, Q, J, C, W, P, B, N, D)
  BY <1>1, KeptAt
<1>3. T = [n \in Names |-> T[n]] /\ \A n \in Names : T[n] = IF n = <<"submitter", u>> THEN s ELSE S[n]
  BY <1>1, <1>2 DEF Put, Lists
<1>4. /\ \A y \in Users : T[<<"submitter", y>>] = Put(J, u, s)[y]
  BY <1>2, <1>3, NamesAre DEF Lists, On, Put
<1>5. /\ \A y \in Objects : T[<<"queue", y>>] = Q[y]
      /\ \A y \in Users : T[<<"cancelled", y>>] = C[y]
      /\ \A y \in Requests : T[<<"worker", y>>] = W[y]
      /\ T[<<"posted", 1>>] = P
      /\ \A y \in Levels : T[<<"batch", y>>] = B[y]
      /\ \A y \in Levels : T[<<"next", y>>] = N[y]
      /\ \A y \in Levels : T[<<"drained", y>>] = D[y]
  BY <1>2, <1>3, NamesAre DEF Lists, On, Put
<1>6. Lists(T, Q, Put(J, u, s), C, W, P, B, N, D)
  BY <1>3, <1>4, <1>5 DEF Lists
<1>7. QED
  BY <1>1, <1>6, KeptIs

LEMMA PutCancelled ==
    ASSUME NEW Q, NEW J, NEW C, NEW W, NEW P, NEW B, NEW N, NEW D,
           On(C, Users), NEW u \in Users, NEW s
    PROVE  Kept(Q, J, Put(C, u, s), W, P, B, N, D)
             = Put(Kept(Q, J, C, W, P, B, N, D), <<"cancelled", u>>, s)
<1>1. PICK S, T : S = Kept(Q, J, C, W, P, B, N, D) /\ T = Put(S, <<"cancelled", u>>, s)
  OBVIOUS
<1>2. Lists(S, Q, J, C, W, P, B, N, D)
  BY <1>1, KeptAt
<1>3. T = [n \in Names |-> T[n]] /\ \A n \in Names : T[n] = IF n = <<"cancelled", u>> THEN s ELSE S[n]
  BY <1>1, <1>2 DEF Put, Lists
<1>4. /\ \A y \in Users : T[<<"cancelled", y>>] = Put(C, u, s)[y]
  BY <1>2, <1>3, NamesAre DEF Lists, On, Put
<1>5. /\ \A y \in Objects : T[<<"queue", y>>] = Q[y]
      /\ \A y \in Users : T[<<"submitter", y>>] = J[y]
      /\ \A y \in Requests : T[<<"worker", y>>] = W[y]
      /\ T[<<"posted", 1>>] = P
      /\ \A y \in Levels : T[<<"batch", y>>] = B[y]
      /\ \A y \in Levels : T[<<"next", y>>] = N[y]
      /\ \A y \in Levels : T[<<"drained", y>>] = D[y]
  BY <1>2, <1>3, NamesAre DEF Lists, On, Put
<1>6. Lists(T, Q, J, Put(C, u, s), W, P, B, N, D)
  BY <1>3, <1>4, <1>5 DEF Lists
<1>7. QED
  BY <1>1, <1>6, KeptIs

LEMMA PutWorker ==
    ASSUME NEW Q, NEW J, NEW C, NEW W, NEW P, NEW B, NEW N, NEW D,
           On(W, Requests), NEW r \in Requests, NEW s
    PROVE  Kept(Q, J, C, Put(W, r, s), P, B, N, D)
             = Put(Kept(Q, J, C, W, P, B, N, D), <<"worker", r>>, s)
<1>1. PICK S, T : S = Kept(Q, J, C, W, P, B, N, D) /\ T = Put(S, <<"worker", r>>, s)
  OBVIOUS
<1>2. Lists(S, Q, J, C, W, P, B, N, D)
  BY <1>1, KeptAt
<1>3. T = [n \in Names |-> T[n]] /\ \A n \in Names : T[n] = IF n = <<"worker", r>> THEN s ELSE S[n]
  BY <1>1, <1>2 DEF Put, Lists
<1>4. /\ \A y \in Requests : T[<<"worker", y>>] = Put(W, r, s)[y]
  BY <1>2, <1>3, NamesAre DEF Lists, On, Put
<1>5. /\ \A y \in Objects : T[<<"queue", y>>] = Q[y]
      /\ \A y \in Users : T[<<"submitter", y>>] = J[y]
      /\ \A y \in Users : T[<<"cancelled", y>>] = C[y]
      /\ T[<<"posted", 1>>] = P
      /\ \A y \in Levels : T[<<"batch", y>>] = B[y]
      /\ \A y \in Levels : T[<<"next", y>>] = N[y]
      /\ \A y \in Levels : T[<<"drained", y>>] = D[y]
  BY <1>2, <1>3, NamesAre DEF Lists, On, Put
<1>6. Lists(T, Q, J, C, Put(W, r, s), P, B, N, D)
  BY <1>3, <1>4, <1>5 DEF Lists
<1>7. QED
  BY <1>1, <1>6, KeptIs

LEMMA PutPosted ==
    ASSUME NEW Q, NEW J, NEW C, NEW W, NEW P, NEW B, NEW N, NEW D,
           NEW s
    PROVE  Kept(Q, J, C, W, s, B, N, D)
             = Put(Kept(Q, J, C, W, P, B, N, D), <<"posted", 1>>, s)
<1>1. PICK S, T : S = Kept(Q, J, C, W, P, B, N, D) /\ T = Put(S, <<"posted", 1>>, s)
  OBVIOUS
<1>2. Lists(S, Q, J, C, W, P, B, N, D)
  BY <1>1, KeptAt
<1>3. T = [n \in Names |-> T[n]] /\ \A n \in Names : T[n] = IF n = <<"posted", 1>> THEN s ELSE S[n]
  BY <1>1, <1>2 DEF Put, Lists
<1>4. /\ T[<<"posted", 1>>] = s
  BY <1>2, <1>3, NamesAre DEF Lists, On, Put
<1>5. /\ \A y \in Objects : T[<<"queue", y>>] = Q[y]
      /\ \A y \in Users : T[<<"submitter", y>>] = J[y]
      /\ \A y \in Users : T[<<"cancelled", y>>] = C[y]
      /\ \A y \in Requests : T[<<"worker", y>>] = W[y]
      /\ \A y \in Levels : T[<<"batch", y>>] = B[y]
      /\ \A y \in Levels : T[<<"next", y>>] = N[y]
      /\ \A y \in Levels : T[<<"drained", y>>] = D[y]
  BY <1>2, <1>3, NamesAre DEF Lists, On, Put
<1>6. Lists(T, Q, J, C, W, s, B, N, D)
  BY <1>3, <1>4, <1>5 DEF Lists
<1>7. QED
  BY <1>1, <1>6, KeptIs

LEMMA PutBatch ==
    ASSUME NEW Q, NEW J, NEW C, NEW W, NEW P, NEW B, NEW N, NEW D,
           On(B, Levels), NEW k \in Levels, NEW s
    PROVE  Kept(Q, J, C, W, P, Put(B, k, s), N, D)
             = Put(Kept(Q, J, C, W, P, B, N, D), <<"batch", k>>, s)
<1>1. PICK S, T : S = Kept(Q, J, C, W, P, B, N, D) /\ T = Put(S, <<"batch", k>>, s)
  OBVIOUS
<1>2. Lists(S, Q, J, C, W, P, B, N, D)
  BY <1>1, KeptAt
<1>3. T = [n \in Names |-> T[n]] /\ \A n \in Names : T[n] = IF n = <<"batch", k>> THEN s ELSE S[n]
  BY <1>1, <1>2 DEF Put, Lists
<1>4. /\ \A y \in Levels : T[<<"batch", y>>] = Put(B, k, s)[y]
  BY <1>2, <1>3, NamesAre DEF Lists, On, Put
<1>5. /\ \A y \in Objects : T[<<"queue", y>>] = Q[y]
      /\ \A y \in Users : T[<<"submitter", y>>] = J[y]
      /\ \A y \in Users : T[<<"cancelled", y>>] = C[y]
      /\ \A y \in Requests : T[<<"worker", y>>] = W[y]
      /\ T[<<"posted", 1>>] = P
      /\ \A y \in Levels : T[<<"next", y>>] = N[y]
      /\ \A y \in Levels : T[<<"drained", y>>] = D[y]
  BY <1>2, <1>3, NamesAre DEF Lists, On, Put
<1>6. Lists(T, Q, J, C, W, P, Put(B, k, s), N, D)
  BY <1>3, <1>4, <1>5 DEF Lists
<1>7. QED
  BY <1>1, <1>6, KeptIs

LEMMA PutNext ==
    ASSUME NEW Q, NEW J, NEW C, NEW W, NEW P, NEW B, NEW N, NEW D,
           On(N, Levels), NEW k \in Levels, NEW s
    PROVE  Kept(Q, J, C, W, P, B, Put(N, k, s), D)
             = Put(Kept(Q, J, C, W, P, B, N, D), <<"next", k>>, s)
<1>1. PICK S, T : S = Kept(Q, J, C, W, P, B, N, D) /\ T = Put(S, <<"next", k>>, s)
  OBVIOUS
<1>2. Lists(S, Q, J, C, W, P, B, N, D)
  BY <1>1, KeptAt
<1>3. T = [n \in Names |-> T[n]] /\ \A n \in Names : T[n] = IF n = <<"next", k>> THEN s ELSE S[n]
  BY <1>1, <1>2 DEF Put, Lists
<1>4. /\ \A y \in Levels : T[<<"next", y>>] = Put(N, k, s)[y]
  BY <1>2, <1>3, NamesAre DEF Lists, On, Put
<1>5. /\ \A y \in Objects : T[<<"queue", y>>] = Q[y]
      /\ \A y \in Users : T[<<"submitter", y>>] = J[y]
      /\ \A y \in Users : T[<<"cancelled", y>>] = C[y]
      /\ \A y \in Requests : T[<<"worker", y>>] = W[y]
      /\ T[<<"posted", 1>>] = P
      /\ \A y \in Levels : T[<<"batch", y>>] = B[y]
      /\ \A y \in Levels : T[<<"drained", y>>] = D[y]
  BY <1>2, <1>3, NamesAre DEF Lists, On, Put
<1>6. Lists(T, Q, J, C, W, P, B, Put(N, k, s), D)
  BY <1>3, <1>4, <1>5 DEF Lists
<1>7. QED
  BY <1>1, <1>6, KeptIs

LEMMA PutDrained ==
    ASSUME NEW Q, NEW J, NEW C, NEW W, NEW P, NEW B, NEW N, NEW D,
           On(D, Levels), NEW k \in Levels, NEW s
    PROVE  Kept(Q, J, C, W, P, B, N, Put(D, k, s))
             = Put(Kept(Q, J, C, W, P, B, N, D), <<"drained", k>>, s)
<1>1. PICK S, T : S = Kept(Q, J, C, W, P, B, N, D) /\ T = Put(S, <<"drained", k>>, s)
  OBVIOUS
<1>2. Lists(S, Q, J, C, W, P, B, N, D)
  BY <1>1, KeptAt
<1>3. T = [n \in Names |-> T[n]] /\ \A n \in Names : T[n] = IF n = <<"drained", k>> THEN s ELSE S[n]
  BY <1>1, <1>2 DEF Put, Lists
<1>4. /\ \A y \in Levels : T[<<"drained", y>>] = Put(D, k, s)[y]
  BY <1>2, <1>3, NamesAre DEF Lists, On, Put
<1>5. /\ \A y \in Objects : T[<<"queue", y>>] = Q[y]
      /\ \A y \in Users : T[<<"submitter", y>>] = J[y]
      /\ \A y \in Users : T[<<"cancelled", y>>] = C[y]
      /\ \A y \in Requests : T[<<"worker", y>>] = W[y]
      /\ T[<<"posted", 1>>] = P
      /\ \A y \in Levels : T[<<"batch", y>>] = B[y]
      /\ \A y \in Levels : T[<<"next", y>>] = N[y]
  BY <1>2, <1>3, NamesAre DEF Lists, On, Put
<1>6. Lists(T, Q, J, C, W, P, B, N, Put(D, k, s))
  BY <1>3, <1>4, <1>5 DEF Lists
<1>7. QED
  BY <1>1, <1>6, KeptIs

----------------------------------------------------------------------------
(* The frames of the main thread.                                          *)

LEMMA TopIs ==
    ASSUME Typed, ControlInv, frames # <<>>
    PROVE  /\ Len(frames) \in Levels /\ DOMAIN frames = 1..Len(frames)
           /\ Top = frames[Len(frames)] /\ Top \in FrameType /\ FrameOK(Top, target)
           /\ \A i \in DOMAIN frames : frames[i] \in FrameType
<1>1. frames \in Seq(FrameType) /\ Len(frames) <= 2
  BY DEF Typed, TablesTyped, UsersTyped, ControlInv, FramesOK, PostedOK, Nested
<1>2. Len(frames) \in Nat /\ Len(frames) # 0 /\ DOMAIN frames = 1..Len(frames)
  BY <1>1
<1>3. Len(frames) \in Levels /\ Len(frames) \in DOMAIN frames
  BY <1>1, <1>2 DEF Levels
<1>4. Top = frames[Len(frames)]
  BY DEF Top, Last
<1>5. \A i \in DOMAIN frames : frames[i] \in FrameType
  BY <1>1
<1>6. FrameOK(Top, target)
  BY <1>3, <1>4 DEF ControlInv, FramesOK, PostedOK
<1>7. QED
  BY <1>2, <1>3, <1>4, <1>5, <1>6

\* The message in hand, and its object.
LEMMA InHand ==
    ASSUME Typed, ControlInv, frames # <<>>, Top.batch # <<>>
    PROVE  /\ Message \in Messages /\ Message = Head(Top.batch) /\ Message = Top.batch[1]
           /\ \/ Message = BREAK
              \/ Message.request \in Requests /\ Object \in Objects /\ target[Message.request] # None
           /\ Top.at # "loop" => /\ Message # BREAK /\ Message.request \in Requests /\ Object \in Objects
                                 /\ target[Message.request] # None
<1>1. Top \in FrameType /\ FrameOK(Top, target)
  BY TopIs
<1>2. Top.batch \in Seq(Messages) /\ MessagesOK(Top.batch, target)
  BY <1>1 DEF FrameType, FrameOK
<1>3. PICK b : b = Top.batch
  OBVIOUS
<1>4. Head(b) \in Messages /\ Head(b) = b[1] /\ 1 \in DOMAIN b
  BY <1>2, <1>3
<1>5. Message = b[1] /\ Message \in Messages /\ Message = Head(b)
  BY <1>3, <1>4 DEF Message
<1>6. \/ Message = BREAK
      \/ Message.request \in Requests /\ target[Message.request] # None
  BY <1>2, <1>3, <1>4, <1>5 DEF MessagesOK
<1>7. Message.request \in Requests /\ target[Message.request] # None => Object \in Objects
  BY DEF Object, Typed, TablesTyped, UsersTyped
<1>8. Message.request \in Requests => Message # BREAK
  BY AsyncAssumption DEF BREAK, Requests
<1>9. Top.at # "loop" => Message.request \in Requests
  BY <1>1, <1>3, <1>5 DEF FrameOK
<1>10. QED
  BY <1>3, <1>5, <1>6, <1>7, <1>8, <1>9

\* A step of the frame that is on top.
LEMMA TopSet ==
    ASSUME Typed, ControlInv, frames # <<>>, NEW f, SetTop(f)
    PROVE  /\ Len(frames') = Len(frames) /\ DOMAIN frames' = DOMAIN frames /\ frames' # <<>>
           /\ frames'[Len(frames)] = f /\ Last(frames') = f
           /\ \A i \in DOMAIN frames : i # Len(frames) => frames'[i] = frames[i]
           /\ f \in FrameType => frames' \in Seq(FrameType)
  BY TopIs DEF Typed, TablesTyped, UsersTyped, Levels, SetTop, Last

\* It changes the lists of its level.
LEMMA TopLists ==
    ASSUME Typed, ControlInv, frames # <<>>, NEW f, SetTop(f)
    PROVE  /\ Batches' = [Batches EXCEPT ![Len(frames)] = RequestsOf(Unseen(f))]
           /\ Nexts' = [Nexts EXCEPT ![Len(frames)] = OfNext(f)]
           /\ Drains' = [Drains EXCEPT ![Len(frames)] = f.drained]
           /\ UNCHANGED target =>
                 FrameServes' = [FrameServes EXCEPT ![Len(frames)] = ObjectsOf(Undone(f), target)]
<1>1. PICK k : k = Len(frames)
  OBVIOUS
<1>2. /\ DOMAIN frames' = DOMAIN frames /\ frames'[k] = f /\ k \in DOMAIN frames /\ k \in Levels
      /\ \A i \in DOMAIN frames : i # k => frames'[i] = frames[i]
  BY TopSet, TopIs, <1>1
<1>3. Batches' = [Batches EXCEPT ![k] = RequestsOf(Unseen(f))]
  BY <1>2 DEF Batches
<1>4. Nexts' = [Nexts EXCEPT ![k] = OfNext(f)]
  BY <1>2 DEF Nexts
<1>5. Drains' = [Drains EXCEPT ![k] = f.drained]
  BY <1>2 DEF Drains
<1>6. UNCHANGED target => FrameServes' = [FrameServes EXCEPT ![k] = ObjectsOf(Undone(f), target)]
  BY <1>2 DEF FrameServes
<1>7. QED
  BY <1>1, <1>3, <1>4, <1>5, <1>6

\* The lists of the top frame.
LEMMA TopHas ==
    ASSUME Typed, ControlInv, frames # <<>>
    PROVE  /\ Batches[Len(frames)] = RequestsOf(Unseen(Top)) /\ Nexts[Len(frames)] = OfNext(Top)
           /\ Drains[Len(frames)] = Top.drained
           /\ FrameServes[Len(frames)] = ObjectsOf(Undone(Top), target)
           /\ Len(frames) \in Levels
  BY TopIs DEF Batches, Nexts, Drains, FrameServes

\* What it does not change.
LEMMA TopKept ==
    ASSUME Typed, ControlInv, frames # <<>>, NEW f, SetTop(f)
    PROVE  /\ Unseen(f) = Unseen(Top) => Batches' = Batches
           /\ OfNext(f) = OfNext(Top) => Nexts' = Nexts
           /\ f.drained = Top.drained => Drains' = Drains
           /\ UNCHANGED target /\ Undone(f) = Undone(Top) => FrameServes' = FrameServes
  BY TopSet, TopIs DEF Batches, Nexts, Drains, FrameServes

\* A call of ProcessMessages() begins
LEMMA Entered ==
    ASSUME Typed, ControlInv, Len(frames) < 2, NEW loop \in {"events", "wait"},
           frames' = Append(frames, Frame(loop)), UNCHANGED target
    PROVE  /\ UNCHANGED <<Batches, Nexts, Drains, FrameServes>>
           /\ frames' \in Seq(FrameType) /\ Len(frames') = Len(frames) + 1
           /\ \A i \in DOMAIN frames : frames'[i] = frames[i]
           /\ frames'[Len(frames) + 1] = Frame(loop) /\ Last(frames') = Frame(loop)
           /\ DOMAIN frames' = DOMAIN frames \cup {Len(frames) + 1} /\ DOMAIN frames = 1..Len(frames)
           /\ FrameOK(Frame(loop), target)
<1>1. frames \in Seq(FrameType)
  BY DEF Typed, TablesTyped, UsersTyped
<1>2. PICK k, f : k = Len(frames) + 1 /\ f = Frame(loop)
  OBVIOUS
<1>3. f \in FrameType
  BY <1>2 DEF Frame, FrameType, FrameSteps
<1>4. /\ frames' \in Seq(FrameType) /\ Len(frames') = k
      /\ \A i \in DOMAIN frames : frames'[i] = frames[i] /\ i # k
      /\ DOMAIN frames' = DOMAIN frames \cup {k} /\ frames'[k] = f /\ DOMAIN frames = 1..Len(frames)
  BY <1>1, <1>2, <1>3
<1>5. Unseen(f) = <<>> /\ OfNext(f) = <<>> /\ f.drained = <<>> /\ Undone(f) = <<>>
  BY <1>2 DEF Frame, Unseen, OfNext, InLaunch, Undone
<1>6. RequestsOf(<<>>) = <<>> /\ ObjectsOf(<<>>, target) = <<>>
  BY DEF RequestsOf, ObjectsOf
<1>7. UNCHANGED Batches
  BY <1>4, <1>5, <1>6 DEF Batches
<1>8. UNCHANGED Nexts
  BY <1>4, <1>5 DEF Nexts
<1>9. UNCHANGED Drains
  BY <1>4, <1>5 DEF Drains
<1>10. UNCHANGED FrameServes
  BY <1>4, <1>5, <1>6 DEF FrameServes
<1>11. Last(frames') = f
  BY <1>4 DEF Last
<1>12. FrameOK(f, target)
  BY <1>2 DEF Frame, FrameOK, MessagesOK, InLaunch
<1>13. QED
  BY <1>2, <1>4, <1>7, <1>8, <1>9, <1>10, <1>11, <1>12

\* and ends.
LEMMA Left ==
    ASSUME Typed, ControlInv, frames # <<>>, Top.at = "loop", Top.batch = <<>>,
           frames' = Front(frames), UNCHANGED target
    PROVE  /\ UNCHANGED <<Batches, Nexts, Drains, FrameServes>>
           /\ frames' \in Seq(FrameType) /\ Len(frames') = Len(frames) - 1
           /\ \A i \in DOMAIN frames' : frames'[i] = frames[i]
           /\ DOMAIN frames' = DOMAIN frames \ {Len(frames)} /\ DOMAIN frames = 1..Len(frames)
<1>1. frames \in Seq(FrameType)
  BY DEF Typed, TablesTyped, UsersTyped
<1>2. PICK k, f : k = Len(frames) /\ f = Top
  OBVIOUS
<1>3. k \in Levels /\ k \in DOMAIN frames /\ DOMAIN frames = 1..k /\ f = frames[k] /\ FrameOK(f, target)
  BY <1>2, TopIs DEF Levels
<1>4. frames' = SubSeq(frames, 1, k - 1)
  BY <1>2 DEF Front
<1>5. /\ frames' \in Seq(FrameType) /\ Len(frames') = k - 1
      /\ \A i \in DOMAIN frames' : frames'[i] = frames[i]
      /\ DOMAIN frames' = DOMAIN frames \ {k}
  BY <1>1, <1>2, <1>3, <1>4 DEF Levels
<1>6. Unseen(f) = <<>> /\ OfNext(f) = <<>> /\ f.drained = <<>> /\ Undone(f) = <<>>
  BY <1>2, <1>3 DEF FrameOK, Unseen, OfNext, InLaunch, Undone
<1>7. RequestsOf(<<>>) = <<>> /\ ObjectsOf(<<>>, target) = <<>>
  BY DEF RequestsOf, ObjectsOf
<1>8. UNCHANGED Batches
  BY <1>3, <1>5, <1>6, <1>7 DEF Batches
<1>9. UNCHANGED Nexts
  BY <1>3, <1>5, <1>6 DEF Nexts
<1>10. UNCHANGED Drains
  BY <1>3, <1>5, <1>6 DEF Drains
<1>11. UNCHANGED FrameServes
  BY <1>3, <1>5, <1>6, <1>7 DEF FrameServes
<1>12. QED
  BY <1>2, <1>3, <1>5, <1>8, <1>9, <1>10, <1>11

----------------------------------------------------------------------------
(* What moves from one list to another.                                    *)

\* A list as a whole,
LEMMA MoveQueuePosted ==
    ASSUME NEW Q, NEW J, NEW C, NEW W, NEW P, NEW B, NEW N, NEW D,
           NEW X, NEW Y, NEW A, Store(Kept(Q, J, C, W, P, B, N, D), Names, Y, X, A),
           On(Q, Objects), NEW a \in Objects
    PROVE  Store(Kept(Put(Q, a, <<>>), J, C, W, P \o Q[a], B, N, D), Names, Y, X, A)
<1>1. PICK S, n, m, F, G : /\ S = Kept(Q, J, C, W, P, B, N, D)
                           /\ n = <<"queue", a>> /\ m = <<"posted", 1>>
                           /\ F = Put(Q, a, <<>>) /\ G = P \o Q[a]
  OBVIOUS
<1>2. n \in Names /\ m \in Names /\ m # n
  BY <1>1, NamesAre
<1>3. Lists(S, Q, J, C, W, P, B, N, D)
  BY <1>1, KeptAt
<1>4. S[n] = Q[a] /\ S[m] = P
  BY <1>1, <1>3 DEF Lists
<1>5. Kept(F, J, C, W, P, B, N, D) = Put(S, n, <<>>)
  BY <1>1, PutQueue
<1>6. Kept(F, J, C, W, G, B, N, D) = Put(Kept(F, J, C, W, P, B, N, D), m, P \o Q[a])
  BY <1>1, PutPosted
<1>7. Store(S, Names, Y, X, A)
  BY <1>1
<1>8. Store(Put(Put(S, n, <<>>), m, S[m] \o S[n]), Names, Y, X, A)
  BY <1>2, <1>4, <1>7, Moved
<1>9. Store(Kept(F, J, C, W, G, B, N, D), Names, Y, X, A)
  BY <1>4, <1>5, <1>6, <1>8
<1>10. QED
  BY <1>1, <1>9

LEMMA MoveSubmitterWorker ==
    ASSUME NEW Q, NEW J, NEW C, NEW W, NEW P, NEW B, NEW N, NEW D,
           NEW X, NEW Y, NEW A, Store(Kept(Q, J, C, W, P, B, N, D), Names, Y, X, A),
           On(J, Users), NEW a \in Users, On(W, Requests), NEW b \in Requests
    PROVE  Store(Kept(Q, Put(J, a, <<>>), C, Put(W, b, W[b] \o J[a]), P, B, N, D), Names, Y, X, A)
<1>1. PICK S, n, m, F, G : /\ S = Kept(Q, J, C, W, P, B, N, D)
                           /\ n = <<"submitter", a>> /\ m = <<"worker", b>>
                           /\ F = Put(J, a, <<>>) /\ G = Put(W, b, W[b] \o J[a])
  OBVIOUS
<1>2. n \in Names /\ m \in Names /\ m # n
  BY <1>1, NamesAre
<1>3. Lists(S, Q, J, C, W, P, B, N, D)
  BY <1>1, KeptAt
<1>4. S[n] = J[a] /\ S[m] = W[b]
  BY <1>1, <1>3 DEF Lists
<1>5. Kept(Q, F, C, W, P, B, N, D) = Put(S, n, <<>>)
  BY <1>1, PutSubmitter
<1>6. Kept(Q, F, C, G, P, B, N, D) = Put(Kept(Q, F, C, W, P, B, N, D), m, W[b] \o J[a])
  BY <1>1, PutWorker
<1>7. Store(S, Names, Y, X, A)
  BY <1>1
<1>8. Store(Put(Put(S, n, <<>>), m, S[m] \o S[n]), Names, Y, X, A)
  BY <1>2, <1>4, <1>7, Moved
<1>9. Store(Kept(Q, F, C, G, P, B, N, D), Names, Y, X, A)
  BY <1>4, <1>5, <1>6, <1>8
<1>10. QED
  BY <1>1, <1>9

LEMMA MoveWorkerPosted ==
    ASSUME NEW Q, NEW J, NEW C, NEW W, NEW P, NEW B, NEW N, NEW D,
           NEW X, NEW Y, NEW A, Store(Kept(Q, J, C, W, P, B, N, D), Names, Y, X, A),
           On(W, Requests), NEW a \in Requests
    PROVE  Store(Kept(Q, J, C, Put(W, a, <<>>), P \o W[a], B, N, D), Names, Y, X, A)
<1>1. PICK S, n, m, F, G : /\ S = Kept(Q, J, C, W, P, B, N, D)
                           /\ n = <<"worker", a>> /\ m = <<"posted", 1>>
                           /\ F = Put(W, a, <<>>) /\ G = P \o W[a]
  OBVIOUS
<1>2. n \in Names /\ m \in Names /\ m # n
  BY <1>1, NamesAre
<1>3. Lists(S, Q, J, C, W, P, B, N, D)
  BY <1>1, KeptAt
<1>4. S[n] = W[a] /\ S[m] = P
  BY <1>1, <1>3 DEF Lists
<1>5. Kept(Q, J, C, F, P, B, N, D) = Put(S, n, <<>>)
  BY <1>1, PutWorker
<1>6. Kept(Q, J, C, F, G, B, N, D) = Put(Kept(Q, J, C, F, P, B, N, D), m, P \o W[a])
  BY <1>1, PutPosted
<1>7. Store(S, Names, Y, X, A)
  BY <1>1
<1>8. Store(Put(Put(S, n, <<>>), m, S[m] \o S[n]), Names, Y, X, A)
  BY <1>2, <1>4, <1>7, Moved
<1>9. Store(Kept(Q, J, C, F, G, B, N, D), Names, Y, X, A)
  BY <1>4, <1>5, <1>6, <1>8
<1>10. QED
  BY <1>1, <1>9

LEMMA MovePostedBatch ==
    ASSUME NEW Q, NEW J, NEW C, NEW W, NEW P, NEW B, NEW N, NEW D,
           NEW X, NEW Y, NEW A, Store(Kept(Q, J, C, W, P, B, N, D), Names, Y, X, A),
           On(B, Levels), NEW b \in Levels
    PROVE  Store(Kept(Q, J, C, W, <<>>, Put(B, b, B[b] \o P), N, D), Names, Y, X, A)
<1>1. PICK S, n, m, F, G : /\ S = Kept(Q, J, C, W, P, B, N, D)
                           /\ n = <<"posted", 1>> /\ m = <<"batch", b>>
                           /\ F = <<>> /\ G = Put(B, b, B[b] \o P)
  OBVIOUS
<1>2. n \in Names /\ m \in Names /\ m # n
  BY <1>1, NamesAre
<1>3. Lists(S, Q, J, C, W, P, B, N, D)
  BY <1>1, KeptAt
<1>4. S[n] = P /\ S[m] = B[b]
  BY <1>1, <1>3 DEF Lists
<1>5. Kept(Q, J, C, W, F, B, N, D) = Put(S, n, <<>>)
  BY <1>1, PutPosted
<1>6. Kept(Q, J, C, W, F, G, N, D) = Put(Kept(Q, J, C, W, F, B, N, D), m, B[b] \o P)
  BY <1>1, PutBatch
<1>7. Store(S, Names, Y, X, A)
  BY <1>1
<1>8. Store(Put(Put(S, n, <<>>), m, S[m] \o S[n]), Names, Y, X, A)
  BY <1>2, <1>4, <1>7, Moved
<1>9. Store(Kept(Q, J, C, W, F, G, N, D), Names, Y, X, A)
  BY <1>4, <1>5, <1>6, <1>8
<1>10. QED
  BY <1>1, <1>9

LEMMA MoveNextPosted ==
    ASSUME NEW Q, NEW J, NEW C, NEW W, NEW P, NEW B, NEW N, NEW D,
           NEW X, NEW Y, NEW A, Store(Kept(Q, J, C, W, P, B, N, D), Names, Y, X, A),
           On(N, Levels), NEW a \in Levels
    PROVE  Store(Kept(Q, J, C, W, P \o N[a], B, Put(N, a, <<>>), D), Names, Y, X, A)
<1>1. PICK S, n, m, F, G : /\ S = Kept(Q, J, C, W, P, B, N, D)
                           /\ n = <<"next", a>> /\ m = <<"posted", 1>>
                           /\ F = Put(N, a, <<>>) /\ G = P \o N[a]
  OBVIOUS
<1>2. n \in Names /\ m \in Names /\ m # n
  BY <1>1, NamesAre
<1>3. Lists(S, Q, J, C, W, P, B, N, D)
  BY <1>1, KeptAt
<1>4. S[n] = N[a] /\ S[m] = P
  BY <1>1, <1>3 DEF Lists
<1>5. Kept(Q, J, C, W, P, B, F, D) = Put(S, n, <<>>)
  BY <1>1, PutNext
<1>6. Kept(Q, J, C, W, G, B, F, D) = Put(Kept(Q, J, C, W, P, B, F, D), m, P \o N[a])
  BY <1>1, PutPosted
<1>7. Store(S, Names, Y, X, A)
  BY <1>1
<1>8. Store(Put(Put(S, n, <<>>), m, S[m] \o S[n]), Names, Y, X, A)
  BY <1>2, <1>4, <1>7, Moved
<1>9. Store(Kept(Q, J, C, W, G, B, F, D), Names, Y, X, A)
  BY <1>4, <1>5, <1>6, <1>8
<1>10. QED
  BY <1>1, <1>9

LEMMA MoveNextWorker ==
    ASSUME NEW Q, NEW J, NEW C, NEW W, NEW P, NEW B, NEW N, NEW D,
           NEW X, NEW Y, NEW A, Store(Kept(Q, J, C, W, P, B, N, D), Names, Y, X, A),
           On(N, Levels), NEW a \in Levels, On(W, Requests), NEW b \in Requests
    PROVE  Store(Kept(Q, J, C, Put(W, b, W[b] \o N[a]), P, B, Put(N, a, <<>>), D), Names, Y, X, A)
<1>1. PICK S, n, m, F, G : /\ S = Kept(Q, J, C, W, P, B, N, D)
                           /\ n = <<"next", a>> /\ m = <<"worker", b>>
                           /\ F = Put(N, a, <<>>) /\ G = Put(W, b, W[b] \o N[a])
  OBVIOUS
<1>2. n \in Names /\ m \in Names /\ m # n
  BY <1>1, NamesAre
<1>3. Lists(S, Q, J, C, W, P, B, N, D)
  BY <1>1, KeptAt
<1>4. S[n] = N[a] /\ S[m] = W[b]
  BY <1>1, <1>3 DEF Lists
<1>5. Kept(Q, J, C, W, P, B, F, D) = Put(S, n, <<>>)
  BY <1>1, PutNext
<1>6. Kept(Q, J, C, G, P, B, F, D) = Put(Kept(Q, J, C, W, P, B, F, D), m, W[b] \o N[a])
  BY <1>1, PutWorker
<1>7. Store(S, Names, Y, X, A)
  BY <1>1
<1>8. Store(Put(Put(S, n, <<>>), m, S[m] \o S[n]), Names, Y, X, A)
  BY <1>2, <1>4, <1>7, Moved
<1>9. Store(Kept(Q, J, C, G, P, B, F, D), Names, Y, X, A)
  BY <1>4, <1>5, <1>6, <1>8
<1>10. QED
  BY <1>1, <1>9

LEMMA MoveQueueDrained ==
    ASSUME NEW Q, NEW J, NEW C, NEW W, NEW P, NEW B, NEW N, NEW D,
           NEW X, NEW Y, NEW A, Store(Kept(Q, J, C, W, P, B, N, D), Names, Y, X, A),
           On(Q, Objects), NEW a \in Objects, On(D, Levels), NEW b \in Levels
    PROVE  Store(Kept(Put(Q, a, <<>>), J, C, W, P, B, N, Put(D, b, D[b] \o Q[a])), Names, Y, X, A)
<1>1. PICK S, n, m, F, G : /\ S = Kept(Q, J, C, W, P, B, N, D)
                           /\ n = <<"queue", a>> /\ m = <<"drained", b>>
                           /\ F = Put(Q, a, <<>>) /\ G = Put(D, b, D[b] \o Q[a])
  OBVIOUS
<1>2. n \in Names /\ m \in Names /\ m # n
  BY <1>1, NamesAre
<1>3. Lists(S, Q, J, C, W, P, B, N, D)
  BY <1>1, KeptAt
<1>4. S[n] = Q[a] /\ S[m] = D[b]
  BY <1>1, <1>3 DEF Lists
<1>5. Kept(F, J, C, W, P, B, N, D) = Put(S, n, <<>>)
  BY <1>1, PutQueue
<1>6. Kept(F, J, C, W, P, B, N, G) = Put(Kept(F, J, C, W, P, B, N, D), m, D[b] \o Q[a])
  BY <1>1, PutDrained
<1>7. Store(S, Names, Y, X, A)
  BY <1>1
<1>8. Store(Put(Put(S, n, <<>>), m, S[m] \o S[n]), Names, Y, X, A)
  BY <1>2, <1>4, <1>7, Moved
<1>9. Store(Kept(F, J, C, W, P, B, N, G), Names, Y, X, A)
  BY <1>4, <1>5, <1>6, <1>8
<1>10. QED
  BY <1>1, <1>9

LEMMA MoveDrainedPosted ==
    ASSUME NEW Q, NEW J, NEW C, NEW W, NEW P, NEW B, NEW N, NEW D,
           NEW X, NEW Y, NEW A, Store(Kept(Q, J, C, W, P, B, N, D), Names, Y, X, A),
           On(D, Levels), NEW a \in Levels
    PROVE  Store(Kept(Q, J, C, W, P \o D[a], B, N, Put(D, a, <<>>)), Names, Y, X, A)
<1>1. PICK S, n, m, F, G : /\ S = Kept(Q, J, C, W, P, B, N, D)
                           /\ n = <<"drained", a>> /\ m = <<"posted", 1>>
                           /\ F = Put(D, a, <<>>) /\ G = P \o D[a]
  OBVIOUS
<1>2. n \in Names /\ m \in Names /\ m # n
  BY <1>1, NamesAre
<1>3. Lists(S, Q, J, C, W, P, B, N, D)
  BY <1>1, KeptAt
<1>4. S[n] = D[a] /\ S[m] = P
  BY <1>1, <1>3 DEF Lists
<1>5. Kept(Q, J, C, W, P, B, N, F) = Put(S, n, <<>>)
  BY <1>1, PutDrained
<1>6. Kept(Q, J, C, W, G, B, N, F) = Put(Kept(Q, J, C, W, P, B, N, F), m, P \o D[a])
  BY <1>1, PutPosted
<1>7. Store(S, Names, Y, X, A)
  BY <1>1
<1>8. Store(Put(Put(S, n, <<>>), m, S[m] \o S[n]), Names, Y, X, A)
  BY <1>2, <1>4, <1>7, Moved
<1>9. Store(Kept(Q, J, C, W, G, B, N, F), Names, Y, X, A)
  BY <1>4, <1>5, <1>6, <1>8
<1>10. QED
  BY <1>1, <1>9

LEMMA MoveQueueCancelled ==
    ASSUME NEW Q, NEW J, NEW C, NEW W, NEW P, NEW B, NEW N, NEW D,
           NEW X, NEW Y, NEW A, Store(Kept(Q, J, C, W, P, B, N, D), Names, Y, X, A),
           On(Q, Objects), NEW a \in Objects, On(C, Users), NEW b \in Users
    PROVE  Store(Kept(Put(Q, a, <<>>), J, Put(C, b, C[b] \o Q[a]), W, P, B, N, D), Names, Y, X, A)
<1>1. PICK S, n, m, F, G : /\ S = Kept(Q, J, C, W, P, B, N, D)
                           /\ n = <<"queue", a>> /\ m = <<"cancelled", b>>
                           /\ F = Put(Q, a, <<>>) /\ G = Put(C, b, C[b] \o Q[a])
  OBVIOUS
<1>2. n \in Names /\ m \in Names /\ m # n
  BY <1>1, NamesAre
<1>3. Lists(S, Q, J, C, W, P, B, N, D)
  BY <1>1, KeptAt
<1>4. S[n] = Q[a] /\ S[m] = C[b]
  BY <1>1, <1>3 DEF Lists
<1>5. Kept(F, J, C, W, P, B, N, D) = Put(S, n, <<>>)
  BY <1>1, PutQueue
<1>6. Kept(F, J, G, W, P, B, N, D) = Put(Kept(F, J, C, W, P, B, N, D), m, C[b] \o Q[a])
  BY <1>1, PutCancelled
<1>7. Store(S, Names, Y, X, A)
  BY <1>1
<1>8. Store(Put(Put(S, n, <<>>), m, S[m] \o S[n]), Names, Y, X, A)
  BY <1>2, <1>4, <1>7, Moved
<1>9. Store(Kept(F, J, G, W, P, B, N, D), Names, Y, X, A)
  BY <1>4, <1>5, <1>6, <1>8
<1>10. QED
  BY <1>1, <1>9

LEMMA MoveCancelledPosted ==
    ASSUME NEW Q, NEW J, NEW C, NEW W, NEW P, NEW B, NEW N, NEW D,
           NEW X, NEW Y, NEW A, Store(Kept(Q, J, C, W, P, B, N, D), Names, Y, X, A),
           On(C, Users), NEW a \in Users
    PROVE  Store(Kept(Q, J, Put(C, a, <<>>), W, P \o C[a], B, N, D), Names, Y, X, A)
<1>1. PICK S, n, m, F, G : /\ S = Kept(Q, J, C, W, P, B, N, D)
                           /\ n = <<"cancelled", a>> /\ m = <<"posted", 1>>
                           /\ F = Put(C, a, <<>>) /\ G = P \o C[a]
  OBVIOUS
<1>2. n \in Names /\ m \in Names /\ m # n
  BY <1>1, NamesAre
<1>3. Lists(S, Q, J, C, W, P, B, N, D)
  BY <1>1, KeptAt
<1>4. S[n] = C[a] /\ S[m] = P
  BY <1>1, <1>3 DEF Lists
<1>5. Kept(Q, J, F, W, P, B, N, D) = Put(S, n, <<>>)
  BY <1>1, PutCancelled
<1>6. Kept(Q, J, F, W, G, B, N, D) = Put(Kept(Q, J, F, W, P, B, N, D), m, P \o C[a])
  BY <1>1, PutPosted
<1>7. Store(S, Names, Y, X, A)
  BY <1>1
<1>8. Store(Put(Put(S, n, <<>>), m, S[m] \o S[n]), Names, Y, X, A)
  BY <1>2, <1>4, <1>7, Moved
<1>9. Store(Kept(Q, J, F, W, G, B, N, D), Names, Y, X, A)
  BY <1>4, <1>5, <1>6, <1>8
<1>10. QED
  BY <1>1, <1>9

\* the first element of a list,
LEMMA PassQueueNext ==
    ASSUME NEW Q, NEW J, NEW C, NEW W, NEW P, NEW B, NEW N, NEW D,
           NEW X, NEW Y, NEW A, Store(Kept(Q, J, C, W, P, B, N, D), Names, Y, X, A),
           On(Q, Objects), NEW a \in Objects, On(N, Levels), NEW b \in Levels, Q[a] # <<>>
    PROVE  Store(Kept(Put(Q, a, Tail(Q[a])), J, C, W, P, B, Put(N, b, N[b] \o <<Head(Q[a])>>), D), Names, Y, X, A)
<1>1. PICK S, n, m, F, G : /\ S = Kept(Q, J, C, W, P, B, N, D)
                           /\ n = <<"queue", a>> /\ m = <<"next", b>>
                           /\ F = Put(Q, a, Tail(Q[a])) /\ G = Put(N, b, N[b] \o <<Head(Q[a])>>)
  OBVIOUS
<1>2. n \in Names /\ m \in Names /\ m # n
  BY <1>1, NamesAre
<1>3. Lists(S, Q, J, C, W, P, B, N, D)
  BY <1>1, KeptAt
<1>4. S[n] = Q[a] /\ S[m] = N[b]
  BY <1>1, <1>3 DEF Lists
<1>5. Kept(F, J, C, W, P, B, N, D) = Put(S, n, Tail(Q[a]))
  BY <1>1, PutQueue
<1>6. Kept(F, J, C, W, P, B, G, D) = Put(Kept(F, J, C, W, P, B, N, D), m, N[b] \o <<Head(Q[a])>>)
  BY <1>1, PutNext
<1>7. Store(S, Names, Y, X, A)
  BY <1>1
<1>8. Store(Put(Put(S, n, Tail(S[n])), m, S[m] \o <<Head(S[n])>>), Names, Y, X, A)
  BY <1>2, <1>4, <1>7, Passed
<1>9. Store(Kept(F, J, C, W, P, B, G, D), Names, Y, X, A)
  BY <1>4, <1>5, <1>6, <1>8
<1>10. QED
  BY <1>1, <1>9

LEMMA PassBatchWorker ==
    ASSUME NEW Q, NEW J, NEW C, NEW W, NEW P, NEW B, NEW N, NEW D,
           NEW X, NEW Y, NEW A, Store(Kept(Q, J, C, W, P, B, N, D), Names, Y, X, A),
           On(B, Levels), NEW a \in Levels, On(W, Requests), NEW b \in Requests, B[a] # <<>>
    PROVE  Store(Kept(Q, J, C, Put(W, b, W[b] \o <<Head(B[a])>>), P, Put(B, a, Tail(B[a])), N, D), Names, Y, X, A)
<1>1. PICK S, n, m, F, G : /\ S = Kept(Q, J, C, W, P, B, N, D)
                           /\ n = <<"batch", a>> /\ m = <<"worker", b>>
                           /\ F = Put(B, a, Tail(B[a])) /\ G = Put(W, b, W[b] \o <<Head(B[a])>>)
  OBVIOUS
<1>2. n \in Names /\ m \in Names /\ m # n
  BY <1>1, NamesAre
<1>3. Lists(S, Q, J, C, W, P, B, N, D)
  BY <1>1, KeptAt
<1>4. S[n] = B[a] /\ S[m] = W[b]
  BY <1>1, <1>3 DEF Lists
<1>5. Kept(Q, J, C, W, P, F, N, D) = Put(S, n, Tail(B[a]))
  BY <1>1, PutBatch
<1>6. Kept(Q, J, C, G, P, F, N, D) = Put(Kept(Q, J, C, W, P, F, N, D), m, W[b] \o <<Head(B[a])>>)
  BY <1>1, PutWorker
<1>7. Store(S, Names, Y, X, A)
  BY <1>1
<1>8. Store(Put(Put(S, n, Tail(S[n])), m, S[m] \o <<Head(S[n])>>), Names, Y, X, A)
  BY <1>2, <1>4, <1>7, Passed
<1>9. Store(Kept(Q, J, C, G, P, F, N, D), Names, Y, X, A)
  BY <1>4, <1>5, <1>6, <1>8
<1>10. QED
  BY <1>1, <1>9

\* something that leaves,
LEMMA BeheadBatch ==
    ASSUME NEW Q, NEW J, NEW C, NEW W, NEW P, NEW B, NEW N, NEW D,
           NEW X, NEW Y, NEW A, Store(Kept(Q, J, C, W, P, B, N, D), Names, Y, X, A),
           On(B, Levels), NEW a \in Levels, B[a] # <<>>
    PROVE  Store(Kept(Q, J, C, W, P, Put(B, a, Tail(B[a])), N, D), Names, Y, X, A \ {Head(B[a])}) /\ (Head(B[a]) \in X => Head(B[a]) \in A)
<1>1. PICK S, n, F : S = Kept(Q, J, C, W, P, B, N, D) /\ n = <<"batch", a>> /\ F = Put(B, a, Tail(B[a]))
  OBVIOUS
<1>2. n \in Names
  BY <1>1, NamesAre
<1>3. Lists(S, Q, J, C, W, P, B, N, D)
  BY <1>1, KeptAt
<1>4. S[n] = B[a]
  BY <1>1, <1>3 DEF Lists
<1>5. Kept(Q, J, C, W, P, F, N, D) = Put(S, n, Tail(B[a]))
  BY <1>1, PutBatch
<1>6. Store(S, Names, Y, X, A)
  BY <1>1
<1>7. Store(Put(S, n, Tail(S[n])), Names, Y, X, A \ {Head(S[n])}) /\ (Head(S[n]) \in X => Head(S[n]) \in A)
  BY <1>2, <1>4, <1>6, Beheaded
<1>8. Store(Kept(Q, J, C, W, P, F, N, D), Names, Y, X, A \ {Head(B[a])}) /\ (Head(B[a]) \in X => Head(B[a]) \in A)
  BY <1>4, <1>5, <1>7
<1>9. QED
  BY <1>1, <1>8

\* and something new.
LEMMA JoinQueue ==
    ASSUME NEW Q, NEW J, NEW C, NEW W, NEW P, NEW B, NEW N, NEW D,
           NEW X, NEW Y, NEW A, Store(Kept(Q, J, C, W, P, B, N, D), Names, Y, X, A),
           On(Q, Objects), NEW a \in Objects, NEW s \in Seq(Y), New(s, A, X)
    PROVE  Store(Kept(Put(Q, a, Q[a] \o s), J, C, W, P, B, N, D), Names, Y, X, A \cup Inside(s, X))
<1>1. PICK S, n, F : S = Kept(Q, J, C, W, P, B, N, D) /\ n = <<"queue", a>> /\ F = Put(Q, a, Q[a] \o s)
  OBVIOUS
<1>2. n \in Names
  BY <1>1, NamesAre
<1>3. Lists(S, Q, J, C, W, P, B, N, D)
  BY <1>1, KeptAt
<1>4. S[n] = Q[a]
  BY <1>1, <1>3 DEF Lists
<1>5. Kept(F, J, C, W, P, B, N, D) = Put(S, n, Q[a] \o s)
  BY <1>1, PutQueue
<1>6. Store(S, Names, Y, X, A)
  BY <1>1
<1>7. Store(Put(S, n, S[n] \o s), Names, Y, X, A \cup Inside(s, X))
  BY <1>2, <1>4, <1>6, Joined
<1>8. Store(Kept(F, J, C, W, P, B, N, D), Names, Y, X, A \cup Inside(s, X))
  BY <1>4, <1>5, <1>7
<1>9. QED
  BY <1>1, <1>8

LEMMA JoinSubmitter ==
    ASSUME NEW Q, NEW J, NEW C, NEW W, NEW P, NEW B, NEW N, NEW D,
           NEW X, NEW Y, NEW A, Store(Kept(Q, J, C, W, P, B, N, D), Names, Y, X, A),
           On(J, Users), NEW a \in Users, NEW s \in Seq(Y), New(s, A, X)
    PROVE  Store(Kept(Q, Put(J, a, J[a] \o s), C, W, P, B, N, D), Names, Y, X, A \cup Inside(s, X))
<1>1. PICK S, n, F : S = Kept(Q, J, C, W, P, B, N, D) /\ n = <<"submitter", a>> /\ F = Put(J, a, J[a] \o s)
  OBVIOUS
<1>2. n \in Names
  BY <1>1, NamesAre
<1>3. Lists(S, Q, J, C, W, P, B, N, D)
  BY <1>1, KeptAt
<1>4. S[n] = J[a]
  BY <1>1, <1>3 DEF Lists
<1>5. Kept(Q, F, C, W, P, B, N, D) = Put(S, n, J[a] \o s)
  BY <1>1, PutSubmitter
<1>6. Store(S, Names, Y, X, A)
  BY <1>1
<1>7. Store(Put(S, n, S[n] \o s), Names, Y, X, A \cup Inside(s, X))
  BY <1>2, <1>4, <1>6, Joined
<1>8. Store(Kept(Q, F, C, W, P, B, N, D), Names, Y, X, A \cup Inside(s, X))
  BY <1>4, <1>5, <1>7
<1>9. QED
  BY <1>1, <1>8

LEMMA JoinPosted ==
    ASSUME NEW Q, NEW J, NEW C, NEW W, NEW P, NEW B, NEW N, NEW D,
           NEW X, NEW Y, NEW A, Store(Kept(Q, J, C, W, P, B, N, D), Names, Y, X, A),
           NEW s \in Seq(Y), New(s, A, X)
    PROVE  Store(Kept(Q, J, C, W, P \o s, B, N, D), Names, Y, X, A \cup Inside(s, X))
<1>1. PICK S, n, F : S = Kept(Q, J, C, W, P, B, N, D) /\ n = <<"posted", 1>> /\ F = P \o s
  OBVIOUS
<1>2. n \in Names
  BY <1>1, NamesAre
<1>3. Lists(S, Q, J, C, W, P, B, N, D)
  BY <1>1, KeptAt
<1>4. S[n] = P
  BY <1>1, <1>3 DEF Lists
<1>5. Kept(Q, J, C, W, F, B, N, D) = Put(S, n, P \o s)
  BY <1>1, PutPosted
<1>6. Store(S, Names, Y, X, A)
  BY <1>1
<1>7. Store(Put(S, n, S[n] \o s), Names, Y, X, A \cup Inside(s, X))
  BY <1>2, <1>4, <1>6, Joined
<1>8. Store(Kept(Q, J, C, W, F, B, N, D), Names, Y, X, A \cup Inside(s, X))
  BY <1>4, <1>5, <1>7
<1>9. QED
  BY <1>1, <1>8

----------------------------------------------------------------------------
(* The stores of the two invariants.                                       *)

Entries == Requests \cup {None}
Things  == Objects \cup {None}

LEMMA Families ==
    ASSUME Typed
    PROVE  /\ On(glActionQueues, Objects) /\ On(Submitted, Users) /\ On(Cancelled, Users)
           /\ On(Working, Requests) /\ On(Batches, Levels) /\ On(Nexts, Levels) /\ On(Drains, Levels)
           /\ On(JobServes, Users) /\ On(WorkerServes, Requests) /\ On(FrameServes, Levels)
           /\ On(Idle(Objects), Objects) /\ On(Idle(Users), Users) /\ On(Idle(Levels), Levels)
  BY DEF Idle, On, Typed, TablesTyped, UsersTyped, Submitted, Cancelled, Working, Batches, Nexts, Drains, JobServes,
         WorkerServes, FrameServes

Within(f, S, T) == \A y \in S : f[y] \in T

LEMMA KeptMembers ==
    ASSUME NEW Q, NEW J, NEW C, NEW W, NEW P, NEW B, NEW N, NEW D, NEW S, NEW T,
           Lists(S, Q, J, C, W, P, B, N, D),
           Within(Q, Objects, T), Within(J, Users, T), Within(C, Users, T), Within(W, Requests, T),
           P \in T, Within(B, Levels, T), Within(N, Levels, T), Within(D, Levels, T)
    PROVE  S \in [Names -> T]
<1>1. ASSUME NEW n \in Names PROVE S[n] \in T
  BY NameCases DEF Lists, Within
<1>2. S = [n \in Names |-> S[n]]
  BY DEF Lists
<1>3. QED
  BY <1>1, <1>2

LEMMA KeptTyped ==
    ASSUME NEW Y, NEW Q \in [Objects -> Seq(Y)], NEW J \in [Users -> Seq(Y)],
           NEW C \in [Users -> Seq(Y)], NEW W \in [Requests -> Seq(Y)], NEW P \in Seq(Y),
           NEW B \in [Levels -> Seq(Y)], NEW N \in [Levels -> Seq(Y)], NEW D \in [Levels -> Seq(Y)]
    PROVE  Kept(Q, J, C, W, P, B, N, D) \in [Names -> Seq(Y)]
<1>1. PICK S, T : S = Kept(Q, J, C, W, P, B, N, D) /\ T = Seq(Y)
  OBVIOUS
<1>2. Lists(S, Q, J, C, W, P, B, N, D)
  BY <1>1, KeptAt
<1>3. /\ Within(Q, Objects, T) /\ Within(J, Users, T) /\ Within(C, Users, T)
      /\ Within(W, Requests, T) /\ P \in T
      /\ Within(B, Levels, T) /\ Within(N, Levels, T) /\ Within(D, Levels, T)
  BY <1>1 DEF Within
<1>4. S \in [Names -> T]
  BY <1>2, <1>3, KeptMembers
<1>5. QED
  BY <1>1, <1>4

LEMMA ShortLists == ASSUME NEW S, NEW x \in S PROVE <<x>> \in Seq(S) /\ <<>> \in Seq(S)
  OBVIOUS

\* Lists that are read off messages.
LEMMA RequestLists ==
    ASSUME NEW m \in Seq(Messages)
    PROVE  /\ RequestsOf(m) \in Seq(Entries) /\ Len(RequestsOf(m)) = Len(m)
           /\ \A i \in DOMAIN m : RequestsOf(m)[i] = m[i].request
           /\ DOMAIN RequestsOf(m) = DOMAIN m
<1>1. DOMAIN m = 1..Len(m) /\ Len(m) \in Nat /\ \A i \in DOMAIN m : m[i].request \in Entries
  <2>1. DOMAIN m = 1..Len(m) /\ Len(m) \in Nat /\ \A i \in DOMAIN m : m[i] \in Messages
    OBVIOUS
  <2>2. QED
    BY <2>1 DEF Messages, Entries
<1>2. RequestsOf(m) = [i \in 1..Len(m) |-> m[i].request]
  BY <1>1 DEF RequestsOf
<1>3. QED
  BY <1>1, <1>2

LEMMA ObjectLists ==
    ASSUME NEW t \in [Requests -> Things], NEW m \in Seq(Messages), MessagesOK(m, t)
    PROVE  /\ ObjectsOf(m, t) \in Seq(Things) /\ Len(ObjectsOf(m, t)) = Len(m)
           /\ \A i \in DOMAIN m : ObjectsOf(m, t)[i] =
                 IF m[i].DispatchNext THEN t[m[i].request] ELSE None
           /\ DOMAIN ObjectsOf(m, t) = DOMAIN m
  BY DEF MessagesOK, Things, BREAK, ObjectsOf

LEMMA UnseenTyped ==
    ASSUME NEW t \in [Requests -> Things], NEW f \in FrameType, FrameOK(f, t)
    PROVE  /\ Unseen(f) \in Seq(Messages) /\ MessagesOK(Unseen(f), t)
           /\ Undone(f) \in Seq(Messages) /\ MessagesOK(Undone(f), t)
<1>1. f.batch \in Seq(Messages) /\ MessagesOK(f.batch, t) /\ (f.at # "loop" => f.batch # <<>>)
  BY DEF FrameType, FrameOK
<1>2. ASSUME NEW m \in Seq(Messages), m # <<>>, MessagesOK(m, t)
      PROVE  Tail(m) \in Seq(Messages) /\ MessagesOK(Tail(m), t)
  BY <1>2 DEF MessagesOK
<1>3. PICK m : m = f.batch
  OBVIOUS
<1>4. QED
  BY <1>1, <1>2, <1>3 DEF Unseen, Undone

LEMMA CallbacksTyped == ASSUME Typed, ControlInv PROVE Callbacks \in [Names -> Seq(Entries)]
<1>1. glActionQueues \in [Objects -> Seq(Entries)]
  BY DEF Typed, TablesTyped, UsersTyped, Entries
<1>2. Submitted \in [Users -> Seq(Entries)]
  <2>1. ASSUME NEW u \in Users PROVE OfJob(pc[u], job[u]) \in Seq(Entries)
    BY ShortLists DEF Typed, TablesTyped, UsersTyped, JobType, Entries, OfJob
  <2>2. QED
    BY <2>1 DEF Submitted
<1>3. Cancelled \in [Users -> Seq(Entries)]
  BY DEF Typed, TablesTyped, UsersTyped, JobType, Entries, Cancelled
<1>4. Working \in [Requests -> Seq(Entries)]
  <2>1. ASSUME NEW r \in Requests PROVE OfWorker(r, worker[r]) \in Seq(Entries)
    BY ShortLists DEF Entries, OfWorker
  <2>2. QED
    BY <2>1 DEF Working
<1>5. RequestsOf(glQueue) \in Seq(Entries)
  BY RequestLists DEF Typed, TablesTyped, UsersTyped
<1>6. \A i \in DOMAIN frames : frames[i] \in FrameType /\ FrameOK(frames[i], target)
  BY DEF Typed, TablesTyped, UsersTyped, ControlInv, FramesOK, PostedOK
<1>7. target \in [Requests -> Things]
  BY DEF Typed, TablesTyped, UsersTyped, Things
<1>8. Batches \in [Levels -> Seq(Entries)]
  BY <1>6, <1>7, UnseenTyped, RequestLists DEF Batches
<1>9. Nexts \in [Levels -> Seq(Entries)]
  <2>1. ASSUME NEW i \in DOMAIN frames PROVE OfNext(frames[i]) \in Seq(Entries)
    BY <1>6, ShortLists DEF FrameType, Entries, OfNext
  <2>2. QED
    BY <2>1 DEF Nexts
<1>10. Drains \in [Levels -> Seq(Entries)]
  BY <1>6 DEF FrameType, Entries, Drains
<1>11. QED
  BY <1>1, <1>2, <1>3, <1>4, <1>5, <1>8, <1>9, <1>10, KeptTyped DEF Callbacks

LEMMA ServicesTyped == ASSUME Typed, ControlInv PROVE Services \in [Names -> Seq(Things)]
<1>1. Idle(Objects) \in [Objects -> Seq(Things)] /\ Idle(Users) \in [Users -> Seq(Things)]
        /\ Idle(Levels) \in [Levels -> Seq(Things)]
  BY DEF Idle
<1>2. JobServes \in [Users -> Seq(Things)]
  <2>1. ASSUME NEW u \in Users PROVE ForJob(pc[u], job[u]) \in Seq(Things)
    BY ShortLists DEF Typed, TablesTyped, UsersTyped, JobType, Things, ForJob
  <2>2. QED
    BY <2>1 DEF JobServes
<1>3. WorkerServes \in [Requests -> Seq(Things)]
  <2>1. ASSUME NEW r \in Requests PROVE ForWorker(worker[r], target[r]) \in Seq(Things)
    BY ShortLists DEF Typed, TablesTyped, UsersTyped, Things, ForWorker
  <2>2. QED
    BY <2>1 DEF WorkerServes
<1>4. target \in [Requests -> Things]
  BY DEF Typed, TablesTyped, UsersTyped, Things
<1>5. ObjectsOf(glQueue, target) \in Seq(Things)
  BY <1>4, ObjectLists DEF Typed, TablesTyped, UsersTyped, ControlInv, FramesOK, PostedOK
<1>6. \A i \in DOMAIN frames : frames[i] \in FrameType /\ FrameOK(frames[i], target)
  BY DEF Typed, TablesTyped, UsersTyped, ControlInv, FramesOK, PostedOK
<1>7. FrameServes \in [Levels -> Seq(Things)]
  BY <1>4, <1>6, UnseenTyped, ObjectLists DEF FrameServes
<1>8. QED
  BY <1>1, <1>2, <1>3, <1>5, <1>7, KeptTyped DEF Services

LEMMA CallbackStore ==
    ASSUME Typed, ControlInv, CallbackInv
    PROVE  Store(Callbacks, Names, Entries, Requests, Waiting)
  BY CallbacksTyped DEF CallbackInv, Store, Waiting

LEMMA ServiceStore ==
    ASSUME Typed, ControlInv, ServeInv
    PROVE  Store(Services, Names, Things, Objects, Served)
  BY ServicesTyped DEF ServeInv, Store, Served

\* A store has one contents.
LEMMA StoreIs ==
    ASSUME NEW S, NEW N, NEW Y, NEW X, NEW A, Store(S, N, Y, X, A)
    PROVE  Apart(S, N, X) /\ Content(S, N, X) = A
  BY DEF Store

----------------------------------------------------------------------------
(* Messages.                                                               *)

LEMMA JoinLists ==
    ASSUME NEW m \in Seq(Messages), NEW k \in Seq(Messages), NEW t
    PROVE  /\ RequestsOf(m \o k) = RequestsOf(m) \o RequestsOf(k)
           /\ ObjectsOf(m \o k, t) = ObjectsOf(m, t) \o ObjectsOf(k, t)
           /\ MessagesOK(m, t) /\ MessagesOK(k, t) => MessagesOK(m \o k, t)
           /\ m \o k \in Seq(Messages)
<1>1. /\ m \o k \in Seq(Messages) /\ DOMAIN (m \o k) = 1..Len(m) + Len(k)
      /\ DOMAIN m = 1..Len(m) /\ DOMAIN k = 1..Len(k) /\ Len(m) \in Nat /\ Len(k) \in Nat
      /\ \A i \in 1..Len(m) + Len(k) : (m \o k)[i] = IF i <= Len(m) THEN m[i] ELSE k[i - Len(m)]
  OBVIOUS
<1>2. PICK j : j = m \o k
  OBVIOUS
<1>3. RequestsOf(m) = [i \in 1..Len(m) |-> m[i].request] /\ RequestsOf(k) = [i \in 1..Len(k) |-> k[i].request]
        /\ RequestsOf(j) = [i \in 1..Len(m) + Len(k) |-> j[i].request]
  BY <1>1, <1>2 DEF RequestsOf
<1>4. RequestsOf(j) = RequestsOf(m) \o RequestsOf(k)
  BY <1>1, <1>2, <1>3
<1>5. /\ ObjectsOf(m, t) = [i \in 1..Len(m) |-> IF m[i].DispatchNext THEN t[m[i].request] ELSE None]
      /\ ObjectsOf(k, t) = [i \in 1..Len(k) |-> IF k[i].DispatchNext THEN t[k[i].request] ELSE None]
      /\ ObjectsOf(j, t) = [i \in 1..Len(m) + Len(k) |-> IF j[i].DispatchNext THEN t[j[i].request] ELSE None]
  BY <1>1, <1>2 DEF ObjectsOf
<1>6. ObjectsOf(j, t) = ObjectsOf(m, t) \o ObjectsOf(k, t)
  BY <1>1, <1>2, <1>5
<1>7. ASSUME MessagesOK(m, t), MessagesOK(k, t) PROVE MessagesOK(j, t)
  BY <1>1, <1>2, <1>7 DEF MessagesOK
<1>8. QED
  BY <1>1, <1>2, <1>4, <1>6, <1>7

LEMMA NoticeLists ==
    ASSUME NEW d \in Seq(Requests), NEW t
    PROVE  /\ Notices(d) \in Seq(Messages) /\ RequestsOf(Notices(d)) = d
           /\ Inside(ObjectsOf(Notices(d), t), Objects) = {}
           /\ (\A i \in DOMAIN d : t[d[i]] # None) => MessagesOK(Notices(d), t)
<1>1. DOMAIN d = 1..Len(d) /\ Len(d) \in Nat /\ \A i \in DOMAIN d : d[i] \in Requests
  OBVIOUS
<1>2. PICK m : m = Notices(d)
  OBVIOUS
<1>3. m = [i \in 1..Len(d) |-> Notice(d[i])]
  BY <1>1, <1>2 DEF Notices
<1>4. \A i \in DOMAIN d : Notice(d[i]) \in Messages /\ Notice(d[i]).request = d[i] /\ ~Notice(d[i]).DispatchNext
  BY <1>1 DEF Notice, Messages
<1>5. m \in Seq(Messages) /\ DOMAIN m = DOMAIN d /\ \A i \in DOMAIN d : m[i] = Notice(d[i])
  BY <1>1, <1>3, <1>4
<1>6. RequestsOf(m) = d
  BY <1>1, <1>4, <1>5 DEF RequestsOf
<1>7. \A i \in DOMAIN m : ObjectsOf(m, t)[i] = None
  BY <1>4, <1>5 DEF ObjectsOf
<1>8. Inside(ObjectsOf(m, t), Objects) = {}
  BY <1>7, AsyncAssumption DEF Inside, ObjectsOf
<1>9. (\A i \in DOMAIN d : t[d[i]] # None) => MessagesOK(m, t)
  BY <1>1, <1>4, <1>5 DEF MessagesOK
<1>10. QED
  BY <1>2, <1>5, <1>6, <1>8, <1>9

LEMMA OneMessage ==
    ASSUME NEW m \in Messages, NEW t
    PROVE  /\ RequestsOf(<<m>>) = <<m.request>>
           /\ ObjectsOf(<<m>>, t) = <<IF m.DispatchNext THEN t[m.request] ELSE None>>
           /\ <<m>> \in Seq(Messages)
           /\ MessagesOK(<<m>>, t) <=> (m = BREAK \/ (m.request \in Requests /\ t[m.request] # None))
  BY DEF RequestsOf, ObjectsOf, MessagesOK

\* A sequence given by its elements.
Table(f, k) == f = [i \in 1..k |-> f[i]]
Follows(g, f, k) == \A i \in 1..k - 1 : g[i] = f[i + 1]

LEMMA BeheadedTable ==
    ASSUME NEW k \in Nat, k >= 1, NEW f, NEW g, Table(f, k), Table(g, k - 1), Follows(g, f, k)
    PROVE  f # <<>> /\ g = Tail(f) /\ Head(f) = f[1]
<1>1. PICK S : S = {f[i] : i \in 1..k}
  OBVIOUS
<1>2. f \in Seq(S) /\ Len(f) = k
  BY <1>1 DEF Table
<1>3. f # <<>>
  BY <1>2
<1>4. PICK j : j = Tail(f)
  OBVIOUS
<1>5. j \in Seq(S) /\ Len(j) = k - 1 /\ \A i \in 1 .. Len(j) : j[i] = f[i + 1]
  BY <1>2, <1>3, <1>4, HeadTailProperties
<1>6. Table(j, k - 1)
  BY <1>5 DEF Table
<1>7. g = j
  BY <1>5, <1>6 DEF Table, Follows
<1>8. QED
  BY <1>2, <1>3, <1>4, <1>7

LEMMA BeheadedMessages ==
    ASSUME NEW m \in Seq(Messages), m # <<>>, NEW t
    PROVE  /\ RequestsOf(m) # <<>> /\ Head(RequestsOf(m)) = Head(m).request
           /\ RequestsOf(Tail(m)) = Tail(RequestsOf(m))
           /\ ObjectsOf(m, t) # <<>>
           /\ Head(ObjectsOf(m, t)) = IF Head(m).DispatchNext THEN t[Head(m).request] ELSE None
           /\ ObjectsOf(Tail(m), t) = Tail(ObjectsOf(m, t))
           /\ MessagesOK(m, t) => MessagesOK(Tail(m), t)
           /\ Tail(m) \in Seq(Messages) /\ Head(m) \in Messages
<1>1. /\ Head(m) \in Messages /\ Tail(m) \in Seq(Messages) /\ Head(m) = m[1] /\ Len(m) \in Nat /\ Len(m) >= 1
      /\ DOMAIN m = 1..Len(m) /\ DOMAIN Tail(m) = 1..Len(m) - 1 /\ \A i \in 1..Len(m) - 1 : Tail(m)[i] = m[i + 1]
  OBVIOUS
<1>2. PICK j : j = Tail(m)
  OBVIOUS
<1>3. RequestsOf(m) = [i \in 1..Len(m) |-> m[i].request] /\ RequestsOf(j) = [i \in 1..Len(m) - 1 |-> j[i].request]
  BY <1>1, <1>2 DEF RequestsOf
<1>4. RequestsOf(m) # <<>> /\ Head(RequestsOf(m)) = m[1].request /\ RequestsOf(j) = Tail(RequestsOf(m))
  BY <1>1, <1>3, <1>2
<1>5. /\ ObjectsOf(m, t) = [i \in 1..Len(m) |-> IF m[i].DispatchNext THEN t[m[i].request] ELSE None]
      /\ ObjectsOf(j, t) = [i \in 1..Len(m) - 1 |-> IF j[i].DispatchNext THEN t[j[i].request] ELSE None]
  BY <1>1, <1>2 DEF ObjectsOf
<1>6. /\ ObjectsOf(m, t) # <<>> /\ ObjectsOf(j, t) = Tail(ObjectsOf(m, t))
      /\ Head(ObjectsOf(m, t)) = IF m[1].DispatchNext THEN t[m[1].request] ELSE None
  BY <1>1, <1>5, <1>2, BeheadedTable DEF Table, Follows
<1>7. MessagesOK(m, t) => MessagesOK(j, t)
  BY <1>1, <1>2 DEF MessagesOK
<1>8. QED
  BY <1>1, <1>2, <1>4, <1>6, <1>7

----------------------------------------------------------------------------
(* Types and control: what an action leaves alone.                         *)

LEMMA TypesKept ==
    ASSUME Typed
    PROVE  /\ UNCHANGED tables => TablesTyped'
           /\ UNCHANGED objects => ObjectsTyped'
           /\ UNCHANGED threads => ThreadsTyped'
           /\ UNCHANGED wait => WaitTyped'
           /\ UNCHANGED users => UsersTyped'
           /\ UNCHANGED history => HistoryTyped'
  BY DEF Typed, TablesTyped, ObjectsTyped, ThreadsTyped, WaitTyped, UsersTyped, HistoryTyped,
         tables, objects, threads, wait, users, history

LEMMA ControlKept ==
    ASSUME ControlInv, UNCHANGED target
    PROVE  /\ UNCHANGED glQueue => PostedOK'
           /\ UNCHANGED frames => FramesOK'
           /\ UNCHANGED <<frames, glAsyncWaiting>> => Nested'
           /\ UNCHANGED users => JobsOK'
           /\ Numbered(target)'
           /\ UNCHANGED glActionQueues => QueuesOK'
  BY DEF ControlInv, PostedOK, FramesOK, Nested, JobsOK, users, Numbered, QueuesOK

\* What is going on while the system is open, and when it is not.
LEMMA ClosingKept ==
    ASSUME Typed, ControlInv
    PROVE  /\ frames # <<>> => state \notin {"closed", "done"}
           /\ (\E u \in Users : pc[u] = "submitting") => state \notin {"closed", "done"}
           /\ (\E r \in Requests : worker[r] \notin {"none", "finished"}) => state # "done"
           /\ state \notin {"closed", "done"} /\ UNCHANGED state => Closing'
           /\ state # "done" /\ UNCHANGED <<state, frames, pc>> => Closing'
           /\ UNCHANGED <<state, frames, tables, users, worker>> => Closing'
  BY DEF ControlInv, Closing, glmActionQueue, ShutdownQuiet, tables, users

\* A step of the frame that is on top.
LEMMA TopControl ==
    ASSUME Typed, ControlInv, frames # <<>>, NEW f, SetTop(f), f \in FrameType, FrameOK(f, target),
           f.loop = Top.loop, UNCHANGED <<target, glAsyncWaiting>>
    PROVE  frames' \in Seq(FrameType) /\ FramesOK' /\ Nested'
<1>1. PICK k : k = Len(frames)
  OBVIOUS
<1>2. /\ Len(frames') = k /\ DOMAIN frames' = DOMAIN frames /\ frames'[k] = f /\ k \in DOMAIN frames
      /\ frames[k] = Top /\ \A i \in DOMAIN frames : i # k => frames'[i] = frames[i]
      /\ DOMAIN frames = 1..k /\ k \in Levels /\ frames' \in Seq(FrameType)
  BY TopSet, TopIs, <1>1
<1>3. FramesOK'
  BY <1>2 DEF ControlInv, FramesOK
<1>4. Nested'
  BY <1>2, <1>1 DEF ControlInv, Nested
<1>5. QED
  BY <1>2, <1>3, <1>4

\* Messages are sent.
LEMMA Sent ==
    ASSUME Typed, ControlInv, NEW m \in Seq(Messages), MessagesOK(m, target), SendMessages(m),
           UNCHANGED target
    PROVE  glQueue' \in Seq(Messages) /\ PostedOK'
  BY JoinLists DEF Typed, ControlInv, PostedOK, SendMessages

\* The queue of an object, as messages.
LEMMA QueueNotices ==
    ASSUME Typed, ControlInv, NEW o \in Objects
    PROVE  /\ glActionQueues[o] \in Seq(Requests)
           /\ Notices(glActionQueues[o]) \in Seq(Messages) /\ MessagesOK(Notices(glActionQueues[o]), target)
           /\ RequestsOf(Notices(glActionQueues[o])) = glActionQueues[o]
           /\ Inside(ObjectsOf(Notices(glActionQueues[o]), target), Objects) = {}
  BY AsyncAssumption, NoticeLists DEF Typed, TablesTyped, ControlInv, QueuesOK, QueueOK

LEMMA NoMessages ==
    /\ <<>> \in Seq(Messages) /\ RequestsOf(<<>>) = <<>>
    /\ \A t : MessagesOK(<<>>, t) /\ ObjectsOf(<<>>, t) = <<>>
  BY DEF RequestsOf, MessagesOK, ObjectsOf

\* An object whose queue is emptied.
LEMMA QueueTaken ==
    ASSUME Typed, ControlInv, NEW o \in Objects, UNCHANGED target,
           glActionQueues' = [glActionQueues EXCEPT ![o] = <<>>]
    PROVE  glActionQueues' \in [Objects -> Seq(Requests)] /\ QueuesOK'
  BY DEF Typed, TablesTyped, ControlInv, QueuesOK, QueueOK

\* An object is freed, or forgotten.
LEMMA Forgotten ==
    ASSUME Typed, ControlInv, NEW o \in Objects, ForgetObject(o), UNCHANGED target
    PROVE  TablesTyped' /\ QueuesOK'
  BY QueueTaken DEF ForgetObject, Typed, TablesTyped

\* The system stays quiet after its end.
Quiet == state = "done" =>
    glActiveAsyncObjects' \subseteq glActiveAsyncObjects
      /\ \A o \in Objects : glActionQueues[o] = <<>> => glActionQueues'[o] = <<>>

LEMMA QuietKept ==
    ASSUME Typed, ControlInv, Quiet, UNCHANGED <<state, frames, worker>>,
           \A u \in Users : pc'[u] = "submitting" => pc[u] = "submitting"
    PROVE  Closing'
  BY DEF ControlInv, Closing, ShutdownQuiet, glmActionQueue, Quiet

LEMMA Freed ==
    ASSUME Typed, ControlInv, NEW o \in Objects, object_free(o), UNCHANGED target
    PROVE  /\ TablesTyped' /\ QueuesOK' /\ glQueue' \in Seq(Messages) /\ PostedOK' /\ Quiet
           /\ object' \in [Objects -> {"alive", "marked", "gone"}]
           /\ object' = [object EXCEPT ![o] = "gone"] /\ ForgetObject(o)
           /\ SendMessages(Notices(glActionQueues[o])) /\ glmActionQueue
  BY Forgotten, QueueNotices, Sent DEF object_free, ForgetObject, Quiet, Typed, TablesTyped,
    ObjectsTyped

\* The effect of ReleaseObject() on the tables and messages.
Freeing(o) ==
    \/ UNCHANGED <<object, tables, glQueue>>
    \/ /\ object[o] = "marked" /\ object' = [object EXCEPT ![o] = "gone"] /\ ForgetObject(o)
       /\ SendMessages(Notices(glActionQueues[o])) /\ glmActionQueue

LEMMA Released ==
    ASSUME Typed, ControlInv, NEW o \in Objects, ReleaseObject(o), UNCHANGED target
    PROVE  /\ TablesTyped' /\ ObjectsTyped' /\ QueuesOK' /\ glQueue' \in Seq(Messages) /\ PostedOK' /\ Quiet
           /\ Freeing(o) /\ holder' = [holder EXCEPT ![o] = None]
<1>1. holder' = [holder EXCEPT ![o] = None] /\ holder' \in [Objects -> Requests \cup Users \cup {None}]
  BY DEF ReleaseObject, Typed, ObjectsTyped
<1>2. CASE object[o] = "marked" /\ object_free(o)
  BY <1>1, <1>2, Freed DEF ObjectsTyped, Freeing
<1>3. CASE UNCHANGED <<object, tables, glQueue>>
  BY <1>3, TypesKept, ControlKept, <1>1 DEF tables, Typed, ObjectsTyped, Quiet, Freeing
<1>4. QED
  BY <1>2, <1>3 DEF ReleaseObject

----------------------------------------------------------------------------
(* Types and control: the users of the interface.                          *)

\* A request is made: what was said about the others still holds.
LEMMA Grown ==
    ASSUME NEW t \in [Requests -> Things], NEW r \in Requests, t[r] = None, NEW o \in Objects, NEW t2,
           t2 = [t EXCEPT ![r] = o]
    PROVE  /\ \A m : MessagesOK(m, t) => MessagesOK(m, t2)
           /\ \A f \in FrameType : FrameOK(f, t) => FrameOK(f, t2)
           /\ \A status, j : JobOK(status, j, t) => JobOK(status, j, t2)
           /\ \A q : \A x \in Objects : QueueOK(q, t, x) => QueueOK(q, t2, x)
<1>1. \A q \in Requests : t[q] # None => t2[q] = t[q] /\ q # r
  OBVIOUS
<1>2. None \notin Objects
  BY AsyncAssumption
<1>3. \A m : MessagesOK(m, t) => MessagesOK(m, t2)
  BY <1>1 DEF MessagesOK
<1>4. ASSUME NEW f \in FrameType, FrameOK(f, t) PROVE FrameOK(f, t2)
  <2>1. MessagesOK(f.batch, t2)
    BY <1>3, <1>4 DEF FrameOK
  <2>2. ASSUME InLaunch(f) PROVE f.next \in Requests /\ t2[f.next] = t2[Head(f.batch).request]
    BY <1>4, <2>2, AsyncAssumption, <1>1 DEF FrameOK, InLaunch, FrameType, MessagesOK, BREAK,
      Requests
  <2>3. QED
    BY <1>4, <2>1, <2>2 DEF FrameOK
<1>5. \A status, j : JobOK(status, j, t) => JobOK(status, j, t2)
  BY <1>1, <1>2 DEF JobOK
<1>6. ASSUME NEW q, NEW x \in Objects, QueueOK(q, t, x) PROVE QueueOK(q, t2, x)
  <2>1. ASSUME NEW i \in DOMAIN q PROVE t2[q[i]] = x
    BY <1>2, <1>6 DEF QueueOK
  <2>2. QED
    BY <2>1 DEF QueueOK
<1>7. QED
  BY <1>3, <1>4, <1>5, <1>6

\* What AsyncAction() does, with the request that it makes.
Submits(u, o, r) ==
    /\ state \notin {"closed", "done"} /\ pc[u] = "idle" /\ glmActionQueue /\ object[o] = "alive"
    /\ target[r] = None /\ (\A q \in 1 .. r - 1 : target[q] # None)
    /\ target' = [target EXCEPT ![r] = o]
    /\ \/ /\ o \in glActiveAsyncObjects
          /\ glActionQueues' = [glActionQueues EXCEPT ![o] = Append(@, r)]
          /\ UNCHANGED <<glActiveAsyncObjects, ASYNC_ACTIVE, users>>
       \/ /\ o \notin glActiveAsyncObjects
          /\ glActiveAsyncObjects' = glActiveAsyncObjects \cup {o}
          /\ ASYNC_ACTIVE' = ASYNC_ACTIVE \cup {o}
          /\ pc' = [pc EXCEPT ![u] = "submitting"]
          /\ job' = [job EXCEPT ![u] = [NoJob EXCEPT !.object = o, !.thread = r]]
          /\ UNCHANGED glActionQueues
    /\ UNCHANGED <<glCancelledAsyncObjects, objects, threads, glQueue, frames, wait, state, history>>

LEMMA AsyncAction_Submits ==
    ASSUME NEW u \in Users, NEW o \in Objects, AsyncAction(u, o)
    PROVE  \E r \in Requests : Submits(u, o, r)
  BY DEF AsyncAction, Submits, Open, Runs, push_back

LEMMA Submits_Control ==
    ASSUME Typed, ControlInv, NEW u \in Users, NEW o \in Objects, NEW r \in Requests, Submits(u, o, r)
    PROVE  Typed' /\ ControlInv'
<1>1. target \in [Requests -> Things] /\ target[r] = None /\ target' = [target EXCEPT ![r] = o]
  BY DEF Typed, Things, Submits
<1>2. /\ \A m : MessagesOK(m, target) => MessagesOK(m, target')
      /\ \A f \in FrameType : FrameOK(f, target) => FrameOK(f, target')
      /\ \A status, j : JobOK(status, j, target) => JobOK(status, j, target')
      /\ \A q : \A x \in Objects : QueueOK(q, target, x) => QueueOK(q, target', x)
  BY <1>1, Grown
<1>3. PostedOK' /\ UNCHANGED <<glQueue, frames, state, glAsyncWaiting>>
  BY <1>2 DEF ControlInv, PostedOK, Submits, wait
<1>4. FramesOK'
  BY <1>2, <1>3 DEF ControlInv, FramesOK, Typed
<1>5. Nested' /\ Closing'
  BY <1>3, ClosingKept DEF ControlInv, Nested, Submits
<1>6. Numbered(target)'
  BY <1>1 DEF ControlInv, Numbered, Submits, Requests, Typed
<1>7. JobsOK' /\ UsersTyped'
  <2>1. CASE UNCHANGED users
    BY <1>2, <2>1, TypesKept DEF ControlInv, JobsOK, users
  <2>2. CASE /\ pc' = [pc EXCEPT ![u] = "submitting"]
             /\ job' = [job EXCEPT ![u] = [NoJob EXCEPT !.object = o, !.thread = r]]
    <3>1. PICK j : j = [NoJob EXCEPT !.object = o, !.thread = r]
      OBVIOUS
    <3>2. j \in JobType /\ j.object = o /\ j.thread = r /\ j.drained = <<>>
      <4>1. j = [object |-> o, thread |-> r, running |-> {}, drained |-> <<>>]
        BY <3>1 DEF NoJob
      <4>2. <<>> \in Seq(Requests)
        OBVIOUS
      <4>3. QED
        BY <4>1, <4>2 DEF JobType
    <3>3. JobOK("submitting", j, target')
      BY <1>1, <3>2 DEF JobOK
    <3>4. UsersTyped'
      BY <2>2, <3>1, <3>2 DEF Typed, UsersTyped
    <3>5. JobsOK'
      BY <1>2, <2>2, <3>1, <3>3 DEF ControlInv, JobsOK, Typed, UsersTyped
    <3>6. QED
      BY <3>4, <3>5
  <2>3. QED
    BY <2>1, <2>2 DEF Submits
<1>8. TablesTyped' /\ QueuesOK' /\ ASYNC_ACTIVE' \subseteq Objects
  <2>1. CASE UNCHANGED glActionQueues
    BY <1>2, <2>1 DEF Typed, TablesTyped, Submits, ControlInv, QueuesOK
  <2>2. CASE glActionQueues' = [glActionQueues EXCEPT ![o] = Append(@, r)] /\ UNCHANGED <<glActiveAsyncObjects, ASYNC_ACTIVE>>
    <3>1. PICK q : q = Append(glActionQueues[o], r)
      OBVIOUS
    <3>2. q \in Seq(Requests) /\ QueueOK(q, target', o)
      BY <1>2, <3>1, <1>1 DEF Typed, TablesTyped, ControlInv, QueuesOK, QueueOK
    <3>3. QED
      BY <1>2, <2>2, <3>1, <3>2 DEF Typed, TablesTyped, ControlInv, QueuesOK, Submits
  <2>3. QED
    BY <2>1, <2>2 DEF Submits
<1>9. ObjectsTyped' /\ ThreadsTyped' /\ WaitTyped' /\ HistoryTyped'
  BY TypesKept DEF Submits
<1>10. target' \in [Requests -> Objects \cup {None}]
  BY <1>1 DEF Typed
<1>11. QED
  BY <1>3, <1>4, <1>5, <1>6, <1>7, <1>8, <1>9, <1>10 DEF Typed, ControlInv

\* A user of the interface goes on to another step, or is done.
LEMMA UserControl ==
    ASSUME Typed, ControlInv, NEW u \in Users, NEW status \in {"idle", "wake", "drain", "notify"}, NEW j \in JobType,
           JobOK(status, j, target), pc' = [pc EXCEPT ![u] = status], job' = [job EXCEPT ![u] = j],
           UNCHANGED target
    PROVE  UsersTyped' /\ JobsOK' /\ \A v \in Users : pc'[v] = "submitting" => pc[v] = "submitting"
  BY DEF Typed, UsersTyped, ControlInv, JobsOK

LEMMA NoJobOK == NoJob \in JobType /\ \A t : JobOK("idle", NoJob, t)
  BY DEF NoJob, JobType, JobOK

\* AsyncWait() is counted, and perhaps told.
LEMMA Counts ==
    ASSUME Typed, ControlInv, NEW o \in Objects, NEW change \in Int, async_wait_callback(o, change),
           UNCHANGED target
    PROVE  WaitTyped' /\ glQueue' \in Seq(Messages) /\ PostedOK' /\ UNCHANGED glAsyncWaiting
<1>1. PICK m : m = IF WaitedFor(o) /\ LastCounted THEN <<BREAK>> ELSE <<>>
  OBVIOUS
<1>2. BREAK \in Messages
  BY DEF BREAK, Messages
<1>3. m \in Seq(Messages) /\ MessagesOK(m, target)
  BY <1>1, <1>2, NoMessages, OneMessage
<1>4. SendMessages(m)
  BY <1>1 DEF async_wait_callback
<1>5. WaitTyped' /\ UNCHANGED glAsyncWaiting
  BY DEF async_wait_callback, Typed, WaitTyped
<1>6. QED
  BY <1>3, <1>4, <1>5, Sent

LEMMA Launch_Control ==
    ASSUME Typed, ControlInv, NEW u \in Users, Launch(u)
    PROVE  Typed' /\ ControlInv'
<1>1. pc[u] = "submitting" /\ job[u].object \in Objects /\ job[u].thread \in Requests
  BY DEF Launch, ControlInv, JobsOK, JobOK
<1>2. /\ UNCHANGED <<tables, ASYNC_ACTIVE, objects, target, STOPPING, glAsyncObjectThreads, frames, state, history>>
      /\ worker' = [worker EXCEPT ![job[u].thread] = "start"]
      /\ pc' = [pc EXCEPT ![u] = "idle"] /\ job' = [job EXCEPT ![u] = NoJob]
      /\ async_wait_callback(job[u].object, 1)
  BY DEF Launch, CountNew
<1>3. WaitTyped' /\ glQueue' \in Seq(Messages) /\ PostedOK' /\ UNCHANGED glAsyncWaiting
  BY <1>1, <1>2, Counts
<1>4. UsersTyped' /\ JobsOK'
  BY <1>2, NoJobOK, UserControl
<1>5. ThreadsTyped'
  BY <1>1, <1>2 DEF Typed, ThreadsTyped
<1>6. TablesTyped' /\ ObjectsTyped' /\ HistoryTyped'
  BY <1>2, TypesKept
<1>7. FramesOK' /\ Nested' /\ Numbered(target)' /\ QueuesOK'
  BY <1>2, <1>3, ControlKept DEF tables
<1>8. Closing'
  BY <1>1, <1>2, ClosingKept
<1>9. QED
  BY <1>2, <1>3, <1>4, <1>5, <1>6, <1>7, <1>8 DEF Typed, ControlInv

LEMMA AsyncCancel_Control ==
    ASSUME Typed, ControlInv, NEW u \in Users, NEW o \in Objects, AsyncCancel(u, o)
    PROVE  Typed' /\ ControlInv'
<1>1. PICK j : j = [object |-> o, thread |-> glAsyncObjectThreads[o],
          running |-> {r \in Requests : target[r] = o /\ worker[r] = "action"}, drained |-> <<>>]
  OBVIOUS
<1>2. /\ pc' = [pc EXCEPT ![u] = "wake"] /\ job' = [job EXCEPT ![u] = j]
      /\ UNCHANGED <<ASYNC_ACTIVE, objects, target, worker, glAsyncObjectThreads, frames, wait, state,
                     glActiveAsyncObjects, glActionQueues, STOPPING, glQueue, callbacks>>
      /\ glCancelledAsyncObjects' = glCancelledAsyncObjects \cup ({o} \cap glActiveAsyncObjects)
      /\ doomed' = doomed \cup Range(glActionQueues[o])
  BY <1>1 DEF AsyncCancel, CancelElsewhere
<1>3. j \in JobType /\ JobOK("wake", j, target)
  BY <1>1 DEF Typed, ThreadsTyped, JobType, JobOK
<1>4. UsersTyped' /\ JobsOK' /\ \A v \in Users : pc'[v] = "submitting" => pc[v] = "submitting"
  BY <1>2, <1>3, UserControl
<1>5. TablesTyped' /\ ThreadsTyped'
  BY <1>2 DEF Typed, TablesTyped, ThreadsTyped
<1>6. HistoryTyped'
  BY <1>2 DEF Typed, TablesTyped, Range, HistoryTyped
<1>7. ObjectsTyped' /\ WaitTyped'
  BY <1>2, TypesKept
<1>8. PostedOK' /\ FramesOK' /\ Nested' /\ Numbered(target)' /\ QueuesOK'
  BY <1>2, ControlKept DEF wait
<1>9. Closing'
  BY <1>2, <1>4, QuietKept DEF Quiet
<1>10. QED
  BY <1>2, <1>4, <1>5, <1>6, <1>7, <1>8, <1>9 DEF Typed, ControlInv

LEMMA WakeWorker_Control ==
    ASSUME Typed, ControlInv, NEW u \in Users, WakeWorker(u)
    PROVE  Typed' /\ ControlInv'
<1>1. /\ pc[u] = "wake" /\ pc' = [pc EXCEPT ![u] = "drain"]
      /\ STOPPING' = STOPPING \cup {r \in Requests : r = job[u].thread /\ worker[r] # "finished"}
      /\ UNCHANGED <<ASYNC_ACTIVE, objects, target, worker, glAsyncObjectThreads, frames, wait, state,
                     tables, job, glQueue, history>>
  BY DEF WakeWorker, CancelElsewhere
<1>2. job[u] \in JobType /\ JobOK("drain", job[u], target) /\ job' = [job EXCEPT ![u] = job[u]]
  BY <1>1 DEF Typed, UsersTyped, ControlInv, JobsOK, JobOK
<1>3. UsersTyped' /\ JobsOK' /\ \A v \in Users : pc'[v] = "submitting" => pc[v] = "submitting"
  BY <1>1, <1>2, UserControl
<1>4. ThreadsTyped'
  BY <1>1 DEF Typed, ThreadsTyped
<1>5. TablesTyped' /\ ObjectsTyped' /\ WaitTyped' /\ HistoryTyped'
  BY <1>1, TypesKept
<1>6. PostedOK' /\ FramesOK' /\ Nested' /\ Numbered(target)' /\ QueuesOK'
  BY <1>1, ControlKept DEF wait, tables
<1>7. Closing'
  BY <1>1, <1>3, QuietKept DEF Quiet, tables
<1>8. QED
  BY <1>1, <1>3, <1>4, <1>5, <1>6, <1>7 DEF Typed, ControlInv

LEMMA DrainCancelled_Control ==
    ASSUME Typed, ControlInv, NEW u \in Users, DrainCancelled(u)
    PROVE  Typed' /\ ControlInv'
<1>1. PICK o, j : o = job[u].object /\ j = [job[u] EXCEPT !.drained = glActionQueues[o]]
  OBVIOUS
<1>2. /\ pc[u] = "drain" /\ pc' = [pc EXCEPT ![u] = "notify"] /\ job' = [job EXCEPT ![u] = j]
      /\ glActionQueues' = [glActionQueues EXCEPT ![o] = <<>>]
      /\ UNCHANGED <<ASYNC_ACTIVE, objects, target, worker, glAsyncObjectThreads, frames, wait, state,
                     glActiveAsyncObjects, glCancelledAsyncObjects, STOPPING, glQueue, history>>
  BY <1>1 DEF DrainCancelled, TakeQueue, CancelElsewhere
<1>3. o \in Objects
  BY <1>1, <1>2 DEF ControlInv, JobsOK, JobOK
<1>4. j \in JobType /\ JobOK("notify", j, target)
  BY <1>3, <1>1 DEF Typed, UsersTyped, TablesTyped, JobType, JobOK
<1>5. UsersTyped' /\ JobsOK' /\ \A v \in Users : pc'[v] = "submitting" => pc[v] = "submitting"
  BY <1>2, <1>4, UserControl
<1>6. TablesTyped' /\ QueuesOK'
  BY <1>2, <1>3, QueueTaken DEF Typed, TablesTyped
<1>7. ObjectsTyped' /\ WaitTyped' /\ HistoryTyped' /\ ThreadsTyped'
  BY <1>2, TypesKept DEF threads
<1>8. PostedOK' /\ FramesOK' /\ Nested' /\ Numbered(target)'
  BY <1>2, ControlKept DEF wait
<1>9. Closing'
  BY <1>2, <1>3, <1>5, QuietKept DEF Quiet, Typed, TablesTyped
<1>10. QED
  BY <1>2, <1>5, <1>6, <1>7, <1>8, <1>9 DEF Typed, ControlInv

LEMMA NotifyCancelled_Control ==
    ASSUME Typed, ControlInv, NEW u \in Users, NotifyCancelled(u),
           \A i \in DOMAIN job[u].drained : target[job[u].drained[i]] # None
    PROVE  Typed' /\ ControlInv'
<1>1. /\ pc[u] = "notify" /\ pc' = [pc EXCEPT ![u] = "idle"] /\ job' = [job EXCEPT ![u] = NoJob]
      /\ SendMessages(Notices(job[u].drained))
      /\ UNCHANGED <<ASYNC_ACTIVE, objects, target, worker, glAsyncObjectThreads, frames, wait, state,
                     tables, STOPPING, history>>
  BY DEF NotifyCancelled, CancelElsewhere
<1>2. UsersTyped' /\ JobsOK' /\ \A v \in Users : pc'[v] = "submitting" => pc[v] = "submitting"
  BY <1>1, NoJobOK, UserControl
<1>3. glQueue' \in Seq(Messages) /\ PostedOK'
  BY NoticeLists, <1>1, Sent DEF Typed, UsersTyped, JobType
<1>4. TablesTyped' /\ ObjectsTyped' /\ WaitTyped' /\ HistoryTyped' /\ ThreadsTyped'
  BY <1>1, TypesKept DEF threads
<1>5. FramesOK' /\ Nested' /\ Numbered(target)' /\ QueuesOK'
  BY <1>1, ControlKept DEF wait, tables
<1>6. Closing'
  BY <1>1, <1>2, QuietKept DEF Quiet, tables
<1>7. QED
  BY <1>1, <1>2, <1>3, <1>4, <1>5, <1>6 DEF Typed, ControlInv

----------------------------------------------------------------------------
(* Types and control: what other code does, and the workers.               *)

LEMMA Outstanding_Typed ==
    ASSUME Typed, ControlInv, NEW o \in Objects
    PROVE  Outstanding(o) \subseteq Requests
  BY DEF Typed, TablesTyped, Range, ControlInv, FramesOK, FrameOK, InLaunch, Outstanding

LEMMA AsyncWait_Control ==
    ASSUME Typed, ControlInv, NEW targets \in SUBSET Objects, AsyncWait(targets)
    PROVE  Typed' /\ ControlInv'
<1>1. /\ glAsyncWaiting' = TRUE /\ glAsyncWaitTargets' = targets
      /\ glAsyncWaitCounter' = Pending(targets) /\ covered' = UNION {Outstanding(o) : o \in targets}
      /\ frames' = Append(frames, Frame("wait")) /\ ~glAsyncWaiting
      /\ frames # <<>> => Top.at = "callback"
      /\ state \notin {"closed", "done"}
      /\ UNCHANGED <<tables, ASYNC_ACTIVE, objects, worker, glQueue, state, history, target, STOPPING,
                     glAsyncObjectThreads, users>>
  BY DEF AsyncWait, Runs, MainElsewhere
<1>2. frames \in Seq(FrameType) /\ Nested /\ Len(frames) \in Nat
  BY DEF Typed, ControlInv
<1>3. Len(frames) < 2 /\ (Len(frames) = 1 => frames[1].loop = "events" /\ frames[1].at = "callback")
  <2>1. Len(frames) # 2
    <3>1. ASSUME Len(frames) = 2 PROVE FALSE
      BY <1>2, <3>1, <1>1 DEF Nested
    <3>2. QED
      BY <3>1
  <2>2. ASSUME Len(frames) = 1 PROVE frames[1].loop = "events" /\ frames[1].at = "callback"
    <3>1. 1 \in DOMAIN frames /\ frames[1] \in FrameType /\ frames # <<>>
      BY <1>2, <2>2
    <3>2. Top = frames[1]
      BY <2>2 DEF Top, Last
    <3>3. QED
      BY <1>1, <1>2, <3>1, <3>2 DEF Nested, FrameType
  <2>3. PICK k : k = Len(frames)
    OBVIOUS
  <2>4. k \in Nat /\ k <= 2 /\ k # 2
    BY <1>2, <2>1, <2>3 DEF Nested
  <2>5. k < 2
    BY <2>4
  <2>6. QED
    BY <2>2, <2>3, <2>5
<1>4. /\ frames' \in Seq(FrameType) /\ Len(frames') = Len(frames) + 1
      /\ \A i \in DOMAIN frames : frames'[i] = frames[i]
      /\ frames'[Len(frames) + 1] = Frame("wait")
      /\ DOMAIN frames' = DOMAIN frames \cup {Len(frames) + 1} /\ DOMAIN frames = 1..Len(frames)
      /\ FrameOK(Frame("wait"), target)
  BY <1>1, <1>3, Entered
<1>5. FramesOK'
  BY <1>1, <1>4 DEF ControlInv, FramesOK
<1>6. Nested'
  <2>1. Frame("wait").loop = "wait" /\ Len(frames) \in Nat
    BY <1>2 DEF Frame
  <2>2. Len(frames') <= 2 /\ (Len(frames') = 2 => frames'[1].loop = "events" /\ frames'[1].at = "callback"
                                                   /\ frames'[2].loop = "wait")
    <3>1. Len(frames') = 2 => Len(frames) = 1 /\ 1 \in DOMAIN frames
      <4>1. PICK k, n : k = Len(frames) /\ n = Len(frames')
        OBVIOUS
      <4>2. k \in Nat /\ n = k + 1 /\ DOMAIN frames = 1..k
        BY <1>4, <2>1, <4>1
      <4>3. n = 2 => k = 1
        BY <4>2
      <4>4. k = 1 => 1 \in 1..k
        OBVIOUS
      <4>5. QED
        BY <4>1, <4>2, <4>3, <4>4
    <3>2. QED
      BY <1>3, <1>4, <2>1, <3>1
  <2>3. \E i \in DOMAIN frames' : frames'[i].loop = "wait"
    BY <1>4, <2>1
  <2>4. QED
    BY <1>1, <2>2, <2>3 DEF Nested
<1>7. WaitTyped'
  <2>1. Pending(targets) \in Nat
    BY FS_Subset, AsyncAssumption, FS_CardinalityType DEF Pending
  <2>2. covered' \subseteq Requests
    BY <1>1, Outstanding_Typed
  <2>3. QED
    BY <1>1, <2>1, <2>2 DEF WaitTyped
<1>8. TablesTyped' /\ ObjectsTyped' /\ ThreadsTyped' /\ UsersTyped' /\ HistoryTyped'
  BY <1>1, TypesKept DEF threads
<1>9. PostedOK' /\ JobsOK' /\ Numbered(target)' /\ QueuesOK'
  BY <1>1, ControlKept DEF tables
<1>10. Closing'
  BY <1>1, ClosingKept
<1>11. QED
  BY <1>1, <1>4, <1>5, <1>6, <1>7, <1>8, <1>9, <1>10 DEF Typed, ControlInv

\* What leaves threads, frames and users alone, and the messages and tables in order.
LEMMA ElsewhereControl ==
    ASSUME Typed, ControlInv, Elsewhere, TablesTyped', QueuesOK', glQueue' \in Seq(Messages), PostedOK',
           ObjectsTyped', state' \in {"running", "stopping", "closed", "done"}, Closing'
    PROVE  Typed' /\ ControlInv'
  BY TypesKept, ControlKept DEF Elsewhere, wait, Typed, ControlInv

LEMMA Free_Control ==
    ASSUME Typed, ControlInv, NEW o \in Objects, Free(o)
    PROVE  Typed' /\ ControlInv'
<1>1. Elsewhere /\ UNCHANGED <<holder, state, target>>
  BY DEF Free, Elsewhere
<1>2. CASE object_free(o)
  BY <1>1, <1>2, Freed, QuietKept, ElsewhereControl DEF Elsewhere, threads, users, Typed,
    ObjectsTyped
<1>3. CASE object' = [object EXCEPT ![o] = "marked"] /\ UNCHANGED <<tables, glQueue>>
  BY <1>1, <1>3, TypesKept, ControlKept, ClosingKept, ElsewhereControl DEF Typed, ObjectsTyped,
    tables, Elsewhere, threads
<1>4. QED
  BY <1>2, <1>3 DEF Free

LEMMA Hold_Control ==
    ASSUME Typed, ControlInv, NEW u \in Users, NEW o \in Objects, Hold(u, o)
    PROVE  Typed' /\ ControlInv'
  BY TypesKept, ControlKept, ClosingKept, ElsewhereControl DEF Hold, Elsewhere, Typed, ObjectsTyped,
    tables, threads

LEMMA LetGo_Control ==
    ASSUME Typed, ControlInv, NEW u \in Users, NEW o \in Objects, LetGo(u, o)
    PROVE  Typed' /\ ControlInv'
  BY Released, QuietKept, ElsewhereControl DEF LetGo, Elsewhere, threads, users, Typed

LEMMA StopTask_Control ==
    ASSUME Typed, ControlInv, StopTask \/ CloseSubmissions
    PROVE  Typed' /\ ControlInv'
<1>1. Elsewhere /\ UNCHANGED <<tables, objects, glQueue>> /\ state' \in {"stopping", "closed"}
  BY DEF StopTask, CloseSubmissions
<1>2. Closing'
  BY DEF StopTask, CloseSubmissions, Elsewhere, Closing, glmActionQueue, users
<1>3. QED
  BY <1>1, <1>2, TypesKept, ControlKept, ElsewhereControl DEF Elsewhere, Typed, tables

LEMMA JoinThreads_Control ==
    ASSUME Typed, ControlInv, JoinThreads
    PROVE  Typed' /\ ControlInv'
<1>1. /\ state = "closed" /\ glmActionQueue /\ state' = "done"
      /\ \A r \in Requests : worker[r] \in {"none", "finished"}
      /\ glActiveAsyncObjects' = {} /\ glCancelledAsyncObjects' = {}
      /\ glActionQueues' = [o \in Objects |-> <<>>]
      /\ glAsyncObjectThreads' = [o \in Objects |-> None]
      /\ UNCHANGED <<ASYNC_ACTIVE, objects, target, worker, STOPPING, glQueue, frames, wait, users, history>>
  BY DEF JoinThreads
<1>2. TablesTyped' /\ ThreadsTyped'
  BY <1>1 DEF Typed, TablesTyped, ThreadsTyped
<1>3. ObjectsTyped' /\ WaitTyped' /\ UsersTyped' /\ HistoryTyped'
  BY <1>1, TypesKept
<1>4. PostedOK' /\ FramesOK' /\ Nested' /\ JobsOK' /\ Numbered(target)'
  BY <1>1, ControlKept DEF wait
<1>5. QueuesOK'
  BY <1>1 DEF QueuesOK, QueueOK
<1>6. Closing'
  BY <1>1 DEF Closing, ControlInv, ShutdownQuiet, glmActionQueue, users
<1>7. QED
  BY <1>1, <1>2, <1>3, <1>4, <1>5, <1>6 DEF Typed, ControlInv

\* The worker of a request that has been made goes on.
LEMMA WorkerControl ==
    ASSUME Typed, ControlInv, NEW r \in Requests, worker[r] \notin {"none", "finished"}, WorkerElsewhere,
           ThreadsTyped', ObjectsTyped', TablesTyped', QueuesOK', glQueue' \in Seq(Messages), PostedOK',
           HistoryTyped'
    PROVE  Typed' /\ ControlInv'
<1>1. Closing'
  BY ClosingKept DEF WorkerElsewhere, users
<1>2. QED
  BY <1>1, TypesKept, ControlKept DEF WorkerElsewhere, wait, Typed, ControlInv

LEMMA SimpleStep ==
    ASSUME Typed, ControlInv, NEW r \in Requests, worker[r] \notin {"none", "finished"}, WorkerElsewhere,
           ThreadsTyped', ObjectsTyped', UNCHANGED <<tables, glQueue, history>>
    PROVE  Typed' /\ ControlInv'
  BY TypesKept, ControlKept, WorkerControl DEF tables, WorkerElsewhere, Typed

LEMMA Worker_Control ==
    ASSUME Typed, ControlInv, NEW r \in Requests, WorkerStep(r), InWorker(r) => target[r] \in Objects
    PROVE  Typed' /\ ControlInv'
<1>1. CASE Register(r)
  BY <1>1, TypesKept, SimpleStep DEF Register, WorkerAt, WorkerGoto, Typed, ThreadsTyped
<1>2. CASE CheckStop(r)
  BY <1>2, TypesKept, SimpleStep DEF CheckStop, GiveUp, WorkerAt, WorkerGoto, Typed, ThreadsTyped
<1>3. CASE LockObject(r)
  <2>1. /\ worker[r] = "lock" /\ WorkerElsewhere /\ UNCHANGED <<tables, object, glQueue, history>>
        /\ ThreadsTyped'
    BY <1>3 DEF LockObject, WorkerAt, WorkerGoto, Typed, ThreadsTyped
  <2>2. ObjectsTyped'
    BY <1>3 DEF LockObject, Typed, ObjectsTyped
  <2>3. QED
    BY <2>1, <2>2, SimpleStep
<1>4. CASE BeginAction(r)
  BY <1>4, TypesKept, SimpleStep DEF BeginAction, WorkerAt, WorkerGoto, Typed, ThreadsTyped
<1>5. CASE EndAction(r)
  BY <1>5, TypesKept, SimpleStep DEF EndAction, WorkerAt, WorkerGoto, Typed, ThreadsTyped
<1>6. CASE EndWork(r)
  BY <1>6, Released, TypesKept, WorkerControl DEF EndWork, InWorker, WorkerAt, WorkerGoto,
    WorkerElsewhere, Typed, ThreadsTyped
<1>7. CASE SendCompletion(r)
  <2>1. /\ worker[r] = "send" /\ WorkerElsewhere /\ UNCHANGED <<tables, objects, target, history>>
        /\ SendMessages(<<Completion(r)>>) /\ ThreadsTyped' /\ target[r] \in Objects
    BY <1>7 DEF SendCompletion, InWorker, WorkerAt, WorkerGoto, WorkerElsewhere, Typed, ThreadsTyped
  <2>2. Completion(r) \in Messages /\ Completion(r).request = r
    BY DEF Completion, Messages
  <2>3. <<Completion(r)>> \in Seq(Messages) /\ MessagesOK(<<Completion(r)>>, target)
    BY <2>1, <2>2, OneMessage, AsyncAssumption
  <2>4. glQueue' \in Seq(Messages) /\ PostedOK'
    BY <2>1, <2>3, Sent
  <2>5. QueuesOK' /\ TablesTyped' /\ ObjectsTyped' /\ HistoryTyped'
    BY <2>1, TypesKept, ControlKept DEF tables
  <2>6. QED
    BY <2>1, <2>4, <2>5, WorkerControl
<1>8. CASE cleanup(r)
  BY <1>8, TypesKept, SimpleStep DEF cleanup, WorkerAt, WorkerGoto, Typed, ThreadsTyped
<1>9. QED
  BY <1>1, <1>2, <1>3, <1>4, <1>5, <1>6, <1>7, <1>8 DEF WorkerStep

----------------------------------------------------------------------------
(* Types and control: the main thread.                                     *)

\* The frame after a step on the top, as it must be.
Sound(f) == f \in FrameType /\ FrameOK(f, target) /\ f.loop = Top.loop

LEMMA MainControl ==
    ASSUME Typed, ControlInv, frames # <<>>, NEW f, SetTop(f), Sound(f), MainElsewhere,
           UNCHANGED state, TablesTyped', QueuesOK', ObjectsTyped', ThreadsTyped', WaitTyped',
           UNCHANGED glAsyncWaiting, HistoryTyped', glQueue' \in Seq(Messages), PostedOK', ASYNC_ACTIVE' \subseteq Objects
    PROVE  Typed' /\ ControlInv'
  BY TopControl, TypesKept, ControlKept, ClosingKept DEF MainElsewhere, Sound, Typed, ControlInv

\* Unless it does more, a step leaves the rest as it was.
LEMMA MainRest ==
    ASSUME Typed, ControlInv, MainElsewhere
    PROVE  /\ UNCHANGED tables => TablesTyped' /\ QueuesOK'
           /\ UNCHANGED objects => ObjectsTyped'
           /\ UNCHANGED worker => ThreadsTyped'
           /\ UNCHANGED wait => WaitTyped' /\ UNCHANGED glAsyncWaiting
           /\ UNCHANGED history => HistoryTyped'
           /\ UNCHANGED glQueue => glQueue' \in Seq(Messages) /\ PostedOK'
           /\ UNCHANGED ASYNC_ACTIVE => ASYNC_ACTIVE' \subseteq Objects
  BY TypesKept, ControlKept DEF MainElsewhere, tables, threads, wait, Typed

\* The frames that a step on the top may lead to.
LEMMA NextFrame ==
    ASSUME Typed, ControlInv, frames # <<>>, Top.at \in {"callback", "launch", "check", "unlock"}, NEW f,
           f = [Top EXCEPT !.at = "loop", !.batch = Tail(@), !.next = None, !.locked = FALSE]
    PROVE  /\ Sound(f) /\ Top.batch # <<>> /\ f.at = "loop" /\ f.batch = Tail(Top.batch) /\ f.drained = <<>>
           /\ Top.drained = <<>> /\ f.breaking = Top.breaking /\ ~f.locked
  BY TopIs, BeheadedMessages DEF FrameOK, FrameType, FrameSteps, InLaunch, Sound

\* In the dispatch of a completion.
\* Where a step may go with the message in hand.
Onward(label) ==
    /\ label \in FrameSteps \ {"loop"} /\ (label # "callback" => Message.DispatchNext)
    /\ label \in {"launch", "check"} => InLaunch(Top)
    /\ Top.drained # <<>> => label \in {"clear", "count", "notify"}

LEMMA StepFrame ==
    ASSUME Typed, ControlInv, frames # <<>>, Top.at # "loop", NEW label, NEW locked \in BOOLEAN, Onward(label),
           SetTop([Top EXCEPT !.at = label, !.locked = locked])
    PROVE  \E f : SetTop(f) /\ Sound(f)
<1>1. PICK T, f : T = Top /\ f = [Top EXCEPT !.at = label, !.locked = locked]
  OBVIOUS
<1>2. T \in FrameType /\ FrameOK(T, target)
  BY <1>1, TopIs
<1>3. /\ f.at = label /\ f.batch = T.batch /\ f.drained = T.drained /\ f.loop = T.loop /\ f.next = T.next
      /\ f \in FrameType /\ f.breaking = T.breaking
  BY <1>1, <1>2 DEF FrameType, Onward
<1>4. Head(f.batch).DispatchNext \/ label = "callback"
  BY <1>1, <1>3 DEF Message, Onward
<1>5. FrameOK(f, target)
  BY <1>1, <1>2, <1>3, <1>4 DEF FrameOK, InLaunch, Onward
<1>6. Sound(f)
  BY <1>1, <1>3, <1>5 DEF Sound, Onward
<1>7. QED
  BY <1>1, <1>6

LEMMA GotoFrame ==
    ASSUME Typed, frames # <<>>, Top \in FrameType, NEW label
    PROVE  [Top EXCEPT !.at = label] = [Top EXCEPT !.at = label, !.locked = Top.locked] /\ Top.locked \in BOOLEAN
  BY DEF FrameType

LEMMA EventLoop_Control ==
    ASSUME Typed, ControlInv, EventLoop
    PROVE  Typed' /\ ControlInv'
<1>1. /\ frames = <<>> /\ frames' = <<Frame("events")>> /\ state \notin {"closed", "done"}
      /\ UNCHANGED <<tables, ASYNC_ACTIVE, objects, worker, glQueue, wait, state, history>> /\ MainElsewhere
  BY DEF EventLoop, Runs
<1>2. UNCHANGED <<target, STOPPING, glAsyncObjectThreads, users>> /\ frames' = Append(frames, Frame("events")) /\ Len(frames) < 2
  BY <1>1 DEF MainElsewhere
<1>3. /\ frames' \in Seq(FrameType) /\ FrameOK(Frame("events"), target)
  BY <1>2, Entered
<1>4. DOMAIN frames' = {1} /\ frames'[1] = Frame("events") /\ Len(frames') = 1
  BY <1>1
<1>5. FramesOK'
  BY <1>2, <1>3, <1>4 DEF FramesOK
<1>6. Nested'
  BY <1>1, <1>4 DEF ControlInv, Nested, Frame, wait
<1>7. Closing'
  BY <1>1, ClosingKept
<1>8. UsersTyped' /\ JobsOK' /\ Numbered(target)'
  BY <1>2, TypesKept, ControlKept
<1>9. QED
  BY <1>1, <1>2, <1>3, <1>5, <1>6, <1>7, <1>8, MainRest DEF Typed, ControlInv

LEMMA FetchBatch_Control ==
    ASSUME Typed, ControlInv, FetchBatch
    PROVE  Typed' /\ ControlInv'
<1>1. PICK f : f = [Top EXCEPT !.batch = glQueue]
  OBVIOUS
<1>2. /\ frames # <<>> /\ Top.at = "loop" /\ SetTop(f) /\ MainElsewhere /\ glQueue' = <<>>
      /\ UNCHANGED <<tables, ASYNC_ACTIVE, objects, worker, wait, state, history>>
  BY <1>1 DEF FetchBatch, MainAt
<1>3. Sound(f)
  BY <1>2, TopIs, <1>1 DEF Typed, ControlInv, PostedOK, FrameType, FrameOK, InLaunch, Sound
<1>4. glQueue' \in Seq(Messages) /\ PostedOK'
  BY <1>2, NoMessages DEF PostedOK
<1>5. QED
  BY <1>2, <1>3, <1>4, MainRest, MainControl

LEMMA BreakMessage_Control ==
    ASSUME Typed, ControlInv, BreakMessage
    PROVE  Typed' /\ ControlInv'
<1>1. PICK f : f = [Top EXCEPT !.batch = Tail(@), !.breaking = @ \/ Top.loop = "wait"]
  OBVIOUS
<1>2. /\ frames # <<>> /\ Top.at = "loop" /\ SetTop(f) /\ MainElsewhere /\ Top.batch # <<>>
      /\ UNCHANGED <<tables, ASYNC_ACTIVE, objects, worker, glQueue, wait, state, history>>
  BY <1>1 DEF BreakMessage, MainAt
<1>3. Sound(f)
  BY <1>2, TopIs, BeheadedMessages, <1>1 DEF FrameType, FrameOK, InLaunch, Sound
<1>4. QED
  BY <1>2, <1>3, MainRest, MainControl

LEMMA LeaveLoop_Control ==
    ASSUME Typed, ControlInv, LeaveLoop
    PROVE  Typed' /\ ControlInv'
<1>1. /\ frames # <<>> /\ Top.at = "loop" /\ Top.batch = <<>> /\ frames' = Front(frames) /\ MainElsewhere
      /\ UNCHANGED <<tables, ASYNC_ACTIVE, objects, worker, glQueue, state, history, target>>
      /\ IF Top.loop = "wait" THEN EndWait ELSE UNCHANGED wait
  BY DEF LeaveLoop, Drained, MainAt, MainElsewhere
<1>2. /\ frames' \in Seq(FrameType) /\ Len(frames') = Len(frames) - 1
      /\ \A i \in DOMAIN frames' : frames'[i] = frames[i]
      /\ DOMAIN frames' = DOMAIN frames \ {Len(frames)} /\ DOMAIN frames = 1..Len(frames)
  BY <1>1, Left
<1>3. FramesOK'
  BY <1>1, <1>2 DEF ControlInv, FramesOK
<1>4. PICK k : k = Len(frames)
  OBVIOUS
<1>5. k \in Levels /\ Top = frames[k] /\ Top \in FrameType /\ k \in DOMAIN frames
  BY <1>1, <1>4, TopIs
<1>6. Nested'
  <2>1. Nested
    BY DEF ControlInv
  <2>2. CASE k = 1
    <3>1. DOMAIN frames' = {} /\ Len(frames') = 0
      BY <1>2, <1>4, <2>2
    <3>2. ~glAsyncWaiting'
      <4>1. CASE Top.loop = "wait"
        BY <1>1, <4>1 DEF EndWait
      <4>2. CASE Top.loop # "wait"
        BY <1>2, <1>4, <1>5, <2>2, <4>2, <2>1, <1>1 DEF Nested, wait
      <4>3. QED
        BY <4>1, <4>2
    <3>3. QED
      BY <3>1, <3>2 DEF Nested
  <2>3. CASE k = 2
    BY <1>2, <1>4, <2>3, <1>5, <2>1, <1>1 DEF Nested, EndWait
  <2>4. QED
    BY <1>5, <2>2, <2>3 DEF Levels
<1>7. WaitTyped'
  <2>1. CASE Top.loop = "wait"
    <3>1. EndWait
      BY <1>1, <2>1
    <3>2. glAsyncWaiting' = FALSE /\ glAsyncWaitTargets' = {} /\ glAsyncWaitCounter' = 0 /\ covered' = {}
      BY <3>1 DEF EndWait
    <3>3. glAsyncWaiting' \in BOOLEAN
      BY <3>2
    <3>4. glAsyncWaitTargets' \subseteq Objects /\ covered' \subseteq Requests /\ glAsyncWaitCounter' \in Int
      BY <3>2
    <3>5. QED
      BY <3>3, <3>4 DEF WaitTyped
  <2>2. CASE Top.loop # "wait"
    BY <1>1, <2>2, TypesKept
  <2>3. QED
    BY <2>1, <2>2
<1>8. Closing' /\ UsersTyped' /\ JobsOK' /\ Numbered(target)'
  BY <1>1, ClosingKept, TypesKept, ControlKept DEF MainElsewhere
<1>9. QED
  BY <1>1, <1>2, <1>3, <1>6, <1>7, <1>8, MainRest DEF Typed, ControlInv

LEMMA BeginCallback_Control ==
    ASSUME Typed, ControlInv, BeginCallback
    PROVE  Typed' /\ ControlInv'
<1>1. /\ frames # <<>> /\ Top.at = "loop" /\ Top.batch # <<>> /\ Message # BREAK /\ MainElsewhere
      /\ callbacks' = [callbacks EXCEPT ![Message.request] = @ + 1] /\ doomed' = doomed \ {Message.request}
      /\ UNCHANGED <<tables, ASYNC_ACTIVE, object, worker, glQueue, wait, state>>
      /\ \/ /\ holder' = [holder EXCEPT ![Object] = Main]
            /\ SetTop([Top EXCEPT !.at = "callback", !.locked = TRUE])
         \/ SetTop([Top EXCEPT !.at = "callback"]) /\ UNCHANGED holder
  BY DEF BeginCallback, MainAt, Goto
<1>2. Message.request \in Requests /\ Object \in Objects
  BY <1>1, InHand
<1>3. HistoryTyped'
  BY <1>1, <1>2 DEF Typed, HistoryTyped
<1>4. ObjectsTyped'
  BY <1>1, <1>2 DEF Typed, ObjectsTyped, Users
<1>5. Top \in FrameType /\ FrameOK(Top, target)
  BY <1>1, TopIs
<1>6. ASSUME NEW locked \in BOOLEAN, NEW f, f = [Top EXCEPT !.at = "callback", !.locked = locked] PROVE Sound(f)
  BY <1>5, <1>6, <1>2, <1>1 DEF FrameType, FrameSteps, Message, FrameOK, InLaunch, Sound
<1>7. PICK f : SetTop(f) /\ Sound(f)
  BY <1>1, <1>5, <1>6, GotoFrame
<1>8. QED
  BY <1>1, <1>3, <1>4, <1>7, MainRest, MainControl

LEMMA EndCallback_Control ==
    ASSUME Typed, ControlInv, EndCallback
    PROVE  Typed' /\ ControlInv'
<1>1. /\ frames # <<>> /\ Top.at = "callback" /\ MainElsewhere
      /\ IF Top.locked THEN ReleaseObject(Object) ELSE UNCHANGED <<objects, tables, glQueue>>
      /\ IF Message.DispatchNext THEN SetTop([Top EXCEPT !.at = "dispatch", !.locked = FALSE]) ELSE NextMessage
      /\ UNCHANGED <<ASYNC_ACTIVE, worker, wait, state, history, target>>
  BY DEF EndCallback, MainAt, MainElsewhere
<1>2. Top.batch # <<>> /\ Top.drained = <<>>
  BY <1>1, TopIs DEF FrameOK
<1>3. Object \in Objects
  BY <1>1, <1>2, InHand
<1>4. TablesTyped' /\ ObjectsTyped' /\ QueuesOK' /\ glQueue' \in Seq(Messages) /\ PostedOK'
  BY <1>1, <1>3, Released, MainRest
<1>5. PICK f : SetTop(f) /\ Sound(f)
  <2>1. CASE Message.DispatchNext
    BY <1>2, <2>1, <1>1, StepFrame DEF Onward, FrameSteps
  <2>2. CASE ~Message.DispatchNext
    BY <1>1, <2>2, NextFrame DEF NextMessage
  <2>3. QED
    BY <2>1, <2>2
<1>6. QED
  BY <1>1, <1>4, <1>5, MainRest, MainControl

\* Where the dispatch stands.
LEMMA Dispatching ==
    ASSUME Typed, ControlInv, frames # <<>>, Top.at \notin {"loop", "callback"}
    PROVE  /\ Object \in Objects /\ Message.request \in Requests /\ Message.DispatchNext
           /\ Top \in FrameType /\ FrameOK(Top, target) /\ Top.batch # <<>> /\ Message = Head(Top.batch)
           /\ InLaunch(Top) => Top.next \in Requests /\ target[Top.next] = Object
  BY TopIs, InHand DEF FrameOK, Object

----------------------------------------------------------------------------
(* Types and control: the dispatch.                                        *)

LEMMA Pop_Control ==
    ASSUME Typed, ControlInv, Pop
    PROVE  Typed' /\ ControlInv'
<1>1. /\ frames # <<>> /\ Top.at = "dispatch" /\ MainElsewhere
      /\ glCancelledAsyncObjects' = glCancelledAsyncObjects \ {Object}
      /\ UNCHANGED <<ASYNC_ACTIVE, objects, worker, glQueue, wait, state, history, target>>
  BY DEF Pop, MainAt, DispatchElsewhere, MainElsewhere
<1>2. /\ Object \in Objects /\ Top \in FrameType /\ FrameOK(Top, target) /\ Message.DispatchNext
      /\ Message = Head(Top.batch)
  BY <1>1, Dispatching
<1>3. glActionQueues[Object] \in Seq(Requests) /\ QueueOK(glActionQueues[Object], target, Object)
  BY <1>2 DEF Typed, TablesTyped, ControlInv, QueuesOK
<1>4. /\ TablesTyped' /\ QueuesOK'
      /\ \E f : SetTop(f) /\ Sound(f)
  <2>1. CASE /\ glActiveAsyncObjects' = glActiveAsyncObjects \ {Object}
             /\ Goto("clear") /\ UNCHANGED glActionQueues
    <3>1. TablesTyped' /\ QueuesOK'
      BY <1>1, <2>1, ControlKept DEF Typed, TablesTyped
    <3>2. SetTop([Top EXCEPT !.at = "clear", !.locked = Top.locked]) /\ Top.locked \in BOOLEAN
      BY <1>1, <1>2, <2>1, GotoFrame DEF Goto
    <3>3. \E f : SetTop(f) /\ Sound(f)
      BY <1>2, <1>1, <3>2, StepFrame DEF Onward, FrameSteps
    <3>4. QED
      BY <3>1, <3>3
  <2>2. CASE /\ glActionQueues[Object] # <<>>
             /\ SetTop([Top EXCEPT !.at = "launch", !.next = Head(glActionQueues[Object])])
             /\ glActionQueues' = [glActionQueues EXCEPT ![Object] = Tail(@)]
             /\ UNCHANGED glActiveAsyncObjects
    <3>1. PICK q : q = glActionQueues[Object]
      OBVIOUS
    <3>2. /\ q \in Seq(Requests) /\ q # <<>> /\ Head(q) \in Requests /\ target[Head(q)] = Object
          /\ Tail(q) \in Seq(Requests) /\ QueueOK(Tail(q), target, Object)
      BY <1>3, <2>2, <3>1 DEF QueueOK
    <3>3. TablesTyped' /\ QueuesOK'
      BY <1>1, <1>2, <2>2, <3>1, <3>2 DEF Typed, TablesTyped, ControlInv, QueuesOK
    <3>4. PICK f : f = [Top EXCEPT !.at = "launch", !.next = Head(q)]
      OBVIOUS
    <3>5. /\ f \in FrameType /\ f.at = "launch" /\ f.next = Head(q) /\ f.batch = Top.batch
          /\ f.drained = Top.drained /\ f.loop = Top.loop
      BY <1>2, <3>2, <3>4 DEF FrameType, FrameSteps
    <3>6. FrameOK(f, target)
      BY <1>1, <1>2, <3>2, <3>5 DEF FrameOK, InLaunch, Object
    <3>7. QED
      BY <2>2, <3>1, <3>3, <3>4, <3>5, <3>6 DEF Sound
  <2>3. QED
    BY <2>1, <2>2 DEF Pop
<1>5. PICK f : SetTop(f) /\ Sound(f)
  BY <1>4
<1>6. QED
  BY <1>1, <1>4, <1>5, MainRest, MainControl

\* A step within the dispatch, with what it changes besides the frame.
LEMMA DispatchControl ==
    ASSUME Typed, ControlInv, frames # <<>>, NEW f, SetTop(f), Sound(f), DispatchElsewhere,
           TablesTyped', QueuesOK', ObjectsTyped', ThreadsTyped', WaitTyped', UNCHANGED glAsyncWaiting,
           glQueue' \in Seq(Messages), PostedOK', ASYNC_ACTIVE' \subseteq Objects
    PROVE  Typed' /\ ControlInv'
  BY MainRest, MainControl DEF DispatchElsewhere

LEMMA StopDispatch_Control ==
    ASSUME Typed, ControlInv, StopDispatch
    PROVE  Typed' /\ ControlInv'
<1>1. /\ frames # <<>> /\ Top.at = "dispatch" /\ DispatchElsewhere /\ MainElsewhere /\ SetTop([Top EXCEPT !.at = "drain"])
      /\ UNCHANGED <<tables, ASYNC_ACTIVE, objects, worker, glQueue, wait>>
  BY DEF StopDispatch, MainAt, DispatchElsewhere, Goto
<1>2. Top \in FrameType /\ FrameOK(Top, target) /\ Message.DispatchNext
  BY <1>1, Dispatching
<1>3. PICK f : SetTop(f) /\ Sound(f)
  BY <1>1, <1>2, GotoFrame, StepFrame DEF FrameOK, Onward, FrameSteps
<1>4. QED
  BY <1>1, <1>3, MainRest, DispatchControl

LEMMA AccessForLaunch_Control ==
    ASSUME Typed, ControlInv, AccessForLaunch
    PROVE  Typed' /\ ControlInv'
<1>1. PICK locked : locked = (holder[Object] = None)
  OBVIOUS
<1>2. /\ frames # <<>> /\ Top.at = "launch" /\ DispatchElsewhere /\ MainElsewhere
      /\ SetTop([Top EXCEPT !.at = "check", !.locked = locked]) /\ holder' = [holder EXCEPT ![Object] = Main]
      /\ UNCHANGED <<tables, ASYNC_ACTIVE, object, worker, glQueue, wait>>
  BY <1>1 DEF AccessForLaunch, MainAt, DispatchElsewhere
<1>3. Top \in FrameType /\ FrameOK(Top, target) /\ Message.DispatchNext /\ Object \in Objects
  BY <1>2, Dispatching
<1>4. ObjectsTyped'
  BY <1>2, <1>3 DEF Typed, ObjectsTyped, Users
<1>5. PICK f : SetTop(f) /\ Sound(f)
  BY <1>2, <1>3, <1>1, StepFrame DEF FrameOK, InLaunch, Onward, FrameSteps
<1>6. QED
  BY <1>2, <1>4, <1>5, MainRest, DispatchControl

LEMMA DropQueue_Control ==
    ASSUME Typed, ControlInv, DropQueue
    PROVE  Typed' /\ ControlInv'
<1>1. /\ frames # <<>> /\ Top.at = "launch" /\ DispatchElsewhere /\ MainElsewhere /\ NextMessage
      /\ SendMessages(DropMessages(Object)) /\ ForgetObject(Object)
      /\ UNCHANGED <<ASYNC_ACTIVE, objects, worker, wait, target>>
  BY DEF DropQueue, MainAt, DispatchElsewhere, MainElsewhere
<1>2. /\ Object \in Objects /\ Top.next \in Requests /\ target[Top.next] = Object
  BY <1>1, Dispatching DEF InLaunch
<1>3. TablesTyped' /\ QueuesOK'
  BY <1>1, <1>2, Forgotten
<1>4. DropMessages(Object) \in Seq(Messages) /\ MessagesOK(DropMessages(Object), target)
  <2>1. Notice(Top.next) \in Messages /\ Notice(Top.next).request = Top.next
    BY <1>2 DEF Notice, Messages
  <2>2. <<Notice(Top.next)>> \in Seq(Messages) /\ MessagesOK(<<Notice(Top.next)>>, target)
    BY <1>2, <2>1, OneMessage, AsyncAssumption
  <2>3. /\ Notices(glActionQueues[Object]) \in Seq(Messages)
        /\ MessagesOK(Notices(glActionQueues[Object]), target)
    BY <1>2, QueueNotices
  <2>4. QED
    BY <2>2, <2>3, JoinLists DEF DropMessages
<1>5. glQueue' \in Seq(Messages) /\ PostedOK'
  BY <1>1, <1>4, Sent
<1>6. PICK f : SetTop(f) /\ Sound(f)
  BY <1>1, NextFrame DEF NextMessage
<1>7. QED
  BY <1>1, <1>3, <1>5, <1>6, MainRest, DispatchControl

LEMMA LaunchNext_Control ==
    ASSUME Typed, ControlInv, LaunchNext
    PROVE  Typed' /\ ControlInv'
<1>1. /\ frames # <<>> /\ Top.at = "check" /\ DispatchElsewhere /\ MainElsewhere /\ NextMessage
      /\ worker' = [worker EXCEPT ![Top.next] = "start"]
      /\ IF Top.locked THEN ReleaseObject(Object) ELSE UNCHANGED <<objects, tables, glQueue>>
      /\ UNCHANGED <<ASYNC_ACTIVE, wait, target, STOPPING, glAsyncObjectThreads>>
  BY DEF LaunchNext, MainAt, DispatchElsewhere, MainElsewhere
<1>2. Object \in Objects /\ Top.next \in Requests
  BY <1>1, Dispatching DEF InLaunch
<1>3. TablesTyped' /\ ObjectsTyped' /\ QueuesOK' /\ glQueue' \in Seq(Messages) /\ PostedOK'
  BY <1>1, <1>2, Released, MainRest
<1>4. ThreadsTyped'
  BY <1>1, <1>2 DEF Typed, ThreadsTyped
<1>5. PICK f : SetTop(f) /\ Sound(f)
  BY <1>1, NextFrame DEF NextMessage
<1>6. QED
  BY <1>1, <1>3, <1>4, <1>5, MainRest, DispatchControl

LEMMA RefuseLaunch_Control ==
    ASSUME Typed, ControlInv, RefuseLaunch
    PROVE  Typed' /\ ControlInv'
<1>1. /\ frames # <<>> /\ Top.at = "check" /\ DispatchElsewhere /\ MainElsewhere
      /\ SetTop([Top EXCEPT !.at = "drain"]) /\ SendMessages(<<Notice(Top.next)>>)
      /\ UNCHANGED <<tables, ASYNC_ACTIVE, objects, worker, wait, target>>
  BY DEF RefuseLaunch, MainAt, DispatchElsewhere, MainElsewhere, Goto
<1>2. /\ Object \in Objects /\ Top.next \in Requests /\ target[Top.next] = Object /\ Message.DispatchNext
      /\ Top \in FrameType /\ FrameOK(Top, target)
  BY <1>1, Dispatching DEF InLaunch
<1>3. Notice(Top.next) \in Messages /\ Notice(Top.next).request = Top.next
  BY <1>2 DEF Notice, Messages
<1>4. <<Notice(Top.next)>> \in Seq(Messages) /\ MessagesOK(<<Notice(Top.next)>>, target)
  BY <1>2, <1>3, OneMessage, AsyncAssumption
<1>5. glQueue' \in Seq(Messages) /\ PostedOK'
  BY <1>1, <1>4, Sent
<1>6. PICK f : SetTop(f) /\ Sound(f)
  BY <1>1, <1>2, GotoFrame, StepFrame DEF FrameOK, Onward, FrameSteps
<1>7. QED
  BY <1>1, <1>5, <1>6, MainRest, DispatchControl

LEMMA DrainQueue_Control ==
    ASSUME Typed, ControlInv, DrainQueue
    PROVE  Typed' /\ ControlInv'
<1>1. PICK f : f = [Top EXCEPT !.at = "clear", !.drained = glActionQueues[Object]]
  OBVIOUS
<1>2. /\ frames # <<>> /\ Top.at = "drain" /\ DispatchElsewhere /\ MainElsewhere /\ SetTop(f) /\ ForgetObject(Object)
      /\ UNCHANGED <<ASYNC_ACTIVE, objects, worker, glQueue, wait, target>>
  BY <1>1 DEF DrainQueue, MainAt, DispatchElsewhere, MainElsewhere
<1>3. Object \in Objects /\ Top \in FrameType /\ FrameOK(Top, target)
  BY <1>2, Dispatching
<1>4. TablesTyped' /\ QueuesOK'
  BY <1>2, <1>3, Forgotten
<1>5. Sound(f)
  BY <1>3, <1>1, <1>2 DEF Typed, TablesTyped, FrameType, FrameSteps, FrameOK, InLaunch, Sound
<1>6. QED
  BY <1>2, <1>4, <1>5, MainRest, DispatchControl

LEMMA ClearFlag_Control ==
    ASSUME Typed, ControlInv, ClearFlag
    PROVE  Typed' /\ ControlInv'
<1>1. PICK locked : locked = (Top.locked \/ holder[Object] = None)
  OBVIOUS
<1>2. /\ frames # <<>> /\ Top.at = "clear" /\ DispatchElsewhere /\ MainElsewhere
      /\ UNCHANGED <<tables, object, worker, glQueue, wait>>
      /\ \/ /\ ASYNC_ACTIVE' = ASYNC_ACTIVE \ {Object} /\ holder' = [holder EXCEPT ![Object] = Main]
            /\ SetTop([Top EXCEPT !.at = "count", !.locked = locked])
         \/ SetTop([Top EXCEPT !.at = "notify"]) /\ UNCHANGED <<ASYNC_ACTIVE, holder>>
  BY <1>1 DEF ClearFlag, MainAt, DispatchElsewhere, Goto
<1>3. Object \in Objects /\ Top \in FrameType /\ FrameOK(Top, target) /\ Message.DispatchNext
  BY <1>2, Dispatching
<1>4. ObjectsTyped' /\ ASYNC_ACTIVE' \subseteq Objects
  BY <1>2, <1>3 DEF Typed, ObjectsTyped, Users
<1>5. PICK f : SetTop(f) /\ Sound(f)
  <2>1. locked \in BOOLEAN
    BY <1>1
  <2>2. CASE SetTop([Top EXCEPT !.at = "count", !.locked = locked])
    BY <1>3, <1>2, <2>1, <2>2, StepFrame DEF Onward, FrameSteps
  <2>3. CASE SetTop([Top EXCEPT !.at = "notify"])
    BY <1>2, <1>3, <2>3, GotoFrame, StepFrame DEF Onward, FrameSteps
  <2>4. QED
    BY <1>2, <2>2, <2>3
<1>6. QED
  BY <1>2, <1>4, <1>5, MainRest, DispatchControl

LEMMA CountDown_Control ==
    ASSUME Typed, ControlInv, CountDown
    PROVE  Typed' /\ ControlInv'
<1>1. /\ frames # <<>> /\ Top.at = "count" /\ DispatchElsewhere /\ MainElsewhere
      /\ async_wait_callback(Object, -1) /\ SetTop([Top EXCEPT !.at = "notify"])
      /\ UNCHANGED <<tables, ASYNC_ACTIVE, objects, worker, target>>
  BY DEF CountDown, MainAt, DispatchElsewhere, MainElsewhere, Goto
<1>2. Object \in Objects /\ Top \in FrameType /\ FrameOK(Top, target) /\ Message.DispatchNext
  BY <1>1, Dispatching
<1>3. WaitTyped' /\ glQueue' \in Seq(Messages) /\ PostedOK' /\ UNCHANGED glAsyncWaiting
  BY <1>1, <1>2, Counts
<1>4. PICK f : SetTop(f) /\ Sound(f)
  BY <1>1, <1>2, GotoFrame, StepFrame DEF Onward, FrameSteps
<1>5. QED
  BY <1>1, <1>3, <1>4, MainRest, DispatchControl

LEMMA Notify_Control ==
    ASSUME Typed, ControlInv, Notify, \A i \in DOMAIN Top.drained : target[Top.drained[i]] # None
    PROVE  Typed' /\ ControlInv'
<1>1. PICK f : f = [Top EXCEPT !.at = "unlock", !.drained = <<>>]
  OBVIOUS
<1>2. /\ frames # <<>> /\ Top.at = "notify" /\ DispatchElsewhere /\ MainElsewhere /\ SetTop(f)
      /\ SendMessages(Notices(Top.drained))
      /\ UNCHANGED <<tables, ASYNC_ACTIVE, objects, worker, wait, target>>
  BY <1>1 DEF Notify, MainAt, DispatchElsewhere, MainElsewhere
<1>3. Top \in FrameType /\ FrameOK(Top, target)
  BY <1>2, Dispatching
<1>4. glQueue' \in Seq(Messages) /\ PostedOK'
  BY <1>3, NoticeLists, <1>2, Sent DEF FrameType
<1>5. Sound(f)
  <2>1. <<>> \in Seq(Requests)
    OBVIOUS
  <2>2. f \in FrameType /\ f.at = "unlock" /\ f.batch = Top.batch /\ f.loop = Top.loop /\ f.drained = <<>>
    BY <1>1, <1>3, <2>1 DEF FrameType, FrameSteps
  <2>3. FrameOK(f, target)
    BY <1>2, <1>3, <2>2 DEF FrameOK, InLaunch
  <2>4. QED
    BY <2>2, <2>3 DEF Sound
<1>6. QED
  BY <1>2, <1>4, <1>5, MainRest, DispatchControl

LEMMA EndDispatch_Control ==
    ASSUME Typed, ControlInv, EndDispatch
    PROVE  Typed' /\ ControlInv'
<1>1. /\ frames # <<>> /\ Top.at = "unlock" /\ DispatchElsewhere /\ MainElsewhere /\ NextMessage
      /\ IF Top.locked THEN ReleaseObject(Object) ELSE UNCHANGED <<objects, tables, glQueue>>
      /\ UNCHANGED <<ASYNC_ACTIVE, worker, wait, target>>
  BY DEF EndDispatch, MainAt, DispatchElsewhere, MainElsewhere
<1>2. Object \in Objects
  BY <1>1, Dispatching
<1>3. TablesTyped' /\ ObjectsTyped' /\ QueuesOK' /\ glQueue' \in Seq(Messages) /\ PostedOK'
  BY <1>1, <1>2, Released, MainRest
<1>4. PICK f : SetTop(f) /\ Sound(f)
  BY <1>1, NextFrame DEF NextMessage
<1>5. QED
  BY <1>1, <1>3, <1>4, MainRest, DispatchControl

----------------------------------------------------------------------------
(* Where callbacks wait: lists that an action leaves alone.                *)

LEMMA ListsKept ==
    /\ UNCHANGED users => UNCHANGED <<Submitted, Cancelled, JobServes>>
    /\ UNCHANGED worker => UNCHANGED Working
    /\ UNCHANGED <<worker, target>> => UNCHANGED WorkerServes
    /\ UNCHANGED frames => UNCHANGED <<Batches, Nexts, Drains>>
    /\ UNCHANGED <<frames, target>> => UNCHANGED FrameServes
  BY DEF users, Submitted, Cancelled, JobServes, Working, WorkerServes, Batches, Nexts, Drains,
    FrameServes

LEMMA EmptyJoin == ASSUME NEW Y, NEW s \in Seq(Y) PROVE <<>> \o s = s /\ s \o <<>> = s
  OBVIOUS

\* Something is posted that is nothing to the store.
LEMMA NothingPosted ==
    ASSUME NEW Q, NEW J, NEW C, NEW W, NEW P, NEW B, NEW N, NEW D,
           NEW X, NEW Y, NEW A, Store(Kept(Q, J, C, W, P, B, N, D), Names, Y, X, A),
           NEW s \in Seq(Y), Inside(s, X) = {}
    PROVE  Store(Kept(Q, J, C, W, P \o s, B, N, D), Names, Y, X, A)
  BY JoinPosted DEF New, Single, Inside

\* The queue of an object that is freed becomes messages.
QueueFreed(o) ==
    \/ UNCHANGED <<tables, glQueue>>
    \/ ForgetObject(o) /\ SendMessages(Notices(glActionQueues[o]))

LEMMA FreedMoves ==
    ASSUME Typed, ControlInv, NEW J, NEW C, NEW W, NEW B, NEW N, NEW D, NEW A,
           Store(Kept(glActionQueues, J, C, W, RequestsOf(glQueue), B, N, D), Names, Entries, Requests, A),
           NEW o \in Objects, QueueFreed(o)
    PROVE  Store(Kept(glActionQueues', J, C, W, RequestsOf(glQueue'), B, N, D), Names, Entries, Requests, A)
<1>1. CASE UNCHANGED <<tables, glQueue>>
  BY <1>1 DEF tables
<1>2. CASE ForgetObject(o) /\ SendMessages(Notices(glActionQueues[o]))
  <2>1. glActionQueues' = Put(glActionQueues, o, <<>>)
    BY <1>2 DEF ForgetObject, Put
  <2>2. RequestsOf(glQueue') = RequestsOf(glQueue) \o glActionQueues[o]
    BY <1>2, QueueNotices, JoinLists DEF Typed, SendMessages
  <2>3. On(glActionQueues, Objects)
    BY Families
  <2>4. QED
    BY <2>1, <2>2, <2>3, MoveQueuePosted
<1>3. QED
  BY <1>1, <1>2 DEF QueueFreed

LEMMA FreedServes ==
    ASSUME Typed, ControlInv, NEW Q, NEW J, NEW C, NEW W, NEW B, NEW N, NEW D, NEW A,
           Store(Kept(Q, J, C, W, ObjectsOf(glQueue, target), B, N, D), Names, Things, Objects, A),
           NEW o \in Objects, QueueFreed(o), UNCHANGED target
    PROVE  Store(Kept(Q, J, C, W, ObjectsOf(glQueue, target)', B, N, D), Names, Things, Objects, A)
<1>1. CASE UNCHANGED <<tables, glQueue>>
  BY <1>1
<1>2. CASE ForgetObject(o) /\ SendMessages(Notices(glActionQueues[o]))
  <2>1. PICK m : m = Notices(glActionQueues[o])
    OBVIOUS
  <2>2. /\ glQueue \in Seq(Messages) /\ glQueue' = glQueue \o m /\ m \in Seq(Messages) /\ MessagesOK(m, target)
        /\ Inside(ObjectsOf(m, target), Objects) = {}
    BY <1>2, <2>1, QueueNotices DEF Typed, SendMessages
  <2>3. ObjectsOf(glQueue, target)' = ObjectsOf(glQueue, target) \o ObjectsOf(m, target)
    BY <2>2, JoinLists
  <2>4. ObjectsOf(m, target) \in Seq(Things)
    BY <2>2, ObjectLists DEF Typed, Things
  <2>5. QED
    BY <2>2, <2>3, <2>4, NothingPosted
<1>3. QED
  BY <1>1, <1>2 DEF QueueFreed

LEMMA ReleaseFrees ==
    ASSUME Typed, ControlInv, NEW o \in Objects
    PROVE  /\ ReleaseObject(o) /\ UNCHANGED target => QueueFreed(o)
           /\ object_free(o) => QueueFreed(o)
           /\ UNCHANGED <<objects, tables, glQueue>> => QueueFreed(o)
  BY Released DEF Freeing, QueueFreed, object_free

\* AsyncWait() is counted: messages that are nothing to the stores.
LEMMA CountMoves ==
    ASSUME Typed, ControlInv, NEW Q, NEW J, NEW C, NEW W, NEW B, NEW N, NEW D, NEW A,
           NEW o \in Objects, NEW change \in Int, async_wait_callback(o, change), UNCHANGED target
    PROVE  /\ Store(Kept(Q, J, C, W, RequestsOf(glQueue), B, N, D), Names, Entries, Requests, A) =>
                 Store(Kept(Q, J, C, W, RequestsOf(glQueue'), B, N, D), Names, Entries, Requests, A)
           /\ Store(Kept(Q, J, C, W, ObjectsOf(glQueue, target), B, N, D), Names, Things, Objects, A) =>
                 Store(Kept(Q, J, C, W, ObjectsOf(glQueue, target)', B, N, D), Names, Things, Objects, A)
<1>1. PICK m : m = IF WaitedFor(o) /\ LastCounted THEN <<BREAK>> ELSE <<>>
  OBVIOUS
<1>2. BREAK \in Messages /\ BREAK.request = None /\ ~BREAK.DispatchNext
  BY DEF BREAK, Messages
<1>3. m \in Seq(Messages) /\ MessagesOK(m, target) /\ \/ m = <<>> \/ m = <<BREAK>>
  BY <1>1, <1>2, NoMessages, OneMessage
<1>4. glQueue' = glQueue \o m /\ glQueue \in Seq(Messages)
  BY <1>1 DEF async_wait_callback, SendMessages, Typed
<1>5. /\ RequestsOf(glQueue') = RequestsOf(glQueue) \o RequestsOf(m)
      /\ ObjectsOf(glQueue, target)' = ObjectsOf(glQueue, target) \o ObjectsOf(m, target)
  BY <1>3, <1>4, JoinLists
<1>6. None \notin Requests /\ None \notin Objects
  BY AsyncAssumption DEF Requests
<1>7. /\ RequestsOf(m) \in Seq(Entries) /\ Inside(RequestsOf(m), Requests) = {}
      /\ ObjectsOf(m, target) \in Seq(Things) /\ Inside(ObjectsOf(m, target), Objects) = {}
  BY <1>3, RequestLists, ObjectLists, <1>2, NoMessages, OneMessage, <1>6, EmptyList, OneElement DEF
    Typed, Things
<1>8. ASSUME Store(Kept(Q, J, C, W, RequestsOf(glQueue), B, N, D), Names, Entries, Requests, A)
      PROVE  Store(Kept(Q, J, C, W, RequestsOf(glQueue'), B, N, D), Names, Entries, Requests, A)
  BY <1>5, <1>7, <1>8, NothingPosted
<1>9. ASSUME Store(Kept(Q, J, C, W, ObjectsOf(glQueue, target), B, N, D), Names, Things, Objects, A)
      PROVE  Store(Kept(Q, J, C, W, ObjectsOf(glQueue, target)', B, N, D), Names, Things, Objects, A)
  BY <1>5, <1>7, <1>9, NothingPosted
<1>10. QED
  BY <1>8, <1>9

\* What is in one list is in no other, and in the store.
LEMMA CallbackIn ==
    ASSUME Typed, ControlInv, CallbackInv
    PROVE  /\ \A n \in Names : Inside(Callbacks[n], Requests) \subseteq Waiting
           /\ \A m, n \in Names : m # n => Inside(Callbacks[m], Requests) \cap Inside(Callbacks[n], Requests) = {}
           /\ \A n \in Names : Single(Callbacks[n], Requests)
           /\ Lists(Callbacks, glActionQueues, Submitted, Cancelled, Working, RequestsOf(glQueue), Batches, Nexts, Drains)
  BY KeptAt DEF CallbackInv, Waiting, Callbacks, Apart, Content

LEMMA CallbackDone ==
    ASSUME CallbackInv, Store(Callbacks', Names, Entries, Requests, Waiting),
           UNCHANGED <<target, callbacks>>, state = "done" => state' = "done"
    PROVE  CallbackInv'
  BY StoreIs DEF Waiting, CallbackInv

LEMMA CallbackSame ==
    ASSUME CallbackInv, UNCHANGED <<glActionQueues, Submitted, Cancelled, Working, glQueue, Batches, Nexts, Drains>>,
           UNCHANGED <<target, callbacks>>, state = "done" => state' = "done"
    PROVE  CallbackInv'
  BY DEF Callbacks, CallbackInv, Waiting

----------------------------------------------------------------------------
(* Where callbacks wait: the users of the interface and the workers.       *)

\* The store of callbacks, before and after.
CallbacksKept(A) ==
    Store(Kept(glActionQueues, Submitted, Cancelled, Working, RequestsOf(glQueue), Batches, Nexts, Drains),
          Names, Entries, Requests, A)

LEMMA CallbackBase ==
    ASSUME Typed, ControlInv, CallbackInv
    PROVE  /\ CallbacksKept(Waiting)
           /\ On(glActionQueues, Objects) /\ On(Submitted, Users) /\ On(Cancelled, Users)
           /\ On(Working, Requests) /\ On(Batches, Levels) /\ On(Nexts, Levels) /\ On(Drains, Levels)
  BY CallbackStore, Families DEF Callbacks, CallbacksKept

LEMMA Submits_Callback ==
    ASSUME Typed, ControlInv, CallbackInv, NEW u \in Users, NEW o \in Objects, NEW r \in Requests, Submits(u, o, r)
    PROVE  CallbackInv'
<1>1. /\ target[r] = None /\ target' = [target EXCEPT ![r] = o] /\ pc[u] = "idle"
      /\ UNCHANGED <<worker, glQueue, frames, state, callbacks>>
  BY DEF Submits, threads, history
<1>2. r \notin Waiting /\ callbacks[r] = 0 /\ o # None
  BY <1>1, AsyncAssumption DEF CallbackInv
<1>3. <<r>> \in Seq(Entries) /\ New(<<r>>, Waiting, Requests) /\ Inside(<<r>>, Requests) = {r}
  BY ShortLists, <1>2, OneElement DEF Entries, New
<1>4. UNCHANGED <<Working, Batches, Nexts, Drains>>
  BY <1>1, ListsKept
<1>5. /\ CallbacksKept(Waiting) /\ On(glActionQueues, Objects) /\ On(Submitted, Users)
  BY CallbackBase
<1>6. Store(Callbacks', Names, Entries, Requests, Waiting \cup {r})
  <2>1. CASE glActionQueues' = [glActionQueues EXCEPT ![o] = Append(@, r)] /\ UNCHANGED users
    <3>1. glActionQueues[o] \in Seq(Requests)
      BY DEF Typed, TablesTyped
    <3>2. Append(glActionQueues[o], r) = glActionQueues[o] \o <<r>>
      BY <3>1
    <3>3. glActionQueues' = Put(glActionQueues, o, glActionQueues[o] \o <<r>>)
      BY <2>1, <3>2 DEF Put
    <3>4. UNCHANGED <<Submitted, Cancelled>>
      BY <2>1, ListsKept
    <3>5. Store(Kept(Put(glActionQueues, o, glActionQueues[o] \o <<r>>), Submitted, Cancelled, Working,
                     RequestsOf(glQueue), Batches, Nexts, Drains), Names, Entries, Requests, Waiting \cup {r})
      BY <1>3, <1>5, JoinQueue DEF CallbacksKept
    <3>6. QED
      BY <1>1, <1>4, <3>3, <3>4, <3>5 DEF Callbacks
  <2>2. CASE /\ pc' = [pc EXCEPT ![u] = "submitting"] /\ UNCHANGED glActionQueues
             /\ job' = [job EXCEPT ![u] = [NoJob EXCEPT !.object = o, !.thread = r]]
    <3>1. PICK j : j = [NoJob EXCEPT !.object = o, !.thread = r]
      OBVIOUS
    <3>2. j.thread = r /\ j.drained = <<>>
      BY <3>1 DEF NoJob
    <3>3. job[u].drained = <<>> /\ OfJob(pc[u], job[u]) = <<>>
      BY <1>1 DEF ControlInv, JobsOK, JobOK, OfJob
    <3>4. Submitted' = Put(Submitted, u, Submitted[u] \o <<r>>)
      <4>1. Submitted[u] = <<>> /\ <<>> \o <<r>> = <<r>>
        BY <3>3 DEF Submitted
      <4>2. OfJob("submitting", j) = <<r>>
        BY <3>2 DEF OfJob
      <4>3. Submitted' = Put(Submitted, u, <<r>>)
        BY <2>2, <3>1, <4>2 DEF Submitted, Put, Typed, UsersTyped
      <4>4. QED
        BY <4>1, <4>3
    <3>5. UNCHANGED Cancelled
      BY <2>2, <3>1, <3>2, <3>3 DEF Cancelled, Typed, UsersTyped
    <3>6. Store(Kept(glActionQueues, Put(Submitted, u, Submitted[u] \o <<r>>), Cancelled, Working,
                     RequestsOf(glQueue), Batches, Nexts, Drains), Names, Entries, Requests, Waiting \cup {r})
      BY <1>3, <1>5, JoinSubmitter DEF CallbacksKept
    <3>7. QED
      BY <1>1, <1>4, <2>2, <3>4, <3>5, <3>6 DEF Callbacks
  <2>3. QED
    BY <2>1, <2>2 DEF Submits
<1>7. Apart(Callbacks, Names, Requests)' /\ Waiting' = Waiting \cup {r}
  BY <1>6, StoreIs DEF Waiting
<1>8. \A q \in Requests : target'[q] = IF q = r THEN o ELSE target[q]
  BY <1>1 DEF Typed
<1>9. QED
  BY <1>1, <1>2, <1>7, <1>8 DEF CallbackInv

LEMMA Launch_Callback ==
    ASSUME Typed, ControlInv, CallbackInv, NEW u \in Users, Launch(u)
    PROVE  CallbackInv'
<1>1. PICK o, r : o = job[u].object /\ r = job[u].thread
  OBVIOUS
<1>2. pc[u] = "submitting" /\ o \in Objects /\ r \in Requests /\ job[u].drained = <<>>
  BY <1>1 DEF Launch, ControlInv, JobsOK, JobOK
<1>3. /\ UNCHANGED <<tables, target, frames, state, history>> /\ async_wait_callback(o, 1)
      /\ worker' = [worker EXCEPT ![r] = "start"]
      /\ pc' = [pc EXCEPT ![u] = "idle"] /\ job' = [job EXCEPT ![u] = NoJob]
  BY <1>1 DEF Launch, CountNew
<1>4. Submitted[u] = <<r>> /\ Submitted' = Put(Submitted, u, <<>>) /\ UNCHANGED Cancelled
  BY <1>1, <1>2, <1>3 DEF Submitted, OfJob, Put, Typed, UsersTyped, Cancelled, NoJob
<1>5. Working[r] = <<>>
  <2>1. /\ <<"submitter", u>> \in Names /\ <<"worker", r>> \in Names /\ <<"submitter", u>> # <<"worker", r>>
        /\ Callbacks[<<"submitter", u>>] = Submitted[u] /\ Callbacks[<<"worker", r>>] = Working[r]
    BY <1>2, NamesAre, CallbackIn DEF Lists
  <2>2. Inside(<<r>>, Requests) \cap Inside(Working[r], Requests) = {}
    BY <1>4, <2>1, CallbackIn
  <2>3. Working[r] \in {<<>>, <<r>>}
    BY <1>2 DEF Working, OfWorker
  <2>4. QED
    BY <1>2, <2>2, <2>3, OneElement
<1>6. Working' = Put(Working, r, Working[r] \o Submitted[u])
  <2>1. Working' = Put(Working, r, <<r>>)
    BY <1>2, <1>3 DEF Working, Put, OfWorker, Typed, ThreadsTyped
  <2>2. <<>> \o <<r>> = <<r>>
    OBVIOUS
  <2>3. QED
    BY <1>4, <1>5, <2>1, <2>2
<1>7. UNCHANGED <<Batches, Nexts, Drains, glActionQueues>>
  BY <1>3, ListsKept DEF tables
<1>8. CallbacksKept(Waiting) /\ On(Submitted, Users) /\ On(Working, Requests)
  BY CallbackBase
<1>9. Store(Kept(glActionQueues, Put(Submitted, u, <<>>), Cancelled, Put(Working, r, Working[r] \o Submitted[u]),
                 RequestsOf(glQueue), Batches, Nexts, Drains), Names, Entries, Requests, Waiting)
  BY <1>2, <1>8, MoveSubmitterWorker DEF CallbacksKept
<1>10. Store(Kept(glActionQueues, Submitted', Cancelled, Working', RequestsOf(glQueue), Batches, Nexts, Drains),
             Names, Entries, Requests, Waiting)
  BY <1>4, <1>6, <1>9
<1>11. Store(Kept(glActionQueues, Submitted', Cancelled, Working', RequestsOf(glQueue'), Batches, Nexts, Drains),
             Names, Entries, Requests, Waiting)
  BY <1>2, <1>3, <1>10, CountMoves
<1>12. Store(Callbacks', Names, Entries, Requests, Waiting)
  BY <1>4, <1>7, <1>11 DEF Callbacks
<1>13. QED
  BY <1>3, <1>12, CallbackDone DEF history

\* What AsyncCancel() does before it drains the queue.
LEMMA Cancel_Callback ==
    ASSUME Typed, ControlInv, CallbackInv, NEW u \in Users, WakeWorker(u) \/ \E o \in Objects : AsyncCancel(u, o)
    PROVE  CallbackInv'
<1>1. /\ UNCHANGED <<target, frames, state, worker, callbacks, glActionQueues, glQueue>>
      /\ pc[u] \in {"idle", "wake"}
      /\ \E status \in {"wake", "drain"} : pc' = [pc EXCEPT ![u] = status]
      /\ \/ UNCHANGED job
         \/ \E j : job' = [job EXCEPT ![u] = j] /\ j.drained = <<>>
  <2>1. CASE WakeWorker(u)
    BY <2>1 DEF WakeWorker, CancelElsewhere, tables, history
  <2>2. CASE \E o \in Objects : AsyncCancel(u, o)
    <3>1. PICK o \in Objects : AsyncCancel(u, o)
      BY <2>2
    <3>2. PICK j : j = [object |-> o, thread |-> glAsyncObjectThreads[o],
              running |-> {r \in Requests : target[r] = o /\ worker[r] = "action"}, drained |-> <<>>]
      OBVIOUS
    <3>3. j.drained = <<>> /\ job' = [job EXCEPT ![u] = j]
      BY <3>1, <3>2 DEF AsyncCancel
    <3>4. QED
      BY <3>1, <3>3 DEF AsyncCancel, CancelElsewhere, Runs
  <2>3. QED
    BY <2>1, <2>2
<1>2. job[u].drained = <<>>
  BY <1>1 DEF ControlInv, JobsOK, JobOK
<1>3. UNCHANGED Submitted
  BY <1>1 DEF Submitted, OfJob, Typed, UsersTyped
<1>4. UNCHANGED Cancelled
  BY <1>1, <1>2 DEF Cancelled, Typed, UsersTyped
<1>5. UNCHANGED <<Working, Batches, Nexts, Drains>>
  BY <1>1, ListsKept
<1>6. QED
  BY <1>1, <1>3, <1>4, <1>5, CallbackSame

LEMMA DrainCancelled_Callback ==
    ASSUME Typed, ControlInv, CallbackInv, NEW u \in Users, DrainCancelled(u)
    PROVE  CallbackInv'
<1>1. PICK o, q : o = job[u].object /\ q = glActionQueues[o]
  OBVIOUS
<1>2. /\ pc[u] = "drain" /\ pc' = [pc EXCEPT ![u] = "notify"] /\ job' = [job EXCEPT ![u].drained = q]
      /\ glActionQueues' = [glActionQueues EXCEPT ![o] = <<>>]
      /\ UNCHANGED <<target, worker, frames, state, glQueue, callbacks>>
  BY <1>1 DEF DrainCancelled, TakeQueue, CancelElsewhere, history
<1>3. o \in Objects /\ job[u].drained = <<>>
  BY <1>1, <1>2 DEF ControlInv, JobsOK, JobOK
<1>4. UNCHANGED Submitted
  BY <1>2 DEF Submitted, OfJob, Typed, UsersTyped
<1>5. q \in Seq(Requests)
  BY <1>1, <1>3 DEF Typed, TablesTyped
<1>6. Cancelled' = Put(Cancelled, u, Cancelled[u] \o q)
  <2>1. Cancelled[u] \o q = q
    BY <1>3, <1>5, EmptyJoin DEF Cancelled
  <2>2. Cancelled' = Put(Cancelled, u, q)
    BY <1>2 DEF Cancelled, Put, Typed, UsersTyped, JobType
  <2>3. QED
    BY <2>1, <2>2
<1>7. UNCHANGED <<Working, Batches, Nexts, Drains>>
  BY <1>2, ListsKept
<1>8. CallbacksKept(Waiting) /\ On(glActionQueues, Objects) /\ On(Cancelled, Users)
  BY CallbackBase
<1>9. Store(Kept(Put(glActionQueues, o, <<>>), Submitted, Put(Cancelled, u, Cancelled[u] \o glActionQueues[o]), Working,
                 RequestsOf(glQueue), Batches, Nexts, Drains), Names, Entries, Requests, Waiting)
  BY <1>3, <1>8, MoveQueueCancelled DEF CallbacksKept
<1>10. glActionQueues' = Put(glActionQueues, o, <<>>)
  BY <1>2 DEF Put
<1>11. Store(Callbacks', Names, Entries, Requests, Waiting)
  BY <1>1, <1>2, <1>4, <1>6, <1>7, <1>9, <1>10 DEF Callbacks
<1>12. QED
  BY <1>2, <1>11, CallbackDone

\* What a list of the store has is a request that has been made.
LEMMA Made ==
    ASSUME CallbackInv, NEW s \in Seq(Requests), Inside(s, Requests) \subseteq Waiting
    PROVE  \A i \in DOMAIN s : target[s[i]] # None
  BY DEF Inside, CallbackInv

LEMMA CancelledMade ==
    ASSUME Typed, ControlInv, CallbackInv, NEW u \in Users
    PROVE  job[u].drained \in Seq(Requests) /\ \A i \in DOMAIN job[u].drained : target[job[u].drained[i]] # None
  BY NamesAre, CallbackIn, Made DEF Typed, UsersTyped, JobType, Lists, Cancelled

LEMMA NotifyCancelled_Callback ==
    ASSUME Typed, ControlInv, CallbackInv, NEW u \in Users, NotifyCancelled(u)
    PROVE  CallbackInv'
<1>1. /\ pc[u] = "notify" /\ pc' = [pc EXCEPT ![u] = "idle"] /\ job' = [job EXCEPT ![u] = NoJob]
      /\ SendMessages(Notices(job[u].drained))
      /\ UNCHANGED <<target, worker, frames, state, tables, history>>
  BY DEF NotifyCancelled, CancelElsewhere
<1>2. UNCHANGED Submitted
  BY <1>1 DEF Submitted, OfJob, Typed, UsersTyped
<1>3. Cancelled' = Put(Cancelled, u, <<>>) /\ Cancelled[u] = job[u].drained
  BY <1>1 DEF Cancelled, Put, NoJob, Typed, UsersTyped
<1>4. RequestsOf(glQueue') = RequestsOf(glQueue) \o Cancelled[u]
  <2>1. PICK d : d = job[u].drained
    OBVIOUS
  <2>2. d \in Seq(Requests) /\ Notices(d) \in Seq(Messages) /\ RequestsOf(Notices(d)) = d
    BY <2>1, CancelledMade, NoticeLists
  <2>3. glQueue \in Seq(Messages) /\ glQueue' = glQueue \o Notices(d)
    BY <1>1, <2>1 DEF Typed, SendMessages
  <2>4. RequestsOf(glQueue \o Notices(d)) = RequestsOf(glQueue) \o RequestsOf(Notices(d))
    BY <2>2, <2>3, JoinLists
  <2>5. QED
    BY <1>3, <2>1, <2>2, <2>3, <2>4
<1>5. UNCHANGED <<Working, Batches, Nexts, Drains, glActionQueues>>
  BY <1>1, ListsKept DEF tables
<1>6. CallbacksKept(Waiting) /\ On(Cancelled, Users)
  BY CallbackBase
<1>7. Store(Kept(glActionQueues, Submitted, Put(Cancelled, u, <<>>), Working,
                 RequestsOf(glQueue) \o Cancelled[u], Batches, Nexts, Drains), Names, Entries, Requests, Waiting)
  BY <1>6, MoveCancelledPosted DEF CallbacksKept
<1>8. Store(Callbacks', Names, Entries, Requests, Waiting)
  BY <1>2, <1>3, <1>4, <1>5, <1>7 DEF Callbacks
<1>9. QED
  BY <1>1, <1>8, CallbackDone DEF history

----------------------------------------------------------------------------
(* Where callbacks wait: workers, and what leaves the callbacks in place.  *)

\* A worker goes on, releases its object, sends the completion, or ends.
WorkerMoves(r) ==
    /\ WorkerElsewhere /\ UNCHANGED history
    /\ \/ /\ InWorker(r) /\ UNCHANGED <<object, tables, glQueue>>
          /\ \E status \in {"registered", "lock", "locked", "action", "release", "send"} :
                worker' = [worker EXCEPT ![r] = status]
       \/ /\ worker[r] = "release" /\ ReleaseObject(target[r])
          /\ worker' = [worker EXCEPT ![r] = "send"]
       \/ /\ worker[r] = "send" /\ SendMessages(<<Completion(r)>>) /\ UNCHANGED <<objects, tables>>
          /\ worker' = [worker EXCEPT ![r] = "cleanup"]
       \/ /\ worker[r] = "cleanup" /\ UNCHANGED <<objects, tables, glQueue>>
          /\ worker' = [worker EXCEPT ![r] = "finished"]

LEMMA Worker_Moves ==
    ASSUME NEW r \in Requests, WorkerStep(r)
    PROVE  WorkerMoves(r)
<1>1. CASE Register(r)
  BY <1>1 DEF Register, WorkerMoves, WorkerAt, WorkerGoto, InWorker, objects
<1>2. CASE CheckStop(r)
  BY <1>2 DEF CheckStop, GiveUp, WorkerMoves, WorkerAt, WorkerGoto, InWorker, objects
<1>3. CASE LockObject(r)
  BY <1>3 DEF LockObject, WorkerMoves, WorkerAt, WorkerGoto, InWorker
<1>4. CASE BeginAction(r)
  BY <1>4 DEF BeginAction, WorkerMoves, WorkerAt, WorkerGoto, InWorker, objects
<1>5. CASE EndAction(r)
  BY <1>5 DEF EndAction, WorkerMoves, WorkerAt, WorkerGoto, InWorker, objects
<1>6. CASE EndWork(r)
  BY <1>6 DEF EndWork, WorkerMoves, WorkerAt, WorkerGoto
<1>7. CASE SendCompletion(r)
  BY <1>7 DEF SendCompletion, WorkerMoves, WorkerAt, WorkerGoto
<1>8. CASE cleanup(r)
  BY <1>8 DEF cleanup, WorkerMoves, WorkerAt, WorkerGoto
<1>9. QED
  BY <1>1, <1>2, <1>3, <1>4, <1>5, <1>6, <1>7, <1>8 DEF WorkerStep

\* The request of a worker has been made.
LEMMA WorkerMade ==
    ASSUME Typed, ControlInv, CallbackInv, NEW r \in Requests, InWorker(r)
    PROVE  target[r] \in Objects
<1>1. Callbacks[<<"worker", r>>] = <<r>> /\ <<"worker", r>> \in Names
  BY NamesAre, CallbackIn DEF Lists, Working, OfWorker, InWorker
<1>2. r \in Waiting
  BY <1>1, CallbackIn, OneElement
<1>3. QED
  BY <1>2 DEF CallbackInv, Typed

\* An object is freed, and nothing else moves.
LEMMA FreedCallback ==
    ASSUME Typed, ControlInv, CallbackInv, NEW o \in Objects, QueueFreed(o),
           UNCHANGED <<Submitted, Cancelled, Working, Batches, Nexts, Drains, target, callbacks>>,
           state = "done" => state' = "done"
    PROVE  CallbackInv'
  BY CallbackBase, FreedMoves, CallbackDone DEF CallbacksKept, Callbacks

LEMMA Worker_Callback ==
    ASSUME Typed, ControlInv, CallbackInv, NEW r \in Requests, WorkerStep(r)
    PROVE  CallbackInv'
<1>1. WorkerMoves(r) /\ UNCHANGED <<target, frames, users, state, callbacks>>
  BY Worker_Moves DEF WorkerMoves, WorkerElsewhere, history
<1>2. UNCHANGED <<Submitted, Cancelled, Batches, Nexts, Drains>>
  BY <1>1, ListsKept
<1>3. CASE /\ InWorker(r) /\ UNCHANGED <<tables, glQueue>>
           /\ \E status \in {"registered", "lock", "locked", "action", "release", "send"} :
                worker' = [worker EXCEPT ![r] = status]
  BY <1>3, <1>1, <1>2, CallbackSame DEF Working, OfWorker, InWorker, Typed, ThreadsTyped, tables
<1>4. CASE worker[r] = "release" /\ ReleaseObject(target[r]) /\ worker' = [worker EXCEPT ![r] = "send"]
  BY <1>4, WorkerMade, <1>1, ReleaseFrees, <1>2, FreedCallback DEF Working, OfWorker, Typed,
    ThreadsTyped, InWorker
<1>5. CASE /\ worker[r] = "send" /\ SendMessages(<<Completion(r)>>) /\ UNCHANGED tables
           /\ worker' = [worker EXCEPT ![r] = "cleanup"]
  <2>1. Working' = Put(Working, r, <<>>) /\ Working[r] = <<r>>
    BY <1>5 DEF Working, OfWorker, Put, Typed, ThreadsTyped
  <2>2. Completion(r) \in Messages /\ Completion(r).request = r
    BY DEF Completion, Messages
  <2>3. RequestsOf(<<Completion(r)>>) = <<r>> /\ <<Completion(r)>> \in Seq(Messages)
    BY <2>2, OneMessage
  <2>4. glQueue \in Seq(Messages) /\ glQueue' = glQueue \o <<Completion(r)>>
    BY <1>5 DEF Typed, SendMessages
  <2>5. RequestsOf(glQueue') = RequestsOf(glQueue) \o Working[r]
    BY <2>1, <2>3, <2>4, JoinLists
  <2>6. CallbacksKept(Waiting) /\ On(Working, Requests)
    BY CallbackBase
  <2>7. Store(Kept(glActionQueues, Submitted, Cancelled, Put(Working, r, <<>>), RequestsOf(glQueue) \o Working[r],
                   Batches, Nexts, Drains), Names, Entries, Requests, Waiting)
    BY <2>6, MoveWorkerPosted DEF CallbacksKept
  <2>8. Store(Callbacks', Names, Entries, Requests, Waiting)
    BY <1>2, <1>5, <2>1, <2>5, <2>7 DEF Callbacks, tables
  <2>9. QED
    BY <1>1, <2>8, CallbackDone
<1>6. CASE worker[r] = "cleanup" /\ UNCHANGED <<tables, glQueue>> /\ worker' = [worker EXCEPT ![r] = "finished"]
  BY <1>6, <1>1, <1>2, CallbackSame DEF Working, OfWorker, Typed, ThreadsTyped, tables
<1>7. QED
  BY <1>1, <1>3, <1>4, <1>5, <1>6 DEF WorkerMoves

\* What other code does to the objects.
Outside ==
    /\ Elsewhere /\ (state = "done" => state' = "done")
    /\ \/ UNCHANGED <<tables, glQueue>>
       \/ \E o \in Objects : object_free(o)
       \/ \E o \in Objects : ReleaseObject(o)

LEMMA OutsideSteps ==
    /\ \A o \in Objects : Free(o) => Outside
    /\ \A u \in Users, o \in Objects : Hold(u, o) \/ LetGo(u, o) => Outside
    /\ StopTask \/ CloseSubmissions => Outside
  BY DEF Free, Outside, tables, Hold, LetGo, StopTask, CloseSubmissions

LEMMA Outside_Callback ==
    ASSUME Typed, ControlInv, CallbackInv, Outside
    PROVE  CallbackInv'
<1>1. UNCHANGED <<target, worker, frames, users, callbacks>> /\ (state = "done" => state' = "done")
  BY DEF Outside, Elsewhere, threads, history
<1>2. UNCHANGED <<Submitted, Cancelled, Working, Batches, Nexts, Drains>>
  BY <1>1, ListsKept
<1>3. CASE UNCHANGED <<tables, glQueue>>
  BY <1>1, <1>2, <1>3, CallbackSame DEF tables
<1>4. CASE \E o \in Objects : object_free(o) \/ ReleaseObject(o)
  BY <1>1, <1>4, ReleaseFrees, <1>2, FreedCallback
<1>5. QED
  BY <1>3, <1>4 DEF Outside

LEMMA Loops_Callback ==
    ASSUME Typed, ControlInv, CallbackInv, EventLoop \/ LeaveLoop \/ \E targets \in SUBSET Objects : AsyncWait(targets)
    PROVE  CallbackInv'
<1>1. UNCHANGED <<tables, worker, glQueue, state, history, target, users>>
  BY DEF EventLoop, LeaveLoop, AsyncWait, MainElsewhere
<1>2. UNCHANGED <<Batches, Nexts, Drains>>
  <2>1. CASE EventLoop
    BY <2>1, <1>1, Entered DEF EventLoop
  <2>2. CASE LeaveLoop
    BY <1>1, <2>2, Left DEF LeaveLoop, Drained, MainAt
  <2>3. CASE \E targets \in SUBSET Objects : AsyncWait(targets)
    <3>1. frames' = Append(frames, Frame("wait")) /\ ~glAsyncWaiting /\ (frames # <<>> => Top.at = "callback")
      BY <2>3 DEF AsyncWait, Runs
    <3>2. Len(frames) < 2
      <4>1. \A i \in DOMAIN frames : frames[i].loop # "wait"
        BY <3>1 DEF ControlInv, Nested
      <4>2. Len(frames) \in Nat /\ DOMAIN frames = 1..Len(frames) /\ Len(frames) <= 2
        BY DEF Typed, ControlInv, Nested
      <4>3. Len(frames) # 2
        BY <4>1, <4>2 DEF ControlInv, Nested
      <4>4. QED
        BY <4>2, <4>3
    <3>3. QED
      BY <1>1, <3>1, <3>2, Entered
  <2>4. QED
    BY <2>1, <2>2, <2>3
<1>3. UNCHANGED <<Submitted, Cancelled, Working>>
  BY <1>1, ListsKept
<1>4. QED
  BY <1>1, <1>2, <1>3, CallbackSame DEF tables, history

\* At the end every queue is dropped.
LEMMA JoinThreads_Callback ==
    ASSUME Typed, ControlInv, CallbackInv, JoinThreads
    PROVE  CallbackInv'
<1>1. /\ glActionQueues' = [o \in Objects |-> <<>>] /\ state' = "done"
      /\ UNCHANGED <<target, worker, glQueue, frames, users, callbacks>>
  BY DEF JoinThreads, history
<1>2. UNCHANGED <<Submitted, Cancelled, Working, Batches, Nexts, Drains>>
  BY <1>1, ListsKept
<1>3. PICK S, T : S = Callbacks /\ T = Callbacks'
  OBVIOUS
<1>4. Lists(S, glActionQueues, Submitted, Cancelled, Working, RequestsOf(glQueue), Batches, Nexts, Drains)
  BY <1>3, CallbackIn
<1>5. Lists(T, glActionQueues', Submitted, Cancelled, Working, RequestsOf(glQueue), Batches, Nexts, Drains)
  BY <1>1, <1>2, <1>3, KeptAt DEF Callbacks
<1>6. ASSUME NEW n \in Names PROVE T[n] = S[n] \/ T[n] = <<>>
  <2>1. CASE \E o \in Objects : n = <<"queue", o>>
    BY <1>1, <1>5, <2>1 DEF Lists
  <2>2. ASSUME NEW u \in Users PROVE n = <<"submitter", u>> \/ n = <<"cancelled", u>> => T[n] = S[n]
    BY <1>4, <1>5 DEF Lists
  <2>3. CASE \E r \in Requests : n = <<"worker", r>>
    BY <1>4, <1>5, <2>3 DEF Lists
  <2>4. CASE n = <<"posted", 1>>
    BY <1>4, <1>5, <2>4 DEF Lists
  <2>5. ASSUME NEW i \in Levels PROVE n = <<"batch", i>> \/ n = <<"next", i>> \/ n = <<"drained", i>> => T[n] = S[n]
    BY <1>4, <1>5 DEF Lists
  <2>6. QED
    BY <2>1, <2>2, <2>3, <2>4, <2>5, NameCases
<1>7. Apart(S, Names, Requests) /\ Content(S, Names, Requests) = Waiting
  BY <1>3 DEF CallbackInv, Waiting
<1>8. /\ \A n \in Names : Single(T[n], Requests) /\ Inside(T[n], Requests) \subseteq Inside(S[n], Requests)
  BY <1>6, <1>7, EmptyList DEF Apart
<1>9. Apart(T, Names, Requests) /\ Content(T, Names, Requests) \subseteq Waiting
  <2>1. ASSUME NEW m \in Names, NEW n \in Names, m # n PROVE Inside(T[m], Requests) \cap Inside(T[n], Requests) = {}
    BY <1>7, <2>1, <1>8 DEF Apart
  <2>2. Content(T, Names, Requests) \subseteq Content(S, Names, Requests)
    BY <1>8 DEF Content
  <2>3. QED
    BY <1>7, <1>8, <2>1, <2>2 DEF Apart
<1>10. QED
  BY <1>1, <1>3, <1>9 DEF CallbackInv, Waiting

----------------------------------------------------------------------------
(* Where callbacks wait: the main thread.                                  *)

\* What a step of the main thread leaves in place.
LEMMA MainLists ==
    ASSUME Typed, ControlInv, frames # <<>>, NEW f, SetTop(f), UNCHANGED users
    PROVE  /\ UNCHANGED <<Submitted, Cancelled>>
           /\ UNCHANGED worker => UNCHANGED Working
           /\ Unseen(f) = Unseen(Top) => UNCHANGED Batches
           /\ OfNext(f) = OfNext(Top) => UNCHANGED Nexts
           /\ f.drained = Top.drained => UNCHANGED Drains
           /\ Batches' = Put(Batches, Len(frames), RequestsOf(Unseen(f)))
           /\ Nexts' = Put(Nexts, Len(frames), OfNext(f))
           /\ Drains' = Put(Drains, Len(frames), f.drained)
           /\ Batches[Len(frames)] = RequestsOf(Unseen(Top)) /\ Nexts[Len(frames)] = OfNext(Top)
           /\ Drains[Len(frames)] = Top.drained /\ Len(frames) \in Levels
  BY ListsKept, TopKept, TopLists, TopHas DEF Put

\* The fields of the frame on top.
LEMMA TopFields ==
    ASSUME Typed, ControlInv, frames # <<>>
    PROVE  /\ Top \in FrameType /\ FrameOK(Top, target)
           /\ Top.batch \in Seq(Messages) /\ (Top.at # "loop" => Top.batch # <<>>)
           /\ Top.at \notin {"clear", "count", "notify"} => Top.drained = <<>>
  BY TopIs DEF FrameType, FrameOK

LEMMA FetchBatch_Callback ==
    ASSUME Typed, ControlInv, CallbackInv, FetchBatch
    PROVE  CallbackInv'
<1>1. PICK f, k : f = [Top EXCEPT !.batch = glQueue] /\ k = Len(frames)
  OBVIOUS
<1>2. /\ frames # <<>> /\ Top.at = "loop" /\ Top.batch = <<>> /\ SetTop(f) /\ glQueue' = <<>>
      /\ UNCHANGED <<tables, worker, state, history, target, users>>
  BY <1>1 DEF FetchBatch, MainAt, MainElsewhere
<1>3. f.at = "loop" /\ f.batch = glQueue /\ f.drained = Top.drained /\ f.next = Top.next
  BY <1>1, <1>2, TopFields DEF FrameType
<1>4. Unseen(Top) = <<>> /\ Unseen(f) = glQueue /\ OfNext(f) = OfNext(Top)
  BY <1>2, <1>3 DEF Unseen, OfNext, InLaunch
<1>5. /\ UNCHANGED <<Submitted, Cancelled, Working, Nexts, Drains>> /\ k \in Levels
      /\ Batches' = Put(Batches, k, RequestsOf(glQueue)) /\ Batches[k] = <<>>
  BY <1>1, <1>2, <1>3, <1>4, MainLists, NoMessages
<1>6. RequestsOf(glQueue) = Batches[k] \o RequestsOf(glQueue)
  BY RequestLists, <1>5, EmptyJoin DEF Typed
<1>7. CallbacksKept(Waiting) /\ On(Batches, Levels)
  BY CallbackBase
<1>8. Store(Kept(glActionQueues, Submitted, Cancelled, Working, <<>>, Put(Batches, k, Batches[k] \o RequestsOf(glQueue)),
                 Nexts, Drains), Names, Entries, Requests, Waiting)
  BY <1>5, <1>7, MovePostedBatch DEF CallbacksKept
<1>9. RequestsOf(glQueue') = <<>>
  BY <1>2, NoMessages
<1>10. Store(Callbacks', Names, Entries, Requests, Waiting)
  BY <1>2, <1>5, <1>6, <1>8, <1>9 DEF Callbacks, tables
<1>11. QED
  BY <1>2, <1>10, CallbackDone DEF history

\* The message in hand leaves the batch.
LEMMA TakeMessage ==
    ASSUME Typed, ControlInv, CallbackInv, frames # <<>>, Top.at = "loop", Top.batch # <<>>,
           NEW f, SetTop(f), Unseen(f) = Tail(Top.batch), OfNext(f) = OfNext(Top), f.drained = Top.drained,
           UNCHANGED <<tables, worker, users, glQueue>>
    PROVE  /\ Store(Callbacks', Names, Entries, Requests, Waiting \ {Message.request})
           /\ Message.request \in Requests => Message.request \in Waiting
<1>1. PICK k, b : k = Len(frames) /\ b = Top.batch
  OBVIOUS
<1>2. Unseen(Top) = b
  BY <1>1 DEF Unseen
<1>3. /\ UNCHANGED <<Submitted, Cancelled, Working, Nexts, Drains>> /\ k \in Levels
      /\ Batches' = Put(Batches, k, RequestsOf(Tail(b))) /\ Batches[k] = RequestsOf(b)
  BY <1>1, <1>2, MainLists
<1>4. /\ RequestsOf(b) # <<>> /\ Head(RequestsOf(b)) = Head(b).request
      /\ RequestsOf(Tail(b)) = Tail(RequestsOf(b))
  BY <1>1, TopFields, BeheadedMessages
<1>5. Head(b).request = Message.request
  BY <1>1 DEF Message
<1>6. CallbacksKept(Waiting) /\ On(Batches, Levels)
  BY CallbackBase
<1>7. /\ Store(Kept(glActionQueues, Submitted, Cancelled, Working, RequestsOf(glQueue), Put(Batches, k, Tail(Batches[k])),
                    Nexts, Drains), Names, Entries, Requests, Waiting \ {Head(Batches[k])})
      /\ Head(Batches[k]) \in Requests => Head(Batches[k]) \in Waiting
  BY <1>3, <1>4, <1>6, BeheadBatch DEF CallbacksKept
<1>8. QED
  BY <1>3, <1>4, <1>5, <1>7 DEF Callbacks, tables

LEMMA BreakMessage_Callback ==
    ASSUME Typed, ControlInv, CallbackInv, BreakMessage
    PROVE  CallbackInv'
<1>1. PICK f : f = [Top EXCEPT !.batch = Tail(@), !.breaking = @ \/ Top.loop = "wait"]
  OBVIOUS
<1>2. /\ frames # <<>> /\ Top.at = "loop" /\ Top.batch # <<>> /\ SetTop(f) /\ Message = BREAK
      /\ UNCHANGED <<tables, worker, state, history, target, users, glQueue>>
  BY <1>1 DEF BreakMessage, MainAt, MainElsewhere
<1>3. f.at = "loop" /\ f.batch = Tail(Top.batch) /\ f.drained = Top.drained /\ f.next = Top.next
  BY <1>1, <1>2, TopFields DEF FrameType
<1>4. Unseen(f) = Tail(Top.batch) /\ OfNext(f) = OfNext(Top)
  BY <1>2, <1>3 DEF Unseen, OfNext, InLaunch
<1>5. Store(Callbacks', Names, Entries, Requests, Waiting \ {Message.request})
  BY <1>2, <1>3, <1>4, TakeMessage
<1>6. Message.request \notin Waiting
  BY AsyncAssumption, <1>2 DEF Waiting, Content, Inside, BREAK, Requests
<1>7. Store(Callbacks', Names, Entries, Requests, Waiting)
  BY <1>5, <1>6
<1>8. QED
  BY <1>2, <1>7, CallbackDone DEF history

LEMMA BeginCallback_Callback ==
    ASSUME Typed, ControlInv, CallbackInv, BeginCallback
    PROVE  CallbackInv'
<1>1. PICK r : r = Message.request
  OBVIOUS
<1>2. /\ frames # <<>> /\ Top.at = "loop" /\ Top.batch # <<>> /\ Message # BREAK
      /\ callbacks' = [callbacks EXCEPT ![r] = @ + 1]
      /\ UNCHANGED <<tables, worker, state, target, users, glQueue>>
      /\ \/ SetTop([Top EXCEPT !.at = "callback", !.locked = TRUE])
         \/ SetTop([Top EXCEPT !.at = "callback"])
  BY <1>1 DEF BeginCallback, MainAt, MainElsewhere, Goto
<1>3. r \in Requests
  BY <1>1, <1>2, InHand
<1>4. PICK f : SetTop(f) /\ f.at = "callback" /\ f.batch = Top.batch /\ f.drained = Top.drained
  <2>1. Top \in FrameType
    BY <1>2, TopFields
  <2>2. PICK f, g : f = [Top EXCEPT !.at = "callback", !.locked = TRUE] /\ g = [Top EXCEPT !.at = "callback"]
    OBVIOUS
  <2>3. /\ f.at = "callback" /\ f.batch = Top.batch /\ f.drained = Top.drained
        /\ g.at = "callback" /\ g.batch = Top.batch /\ g.drained = Top.drained
    BY <2>1, <2>2 DEF FrameType
  <2>4. QED
    BY <1>2, <2>2, <2>3
<1>5. Unseen(f) = Tail(Top.batch) /\ OfNext(f) = OfNext(Top)
  BY <1>2, <1>4 DEF Unseen, OfNext, InLaunch
<1>6. Store(Callbacks', Names, Entries, Requests, Waiting \ {r}) /\ r \in Waiting
  BY <1>1, <1>2, <1>3, <1>4, <1>5, TakeMessage
<1>7. Apart(Callbacks, Names, Requests)' /\ Waiting' = Waiting \ {r}
  BY <1>6, StoreIs DEF Waiting
<1>8. callbacks[r] = 0 /\ callbacks'[r] = 1 /\ \A q \in Requests : q # r => callbacks'[q] = callbacks[q]
  BY <1>2, <1>3, <1>6 DEF CallbackInv, Typed, HistoryTyped
<1>9. target[r] # None
  BY <1>6 DEF CallbackInv
<1>10. Waiting \subseteq Requests
  BY DEF Waiting, Content, Inside
<1>11. QED
  BY <1>2, <1>7, <1>8, <1>9, <1>10 DEF CallbackInv

\* Callbacks stay where they are but for those of an object that is freed.
LEMMA DoneCallback ==
    ASSUME Typed, ControlInv, CallbackInv, frames # <<>>, NEW f, SetTop(f), MainElsewhere,
           Unseen(f) = Unseen(Top), OfNext(f) = OfNext(Top), f.drained = Top.drained,
           Object \in Objects, UNCHANGED <<worker, state, history>>,
           \/ IF Top.locked THEN ReleaseObject(Object) ELSE UNCHANGED <<objects, tables, glQueue>>
           \/ UNCHANGED <<glActionQueues, glQueue>>
    PROVE  CallbackInv'
<1>1. UNCHANGED <<users, target>>
  BY DEF MainElsewhere
<1>2. UNCHANGED <<Submitted, Cancelled, Working, Batches, Nexts, Drains>>
  BY <1>1, MainLists
<1>3. CASE UNCHANGED <<glActionQueues, glQueue>>
  BY <1>1, <1>2, <1>3, CallbackSame DEF history
<1>4. CASE ReleaseObject(Object) \/ UNCHANGED <<objects, tables, glQueue>>
  BY <1>1, <1>4, ReleaseFrees, <1>2, FreedCallback DEF history
<1>5. QED
  BY <1>3, <1>4

LEMMA EndCallback_Callback ==
    ASSUME Typed, ControlInv, CallbackInv, EndCallback
    PROVE  CallbackInv'
<1>1. /\ frames # <<>> /\ Top.at = "callback" /\ MainElsewhere
      /\ IF Top.locked THEN ReleaseObject(Object) ELSE UNCHANGED <<objects, tables, glQueue>>
      /\ IF Message.DispatchNext THEN SetTop([Top EXCEPT !.at = "dispatch", !.locked = FALSE]) ELSE NextMessage
      /\ UNCHANGED <<worker, state, history>>
  BY DEF EndCallback, MainAt
<1>2. Top \in FrameType /\ Top.batch # <<>> /\ Object \in Objects
  BY <1>1, TopFields, InHand
<1>3. PICK f : /\ SetTop(f) /\ f.drained = Top.drained
               /\ \/ f.at = "dispatch" /\ f.batch = Top.batch
                  \/ f.at = "loop" /\ f.batch = Tail(Top.batch)
  <2>1. PICK f, g : /\ f = [Top EXCEPT !.at = "dispatch", !.locked = FALSE]
                    /\ g = [Top EXCEPT !.at = "loop", !.batch = Tail(@), !.next = None, !.locked = FALSE]
    OBVIOUS
  <2>2. SetTop(f) \/ SetTop(g)
    BY <1>1, <2>1 DEF NextMessage
  <2>3. /\ f.at = "dispatch" /\ f.batch = Top.batch /\ f.drained = Top.drained
        /\ g.at = "loop" /\ g.batch = Tail(Top.batch) /\ g.drained = Top.drained
    BY <1>2, <2>1 DEF FrameType
  <2>4. QED
    BY <2>2, <2>3
<1>4. Unseen(f) = Unseen(Top) /\ OfNext(f) = OfNext(Top)
  BY <1>1, <1>3 DEF Unseen, OfNext, InLaunch
<1>5. QED
  BY <1>1, <1>2, <1>3, <1>4, DoneCallback

\* The steps of the dispatch that move no callback.
LEMMA Still_Callback ==
    ASSUME Typed, ControlInv, CallbackInv, StopDispatch \/ AccessForLaunch \/ ClearFlag \/ EndDispatch
    PROVE  CallbackInv'
<1>1. /\ frames # <<>> /\ Top.at \in {"dispatch", "launch", "clear", "unlock"} /\ MainElsewhere
      /\ UNCHANGED <<worker, state, history>>
  BY DEF StopDispatch, AccessForLaunch, ClearFlag, EndDispatch, MainAt, DispatchElsewhere
<1>2. Top \in FrameType /\ Object \in Objects
  BY <1>1, Dispatching
<1>3. ASSUME NEW f, SetTop(f), f.drained = Top.drained,
             f.batch = Top.batch /\ f.at # "loop" /\ f.next = Top.next /\ (InLaunch(f) <=> InLaunch(Top)),
             UNCHANGED <<tables, glQueue>>
      PROVE  CallbackInv'
  BY <1>1, <1>3, <1>2, DoneCallback DEF Unseen, OfNext, tables
<1>4. CASE StopDispatch
  BY <1>4, <1>2, <1>3 DEF StopDispatch, Goto, MainAt, FrameType, InLaunch
<1>5. CASE AccessForLaunch
  BY <1>5, <1>2, <1>3 DEF AccessForLaunch, MainAt, FrameType, InLaunch
<1>6. CASE ClearFlag
  <2>1. /\ \/ SetTop([Top EXCEPT !.at = "count", !.locked = @ \/ holder[Object] = None])
           \/ SetTop([Top EXCEPT !.at = "notify"])
        /\ UNCHANGED <<tables, glQueue>> /\ Top.at = "clear"
    BY <1>6 DEF ClearFlag, Goto, MainAt
  <2>2. PICK f : /\ SetTop(f) /\ f.at \in {"count", "notify"} /\ f.drained = Top.drained /\ f.batch = Top.batch
                 /\ f.next = Top.next
    <3>1. PICK f, g : /\ f = [Top EXCEPT !.at = "count", !.locked = @ \/ holder[Object] = None]
                      /\ g = [Top EXCEPT !.at = "notify"]
      OBVIOUS
    <3>2. /\ f.at = "count" /\ f.drained = Top.drained /\ f.batch = Top.batch /\ f.next = Top.next
          /\ g.at = "notify" /\ g.drained = Top.drained /\ g.batch = Top.batch /\ g.next = Top.next
      BY <1>2, <3>1 DEF FrameType
    <3>3. QED
      BY <2>1, <3>1, <3>2
  <2>3. QED
    BY <1>3, <2>1, <2>2 DEF InLaunch
<1>7. CASE EndDispatch
  BY <1>7, <1>2, <1>1, DoneCallback DEF EndDispatch, MainAt, NextMessage, FrameType, Unseen, OfNext,
    InLaunch
<1>8. QED
  BY <1>4, <1>5, <1>6, <1>7

----------------------------------------------------------------------------
(* Where callbacks wait: the dispatch.                                     *)

\* What is about to be launched is nowhere else.
LEMMA NextIn ==
    ASSUME Typed, ControlInv, CallbackInv, frames # <<>>, InLaunch(Top)
    PROVE  /\ Top.next \in Requests /\ Object \in Objects /\ target[Top.next] = Object
           /\ Top.next \in Waiting /\ Working[Top.next] = <<>> /\ OfNext(Top) = <<Top.next>>
           /\ worker[Top.next] \in {"none", "cleanup", "finished"}
           /\ Nexts[Len(frames)] = <<Top.next>> /\ Len(frames) \in Levels
<1>1. PICK r, k : r = Top.next /\ k = Len(frames)
  OBVIOUS
<1>2. r \in Requests /\ Object \in Objects /\ target[r] = Object
  BY <1>1, Dispatching DEF InLaunch
<1>3. OfNext(Top) = <<r>> /\ Nexts[k] = <<r>> /\ k \in Levels
  BY <1>1, TopHas DEF OfNext
<1>4. /\ <<"next", k>> \in Names /\ <<"worker", r>> \in Names /\ <<"next", k>> # <<"worker", r>>
      /\ Callbacks[<<"next", k>>] = <<r>> /\ Callbacks[<<"worker", r>>] = Working[r]
  BY <1>2, <1>3, NamesAre, CallbackIn DEF Lists
<1>5. /\ Inside(<<r>>, Requests) \subseteq Waiting
      /\ Inside(<<r>>, Requests) \cap Inside(Working[r], Requests) = {}
  BY <1>4, CallbackIn
<1>6. Inside(<<r>>, Requests) = {r}
  BY <1>2, OneElement
<1>7. Working[r] = OfWorker(r, worker[r])
  BY <1>2 DEF Working
<1>8. worker[r] \in {"none", "cleanup", "finished"} /\ Working[r] = <<>>
  BY <1>5, <1>6, <1>7 DEF OfWorker
<1>9. QED
  BY <1>1, <1>2, <1>3, <1>5, <1>6, <1>8

LEMMA Pop_Callback ==
    ASSUME Typed, ControlInv, CallbackInv, Pop
    PROVE  CallbackInv'
<1>1. /\ frames # <<>> /\ Top.at = "dispatch" /\ MainElsewhere
      /\ UNCHANGED <<worker, glQueue, state, history, target, users>>
  BY DEF Pop, MainAt, DispatchElsewhere, MainElsewhere
<1>2. Top \in FrameType /\ Object \in Objects
  BY <1>1, Dispatching
<1>3. CASE Goto("clear") /\ UNCHANGED glActionQueues
  BY <1>2, <1>3, <1>1, DoneCallback DEF FrameType, Goto, Unseen, OfNext, InLaunch
<1>4. CASE /\ glActionQueues[Object] # <<>>
           /\ SetTop([Top EXCEPT !.at = "launch", !.next = Head(glActionQueues[Object])])
           /\ glActionQueues' = [glActionQueues EXCEPT ![Object] = Tail(@)]
  <2>1. PICK f, k, q, r : /\ f = [Top EXCEPT !.at = "launch", !.next = Head(glActionQueues[Object])]
                          /\ k = Len(frames) /\ q = glActionQueues[Object] /\ r = Head(q)
    OBVIOUS
  <2>2. /\ SetTop(f) /\ f.at = "launch" /\ f.batch = Top.batch /\ f.drained = Top.drained /\ f.next = r
    BY <1>2, <1>4, <2>1 DEF FrameType
  <2>3. Unseen(f) = Unseen(Top) /\ OfNext(f) = <<r>> /\ OfNext(Top) = <<>>
    BY <1>1, <2>2 DEF Unseen, OfNext, InLaunch
  <2>4. /\ UNCHANGED <<Submitted, Cancelled, Working, Batches, Drains>> /\ k \in Levels
        /\ Nexts' = Put(Nexts, k, <<r>>) /\ Nexts[k] = <<>>
    BY <1>1, <2>1, <2>2, <2>3, MainLists
  <2>5. <<r>> = <<>> \o <<r>>
    OBVIOUS
  <2>6. CallbacksKept(Waiting) /\ On(glActionQueues, Objects) /\ On(Nexts, Levels)
    BY CallbackBase
  <2>7. Store(Kept(Put(glActionQueues, Object, Tail(glActionQueues[Object])), Submitted, Cancelled, Working,
                   RequestsOf(glQueue), Batches, Put(Nexts, k, Nexts[k] \o <<Head(glActionQueues[Object])>>), Drains),
              Names, Entries, Requests, Waiting)
    BY <1>2, <1>4, <2>4, <2>6, PassQueueNext DEF CallbacksKept
  <2>8. glActionQueues' = Put(glActionQueues, Object, Tail(glActionQueues[Object]))
    BY <1>4 DEF Put
  <2>9. Store(Callbacks', Names, Entries, Requests, Waiting)
    BY <1>1, <2>1, <2>4, <2>5, <2>7, <2>8 DEF Callbacks
  <2>10. QED
    BY <1>1, <2>9, CallbackDone DEF history
<1>5. QED
  BY <1>3, <1>4 DEF Pop

LEMMA DropQueue_Callback ==
    ASSUME Typed, ControlInv, CallbackInv, DropQueue
    PROVE  CallbackInv'
<1>1. PICK f, k, r, o : /\ f = [Top EXCEPT !.at = "loop", !.batch = Tail(@), !.next = None, !.locked = FALSE]
                        /\ k = Len(frames) /\ r = Top.next /\ o = Object
  OBVIOUS
<1>2. /\ frames # <<>> /\ Top.at = "launch" /\ MainElsewhere /\ SetTop(f)
      /\ SendMessages(DropMessages(o)) /\ ForgetObject(o)
      /\ UNCHANGED <<worker, state, history, target, users>>
  BY <1>1 DEF DropQueue, MainAt, DispatchElsewhere, MainElsewhere, NextMessage
<1>3. /\ r \in Requests /\ o \in Objects /\ Nexts[k] = <<r>> /\ k \in Levels /\ OfNext(Top) = <<r>>
  BY <1>1, <1>2, NextIn DEF InLaunch
<1>4. f.at = "loop" /\ f.batch = Tail(Top.batch) /\ f.drained = Top.drained
  BY <1>1, <1>2, TopFields DEF FrameType
<1>5. Unseen(f) = Unseen(Top) /\ OfNext(f) = <<>>
  BY <1>2, <1>4 DEF Unseen, OfNext, InLaunch
<1>6. /\ UNCHANGED <<Submitted, Cancelled, Working, Batches, Drains>> /\ Nexts' = Put(Nexts, k, <<>>)
  BY <1>1, <1>2, <1>4, <1>5, MainLists
<1>7. RequestsOf(glQueue') = (RequestsOf(glQueue) \o Nexts[k]) \o glActionQueues[o]
  <2>1. PICK m, n : m = <<Notice(r)>> /\ n = Notices(glActionQueues[o])
    OBVIOUS
  <2>2. Notice(r) \in Messages /\ Notice(r).request = r
    BY <1>3 DEF Notice, Messages
  <2>3. /\ m \in Seq(Messages) /\ RequestsOf(m) = <<r>> /\ n \in Seq(Messages)
        /\ RequestsOf(n) = glActionQueues[o]
    BY <1>3, <2>1, <2>2, OneMessage, QueueNotices
  <2>4. glQueue \in Seq(Messages) /\ glQueue' = glQueue \o (m \o n)
    BY <1>1, <1>2, <2>1 DEF Typed, SendMessages, DropMessages
  <2>5. glQueue' = (glQueue \o m) \o n
    BY <2>3, <2>4
  <2>6. RequestsOf(glQueue \o m) = RequestsOf(glQueue) \o RequestsOf(m) /\ glQueue \o m \in Seq(Messages)
    BY <2>3, <2>4, JoinLists
  <2>7. RequestsOf((glQueue \o m) \o n) = RequestsOf(glQueue \o m) \o RequestsOf(n)
    BY <2>3, <2>6, JoinLists
  <2>8. QED
    BY <1>3, <2>3, <2>5, <2>6, <2>7
<1>8. CallbacksKept(Waiting) /\ On(glActionQueues, Objects) /\ On(Nexts, Levels)
  BY CallbackBase
<1>9. Store(Kept(glActionQueues, Submitted, Cancelled, Working, RequestsOf(glQueue) \o Nexts[k], Batches,
                 Put(Nexts, k, <<>>), Drains), Names, Entries, Requests, Waiting)
  BY <1>3, <1>8, MoveNextPosted DEF CallbacksKept
<1>10. Store(Kept(Put(glActionQueues, o, <<>>), Submitted, Cancelled, Working,
                  (RequestsOf(glQueue) \o Nexts[k]) \o glActionQueues[o], Batches,
                  Put(Nexts, k, <<>>), Drains), Names, Entries, Requests, Waiting)
  BY <1>3, <1>8, <1>9, MoveQueuePosted
<1>11. glActionQueues' = Put(glActionQueues, o, <<>>)
  BY <1>2 DEF ForgetObject, Put
<1>12. Store(Callbacks', Names, Entries, Requests, Waiting)
  BY <1>6, <1>7, <1>10, <1>11 DEF Callbacks
<1>13. QED
  BY <1>2, <1>12, CallbackDone DEF history

LEMMA LaunchNext_Callback ==
    ASSUME Typed, ControlInv, CallbackInv, LaunchNext
    PROVE  CallbackInv'
<1>1. PICK f, k, r, o : /\ f = [Top EXCEPT !.at = "loop", !.batch = Tail(@), !.next = None, !.locked = FALSE]
                        /\ k = Len(frames) /\ r = Top.next /\ o = Object
  OBVIOUS
<1>2. /\ frames # <<>> /\ Top.at = "check" /\ SetTop(f) /\ worker' = [worker EXCEPT ![r] = "start"]
      /\ IF Top.locked THEN ReleaseObject(o) ELSE UNCHANGED <<objects, tables, glQueue>>
      /\ UNCHANGED <<state, history, target, users>>
  BY <1>1 DEF LaunchNext, MainAt, DispatchElsewhere, MainElsewhere, NextMessage
<1>3. /\ r \in Requests /\ o \in Objects /\ Nexts[k] = <<r>> /\ k \in Levels /\ OfNext(Top) = <<r>>
      /\ Working[r] = <<>>
  BY <1>1, <1>2, NextIn DEF InLaunch
<1>4. f.at = "loop" /\ f.batch = Tail(Top.batch) /\ f.drained = Top.drained
  BY <1>1, <1>2, TopFields DEF FrameType
<1>5. Unseen(f) = Unseen(Top) /\ OfNext(f) = <<>>
  BY <1>2, <1>4 DEF Unseen, OfNext, InLaunch
<1>6. /\ UNCHANGED <<Submitted, Cancelled, Batches, Drains>> /\ Nexts' = Put(Nexts, k, <<>>)
  BY <1>1, <1>2, <1>4, <1>5, MainLists
<1>7. Working' = Put(Working, r, Working[r] \o Nexts[k])
  <2>1. Working' = Put(Working, r, <<r>>)
    BY <1>2, <1>3 DEF Working, Put, OfWorker, Typed, ThreadsTyped
  <2>2. <<>> \o <<r>> = <<r>>
    OBVIOUS
  <2>3. QED
    BY <1>3, <2>1, <2>2
<1>8. CallbacksKept(Waiting) /\ On(Working, Requests) /\ On(Nexts, Levels)
  BY CallbackBase
<1>9. Store(Kept(glActionQueues, Submitted, Cancelled, Put(Working, r, Working[r] \o Nexts[k]), RequestsOf(glQueue),
                 Batches, Put(Nexts, k, <<>>), Drains), Names, Entries, Requests, Waiting)
  BY <1>3, <1>8, MoveNextWorker DEF CallbacksKept
<1>10. QueueFreed(o)
  BY <1>2, <1>3, ReleaseFrees
<1>11. Store(Kept(glActionQueues', Submitted, Cancelled, Put(Working, r, Working[r] \o Nexts[k]), RequestsOf(glQueue'),
                 Batches, Put(Nexts, k, <<>>), Drains), Names, Entries, Requests, Waiting)
  BY <1>3, <1>9, <1>10, FreedMoves
<1>12. Store(Callbacks', Names, Entries, Requests, Waiting)
  BY <1>6, <1>7, <1>11 DEF Callbacks
<1>13. QED
  BY <1>2, <1>12, CallbackDone DEF history

LEMMA RefuseLaunch_Callback ==
    ASSUME Typed, ControlInv, CallbackInv, RefuseLaunch
    PROVE  CallbackInv'
<1>1. PICK f, k, r : f = [Top EXCEPT !.at = "drain"] /\ k = Len(frames) /\ r = Top.next
  OBVIOUS
<1>2. /\ frames # <<>> /\ Top.at = "check" /\ SetTop(f) /\ SendMessages(<<Notice(r)>>)
      /\ UNCHANGED <<tables, worker, state, history, target, users>>
  BY <1>1 DEF RefuseLaunch, MainAt, DispatchElsewhere, MainElsewhere, Goto
<1>3. /\ r \in Requests /\ Nexts[k] = <<r>> /\ k \in Levels /\ OfNext(Top) = <<r>>
  BY <1>1, <1>2, NextIn DEF InLaunch
<1>4. f.at = "drain" /\ f.batch = Top.batch /\ f.drained = Top.drained
  BY <1>1, <1>2, TopFields DEF FrameType
<1>5. Unseen(f) = Unseen(Top) /\ OfNext(f) = <<>>
  BY <1>2, <1>4 DEF Unseen, OfNext, InLaunch
<1>6. /\ UNCHANGED <<Submitted, Cancelled, Working, Batches, Drains>> /\ Nexts' = Put(Nexts, k, <<>>)
  BY <1>1, <1>2, <1>4, <1>5, MainLists
<1>7. RequestsOf(glQueue') = RequestsOf(glQueue) \o Nexts[k]
  <2>1. Notice(r) \in Messages /\ Notice(r).request = r
    BY <1>3 DEF Notice, Messages
  <2>2. <<Notice(r)>> \in Seq(Messages) /\ RequestsOf(<<Notice(r)>>) = <<r>>
    BY <2>1, OneMessage
  <2>3. glQueue \in Seq(Messages) /\ glQueue' = glQueue \o <<Notice(r)>>
    BY <1>2 DEF Typed, SendMessages
  <2>4. RequestsOf(glQueue \o <<Notice(r)>>) = RequestsOf(glQueue) \o RequestsOf(<<Notice(r)>>)
    BY <2>2, <2>3, JoinLists
  <2>5. QED
    BY <1>3, <2>2, <2>3, <2>4
<1>8. CallbacksKept(Waiting) /\ On(Nexts, Levels)
  BY CallbackBase
<1>9. Store(Kept(glActionQueues, Submitted, Cancelled, Working, RequestsOf(glQueue) \o Nexts[k], Batches,
                 Put(Nexts, k, <<>>), Drains), Names, Entries, Requests, Waiting)
  BY <1>3, <1>8, MoveNextPosted DEF CallbacksKept
<1>10. Store(Callbacks', Names, Entries, Requests, Waiting)
  BY <1>2, <1>6, <1>7, <1>9 DEF Callbacks, tables
<1>11. QED
  BY <1>2, <1>10, CallbackDone DEF history

LEMMA DrainQueue_Callback ==
    ASSUME Typed, ControlInv, CallbackInv, DrainQueue
    PROVE  CallbackInv'
<1>1. PICK f, k, o : f = [Top EXCEPT !.at = "clear", !.drained = glActionQueues[Object]] /\ k = Len(frames) /\ o = Object
  OBVIOUS
<1>2. /\ frames # <<>> /\ Top.at = "drain" /\ SetTop(f) /\ ForgetObject(o)
      /\ UNCHANGED <<worker, glQueue, state, history, target, users>>
  BY <1>1 DEF DrainQueue, MainAt, DispatchElsewhere, MainElsewhere
<1>3. o \in Objects /\ Top.drained = <<>>
  BY <1>1, <1>2, Dispatching, TopFields
<1>4. f.at = "clear" /\ f.batch = Top.batch /\ f.drained = glActionQueues[o]
  BY <1>1, <1>2, TopFields DEF FrameType
<1>5. Unseen(f) = Unseen(Top) /\ OfNext(f) = OfNext(Top)
  BY <1>2, <1>4 DEF Unseen, OfNext, InLaunch
<1>6. /\ UNCHANGED <<Submitted, Cancelled, Working, Batches, Nexts>>
      /\ Drains' = Put(Drains, k, glActionQueues[o]) /\ Drains[k] = <<>> /\ k \in Levels
  BY <1>1, <1>2, <1>3, <1>4, <1>5, MainLists
<1>7. glActionQueues[o] = Drains[k] \o glActionQueues[o]
  BY <1>3, <1>6, EmptyJoin DEF Typed, TablesTyped
<1>8. CallbacksKept(Waiting) /\ On(glActionQueues, Objects) /\ On(Drains, Levels)
  BY CallbackBase
<1>9. Store(Kept(Put(glActionQueues, o, <<>>), Submitted, Cancelled, Working, RequestsOf(glQueue), Batches, Nexts,
                 Put(Drains, k, Drains[k] \o glActionQueues[o])), Names, Entries, Requests, Waiting)
  BY <1>3, <1>6, <1>8, MoveQueueDrained DEF CallbacksKept
<1>10. glActionQueues' = Put(glActionQueues, o, <<>>)
  BY <1>2 DEF ForgetObject, Put
<1>11. Store(Callbacks', Names, Entries, Requests, Waiting)
  BY <1>2, <1>6, <1>7, <1>9, <1>10 DEF Callbacks
<1>12. QED
  BY <1>2, <1>11, CallbackDone DEF history

LEMMA CountDown_Callback ==
    ASSUME Typed, ControlInv, CallbackInv, CountDown
    PROVE  CallbackInv'
<1>1. PICK f, o : f = [Top EXCEPT !.at = "notify"] /\ o = Object
  OBVIOUS
<1>2. /\ frames # <<>> /\ Top.at = "count" /\ SetTop(f) /\ async_wait_callback(o, -1)
      /\ UNCHANGED <<tables, worker, state, history, target, users>>
  BY <1>1 DEF CountDown, MainAt, DispatchElsewhere, MainElsewhere, Goto
<1>3. o \in Objects
  BY <1>1, <1>2, Dispatching
<1>4. f.at = "notify" /\ f.batch = Top.batch /\ f.drained = Top.drained
  BY <1>1, <1>2, TopFields DEF FrameType
<1>5. Unseen(f) = Unseen(Top) /\ OfNext(f) = OfNext(Top)
  BY <1>2, <1>4 DEF Unseen, OfNext, InLaunch
<1>6. UNCHANGED <<Submitted, Cancelled, Working, Batches, Nexts, Drains>>
  BY <1>2, <1>4, <1>5, MainLists
<1>7. CallbacksKept(Waiting)
  BY CallbackBase
<1>8. Store(Kept(glActionQueues, Submitted, Cancelled, Working, RequestsOf(glQueue'), Batches, Nexts, Drains),
            Names, Entries, Requests, Waiting)
  BY <1>2, <1>3, <1>7, CountMoves DEF CallbacksKept
<1>9. Store(Callbacks', Names, Entries, Requests, Waiting)
  BY <1>2, <1>6, <1>8 DEF Callbacks, tables
<1>10. QED
  BY <1>2, <1>9, CallbackDone DEF history

LEMMA DrainedMade ==
    ASSUME Typed, ControlInv, CallbackInv, frames # <<>>
    PROVE  Top.drained \in Seq(Requests) /\ \A i \in DOMAIN Top.drained : target[Top.drained[i]] # None
<1>1. PICK s, k : s = Top.drained /\ k = Len(frames)
  OBVIOUS
<1>2. s \in Seq(Requests) /\ k \in Levels /\ Drains[k] = s
  BY <1>1, TopFields, TopHas DEF FrameType
<1>3. <<"drained", k>> \in Names /\ Callbacks[<<"drained", k>>] = s
  BY <1>2, NamesAre, CallbackIn DEF Lists
<1>4. Inside(s, Requests) \subseteq Waiting
  BY <1>3, CallbackIn
<1>5. \A i \in DOMAIN s : target[s[i]] # None
  BY <1>2, <1>4, Made
<1>6. QED
  BY <1>1, <1>2, <1>5

LEMMA Notify_Callback ==
    ASSUME Typed, ControlInv, CallbackInv, Notify
    PROVE  CallbackInv'
<1>1. PICK f, k, d : f = [Top EXCEPT !.at = "unlock", !.drained = <<>>] /\ k = Len(frames) /\ d = Top.drained
  OBVIOUS
<1>2. /\ frames # <<>> /\ Top.at = "notify" /\ SetTop(f) /\ SendMessages(Notices(d))
      /\ UNCHANGED <<tables, worker, state, history, target, users>>
  BY <1>1 DEF Notify, MainAt, DispatchElsewhere, MainElsewhere
<1>3. f.at = "unlock" /\ f.batch = Top.batch /\ f.drained = <<>>
  BY <1>1, <1>2, TopFields DEF FrameType
<1>4. Unseen(f) = Unseen(Top) /\ OfNext(f) = OfNext(Top)
  BY <1>2, <1>3 DEF Unseen, OfNext, InLaunch
<1>5. /\ UNCHANGED <<Submitted, Cancelled, Working, Batches, Nexts>>
      /\ Drains' = Put(Drains, k, <<>>) /\ Drains[k] = d /\ k \in Levels
  BY <1>1, <1>2, <1>3, <1>4, MainLists
<1>6. RequestsOf(glQueue') = RequestsOf(glQueue) \o Drains[k]
  <2>1. d \in Seq(Requests)
    BY <1>1, <1>2, DrainedMade
  <2>2. Notices(d) \in Seq(Messages) /\ RequestsOf(Notices(d)) = d
    BY <2>1, NoticeLists
  <2>3. glQueue \in Seq(Messages) /\ glQueue' = glQueue \o Notices(d)
    BY <1>2 DEF Typed, SendMessages
  <2>4. RequestsOf(glQueue \o Notices(d)) = RequestsOf(glQueue) \o RequestsOf(Notices(d))
    BY <2>2, <2>3, JoinLists
  <2>5. QED
    BY <1>5, <2>2, <2>3, <2>4
<1>7. CallbacksKept(Waiting) /\ On(Drains, Levels)
  BY CallbackBase
<1>8. Store(Kept(glActionQueues, Submitted, Cancelled, Working, RequestsOf(glQueue) \o Drains[k], Batches, Nexts,
                 Put(Drains, k, <<>>)), Names, Entries, Requests, Waiting)
  BY <1>5, <1>7, MoveDrainedPosted DEF CallbacksKept
<1>9. Store(Callbacks', Names, Entries, Requests, Waiting)
  BY <1>2, <1>5, <1>6, <1>8 DEF Callbacks, tables
<1>10. QED
  BY <1>2, <1>9, CallbackDone DEF history

----------------------------------------------------------------------------
(* Who serves an object: what an action leaves alone, and the users.       *)

ServicesKept(A) ==
    Store(Kept(Idle(Objects), JobServes, Idle(Users), WorkerServes, ObjectsOf(glQueue, target), FrameServes,
               Idle(Levels), Idle(Levels)), Names, Things, Objects, A)

LEMMA ServiceBase ==
    ASSUME Typed, ControlInv, ServeInv
    PROVE  /\ ServicesKept(Served)
           /\ On(JobServes, Users) /\ On(WorkerServes, Requests) /\ On(FrameServes, Levels)
  BY ServiceStore, Families DEF Services, ServicesKept

\* No object comes back, nor does the process; no queue is begun.
NothingBegins(o) ==
    /\ \A x \in Objects : object'[x] # "gone" => object[x] # "gone"
    /\ state' # "done" => state # "done"
    /\ \A x \in Objects : glActionQueues'[x] # <<>> => glActionQueues[x] # <<>> /\ x # o

\* The same objects are served, and are active,
LEMMA ServeStays ==
    ASSUME ServeInv, Store(Services', Names, Things, Objects, Served), UNCHANGED glActiveAsyncObjects,
           NothingBegins(None), None \notin Objects
    PROVE  ServeInv'
  BY StoreIs DEF Served, Content, Inside, ServeInv, NothingBegins

\* or one is no longer active as it does not exist any more,
LEMMA ServeFreed ==
    ASSUME ServeInv, Store(Services', Names, Things, Objects, Served), NEW o \in Objects,
           glActiveAsyncObjects' = glActiveAsyncObjects \ {o}, object'[o] = "gone", NothingBegins(o)
    PROVE  ServeInv'
  BY StoreIs DEF Served, Content, Inside, ServeInv, NothingBegins

\* or one is no longer served.
LEMMA ServeEnds ==
    ASSUME ServeInv, NEW o \in Objects, Store(Services', Names, Things, Objects, Served \ {o}),
           glActiveAsyncObjects' = glActiveAsyncObjects \ {o}, NothingBegins(o)
    PROVE  ServeInv'
  BY StoreIs DEF Served, Content, Inside, ServeInv, NothingBegins

\* What is freed on the way.
LEMMA ServeFreeing ==
    ASSUME Typed, ControlInv, ServeInv, NEW o \in Objects, UNCHANGED <<target, state>>,
           \/ ReleaseObject(o)
           \/ object_free(o)
           \/ UNCHANGED <<objects, tables, glQueue>>,
           Store(Services', Names, Things, Objects, Served)
    PROVE  ServeInv'
<1>1. None \notin Objects
  BY AsyncAssumption
<1>2. CASE UNCHANGED <<object, tables, glQueue>>
  BY <1>1, <1>2, ServeStays DEF NothingBegins, tables
<1>3. CASE object_free(o)
  BY <1>3, ServeFreed DEF object_free, ForgetObject, NothingBegins, Typed, TablesTyped, ObjectsTyped
<1>4. QED
  BY <1>2, <1>3 DEF ReleaseObject, objects

LEMMA ServeSame ==
    ASSUME ServeInv, UNCHANGED <<JobServes, WorkerServes, FrameServes, glQueue, target>>
    PROVE  Services' = Services /\ (UNCHANGED glActiveAsyncObjects /\ NothingBegins(None) => ServeInv')
<1>1. Services' = Services
  BY DEF Services
<1>2. None \notin Objects
  BY AsyncAssumption
<1>3. ASSUME UNCHANGED glActiveAsyncObjects, NothingBegins(None) PROVE ServeInv'
  BY <1>1, <1>2, <1>3 DEF Served, Content, Inside, ServeInv, NothingBegins
<1>4. QED
  BY <1>1, <1>3

LEMMA NothingBegan ==
    ASSUME UNCHANGED <<object, glActionQueues>>, state' # "done" => state # "done"
    PROVE  NothingBegins(None)
  BY AsyncAssumption DEF NothingBegins

\* Messages keep their meaning when a request is made.
LEMMA GrownObjects ==
    ASSUME NEW t \in [Requests -> Things], NEW r \in Requests, t[r] = None, NEW o \in Objects, NEW t2,
           t2 = Put(t, r, o)
    PROVE  \A m : MessagesOK(m, t) => ObjectsOf(m, t2) = ObjectsOf(m, t)
  BY DEF MessagesOK, BREAK, Put, ObjectsOf

LEMMA Submits_Serve ==
    ASSUME Typed, ControlInv, CallbackInv, ServeInv, NEW u \in Users, NEW o \in Objects, NEW r \in Requests,
           Submits(u, o, r)
    PROVE  ServeInv'
<1>1. /\ target[r] = None /\ target' = [target EXCEPT ![r] = o] /\ pc[u] = "idle" /\ object[o] = "alive"
      /\ state # "done" /\ target \in [Requests -> Things]
      /\ UNCHANGED <<worker, glQueue, frames, state, object>>
  BY DEF Submits, threads, objects, Typed, Things
<1>8. \A m : MessagesOK(m, target) => ObjectsOf(m, target') = ObjectsOf(m, target)
  <2>1. target' = Put(target, r, o) /\ target \in [Requests -> Things] /\ target[r] = None
    BY <1>1 DEF Put
  <2>2. QED
    BY <2>1, GrownObjects
<1>2. ObjectsOf(glQueue, target)' = ObjectsOf(glQueue, target)
  BY <1>1, <1>8 DEF ControlInv, PostedOK
<1>3. UNCHANGED FrameServes
  <2>1. ASSUME NEW i \in DOMAIN frames PROVE ObjectsOf(Undone(frames[i]), target') = ObjectsOf(Undone(frames[i]), target)
    <3>1. frames[i] \in FrameType /\ FrameOK(frames[i], target)
      BY DEF Typed, ControlInv, FramesOK
    <3>2. MessagesOK(Undone(frames[i]), target)
      BY <1>1, <3>1, UnseenTyped
    <3>3. QED
      BY <1>8, <3>2
  <2>2. QED
    BY <1>1, <2>1 DEF FrameServes
<1>4. UNCHANGED WorkerServes
  BY <1>1, WorkerMade, AsyncAssumption DEF WorkerServes, ForWorker, InWorker, Typed
<1>5. CASE /\ o \in glActiveAsyncObjects /\ glActionQueues' = [glActionQueues EXCEPT ![o] = Append(@, r)]
           /\ UNCHANGED <<glActiveAsyncObjects, ASYNC_ACTIVE, users>>
  BY <1>5, ListsKept, <1>2, <1>3, <1>4, <1>1 DEF Services, Typed, TablesTyped, ServeInv, Served
<1>6. CASE /\ o \notin glActiveAsyncObjects /\ glActiveAsyncObjects' = glActiveAsyncObjects \cup {o}
           /\ pc' = [pc EXCEPT ![u] = "submitting"] /\ UNCHANGED glActionQueues
           /\ job' = [job EXCEPT ![u] = [NoJob EXCEPT !.object = o, !.thread = r]]
  <2>1. o \notin Served
    BY <1>1, <1>6 DEF ServeInv
  <2>2. <<o>> \in Seq(Things) /\ Inside(<<o>>, Objects) = {o} /\ New(<<o>>, Served, Objects)
    BY ShortLists, <2>1, OneElement DEF Things, New
  <2>3. JobServes' = Put(JobServes, u, JobServes[u] \o <<o>>)
    <3>1. PICK j : j = [NoJob EXCEPT !.object = o, !.thread = r]
      OBVIOUS
    <3>2. j.object = o
      BY <3>1 DEF NoJob
    <3>3. ForJob("submitting", j) = <<o>>
      BY <3>2 DEF ForJob
    <3>4. JobServes' = Put(JobServes, u, <<o>>)
      BY <1>6, <3>1, <3>3 DEF JobServes, Put, Typed, UsersTyped
    <3>5. JobServes[u] = <<>> /\ <<>> \o <<o>> = <<o>>
      BY <1>1 DEF JobServes, ForJob
    <3>6. QED
      BY <3>4, <3>5
  <2>4. ServicesKept(Served) /\ On(JobServes, Users)
    BY ServiceBase
  <2>5. Store(Kept(Idle(Objects), Put(JobServes, u, JobServes[u] \o <<o>>), Idle(Users), WorkerServes,
                   ObjectsOf(glQueue, target), FrameServes, Idle(Levels), Idle(Levels)), Names, Things, Objects,
              Served \cup Inside(<<o>>, Objects))
    BY <2>2, <2>4, JoinSubmitter DEF ServicesKept
  <2>6. Store(Services', Names, Things, Objects, Served \cup {o})
    BY <1>2, <1>3, <1>4, <2>2, <2>3, <2>5 DEF Services
  <2>7. Apart(Services, Names, Objects)' /\ Served' = Served \cup {o}
    BY <2>6, StoreIs DEF Served
  <2>8. QED
    BY <1>1, <1>6, <2>7 DEF ServeInv
<1>7. QED
  BY <1>5, <1>6 DEF Submits

LEMMA Launch_Serve ==
    ASSUME Typed, ControlInv, CallbackInv, ServeInv, NEW u \in Users, Launch(u)
    PROVE  ServeInv'
<1>1. PICK o, r : o = job[u].object /\ r = job[u].thread
  OBVIOUS
<1>2. pc[u] = "submitting" /\ o \in Objects /\ r \in Requests /\ target[r] = o
  BY <1>1 DEF Launch, ControlInv, JobsOK, JobOK
<1>3. /\ UNCHANGED <<tables, target, frames, state, objects>> /\ async_wait_callback(o, 1)
      /\ worker' = [worker EXCEPT ![r] = "start"]
      /\ pc' = [pc EXCEPT ![u] = "idle"] /\ job' = [job EXCEPT ![u] = NoJob]
  BY <1>1 DEF Launch, CountNew
<1>4. JobServes[u] = <<o>> /\ JobServes' = Put(JobServes, u, <<>>)
  BY <1>1, <1>2, <1>3 DEF JobServes, ForJob, Put, Typed, UsersTyped
<1>5. ServicesKept(Served) /\ On(JobServes, Users) /\ On(WorkerServes, Requests)
  BY ServiceBase
<1>6. WorkerServes[r] = <<>>
  <2>1. Apart(Services, Names, Objects)
    BY DEF ServeInv
  <2>2. Lists(Services, Idle(Objects), JobServes, Idle(Users), WorkerServes, ObjectsOf(glQueue, target), FrameServes,
              Idle(Levels), Idle(Levels))
    BY KeptAt DEF Services
  <2>3. /\ <<"submitter", u>> \in Names /\ <<"worker", r>> \in Names /\ <<"submitter", u>> # <<"worker", r>>
        /\ Services[<<"submitter", u>>] = <<o>> /\ Services[<<"worker", r>>] = WorkerServes[r]
    BY <1>2, <1>4, <2>2, NamesAre DEF Lists
  <2>4. Inside(<<o>>, Objects) \cap Inside(WorkerServes[r], Objects) = {}
    BY <2>1, <2>3 DEF Apart
  <2>5. WorkerServes[r] \in {<<>>, <<o>>}
    BY <1>2 DEF WorkerServes, ForWorker
  <2>6. QED
    BY <1>2, <2>4, <2>5, OneElement
<1>7. WorkerServes' = Put(WorkerServes, r, WorkerServes[r] \o JobServes[u])
  <2>1. WorkerServes' = Put(WorkerServes, r, <<o>>)
    BY <1>2, <1>3 DEF WorkerServes, Put, ForWorker, Typed, ThreadsTyped
  <2>2. <<>> \o <<o>> = <<o>>
    OBVIOUS
  <2>3. QED
    BY <1>4, <1>6, <2>1, <2>2
<1>8. UNCHANGED FrameServes
  BY <1>3, ListsKept
<1>9. Store(Kept(Idle(Objects), Put(JobServes, u, <<>>), Idle(Users), Put(WorkerServes, r, WorkerServes[r] \o JobServes[u]),
                 ObjectsOf(glQueue, target), FrameServes, Idle(Levels), Idle(Levels)), Names, Things, Objects, Served)
  BY <1>2, <1>5, MoveSubmitterWorker DEF ServicesKept
<1>14. PICK J, W : J = JobServes' /\ W = WorkerServes'
  OBVIOUS
<1>15. Store(Kept(Idle(Objects), J, Idle(Users), W, ObjectsOf(glQueue, target), FrameServes,
                  Idle(Levels), Idle(Levels)), Names, Things, Objects, Served)
  BY <1>4, <1>7, <1>9, <1>14
<1>16. Store(Kept(Idle(Objects), J, Idle(Users), W, ObjectsOf(glQueue, target)', FrameServes,
                  Idle(Levels), Idle(Levels)), Names, Things, Objects, Served)
  <2>1. async_wait_callback(o, 1) /\ target' = target /\ 1 \in Int
    BY <1>3
  <2>2. QED
    BY <1>2, <2>1, <1>15, CountMoves
<1>10. Store(Kept(Idle(Objects), JobServes', Idle(Users), WorkerServes', ObjectsOf(glQueue, target)', FrameServes,
                  Idle(Levels), Idle(Levels)), Names, Things, Objects, Served)
  BY <1>14, <1>16
<1>11. Store(Services', Names, Things, Objects, Served)
  BY <1>8, <1>10 DEF Services
<1>12. NothingBegins(None) /\ UNCHANGED glActiveAsyncObjects
  BY <1>3, NothingBegan DEF tables, objects
<1>13. QED
  BY <1>11, <1>12, ServeStays, AsyncAssumption

\* Messages are posted that serve no object.
LEMMA PostedServe ==
    ASSUME Typed, ControlInv, ServeInv, NEW m \in Seq(Messages), MessagesOK(m, target), glQueue' = glQueue \o m,
           Inside(ObjectsOf(m, target), Objects) = {}, UNCHANGED target,
           NEW F, NEW W, NEW A,
           Store(Kept(Idle(Objects), JobServes, Idle(Users), W, ObjectsOf(glQueue, target), F,
                      Idle(Levels), Idle(Levels)), Names, Things, Objects, A)
    PROVE  Store(Kept(Idle(Objects), JobServes, Idle(Users), W, ObjectsOf(glQueue, target)', F,
                      Idle(Levels), Idle(Levels)), Names, Things, Objects, A)
<1>1. glQueue \in Seq(Messages) /\ target \in [Requests -> Things]
  BY DEF Typed, Things
<1>2. ObjectsOf(glQueue, target)' = ObjectsOf(glQueue, target) \o ObjectsOf(m, target)
  BY <1>1, JoinLists
<1>3. ObjectsOf(m, target) \in Seq(Things)
  BY <1>1, ObjectLists
<1>4. QED
  BY <1>2, <1>3, NothingPosted

LEMMA Cancel_Serve ==
    ASSUME Typed, ControlInv, CallbackInv, ServeInv, NEW u \in Users,
           WakeWorker(u) \/ DrainCancelled(u) \/ NotifyCancelled(u) \/ \E o \in Objects : AsyncCancel(u, o)
    PROVE  ServeInv'
<1>1. /\ UNCHANGED <<target, frames, state, worker, object, glActiveAsyncObjects>>
      /\ pc[u] # "submitting"
      /\ \E status \in {"idle", "wake", "drain", "notify"} : pc' = [pc EXCEPT ![u] = status]
      /\ \E j : job' = [job EXCEPT ![u] = j]
  <2>1. CASE WakeWorker(u)
    BY <2>1 DEF WakeWorker, CancelElsewhere, Typed, UsersTyped, tables, objects
  <2>2. CASE DrainCancelled(u)
    BY <2>2 DEF DrainCancelled, TakeQueue, CancelElsewhere, objects
  <2>3. CASE NotifyCancelled(u)
    BY <2>3 DEF NotifyCancelled, CancelElsewhere, tables, objects
  <2>4. CASE \E o \in Objects : AsyncCancel(u, o)
    BY <2>4 DEF AsyncCancel, CancelElsewhere, Runs, objects
  <2>5. QED
    BY <2>1, <2>2, <2>3, <2>4
<1>2. UNCHANGED JobServes
  BY <1>1 DEF JobServes, ForJob, Typed, UsersTyped
<1>3. UNCHANGED <<WorkerServes, FrameServes>>
  BY <1>1, ListsKept
<1>4. NothingBegins(None)
  <2>1. \A x \in Objects : glActionQueues'[x] # <<>> => glActionQueues[x] # <<>>
    BY DEF DrainCancelled, TakeQueue, Typed, TablesTyped, WakeWorker, NotifyCancelled, AsyncCancel,
      tables
  <2>2. QED
    BY <1>1, <2>1, AsyncAssumption DEF NothingBegins
<1>5. CASE UNCHANGED glQueue
  BY <1>1, <1>2, <1>3, <1>4, <1>5, ServeSame
<1>6. CASE NotifyCancelled(u)
  <2>1. PICK d, m : d = job[u].drained /\ m = Notices(d)
    OBVIOUS
  <2>2. d \in Seq(Requests) /\ \A i \in DOMAIN d : target[d[i]] # None
    BY <2>1, CancelledMade
  <2>3. m \in Seq(Messages) /\ MessagesOK(m, target) /\ Inside(ObjectsOf(m, target), Objects) = {}
    BY <2>1, <2>2, NoticeLists
  <2>4. glQueue' = glQueue \o m
    BY <1>6, <2>1 DEF NotifyCancelled, SendMessages
  <2>5. ServicesKept(Served)
    BY ServiceBase
  <2>6. Store(Kept(Idle(Objects), JobServes, Idle(Users), WorkerServes, ObjectsOf(glQueue, target)', FrameServes,
                   Idle(Levels), Idle(Levels)), Names, Things, Objects, Served)
    BY <1>1, <2>3, <2>4, <2>5, PostedServe DEF ServicesKept
  <2>7. Store(Services', Names, Things, Objects, Served)
    BY <1>2, <1>3, <2>6 DEF Services
  <2>8. QED
    BY <1>1, <1>4, <2>7, ServeStays, AsyncAssumption
<1>7. QED
  BY <1>5, <1>6 DEF WakeWorker, DrainCancelled, CancelElsewhere, AsyncCancel

----------------------------------------------------------------------------
(* Who serves an object: the workers, and other code.                      *)

LEMMA Worker_Serve ==
    ASSUME Typed, ControlInv, CallbackInv, ServeInv, NEW r \in Requests, WorkerStep(r)
    PROVE  ServeInv'
<1>1. WorkerMoves(r)
  BY Worker_Moves
<1>2. UNCHANGED <<target, state, frames, users>>
  BY <1>1 DEF WorkerMoves, WorkerElsewhere
<1>3. UNCHANGED <<JobServes, FrameServes>>
  BY <1>2, ListsKept
<1>4. ServicesKept(Served) /\ On(WorkerServes, Requests)
  BY ServiceBase
<1>5. CASE /\ UNCHANGED <<object, tables, glQueue>>
           /\ \/ /\ InWorker(r)
                 /\ \E status \in {"registered", "lock", "locked", "action", "release", "send"} :
                       worker' = [worker EXCEPT ![r] = status]
              \/ worker[r] = "cleanup" /\ worker' = [worker EXCEPT ![r] = "finished"]
  BY <1>2, <1>5, NothingBegan, <1>3, ServeSame DEF WorkerServes, ForWorker, InWorker, Typed,
    ThreadsTyped, tables
<1>6. CASE worker[r] = "release" /\ ReleaseObject(target[r]) /\ worker' = [worker EXCEPT ![r] = "send"]
  <2>1. PICK o : o = target[r]
    OBVIOUS
  <2>2. o \in Objects
    BY <1>6, <2>1, WorkerMade DEF InWorker
  <2>3. UNCHANGED WorkerServes
    BY <1>2, <1>6 DEF WorkerServes, ForWorker, Typed, ThreadsTyped
  <2>4. QueueFreed(o) /\ target' = target
    BY <1>2, <1>6, <2>1, <2>2, ReleaseFrees
  <2>5. Store(Kept(Idle(Objects), JobServes, Idle(Users), WorkerServes, ObjectsOf(glQueue, target)', FrameServes,
                   Idle(Levels), Idle(Levels)), Names, Things, Objects, Served)
    BY <1>4, <2>2, <2>4, FreedServes DEF ServicesKept
  <2>6. Store(Services', Names, Things, Objects, Served)
    BY <1>3, <2>3, <2>5 DEF Services
  <2>7. ReleaseObject(o) /\ target' = target /\ state' = state
    BY <1>2, <1>6, <2>1
  <2>8. QED
    BY <2>2, <2>6, <2>7, ServeFreeing
<1>7. CASE /\ worker[r] = "send" /\ SendMessages(<<Completion(r)>>) /\ UNCHANGED <<objects, tables>>
           /\ worker' = [worker EXCEPT ![r] = "cleanup"]
  <2>1. PICK m : m = Completion(r)
    OBVIOUS
  <2>2. m \in Messages /\ m.DispatchNext /\ m.request = r
    BY <2>1 DEF Completion, Messages
  <2>3. ObjectsOf(<<m>>, target) = <<target[r]>> /\ <<m>> \in Seq(Messages)
    BY <2>2, OneMessage
  <2>4. WorkerServes[r] = <<target[r]>> /\ WorkerServes' = Put(WorkerServes, r, <<>>)
    BY <1>7, <1>2 DEF WorkerServes, ForWorker, Put, Typed, ThreadsTyped
  <2>5. glQueue' = glQueue \o <<m>> /\ glQueue \in Seq(Messages)
    BY <1>7, <2>1 DEF SendMessages, Typed
  <2>6. ObjectsOf(glQueue \o <<m>>, target) = ObjectsOf(glQueue, target) \o WorkerServes[r]
    <3>1. ObjectsOf(glQueue \o <<m>>, target) = ObjectsOf(glQueue, target) \o ObjectsOf(<<m>>, target)
      BY <2>3, <2>5, JoinLists
    <3>2. QED
      BY <2>3, <2>4, <3>1
  <2>7. Store(Kept(Idle(Objects), JobServes, Idle(Users), Put(WorkerServes, r, <<>>),
                   ObjectsOf(glQueue, target) \o WorkerServes[r], FrameServes, Idle(Levels), Idle(Levels)),
              Names, Things, Objects, Served)
    BY <1>4, MoveWorkerPosted DEF ServicesKept
  <2>8. Store(Services', Names, Things, Objects, Served)
    BY <1>2, <1>3, <2>4, <2>5, <2>6, <2>7 DEF Services
  <2>9. UNCHANGED glActiveAsyncObjects /\ NothingBegins(None)
    BY <1>2, <1>7, NothingBegan DEF tables, objects
  <2>10. QED
    BY <2>8, <2>9, ServeStays, AsyncAssumption
<1>8. QED
  BY <1>1, <1>5, <1>6, <1>7 DEF WorkerMoves, objects

LEMMA Outside_Serve ==
    ASSUME Typed, ControlInv, ServeInv, NEW o \in Objects,
           UNCHANGED <<frames, users, worker, target>>,
           \/ /\ ReleaseObject(o) \/ object_free(o) \/ UNCHANGED <<objects, tables, glQueue>>
              /\ UNCHANGED state
           \/ /\ UNCHANGED <<tables, glQueue>> /\ (state' # "done" => state # "done")
              /\ \A x \in Objects : object'[x] # "gone" => object[x] # "gone"
    PROVE  ServeInv'
<1>1. UNCHANGED <<JobServes, WorkerServes, FrameServes>>
  BY ListsKept
<1>2. ServicesKept(Served)
  BY ServiceBase
<1>3. QueueFreed(o)
  BY ReleaseFrees DEF QueueFreed
<1>4. Store(Kept(Idle(Objects), JobServes, Idle(Users), WorkerServes, ObjectsOf(glQueue, target)', FrameServes,
                 Idle(Levels), Idle(Levels)), Names, Things, Objects, Served)
  BY <1>2, <1>3, FreedServes DEF ServicesKept
<1>5. Store(Services', Names, Things, Objects, Served)
  BY <1>1, <1>4 DEF Services
<1>6. CASE (ReleaseObject(o) \/ object_free(o) \/ UNCHANGED <<objects, tables, glQueue>>) /\ UNCHANGED state
  BY <1>5, <1>6, ServeFreeing
<1>7. CASE /\ UNCHANGED <<tables, glQueue>> /\ (state' # "done" => state # "done")
           /\ \A x \in Objects : object'[x] # "gone" => object[x] # "gone"
  BY <1>7, AsyncAssumption, <1>5, ServeStays DEF NothingBegins, tables
<1>8. QED
  BY <1>6, <1>7

LEMMA Free_Serve ==
    ASSUME Typed, ControlInv, ServeInv, NEW o \in Objects, Free(o)
    PROVE  ServeInv'
<1>1. UNCHANGED <<frames, users, worker, target, state>>
  BY DEF Free, Elsewhere, threads
<1>2. CASE object_free(o)
  BY <1>1, <1>2, Outside_Serve
<1>3. CASE object' = [object EXCEPT ![o] = "marked"] /\ UNCHANGED <<tables, glQueue>> /\ object[o] = "alive"
  BY <1>3, <1>1, Outside_Serve DEF Typed, ObjectsTyped
<1>4. QED
  BY <1>2, <1>3 DEF Free

LEMMA Others_Serve ==
    ASSUME Typed, ControlInv, ServeInv, NEW u \in Users, NEW o \in Objects,
           Hold(u, o) \/ LetGo(u, o)
    PROVE  ServeInv'
<1>1. UNCHANGED <<frames, users, worker, target, state>>
  BY DEF Hold, LetGo, Elsewhere, threads
<1>2. CASE LetGo(u, o)
  BY <1>2, <1>1, Outside_Serve DEF LetGo
<1>3. CASE Hold(u, o)
  BY <1>3, <1>1, Outside_Serve DEF Hold
<1>4. QED
  BY <1>2, <1>3

\* Steps that concern neither objects nor tables, nor messages.
LEMMA Aside_Serve ==
    ASSUME Typed, ControlInv, ServeInv, UNCHANGED <<JobServes, WorkerServes, FrameServes, glQueue, target>>,
           UNCHANGED <<object, tables>>, state' # "done" => state # "done"
    PROVE  ServeInv'
  BY NothingBegan, ServeSame DEF tables

LEMMA StopTask_Serve ==
    ASSUME Typed, ControlInv, ServeInv, StopTask \/ CloseSubmissions
    PROVE  ServeInv'
  BY ListsKept, Aside_Serve DEF StopTask, CloseSubmissions, Elsewhere, threads, objects

LEMMA Loops_Serve ==
    ASSUME Typed, ControlInv, ServeInv, EventLoop \/ LeaveLoop \/ \E targets \in SUBSET Objects : AsyncWait(targets)
    PROVE  ServeInv'
<1>1. UNCHANGED <<users, worker, target, glQueue, object, tables, state>>
  BY DEF EventLoop, LeaveLoop, AsyncWait, MainElsewhere, objects
<1>2. UNCHANGED <<JobServes, WorkerServes>>
  BY <1>1, ListsKept
<1>3. UNCHANGED FrameServes
  <2>1. CASE LeaveLoop
    BY <1>1, <2>1, Left DEF LeaveLoop, Drained, MainAt
  <2>2. CASE EventLoop
    BY <2>2, <1>1, Entered DEF EventLoop
  <2>3. CASE \E targets \in SUBSET Objects : AsyncWait(targets)
    <3>1. PICK targets \in SUBSET Objects : AsyncWait(targets)
      BY <2>3
    <3>2. frames' = Append(frames, Frame("wait")) /\ ~glAsyncWaiting
      BY <3>1 DEF AsyncWait
    <3>3. Len(frames) < 2
      <4>1. \A i \in DOMAIN frames : frames[i].loop # "wait"
        BY <3>2 DEF ControlInv, Nested
      <4>2. Len(frames) \in Nat /\ DOMAIN frames = 1..Len(frames) /\ Len(frames) <= 2
        BY DEF Typed, ControlInv, Nested
      <4>3. Len(frames) # 2
        BY <4>1, <4>2 DEF ControlInv, Nested
      <4>4. QED
        BY <4>2, <4>3
    <3>4. QED
      BY <1>1, <3>2, <3>3, Entered
  <2>4. QED
    BY <2>1, <2>2, <2>3
<1>4. QED
  BY <1>1, <1>2, <1>3, Aside_Serve

LEMMA JoinThreads_Serve ==
    ASSUME Typed, ControlInv, ServeInv, JoinThreads
    PROVE  ServeInv'
  BY ListsKept, ServeSame DEF JoinThreads, ServeInv, Served

----------------------------------------------------------------------------
(* Who serves an object: the main thread.                                  *)

\* A step that takes nothing out of hand.
LEMMA MainServes ==
    ASSUME Typed, ControlInv, frames # <<>>, NEW f, SetTop(f), UNCHANGED <<users, target>>
    PROVE  /\ UNCHANGED JobServes /\ (UNCHANGED worker => UNCHANGED WorkerServes)
           /\ Undone(f) = Undone(Top) => UNCHANGED FrameServes
           /\ FrameServes' = Put(FrameServes, Len(frames), ObjectsOf(Undone(f), target))
           /\ FrameServes[Len(frames)] = ObjectsOf(Undone(Top), target) /\ Len(frames) \in Levels
  BY TopLists, TopHas, TopKept, ListsKept DEF Put

\* It changes neither objects nor messages,
LEMMA StillServes ==
    ASSUME Typed, ControlInv, ServeInv, frames # <<>>, NEW f, SetTop(f), UNCHANGED <<users, target, worker, glQueue>>,
           Undone(f) = Undone(Top), UNCHANGED <<object, state, glActiveAsyncObjects>>,
           \A x \in Objects : glActionQueues'[x] # <<>> => glActionQueues[x] # <<>>
    PROVE  ServeInv'
  BY MainServes, AsyncAssumption, ServeSame DEF NothingBegins

\* or may free the object in hand,
LEMMA FreeingServes ==
    ASSUME Typed, ControlInv, ServeInv, frames # <<>>, NEW f, SetTop(f), UNCHANGED <<users, target, worker, state>>,
           Undone(f) = Undone(Top), Object \in Objects,
           ReleaseObject(Object) \/ UNCHANGED <<objects, tables, glQueue>>
    PROVE  ServeInv'
  BY MainServes, ServiceBase, ReleaseFrees, FreedServes, ServeFreeing DEF ServicesKept, Services

\* or posts messages that serve nobody.
LEMMA PostingServes ==
    ASSUME Typed, ControlInv, ServeInv, frames # <<>>, NEW f, SetTop(f), UNCHANGED <<users, target, worker, state>>,
           Undone(f) = Undone(Top), UNCHANGED <<object, tables>>,
           NEW m \in Seq(Messages), MessagesOK(m, target), glQueue' = glQueue \o m,
           Inside(ObjectsOf(m, target), Objects) = {}
    PROVE  ServeInv'
  BY MainServes, ServiceBase, PostedServe, NothingBegan, ServeStays, AsyncAssumption DEF
    ServicesKept, Services, tables

\* The object that is served by the message in hand.
InService == IF Message.DispatchNext THEN Object ELSE None

\* The message in hand is done with.
LEMMA TakeServe ==
    ASSUME Typed, ControlInv, ServeInv, frames # <<>>, NEW f, SetTop(f), UNCHANGED target,
           Top.batch # <<>>, Undone(Top) = Top.batch, Undone(f) = Tail(Top.batch)
    PROVE  /\ Store(Kept(Idle(Objects), JobServes, Idle(Users), WorkerServes, ObjectsOf(glQueue, target), FrameServes',
                         Idle(Levels), Idle(Levels)), Names, Things, Objects, Served \ {InService})
           /\ FrameServes[Len(frames)] # <<>> /\ Head(FrameServes[Len(frames)]) = InService
           /\ FrameServes' = Put(FrameServes, Len(frames), Tail(FrameServes[Len(frames)]))
           /\ Len(frames) \in Levels
<1>1. Top.batch \in Seq(Messages) /\ Message = Head(Top.batch)
  BY TopFields DEF Message
<1>2. PICK k, B : k = Len(frames) /\ B = FrameServes
  OBVIOUS
<1>3. k \in Levels /\ B[k] = ObjectsOf(Top.batch, target) /\ FrameServes' = Put(B, k, ObjectsOf(Tail(Top.batch), target))
  BY <1>2, TopHas, TopLists DEF Put
<1>4. B[k] # <<>> /\ Head(B[k]) = InService /\ Tail(B[k]) = ObjectsOf(Tail(Top.batch), target)
  BY <1>1, <1>3, BeheadedMessages DEF InService, Object
<1>5. ServicesKept(Served) /\ On(B, Levels)
  BY <1>2, ServiceBase
<1>6. Store(Kept(Idle(Objects), JobServes, Idle(Users), WorkerServes, ObjectsOf(glQueue, target), Put(B, k, Tail(B[k])),
                 Idle(Levels), Idle(Levels)), Names, Things, Objects, Served \ {Head(B[k])})
  BY <1>2, <1>3, <1>4, <1>5, BeheadBatch DEF ServicesKept
<1>7. QED
  BY <1>2, <1>3, <1>4, <1>6

LEMMA ServedObjects == None \notin Served /\ Served \ {None} = Served /\ Served \subseteq Objects
  BY AsyncAssumption DEF Served, Content, Inside

LEMMA FetchBatch_Serve ==
    ASSUME Typed, ControlInv, ServeInv, FetchBatch
    PROVE  ServeInv'
<1>1. PICK f : f = [Top EXCEPT !.batch = glQueue]
  OBVIOUS
<1>2. /\ frames # <<>> /\ SetTop(f) /\ Top.at = "loop" /\ Top.batch = <<>> /\ glQueue' = <<>>
      /\ UNCHANGED <<users, target, worker, object, tables, state>>
  BY <1>1 DEF FetchBatch, MainAt, MainElsewhere, objects
<1>3. Undone(Top) = <<>> /\ Undone(f) = glQueue
  BY <1>1, <1>2, TopIs DEF Undone, FrameType
<1>4. PICK k, B, P : k = Len(frames) /\ B = FrameServes /\ P = ObjectsOf(glQueue, target)
  OBVIOUS
<1>5. k \in Levels /\ B[k] = <<>> /\ FrameServes' = Put(B, k, P)
  BY <1>2, <1>3, <1>4, TopHas, TopLists, NoMessages DEF Put
<1>6. P \in Seq(Things)
  BY <1>4, ObjectLists DEF Typed, ControlInv, PostedOK, Things
<1>7. B[k] \o P = P
  BY <1>5, <1>6, EmptyJoin
<1>8. ServicesKept(Served) /\ On(B, Levels)
  BY <1>4, ServiceBase
<1>9. Store(Kept(Idle(Objects), JobServes, Idle(Users), WorkerServes, <<>>, Put(B, k, B[k] \o P),
                 Idle(Levels), Idle(Levels)), Names, Things, Objects, Served)
  BY <1>4, <1>5, <1>8, MovePostedBatch DEF ServicesKept
<1>10. UNCHANGED <<JobServes, WorkerServes>> /\ ObjectsOf(glQueue, target)' = <<>>
  BY <1>2, ListsKept, NoMessages
<1>11. Store(Services', Names, Things, Objects, Served)
  BY <1>5, <1>7, <1>9, <1>10 DEF Services
<1>12. NothingBegins(None) /\ UNCHANGED glActiveAsyncObjects
  BY <1>2, NothingBegan DEF tables
<1>13. QED
  BY <1>11, <1>12, ServeStays, AsyncAssumption

LEMMA BreakMessage_Serve ==
    ASSUME Typed, ControlInv, ServeInv, BreakMessage
    PROVE  ServeInv'
<1>1. PICK f : f = [Top EXCEPT !.batch = Tail(@), !.breaking = @ \/ Top.loop = "wait"]
  OBVIOUS
<1>2. /\ frames # <<>> /\ SetTop(f) /\ Top.at = "loop" /\ Top.batch # <<>> /\ Message = BREAK
      /\ UNCHANGED <<users, target, worker, object, tables, state, glQueue>>
  BY <1>1 DEF BreakMessage, MainAt, MainElsewhere, objects
<1>3. Undone(Top) = Top.batch /\ Undone(f) = Tail(Top.batch)
  BY <1>1, <1>2, TopIs DEF Undone, FrameType
<1>4. InService = None
  BY <1>2 DEF InService, BREAK
<1>5. Store(Kept(Idle(Objects), JobServes, Idle(Users), WorkerServes, ObjectsOf(glQueue, target), FrameServes',
                 Idle(Levels), Idle(Levels)), Names, Things, Objects, Served)
  BY <1>2, <1>3, <1>4, TakeServe, ServedObjects
<1>6. UNCHANGED <<JobServes, WorkerServes>>
  BY <1>2, ListsKept
<1>7. Store(Services', Names, Things, Objects, Served)
  BY <1>2, <1>5, <1>6 DEF Services
<1>8. NothingBegins(None) /\ UNCHANGED glActiveAsyncObjects
  BY <1>2, NothingBegan DEF tables
<1>9. QED
  BY <1>7, <1>8, ServeStays, AsyncAssumption

LEMMA BeginCallback_Serve ==
    ASSUME Typed, ControlInv, ServeInv, BeginCallback
    PROVE  ServeInv'
<1>1. PICK f : f = [Top EXCEPT !.at = "callback", !.locked = f.locked] /\ SetTop(f)
  <2>1. CASE SetTop([Top EXCEPT !.at = "callback", !.locked = TRUE])
    BY <2>1
  <2>2. CASE Goto("callback")
    BY TopIs, <2>2 DEF BeginCallback, MainAt, FrameType, Goto
  <2>3. QED
    BY <2>1, <2>2 DEF BeginCallback
<1>2. /\ frames # <<>> /\ Top.at = "loop" /\ UNCHANGED <<users, target, worker, glQueue, object, state, tables>>
  BY DEF BeginCallback, MainAt, MainElsewhere
<1>3. Undone(f) = Undone(Top)
  BY <1>1, <1>2, TopIs DEF Undone, FrameType
<1>4. QED
  BY <1>1, <1>2, <1>3, StillServes DEF tables

LEMMA EndCallback_Serve ==
    ASSUME Typed, ControlInv, ServeInv, EndCallback
    PROVE  ServeInv'
<1>1. /\ frames # <<>> /\ Top.at = "callback" /\ UNCHANGED <<users, target, worker, state>>
      /\ ReleaseObject(Object) \/ UNCHANGED <<objects, tables, glQueue>>
  BY DEF EndCallback, MainAt, MainElsewhere
<1>2. Object \in Objects /\ Top.batch # <<>> /\ Top \in FrameType /\ Undone(Top) = Top.batch
  BY <1>1, InHand, TopIs, TopFields DEF Undone
<1>3. CASE Message.DispatchNext
  BY <1>3, <1>2, <1>1, FreeingServes DEF EndCallback, Undone, FrameType
<1>4. CASE ~Message.DispatchNext
  <2>1. PICK f : f = [Top EXCEPT !.at = "loop", !.batch = Tail(@), !.next = None, !.locked = FALSE]
    OBVIOUS
  <2>2. SetTop(f)
    BY <1>4, <2>1 DEF EndCallback, NextMessage
  <2>3. Undone(f) = Tail(Top.batch)
    BY <1>2, <2>1 DEF Undone, FrameType
  <2>4. InService = None
    BY <1>4 DEF InService
  <2>5. PICK F : F = FrameServes'
    OBVIOUS
  <2>6. Store(Kept(Idle(Objects), JobServes, Idle(Users), WorkerServes, ObjectsOf(glQueue, target), F,
                   Idle(Levels), Idle(Levels)), Names, Things, Objects, Served)
    BY <1>1, <1>2, <2>2, <2>3, <2>4, <2>5, TakeServe, ServedObjects
  <2>7. PICK o \in Objects : o = Object
    BY <1>2
  <2>8. QueueFreed(o) /\ UNCHANGED target
    BY <1>1, <2>7, ReleaseFrees
  <2>9. Store(Kept(Idle(Objects), JobServes, Idle(Users), WorkerServes, ObjectsOf(glQueue, target)', F,
                   Idle(Levels), Idle(Levels)), Names, Things, Objects, Served)
    BY <2>6, <2>8, FreedServes
  <2>10. UNCHANGED <<JobServes, WorkerServes>>
    BY <1>1, ListsKept
  <2>11. Store(Services', Names, Things, Objects, Served)
    BY <2>5, <2>9, <2>10 DEF Services
  <2>12. ReleaseObject(o) \/ UNCHANGED <<objects, tables, glQueue>>
    BY <1>1, <2>7
  <2>13. QED
    BY <1>1, <2>11, <2>12, ServeFreeing
<1>5. QED
  BY <1>3, <1>4

----------------------------------------------------------------------------
(* Who serves an object: the dispatch.                                     *)

\* A notice serves nobody.
LEMMA NoticeServes ==
    ASSUME NEW r \in Requests, NEW t
    PROVE  /\ <<Notice(r)>> \in Seq(Messages) /\ ObjectsOf(<<Notice(r)>>, t) = <<None>>
           /\ Inside(ObjectsOf(<<Notice(r)>>, t), Objects) = {}
           /\ t[r] # None => MessagesOK(<<Notice(r)>>, t)
<1>1. PICK m : m = Notice(r)
  OBVIOUS
<1>2. m \in Messages /\ m.request = r /\ ~m.DispatchNext
  BY <1>1 DEF Notice, Messages
<1>3. /\ <<m>> \in Seq(Messages) /\ ObjectsOf(<<m>>, t) = <<None>>
      /\ t[r] # None => MessagesOK(<<m>>, t)
  BY <1>2, OneMessage
<1>4. Inside(<<None>>, Objects) = {}
  BY OneElement, AsyncAssumption
<1>5. QED
  BY <1>1, <1>3, <1>4

\* The object in hand is served no more.
LEMMA ForgetServes ==
    ASSUME Typed, ControlInv, ServeInv, frames # <<>>, NEW f, SetTop(f), UNCHANGED <<users, target, worker, state, object>>,
           Top.at \in {"dispatch", "launch", "drain"}, Undone(f) = Tail(Top.batch),
           NEW m \in Seq(Messages), MessagesOK(m, target), glQueue' = glQueue \o m,
           Inside(ObjectsOf(m, target), Objects) = {}, glActiveAsyncObjects' = glActiveAsyncObjects \ {Object},
           glActionQueues' = [glActionQueues EXCEPT ![Object] = <<>>]
    PROVE  ServeInv'
  BY Dispatching, TakeServe, PostedServe, ListsKept, ServeEnds DEF Undone, InService, Services,
    NothingBegins, Typed, TablesTyped

LEMMA Pop_Serve ==
    ASSUME Typed, ControlInv, ServeInv, Pop
    PROVE  ServeInv'
<1>1. /\ frames # <<>> /\ Top.at = "dispatch" /\ UNCHANGED <<users, target, worker, state, object, glQueue>>
  BY DEF Pop, MainAt, DispatchElsewhere, MainElsewhere, objects
<1>2. Object \in Objects /\ Top \in FrameType
  BY <1>1, Dispatching
<1>3. CASE /\ glActionQueues[Object] = <<>> /\ glActiveAsyncObjects' = glActiveAsyncObjects \ {Object}
           /\ Goto("clear") /\ UNCHANGED glActionQueues
  <2>1. PICK f, o : f = [Top EXCEPT !.at = "clear"] /\ o = Object
    OBVIOUS
  <2>2. SetTop(f)
    BY <1>3, <2>1 DEF Goto
  <2>3. Undone(f) = Tail(Top.batch)
    BY <1>2, <2>1 DEF Undone, FrameType
  <2>4. glQueue' = glQueue \o <<>>
    BY <1>1 DEF Typed
  <2>5. <<>> \in Seq(Messages) /\ MessagesOK(<<>>, target) /\ Inside(ObjectsOf(<<>>, target), Objects) = {}
    BY NoMessages, EmptyList
  <2>6. glActionQueues' = [glActionQueues EXCEPT ![o] = <<>>]
    BY <1>2, <1>3, <2>1 DEF Typed, TablesTyped
  <2>7. QED
    BY <1>1, <1>3, <2>1, <2>2, <2>3, <2>4, <2>5, <2>6, ForgetServes
<1>4. CASE /\ SetTop([Top EXCEPT !.at = "launch", !.next = Head(glActionQueues[Object])])
           /\ glActionQueues[Object] # <<>>
           /\ glActionQueues' = [glActionQueues EXCEPT ![Object] = Tail(@)] /\ UNCHANGED glActiveAsyncObjects
  BY <1>1, <1>2, <1>4, StillServes DEF Undone, FrameType, Typed, TablesTyped
<1>5. QED
  BY <1>3, <1>4 DEF Pop

LEMMA Still_Serve ==
    ASSUME Typed, ControlInv, ServeInv, StopDispatch \/ AccessForLaunch \/ ClearFlag
    PROVE  ServeInv'
<1>1. /\ frames # <<>> /\ Top.at \in {"dispatch", "launch", "clear"}
      /\ UNCHANGED <<users, target, worker, state, object, glQueue, tables>>
  BY DEF StopDispatch, AccessForLaunch, ClearFlag, MainAt, DispatchElsewhere, MainElsewhere, objects
<1>2. Top \in FrameType
  BY <1>1, Dispatching
<1>3. \E f : SetTop(f) /\ Undone(f) = Undone(Top)
  <2>1. CASE StopDispatch
    BY <2>1, <1>2 DEF StopDispatch, Goto, MainAt, Undone, FrameType
  <2>2. CASE AccessForLaunch
    <3>1. PICK f : f = [Top EXCEPT !.at = "check", !.locked = (holder[Object] = None)]
      OBVIOUS
    <3>2. SetTop(f) /\ Top.at = "launch"
      BY <2>2, <3>1 DEF AccessForLaunch, MainAt
    <3>3. Undone(f) = Undone(Top)
      BY <1>2, <3>1, <3>2 DEF Undone, FrameType
    <3>4. QED
      BY <3>2, <3>3
  <2>3. CASE ClearFlag
    <3>1. PICK f, g : /\ f = [Top EXCEPT !.at = "count", !.locked = @ \/ holder[Object] = None]
                      /\ g = [Top EXCEPT !.at = "notify"]
      OBVIOUS
    <3>2. (SetTop(f) \/ SetTop(g)) /\ Top.at = "clear"
      BY <2>3, <3>1 DEF ClearFlag, MainAt, Goto
    <3>3. Undone(f) = Undone(Top) /\ Undone(g) = Undone(Top)
      BY <1>2, <3>1, <3>2 DEF Undone, FrameType
    <3>4. QED
      BY <3>2, <3>3
  <2>4. QED
    BY <2>1, <2>2, <2>3
<1>4. PICK f : SetTop(f) /\ Undone(f) = Undone(Top)
  BY <1>3
<1>5. QED
  BY <1>1, <1>4, StillServes DEF tables

LEMMA DropQueue_Serve ==
    ASSUME Typed, ControlInv, CallbackInv, ServeInv, DropQueue
    PROVE  ServeInv'
<1>1. PICK f, r, o : /\ f = [Top EXCEPT !.at = "loop", !.batch = Tail(@), !.next = None, !.locked = FALSE]
                     /\ r = Top.next /\ o = Object
  OBVIOUS
<1>2. /\ frames # <<>> /\ Top.at = "launch" /\ SetTop(f) /\ SendMessages(DropMessages(o)) /\ ForgetObject(o)
      /\ UNCHANGED <<worker, state, target, users, object>>
  BY <1>1 DEF DropQueue, MainAt, DispatchElsewhere, MainElsewhere, NextMessage, objects
<1>3. r \in Requests /\ o \in Objects /\ target[r] = o /\ Top \in FrameType
  BY <1>1, <1>2, NextIn, TopIs DEF InLaunch
<1>4. Undone(f) = Tail(Top.batch)
  BY <1>1, <1>3 DEF Undone, FrameType
<1>5. PICK m, n, p : m = <<Notice(r)>> /\ n = Notices(glActionQueues[o]) /\ p = m \o n
  OBVIOUS
<1>6. /\ m \in Seq(Messages) /\ MessagesOK(m, target) /\ Inside(ObjectsOf(m, target), Objects) = {}
      /\ ObjectsOf(m, target) = <<None>>
  BY <1>3, <1>5, NoticeServes, AsyncAssumption
<1>7. n \in Seq(Messages) /\ MessagesOK(n, target) /\ Inside(ObjectsOf(n, target), Objects) = {}
  BY <1>3, <1>5, QueueNotices
<1>8. p \in Seq(Messages) /\ MessagesOK(p, target) /\ ObjectsOf(p, target) = ObjectsOf(m, target) \o ObjectsOf(n, target)
  BY <1>5, <1>6, <1>7, JoinLists
<1>9. Inside(ObjectsOf(p, target), Objects) = {}
  <2>1. ObjectsOf(m, target) \in Seq(Things) /\ ObjectsOf(n, target) \in Seq(Things)
    BY <1>6, <1>7, ObjectLists DEF Typed, Things
  <2>2. PICK a, b : a = ObjectsOf(m, target) /\ b = ObjectsOf(n, target)
    OBVIOUS
  <2>3. Inside(a \o b, Objects) = Inside(a, Objects) \cup Inside(b, Objects)
    BY <2>1, <2>2, JoinInside
  <2>4. QED
    BY <1>6, <1>7, <1>8, <2>2, <2>3
<1>10. glQueue' = glQueue \o p
  BY <1>1, <1>2, <1>5 DEF SendMessages, DropMessages
<1>11. glActiveAsyncObjects' = glActiveAsyncObjects \ {o} /\ glActionQueues' = [glActionQueues EXCEPT ![o] = <<>>]
  BY <1>2 DEF ForgetObject
<1>12. QED
  BY <1>1, <1>2, <1>4, <1>8, <1>9, <1>10, <1>11, ForgetServes

LEMMA DrainQueue_Serve ==
    ASSUME Typed, ControlInv, ServeInv, DrainQueue
    PROVE  ServeInv'
<1>1. PICK f, o : f = [Top EXCEPT !.at = "clear", !.drained = glActionQueues[Object]] /\ o = Object
  OBVIOUS
<1>2. /\ frames # <<>> /\ Top.at = "drain" /\ SetTop(f) /\ ForgetObject(o)
      /\ UNCHANGED <<worker, glQueue, state, target, users, object>>
  BY <1>1 DEF DrainQueue, MainAt, DispatchElsewhere, MainElsewhere, objects
<1>3. Undone(f) = Tail(Top.batch)
  BY <1>1, <1>2, TopIs DEF Undone, FrameType
<1>4. glQueue' = glQueue \o <<>>
  BY <1>2 DEF Typed
<1>5. <<>> \in Seq(Messages) /\ MessagesOK(<<>>, target) /\ Inside(ObjectsOf(<<>>, target), Objects) = {}
  BY NoMessages, EmptyList
<1>6. glActiveAsyncObjects' = glActiveAsyncObjects \ {o} /\ glActionQueues' = [glActionQueues EXCEPT ![o] = <<>>]
  BY <1>2 DEF ForgetObject
<1>7. QED
  BY <1>1, <1>2, <1>3, <1>4, <1>5, <1>6, ForgetServes

LEMMA LaunchNext_Serve ==
    ASSUME Typed, ControlInv, CallbackInv, ServeInv, LaunchNext
    PROVE  ServeInv'
<1>1. PICK f, k, r, o : /\ f = [Top EXCEPT !.at = "loop", !.batch = Tail(@), !.next = None, !.locked = FALSE]
                        /\ k = Len(frames) /\ r = Top.next /\ o = Object
  OBVIOUS
<1>2. /\ frames # <<>> /\ Top.at = "check" /\ SetTop(f) /\ worker' = [worker EXCEPT ![r] = "start"]
      /\ ReleaseObject(o) \/ UNCHANGED <<objects, tables, glQueue>>
      /\ UNCHANGED <<state, target, users>>
  BY <1>1 DEF LaunchNext, MainAt, DispatchElsewhere, MainElsewhere, NextMessage
<1>3. /\ r \in Requests /\ o \in Objects /\ k \in Levels /\ target[r] = o
      /\ worker[r] \in {"none", "cleanup", "finished"}
  BY <1>1, <1>2, NextIn DEF InLaunch
<1>4. Message.DispatchNext /\ Top.batch # <<>> /\ Undone(Top) = Top.batch /\ Undone(f) = Tail(Top.batch)
  BY <1>1, <1>2, Dispatching DEF Undone, FrameType
<1>5. InService = o
  BY <1>1, <1>4 DEF InService
<1>6. PICK B : B = FrameServes
  OBVIOUS
<1>7. B[k] # <<>> /\ Head(B[k]) = o /\ FrameServes' = Put(B, k, Tail(B[k]))
  BY <1>1, <1>2, <1>4, <1>5, <1>6, TakeServe
<1>8. WorkerServes' = Put(WorkerServes, r, WorkerServes[r] \o <<Head(B[k])>>)
  <2>1. WorkerServes' = Put(WorkerServes, r, <<o>>)
    BY <1>2, <1>3 DEF WorkerServes, Put, ForWorker, Typed, ThreadsTyped
  <2>2. WorkerServes[r] = <<>> /\ <<>> \o <<o>> = <<o>>
    BY <1>3 DEF WorkerServes, ForWorker
  <2>3. QED
    BY <1>7, <2>1, <2>2
<1>9. ServicesKept(Served) /\ On(WorkerServes, Requests) /\ On(B, Levels)
  BY <1>6, ServiceBase
<1>10. PICK W, F : W = WorkerServes' /\ F = FrameServes'
  OBVIOUS
<1>11. Store(Kept(Idle(Objects), JobServes, Idle(Users), W, ObjectsOf(glQueue, target), F,
                  Idle(Levels), Idle(Levels)), Names, Things, Objects, Served)
  BY <1>3, <1>6, <1>7, <1>8, <1>9, <1>10, PassBatchWorker DEF ServicesKept
<1>12. QueueFreed(o) /\ UNCHANGED target
  BY <1>2, <1>3, ReleaseFrees
<1>13. Store(Kept(Idle(Objects), JobServes, Idle(Users), W, ObjectsOf(glQueue, target)', F,
                  Idle(Levels), Idle(Levels)), Names, Things, Objects, Served)
  BY <1>3, <1>11, <1>12, FreedServes
<1>14. UNCHANGED JobServes
  BY <1>2, ListsKept
<1>15. Store(Services', Names, Things, Objects, Served)
  BY <1>10, <1>13, <1>14 DEF Services
<1>16. QED
  BY <1>2, <1>3, <1>15, ServeFreeing

LEMMA RefuseLaunch_Serve ==
    ASSUME Typed, ControlInv, CallbackInv, ServeInv, RefuseLaunch
    PROVE  ServeInv'
<1>1. PICK f, r, m : f = [Top EXCEPT !.at = "drain"] /\ r = Top.next /\ m = <<Notice(r)>>
  OBVIOUS
<1>2. /\ frames # <<>> /\ Top.at = "check" /\ SetTop(f) /\ glQueue' = glQueue \o m
      /\ UNCHANGED <<tables, worker, state, target, users, object>>
  BY <1>1 DEF RefuseLaunch, MainAt, DispatchElsewhere, MainElsewhere, Goto, SendMessages, objects
<1>3. r \in Requests /\ target[r] # None /\ Undone(f) = Undone(Top)
  BY <1>1, <1>2, NextIn, TopIs, AsyncAssumption DEF InLaunch, Undone, FrameType
<1>4. m \in Seq(Messages) /\ MessagesOK(m, target) /\ Inside(ObjectsOf(m, target), Objects) = {}
  BY <1>1, <1>3, NoticeServes
<1>5. QED
  BY <1>2, <1>3, <1>4, PostingServes

LEMMA CountDown_Serve ==
    ASSUME Typed, ControlInv, ServeInv, CountDown
    PROVE  ServeInv'
<1>1. PICK f, o : f = [Top EXCEPT !.at = "notify"] /\ o = Object
  OBVIOUS
<1>2. /\ frames # <<>> /\ Top.at = "count" /\ SetTop(f) /\ async_wait_callback(o, -1)
      /\ UNCHANGED <<tables, worker, state, object, target, users>>
  BY <1>1 DEF CountDown, MainAt, DispatchElsewhere, MainElsewhere, Goto, objects
<1>3. o \in Objects /\ Undone(f) = Undone(Top)
  BY <1>1, <1>2, Dispatching DEF Undone, FrameType
<1>4. UNCHANGED <<JobServes, WorkerServes, FrameServes>>
  BY <1>2, <1>3, MainServes
<1>5. ServicesKept(Served)
  BY ServiceBase
<1>6. Store(Kept(Idle(Objects), JobServes, Idle(Users), WorkerServes, ObjectsOf(glQueue, target)', FrameServes,
                 Idle(Levels), Idle(Levels)), Names, Things, Objects, Served)
  <2>1. async_wait_callback(o, -1) /\ target' = target /\ -1 \in Int
    BY <1>2
  <2>2. QED
    BY <1>3, <1>5, <2>1, CountMoves DEF ServicesKept
<1>7. Store(Services', Names, Things, Objects, Served)
  BY <1>4, <1>6 DEF Services
<1>8. NothingBegins(None) /\ UNCHANGED glActiveAsyncObjects
  BY <1>2, NothingBegan DEF tables
<1>9. QED
  BY <1>7, <1>8, ServeStays, AsyncAssumption

LEMMA Notify_Serve ==
    ASSUME Typed, ControlInv, CallbackInv, ServeInv, Notify
    PROVE  ServeInv'
<1>1. PICK f, d, m : f = [Top EXCEPT !.at = "unlock", !.drained = <<>>] /\ d = Top.drained /\ m = Notices(d)
  OBVIOUS
<1>2. /\ frames # <<>> /\ Top.at = "notify" /\ SetTop(f) /\ glQueue' = glQueue \o m
      /\ UNCHANGED <<tables, worker, state, target, users, object>>
  BY <1>1 DEF Notify, MainAt, DispatchElsewhere, MainElsewhere, SendMessages, objects
<1>3. Undone(f) = Undone(Top)
  BY <1>1, <1>2, TopIs DEF Undone, FrameType
<1>4. d \in Seq(Requests) /\ \A i \in DOMAIN d : target[d[i]] # None
  BY <1>1, <1>2, DrainedMade
<1>5. m \in Seq(Messages) /\ MessagesOK(m, target) /\ Inside(ObjectsOf(m, target), Objects) = {}
  BY <1>1, <1>4, NoticeLists
<1>6. QED
  BY <1>2, <1>3, <1>5, PostingServes

LEMMA EndDispatch_Serve ==
    ASSUME Typed, ControlInv, ServeInv, EndDispatch
    PROVE  ServeInv'
  BY Dispatching, FreeingServes DEF EndDispatch, MainAt, DispatchElsewhere, MainElsewhere,
    NextMessage, Undone, FrameType

----------------------------------------------------------------------------
(* The order of requests.                                                  *)

\* A request that is older than all that is queued for its object.
Leads(r) == r \in Requests /\ target[r] \in Objects /\ Ahead(r)

\* No queue becomes longer.
Shorter == \A o \in Objects :
    Sorted(glActionQueues'[o]) /\ Range(glActionQueues'[o]) \subseteq Range(glActionQueues[o])

\* What is served for an object leads.
LEMMA Leading ==
    ASSUME Typed, ControlInv, CallbackInv, OrderInv
    PROVE  /\ \A u \in Users : pc[u] = "submitting" => Leads(job[u].thread)
           /\ \A r \in Requests : InWorker(r) => Leads(r)
           /\ \A i \in DOMAIN frames : InLaunch(frames[i]) => Leads(frames[i].next)
<1>1. ASSUME NEW u \in Users, pc[u] = "submitting" PROVE Leads(job[u].thread)
  BY <1>1 DEF ControlInv, JobsOK, JobOK, Leads, OrderInv
<1>2. ASSUME NEW r \in Requests, InWorker(r) PROVE Leads(r)
  BY <1>2, WorkerMade DEF Leads, OrderInv
<1>3. ASSUME NEW i \in DOMAIN frames, InLaunch(frames[i]) PROVE Leads(frames[i].next)
  <2>1. PICK f : f = frames[i]
    OBVIOUS
  <2>2. FrameOK(f, target) /\ f \in FrameType /\ InLaunch(f)
    BY <1>3, <2>1 DEF ControlInv, FramesOK, Typed
  <2>3. f.next \in Requests /\ target[f.next] = target[Head(f.batch).request] /\ f.batch # <<>>
        /\ Head(f.batch).request \in Requests /\ MessagesOK(f.batch, target) /\ f.batch \in Seq(Messages)
    BY <2>2 DEF FrameOK, InLaunch, FrameType
  <2>4. Head(f.batch) = f.batch[1] /\ 1 \in DOMAIN f.batch
    BY <2>3
  <2>5. target[f.next] \in Objects
    BY <2>3, <2>4, AsyncAssumption DEF MessagesOK, BREAK, Typed, Requests
  <2>6. QED
    BY <1>3, <2>1, <2>3, <2>5 DEF Leads, OrderInv
<1>4. QED
  BY <1>1, <1>2, <1>3

LEMMA OrderStays ==
    ASSUME UNCHANGED target, Shorter,
           \A u \in Users : pc'[u] = "submitting" => Leads(job'[u].thread),
           \A r \in Requests : InWorker(r)' => Leads(r),
           \A i \in DOMAIN frames' : InLaunch(frames'[i]) => Leads(frames'[i].next)
    PROVE  OrderInv'
  BY DEF Leads, Ahead, Shorter, OrderInv, InWorker

\* Queues that are left alone or emptied.
LEMMA Shortened ==
    ASSUME Typed, OrderInv
    PROVE  /\ UNCHANGED glActionQueues => Shorter
           /\ UNCHANGED tables => Shorter
           /\ \A o \in Objects : glActionQueues' = [glActionQueues EXCEPT ![o] = <<>>] => Shorter
           /\ \A o \in Objects : ForgetObject(o) => Shorter
           /\ \A o \in Objects : object_free(o) \/ ReleaseObject(o) => Shorter
           /\ (\A o \in Objects : glActionQueues'[o] = <<>>) => Shorter
<1>1. UNCHANGED glActionQueues => Shorter
  BY DEF Shorter, OrderInv
<1>2. Sorted(<<>>) /\ Range(<<>>) = {}
  BY DEF Sorted, Range
<1>3. (\A o \in Objects : glActionQueues'[o] = <<>> \/ glActionQueues'[o] = glActionQueues[o]) => Shorter
  BY <1>2 DEF Shorter, OrderInv
<1>4. \A o \in Objects : glActionQueues' = [glActionQueues EXCEPT ![o] = <<>>] => Shorter
  BY <1>3 DEF Typed, TablesTyped
<1>5. QED
  BY <1>1, <1>3, <1>4 DEF ForgetObject, object_free, ReleaseObject, tables

\* Requests are numbered: a new one is younger than all that have been made.
LEMMA NewIsYounger ==
    ASSUME Typed, ControlInv, NEW r \in Requests, target[r] = None, NEW q \in Requests, target[q] # None
    PROVE  q < r
<1>1. q \in Nat /\ r \in Nat /\ q >= 1 /\ r >= 1
  BY AsyncAssumption DEF Requests
<1>2. ~(r < q)
  BY <1>1 DEF ControlInv, Numbered
<1>3. QED
  BY <1>1, <1>2

LEMMA AppendSorted ==
    ASSUME NEW s \in Seq(Requests), Sorted(s), NEW r \in Requests, \A i \in DOMAIN s : s[i] < r
    PROVE  Sorted(Append(s, r)) /\ Range(Append(s, r)) = Range(s) \cup {r}
<1>1. PICK a : a = Append(s, r)
  OBVIOUS
<1>2. /\ DOMAIN s = 1..Len(s) /\ DOMAIN a = 1..Len(s) + 1 /\ Len(s) \in Nat
      /\ \A i \in 1..Len(s) : a[i] = s[i]
      /\ a[Len(s) + 1] = r
  BY <1>1
<1>3. ASSUME NEW i \in DOMAIN a, NEW j \in DOMAIN a, i < j PROVE a[i] < a[j]
  BY <1>2, <1>3 DEF Sorted
<1>4. Range(a) = Range(s) \cup {r}
  BY <1>2 DEF Range
<1>5. QED
  BY <1>1, <1>3, <1>4 DEF Sorted

LEMMA Submits_Order ==
    ASSUME Typed, ControlInv, CallbackInv, ServeInv, OrderInv, NEW u \in Users, NEW o \in Objects, NEW r \in Requests,
           Submits(u, o, r)
    PROVE  OrderInv'
<1>1. /\ target[r] = None /\ target' = [target EXCEPT ![r] = o] /\ target \in [Requests -> Things]
      /\ UNCHANGED <<worker, frames>>
  BY DEF Submits, threads, Typed, Things
<1>2. \A q \in Requests : target[q] # None => q < r /\ target'[q] = target[q]
  BY <1>1, NewIsYounger
<1>3. \A q : Leads(q) => q < r /\ q # r /\ target'[q] = target[q] /\ target[q] \in Objects
  BY AsyncAssumption, <1>1, <1>2 DEF Leads
<1>4. CASE /\ glActionQueues' = [glActionQueues EXCEPT ![o] = push_back(@, r)]
           /\ UNCHANGED users
  <2>1. PICK s : s = glActionQueues[o]
    OBVIOUS
  <2>2. s \in Seq(Requests) /\ Sorted(s) /\ \A i \in DOMAIN s : s[i] < r
    BY <2>1, <1>2, AsyncAssumption DEF Typed, TablesTyped, OrderInv, ControlInv, QueuesOK, QueueOK
  <2>3. Sorted(Append(s, r)) /\ Range(Append(s, r)) = Range(s) \cup {r}
    BY <2>2, AppendSorted
  <2>4. /\ glActionQueues'[o] = Append(s, r)
        /\ \A x \in Objects : x # o => glActionQueues'[x] = glActionQueues[x]
    BY <1>4, <2>1 DEF Typed, TablesTyped, push_back
  <2>5. \A q : Leads(q) => Ahead(q)'
    <3>1. SUFFICES ASSUME NEW q, Leads(q), NEW p \in Range(glActionQueues'[target'[q]]) PROVE q < p
      BY DEF Ahead
    <3>2. q < r /\ target'[q] = target[q] /\ target[q] \in Objects
      BY <1>3, <3>1
    <3>3. \A x \in Range(glActionQueues[target[q]]) : q < x
      BY <3>1 DEF Leads, Ahead
    <3>4. PICK x \in Objects : x = target[q]
      BY <3>2
    <3>5. p \in Range(glActionQueues'[x]) /\ \A y \in Range(glActionQueues[x]) : q < y
      BY <3>1, <3>2, <3>3, <3>4
    <3>6. CASE x = o
      BY <2>1, <2>3, <2>4, <3>2, <3>5, <3>6
    <3>7. CASE x # o
      BY <2>4, <3>5, <3>7
    <3>8. QED
      BY <3>6, <3>7
  <2>6. \A x \in Objects : Sorted(glActionQueues'[x])
    BY <2>3, <2>4 DEF OrderInv
  <2>7. QED
    BY <1>1, <1>4, <2>5, <2>6, Leading DEF OrderInv, users, InWorker
<1>5. CASE /\ o \notin glActiveAsyncObjects /\ UNCHANGED glActionQueues
           /\ pc' = [pc EXCEPT ![u] = "submitting"]
           /\ job' = [job EXCEPT ![u] = [NoJob EXCEPT !.object = o, !.thread = r]]
  <2>1. glActionQueues[o] = <<>>
    BY <1>5 DEF ServeInv
  <2>2. Ahead(r)'
    BY <1>1, <1>5, <2>1 DEF Ahead, Range, Typed
  <2>3. \A q : Leads(q) => Ahead(q)'
    BY <1>3, <1>5 DEF Leads, Ahead
  <2>4. \A v \in Users : (pc[v] = "submitting" => Ahead(job[v].thread))'
    <3>1. SUFFICES ASSUME NEW v \in Users, pc'[v] = "submitting" PROVE Ahead(job[v].thread)'
      OBVIOUS
    <3>2. CASE v = u
      BY <1>5, <3>2, <2>2 DEF NoJob, Typed, UsersTyped, Ahead
    <3>3. CASE v # u
      BY <1>5, <3>1, <3>3, <2>3, Leading DEF Typed, UsersTyped, Ahead
    <3>4. QED
      BY <3>2, <3>3
  <2>5. QED
    BY <1>1, <1>5, <2>3, <2>4, Leading DEF OrderInv, InWorker
<1>6. QED
  BY <1>4, <1>5 DEF Submits, push_back

----------------------------------------------------------------------------
(* The order of requests: what the actions do to it.                       *)

LEMMA Launch_Order ==
    ASSUME Typed, ControlInv, CallbackInv, OrderInv, NEW u \in Users, Launch(u)
    PROVE  OrderInv'
<1>1. /\ pc[u] = "submitting" /\ worker' = [worker EXCEPT ![job[u].thread] = "start"]
      /\ pc' = [pc EXCEPT ![u] = "idle"] /\ job' = [job EXCEPT ![u] = NoJob]
      /\ UNCHANGED <<target, frames, glActionQueues>>
  BY DEF Launch, tables
<1>2. Shorter
  BY <1>1, Shortened
<1>3. \A v \in Users : pc'[v] = "submitting" => Leads(job'[v].thread)
  BY <1>1, Leading DEF Typed, UsersTyped
<1>4. \A r \in Requests : InWorker(r)' => Leads(r)
  BY <1>1, Leading DEF InWorker, Typed, ThreadsTyped
<1>5. QED
  BY <1>1, <1>2, <1>3, <1>4, Leading, OrderStays

LEMMA Cancel_Shorter ==
    ASSUME Typed, ControlInv, CallbackInv, OrderInv, NEW u \in Users,
           WakeWorker(u) \/ DrainCancelled(u) \/ NotifyCancelled(u) \/ \E o \in Objects : AsyncCancel(u, o)
    PROVE  Shorter
<1>1. CASE DrainCancelled(u)
  BY <1>1, Shortened DEF DrainCancelled, ControlInv, JobsOK, JobOK, TakeQueue
<1>2. CASE UNCHANGED glActionQueues
  BY <1>2, Shortened
<1>3. QED
  BY <1>1, <1>2 DEF WakeWorker, NotifyCancelled, AsyncCancel, tables

LEMMA Worker_Shorter ==
    ASSUME Typed, ControlInv, CallbackInv, OrderInv, NEW r \in Requests, WorkerMoves(r)
    PROVE  Shorter
<1>1. CASE UNCHANGED tables
  BY <1>1, Shortened
<1>2. CASE worker[r] = "release" /\ ReleaseObject(target[r])
  BY <1>2, WorkerMade, Shortened DEF InWorker
<1>3. QED
  BY <1>1, <1>2 DEF WorkerMoves

LEMMA Cancel_Submits ==
    ASSUME Typed, NEW u \in Users,
           WakeWorker(u) \/ DrainCancelled(u) \/ NotifyCancelled(u) \/ \E o \in Objects : AsyncCancel(u, o)
    PROVE  \A v \in Users : pc'[v] = "submitting" => pc[v] = "submitting" /\ job'[v] = job[v]
  BY DEF WakeWorker, DrainCancelled, NotifyCancelled, AsyncCancel, Typed, UsersTyped

LEMMA Cancel_Order ==
    ASSUME Typed, ControlInv, CallbackInv, OrderInv, NEW u \in Users,
           WakeWorker(u) \/ DrainCancelled(u) \/ NotifyCancelled(u) \/ \E o \in Objects : AsyncCancel(u, o)
    PROVE  OrderInv'
<1>1. UNCHANGED <<target, frames, worker>>
  BY DEF WakeWorker, DrainCancelled, NotifyCancelled, AsyncCancel, CancelElsewhere
<1>2. Shorter
  BY Cancel_Shorter
<1>3. \A v \in Users : pc'[v] = "submitting" => Leads(job'[v].thread)
  BY Cancel_Submits, Leading
<1>4. QED
  BY <1>1, <1>2, <1>3, Leading, OrderStays DEF InWorker

LEMMA Worker_Order ==
    ASSUME Typed, ControlInv, CallbackInv, OrderInv, NEW r \in Requests, WorkerStep(r)
    PROVE  OrderInv'
  BY Worker_Moves, Worker_Shorter, Leading, OrderStays DEF WorkerMoves, WorkerElsewhere, InWorker,
    Typed, ThreadsTyped, users

LEMMA Outside_Order ==
    ASSUME Typed, ControlInv, CallbackInv, OrderInv, Outside
    PROVE  OrderInv'
  BY Shortened, Leading, OrderStays DEF Outside, Elsewhere, threads, users, InWorker

LEMMA JoinThreads_Order ==
    ASSUME Typed, ControlInv, CallbackInv, OrderInv, JoinThreads
    PROVE  OrderInv'
  BY Shortened, Leading, OrderStays DEF JoinThreads, users, InWorker

\* Frames are pushed and popped.
LEMMA Loops_Frames ==
    ASSUME Typed, ControlInv, EventLoop \/ LeaveLoop \/ \E targets \in SUBSET Objects : AsyncWait(targets)
    PROVE  \A i \in DOMAIN frames' :
               \/ i \in DOMAIN frames /\ frames'[i] = frames[i]
               \/ frames'[i] = Frame("events") \/ frames'[i] = Frame("wait")
<1>1. CASE frames # <<>> /\ frames' = Front(frames)
  BY <1>1 DEF Front, Typed
<1>2. ASSUME NEW loop \in {"events", "wait"}, frames' = Append(frames, Frame(loop))
      PROVE  \A i \in DOMAIN frames' : (i \in DOMAIN frames /\ frames'[i] = frames[i]) \/ frames'[i] = Frame(loop)
  BY <1>2 DEF Typed
<1>3. CASE EventLoop
  BY <1>3, <1>2 DEF EventLoop
<1>4. CASE \E targets \in SUBSET Objects : AsyncWait(targets)
  BY <1>4, <1>2 DEF AsyncWait
<1>5. QED
  BY <1>1, <1>3, <1>4 DEF LeaveLoop, Drained, MainAt

LEMMA Loops_Launch ==
    ASSUME Typed, ControlInv, EventLoop \/ LeaveLoop \/ \E targets \in SUBSET Objects : AsyncWait(targets)
    PROVE  \A i \in DOMAIN frames' : InLaunch(frames'[i]) => i \in DOMAIN frames /\ frames'[i] = frames[i]
  BY Loops_Frames DEF InLaunch, Frame

LEMMA Loops_Order ==
    ASSUME Typed, ControlInv, CallbackInv, OrderInv,
           EventLoop \/ LeaveLoop \/ \E targets \in SUBSET Objects : AsyncWait(targets)
    PROVE  OrderInv'
  BY Loops_Launch, Shortened, Leading, OrderStays DEF EventLoop, LeaveLoop, AsyncWait,
    MainElsewhere, users, InWorker

\* A step of the main thread.
LEMMA MainOrder ==
    ASSUME Typed, ControlInv, CallbackInv, OrderInv, frames # <<>>, NEW f, SetTop(f), UNCHANGED <<target, users>>,
           Shorter, InLaunch(f) => InLaunch(Top) /\ f.next = Top.next,
           \A r \in Requests : InWorker(r)' => Leads(r)
    PROVE  OrderInv'
<1>1. InLaunch(Top) => Leads(Top.next)
  BY TopIs, Leading
<1>2. \A i \in DOMAIN frames' : InLaunch(frames'[i]) => Leads(frames'[i].next)
  BY TopSet, <1>1, Leading
<1>3. QED
  BY <1>2, Leading, OrderStays DEF users

LEMMA Main_Order ==
    ASSUME Typed, ControlInv, CallbackInv, OrderInv, frames # <<>>, NEW f, SetTop(f), UNCHANGED <<target, users, worker>>,
           Shorter, InLaunch(f) => InLaunch(Top) /\ f.next = Top.next
    PROVE  OrderInv'
  BY Leading, MainOrder DEF InWorker

LEMMA LaunchNext_Order ==
    ASSUME Typed, ControlInv, CallbackInv, OrderInv, LaunchNext
    PROVE  OrderInv'
<1>1. PICK f, r, o : /\ f = [Top EXCEPT !.at = "loop", !.batch = Tail(@), !.next = None, !.locked = FALSE]
                     /\ r = Top.next /\ o = Object
  OBVIOUS
<1>2. /\ frames # <<>> /\ Top.at = "check" /\ SetTop(f) /\ worker' = [worker EXCEPT ![r] = "start"]
      /\ ReleaseObject(o) \/ UNCHANGED <<objects, tables, glQueue>>
      /\ UNCHANGED <<target, users>>
  BY <1>1 DEF LaunchNext, MainAt, DispatchElsewhere, MainElsewhere, NextMessage
<1>3. r \in Requests /\ o \in Objects
  BY <1>1, <1>2, NextIn DEF InLaunch
<1>4. Leads(r)
  BY <1>1, <1>2, TopIs, Leading DEF InLaunch
<1>5. ~InLaunch(f)
  BY <1>1, <1>2, TopIs DEF InLaunch, FrameType
<1>6. \A q \in Requests : InWorker(q)' => Leads(q)
  BY <1>2, <1>4, Leading DEF InWorker, Typed, ThreadsTyped
<1>7. Shorter
  BY <1>2, <1>3, Shortened
<1>8. QED
  BY <1>2, <1>5, <1>6, <1>7, MainOrder

LEMMA SortedTail ==
    ASSUME NEW s \in Seq(Requests), s # <<>>, Sorted(s)
    PROVE  /\ Sorted(Tail(s)) /\ \A q \in Range(Tail(s)) : Head(s) < q
           /\ Range(Tail(s)) \subseteq Range(s)
  BY DEF Sorted, Range

LEMMA Pop_Order ==
    ASSUME Typed, ControlInv, CallbackInv, OrderInv, Pop
    PROVE  OrderInv'
<1>1. frames # <<>> /\ Top.at = "dispatch" /\ UNCHANGED <<users, target, worker>>
  BY DEF Pop, MainAt, DispatchElsewhere, MainElsewhere
<1>2. Object \in Objects /\ Top \in FrameType
  BY <1>1, Dispatching
<1>3. CASE Goto("clear") /\ UNCHANGED glActionQueues
  BY <1>2, <1>3, <1>1, Main_Order, Shortened DEF Goto, InLaunch, FrameType
<1>4. CASE /\ SetTop([Top EXCEPT !.at = "launch", !.next = Head(glActionQueues[Object])])
           /\ glActionQueues[Object] # <<>>
           /\ glActionQueues' = [glActionQueues EXCEPT ![Object] = Tail(@)]
  <2>1. PICK f, o, s, k : /\ f = [Top EXCEPT !.at = "launch", !.next = Head(glActionQueues[Object])] /\ o = Object
                          /\ s = glActionQueues[o] /\ k = Len(frames)
    OBVIOUS
  <2>2. s \in Seq(Requests) /\ s # <<>> /\ Sorted(s) /\ o \in Objects /\ target[Head(s)] = o /\ Head(s) \in Requests
    BY <1>2, <1>4, <2>1 DEF Typed, TablesTyped, OrderInv, ControlInv, QueuesOK, QueueOK
  <2>3. /\ Sorted(Tail(s)) /\ \A q \in Range(Tail(s)) : Head(s) < q
        /\ Range(Tail(s)) \subseteq Range(s)
    BY <2>2, SortedTail
  <2>4. glActionQueues'[o] = Tail(s) /\ \A x \in Objects : x # o => glActionQueues'[x] = glActionQueues[x]
    BY <1>2, <1>4, <2>1 DEF Typed, TablesTyped
  <2>5. Shorter
    BY <2>1, <2>3, <2>4 DEF Shorter, OrderInv
  <2>6. \A q : Leads(q) => Ahead(q)'
    BY <1>1, <2>5 DEF Leads, Ahead, Shorter
  <2>7. Ahead(Head(s))'
    BY <1>1, <2>2, <2>3, <2>4 DEF Ahead
  <2>8. f.next = Head(s)
    BY <1>2, <2>1 DEF FrameType
  <2>9. /\ DOMAIN frames' = DOMAIN frames /\ frames'[k] = f
        /\ \A i \in DOMAIN frames : i # k => frames'[i] = frames[i]
    BY <1>1, <1>4, <2>1, TopSet
  <2>10. \A i \in DOMAIN frames' : (InLaunch(frames[i]) => Ahead(frames[i].next))'
    <3>1. SUFFICES ASSUME NEW i \in DOMAIN frames', InLaunch(frames'[i]) PROVE Ahead(frames[i].next)'
      OBVIOUS
    <3>2. CASE i = k
      BY <2>7, <2>8, <2>9, <3>2 DEF Ahead
    <3>3. CASE i # k
      BY <2>9, <3>1, <3>3, Leading, <2>6 DEF Ahead
    <3>4. QED
      BY <3>2, <3>3
  <2>11. \A v \in Users : (pc[v] = "submitting" => Ahead(job[v].thread))'
    BY <1>1, <2>6, Leading DEF users
  <2>12. \A r \in Requests : (InWorker(r) => Ahead(r))'
    BY <1>1, <2>6, Leading DEF InWorker
  <2>13. QED
    BY <2>5, <2>10, <2>11, <2>12 DEF OrderInv, Shorter
<1>5. QED
  BY <1>3, <1>4 DEF Pop

----------------------------------------------------------------------------
(* The order of requests: the other steps of the main thread.              *)

\* What the steps of the main thread, but for Pop, leave of the order.
Steady == \E f : /\ SetTop(f) /\ frames # <<>> /\ (InLaunch(f) => InLaunch(Top) /\ f.next = Top.next)
                 /\ UNCHANGED <<target, users>>

LEMMA Messages_Steady ==
    ASSUME Typed, ControlInv, FetchBatch \/ BreakMessage \/ BeginCallback \/ EndCallback
    PROVE  Steady /\ UNCHANGED worker
<1>1. /\ frames # <<>> /\ Top \in FrameType /\ UNCHANGED <<target, users, worker>>
  BY TopIs DEF FetchBatch, BreakMessage, BeginCallback, EndCallback, MainAt, MainElsewhere
<1>2. CASE FetchBatch
  BY <1>1, <1>2 DEF FetchBatch, FrameType, MainAt, Steady, InLaunch
<1>3. CASE BreakMessage
  BY <1>1, <1>3 DEF BreakMessage, FrameType, MainAt, Steady, InLaunch
<1>4. CASE BeginCallback
  BY <1>1, <1>4 DEF BeginCallback, Goto, FrameType, Steady, InLaunch
<1>5. CASE EndCallback
  BY <1>1, <1>5 DEF EndCallback, NextMessage, FrameType, Steady, InLaunch
<1>6. QED
  BY <1>1, <1>2, <1>3, <1>4, <1>5

LEMMA Dispatch_Steady ==
    ASSUME Typed, ControlInv, StopDispatch \/ AccessForLaunch \/ DropQueue \/ RefuseLaunch \/ DrainQueue
                                \/ ClearFlag \/ CountDown \/ Notify \/ EndDispatch
    PROVE  Steady /\ UNCHANGED worker
<1>1. /\ frames # <<>> /\ Top \in FrameType /\ UNCHANGED <<target, users, worker>>
  BY TopIs DEF StopDispatch, AccessForLaunch, DropQueue, RefuseLaunch, DrainQueue, ClearFlag, CountDown, Notify,
               EndDispatch, MainAt, DispatchElsewhere, MainElsewhere
<1>2. ASSUME NEW label \in {"drain", "notify"}, Goto(label) PROVE Steady
  BY <1>1, <1>2 DEF Goto, FrameType, Steady, InLaunch
<1>3. CASE NextMessage
  BY <1>1, <1>3 DEF NextMessage, FrameType, Steady, InLaunch
<1>4. CASE AccessForLaunch
  BY <1>1, <1>4 DEF AccessForLaunch, MainAt, FrameType, Steady, InLaunch
<1>5. CASE DrainQueue
  BY <1>1, <1>5 DEF DrainQueue, FrameType, Steady, InLaunch
<1>6. CASE ClearFlag
  BY <1>1, <1>6 DEF ClearFlag, Goto, FrameType, Steady, InLaunch
<1>7. CASE Notify
  BY <1>1, <1>7 DEF Notify, FrameType, Steady, InLaunch
<1>8. QED
  BY <1>1, <1>2, <1>3, <1>4, <1>5, <1>6, <1>7 DEF StopDispatch, DropQueue, RefuseLaunch, CountDown, EndDispatch

LEMMA Steady_Order ==
    ASSUME Typed, ControlInv, CallbackInv, OrderInv, Steady, UNCHANGED worker, Shorter
    PROVE  OrderInv'
  BY Main_Order DEF Steady

LEMMA Messages_Shorter ==
    ASSUME Typed, ControlInv, OrderInv, FetchBatch \/ BreakMessage \/ BeginCallback \/ EndCallback
    PROVE  Shorter
<1>1. CASE UNCHANGED tables
  BY <1>1, Shortened
<1>2. CASE EndCallback
  BY <1>2, InHand, TopFields, Shortened DEF EndCallback, MainAt
<1>3. QED
  BY <1>1, <1>2 DEF FetchBatch, BreakMessage, BeginCallback

LEMMA Dispatch_Shorter ==
    ASSUME Typed, ControlInv, OrderInv,
           StopDispatch \/ AccessForLaunch \/ DropQueue \/ RefuseLaunch \/ DrainQueue
             \/ ClearFlag \/ CountDown \/ Notify \/ EndDispatch
    PROVE  Shorter
<1>1. CASE UNCHANGED tables
  BY <1>1, Shortened
<1>2. CASE DropQueue \/ DrainQueue \/ EndDispatch
  BY <1>2, Dispatching, Shortened DEF DropQueue, DrainQueue, EndDispatch, MainAt
<1>3. QED
  BY <1>1, <1>2 DEF StopDispatch, AccessForLaunch, RefuseLaunch, ClearFlag, CountDown, Notify

LEMMA Messages_Order ==
    ASSUME Typed, ControlInv, CallbackInv, OrderInv, FetchBatch \/ BreakMessage \/ BeginCallback \/ EndCallback
    PROVE  OrderInv'
  BY Messages_Shorter, Messages_Steady, Steady_Order

LEMMA Dispatch_Order ==
    ASSUME Typed, ControlInv, CallbackInv, OrderInv,
           StopDispatch \/ AccessForLaunch \/ DropQueue \/ RefuseLaunch \/ DrainQueue
             \/ ClearFlag \/ CountDown \/ Notify \/ EndDispatch
    PROVE  OrderInv'
  BY Dispatch_Shorter, Dispatch_Steady, Steady_Order

----------------------------------------------------------------------------
(* The invariant of types, control, callbacks, service and order.          *)

CoreInv == Typed /\ ControlInv /\ CallbackInv /\ ServeInv /\ OrderInv

LEMMA Init_Lists ==
    ASSUME Init
    PROVE  (\A n \in Names : Callbacks[n] = <<>>) /\ \A n \in Names : Services[n] = <<>>
<1>1. DOMAIN frames = {}
  BY DEF Init
<1>2. RequestsOf(glQueue) = <<>> /\ ObjectsOf(glQueue, target) = <<>>
  BY NoMessages DEF Init
<1>3. /\ \A u \in Users : Submitted[u] = <<>> /\ Cancelled[u] = <<>> /\ JobServes[u] = <<>>
      /\ \A r \in Requests : Working[r] = <<>> /\ WorkerServes[r] = <<>>
  BY DEF Init, Submitted, Cancelled, JobServes, Working, WorkerServes, OfJob, ForJob, OfWorker, ForWorker, NoJob
<1>4. \A i \in Levels : Batches[i] = <<>> /\ Nexts[i] = <<>> /\ Drains[i] = <<>> /\ FrameServes[i] = <<>>
  BY <1>1 DEF Batches, Nexts, Drains, FrameServes
<1>5. \A o \in Objects : glActionQueues[o] = <<>>
  BY DEF Init
<1>6. \A S, x : x \in S => Idle(S)[x] = <<>>
  BY DEF Idle
<1>7. Lists(Callbacks, glActionQueues, Submitted, Cancelled, Working, RequestsOf(glQueue), Batches, Nexts, Drains)
  BY KeptAt DEF Callbacks
<1>8. Lists(Services, Idle(Objects), JobServes, Idle(Users), WorkerServes, ObjectsOf(glQueue, target), FrameServes,
            Idle(Levels), Idle(Levels))
  BY KeptAt DEF Services
<1>9. PICK T : T = {<<>>}
  OBVIOUS
<1>10. /\ Within(glActionQueues, Objects, T) /\ Within(Submitted, Users, T) /\ Within(Cancelled, Users, T)
       /\ Within(Working, Requests, T) /\ RequestsOf(glQueue) \in T /\ Within(Batches, Levels, T)
       /\ Within(Nexts, Levels, T) /\ Within(Drains, Levels, T)
  BY <1>2, <1>3, <1>4, <1>5, <1>9 DEF Within
<1>11. /\ Within(Idle(Objects), Objects, T) /\ Within(JobServes, Users, T) /\ Within(Idle(Users), Users, T)
       /\ Within(WorkerServes, Requests, T) /\ ObjectsOf(glQueue, target) \in T /\ Within(FrameServes, Levels, T)
       /\ Within(Idle(Levels), Levels, T)
  BY <1>2, <1>3, <1>4, <1>6, <1>9 DEF Within
<1>12. Callbacks \in [Names -> T]
  BY <1>7, <1>10, KeptMembers
<1>13. Services \in [Names -> T]
  BY <1>8, <1>11, KeptMembers
<1>14. QED
  BY <1>9, <1>12, <1>13

LEMMA Init_Core == ASSUME Init PROVE CoreInv
<1>2. <<>> \in Seq(Requests) /\ <<>> \in Seq(Messages) /\ <<>> \in Seq(FrameType)
  OBVIOUS
<1>3. NoJob \in JobType
  BY NoJobOK
<1>4. Typed
  <2>1. TablesTyped /\ ObjectsTyped
    BY <1>2 DEF Init, TablesTyped, ObjectsTyped
  <2>2. ThreadsTyped /\ WaitTyped
    <3>1. ThreadsTyped
      BY DEF Init, ThreadsTyped
    <3>2. glAsyncWaiting \in BOOLEAN
      BY DEF Init
    <3>3. glAsyncWaitTargets \subseteq Objects /\ glAsyncWaitCounter \in Int /\ covered \subseteq Requests
      BY DEF Init
    <3>4. QED
      BY <3>1, <3>2, <3>3 DEF WaitTyped
  <2>3. UsersTyped
    BY <1>3 DEF Init, UsersTyped
  <2>4. HistoryTyped
    BY DEF Init, HistoryTyped
  <2>5. QED
    BY <1>2, <2>1, <2>2, <2>3, <2>4 DEF Init, Typed
<1>5. ControlInv
  BY NoMessages, NoJobOK DEF Init, PostedOK, FramesOK, Nested, JobsOK, Numbered, QueuesOK, QueueOK,
    Closing, ControlInv
<1>6. Waiting = {} /\ Apart(Callbacks, Names, Requests) /\ Served = {} /\ Apart(Services, Names, Objects)
  BY Init_Lists, EmptyList DEF Waiting, Served, Content, Apart
<1>7. CallbackInv
  BY <1>6 DEF CallbackInv, Init
<1>8. ServeInv
  BY <1>6 DEF ServeInv, Init
<1>9. OrderInv
  BY DEF OrderInv, Init, Sorted, InWorker
<1>10. QED
  BY <1>4, <1>5, <1>7, <1>8, <1>9 DEF CoreInv

LEMMA Stutter_Core ==
    ASSUME Typed, ControlInv, CallbackInv, ServeInv, OrderInv, UNCHANGED vars
    PROVE  CoreInv'
<1>2. UNCHANGED <<tables, ASYNC_ACTIVE, objects, target, threads, glQueue, frames, wait, state, users, history,
                  worker, glActionQueues, object, callbacks, glAsyncWaiting>>
  BY DEF vars, tables, threads, objects, history, wait
<1>3. Typed'
  BY <1>2, TypesKept DEF Typed
<1>4. ControlInv'
  BY <1>2, ControlKept, ClosingKept DEF ControlInv
<1>5. UNCHANGED <<Submitted, Cancelled, Working, Batches, Nexts, Drains, JobServes, WorkerServes, FrameServes>>
  BY <1>2, ListsKept
<1>6. CallbackInv'
  BY <1>2, <1>5, CallbackSame
<1>7. ServeInv'
  BY <1>2, <1>5, Aside_Serve
<1>8. OrderInv'
  BY <1>2, Shortened, Leading, OrderStays DEF users, InWorker
<1>9. QED
  BY <1>3, <1>4, <1>6, <1>7, <1>8 DEF CoreInv

LEMMA Worker_Core ==
    ASSUME CoreInv, NEW r \in Requests, WorkerStep(r)
    PROVE  CoreInv'
  BY WorkerMade, Worker_Control, Worker_Callback, Worker_Serve, Worker_Order DEF CoreInv

LEMMA Main_Core == CoreInv /\ MainStep => CoreInv'
<1>1. SUFFICES ASSUME Typed, ControlInv, CallbackInv, ServeInv, OrderInv, MainStep PROVE CoreInv'
  BY DEF CoreInv
<1>2. CASE EventLoop
  BY <1>1, <1>2, EventLoop_Control, Loops_Callback, Loops_Serve, Loops_Order DEF CoreInv
<1>3. CASE LeaveLoop
  BY <1>1, <1>3, LeaveLoop_Control, Loops_Callback, Loops_Serve, Loops_Order DEF CoreInv
<1>4. CASE FetchBatch
  BY <1>1, <1>4, FetchBatch_Control, FetchBatch_Callback, FetchBatch_Serve, Messages_Order DEF CoreInv
<1>5. CASE BreakMessage
  BY <1>1, <1>5, BreakMessage_Control, BreakMessage_Callback, BreakMessage_Serve, Messages_Order DEF CoreInv
<1>6. CASE BeginCallback
  BY <1>1, <1>6, BeginCallback_Control, BeginCallback_Callback, BeginCallback_Serve, Messages_Order DEF CoreInv
<1>7. CASE EndCallback
  BY <1>1, <1>7, EndCallback_Control, EndCallback_Callback, EndCallback_Serve, Messages_Order DEF CoreInv
<1>8. CASE Pop
  BY <1>1, <1>8, Pop_Control, Pop_Callback, Pop_Serve, Pop_Order DEF CoreInv
<1>9. CASE StopDispatch
  BY <1>1, <1>9, StopDispatch_Control, Still_Callback, Still_Serve, Dispatch_Order DEF CoreInv
<1>10. CASE AccessForLaunch
  BY <1>1, <1>10, AccessForLaunch_Control, Still_Callback, Still_Serve, Dispatch_Order DEF CoreInv
<1>11. CASE DropQueue
  BY <1>1, <1>11, DropQueue_Control, DropQueue_Callback, DropQueue_Serve, Dispatch_Order DEF CoreInv
<1>12. CASE LaunchNext
  BY <1>1, <1>12, LaunchNext_Control, LaunchNext_Callback, LaunchNext_Serve, LaunchNext_Order DEF CoreInv
<1>13. CASE RefuseLaunch
  BY <1>1, <1>13, RefuseLaunch_Control, RefuseLaunch_Callback, RefuseLaunch_Serve, Dispatch_Order DEF CoreInv
<1>14. CASE DrainQueue
  BY <1>1, <1>14, DrainQueue_Control, DrainQueue_Callback, DrainQueue_Serve, Dispatch_Order DEF CoreInv
<1>15. CASE ClearFlag
  BY <1>1, <1>15, ClearFlag_Control, Still_Callback, Still_Serve, Dispatch_Order DEF CoreInv
<1>16. CASE CountDown
  BY <1>1, <1>16, CountDown_Control, CountDown_Callback, CountDown_Serve, Dispatch_Order DEF CoreInv
<1>17. CASE Notify
  BY <1>1, <1>17, DrainedMade, Notify_Control, Notify_Callback, Notify_Serve, Dispatch_Order DEF
    Notify, MainAt, CoreInv
<1>18. CASE EndDispatch
  BY <1>1, <1>18, EndDispatch_Control, Still_Callback, EndDispatch_Serve, Dispatch_Order DEF CoreInv
<1>19. QED
  BY <1>1, <1>2, <1>3, <1>4, <1>5, <1>6, <1>7, <1>8, <1>9, <1>10, <1>11, <1>12, <1>13, <1>14, <1>15, <1>16, <1>17,
     <1>18 DEF MainStep

LEMMA Users_Core ==
    ASSUME CoreInv, NEW u \in Users, NEW o \in Objects,
           \/ Launch(u) \/ WakeWorker(u) \/ DrainCancelled(u) \/ NotifyCancelled(u) \/ LetGo(u, o)
           \/ AsyncAction(u, o) \/ AsyncCancel(u, o) \/ Hold(u, o)
    PROVE  CoreInv'
<1>1. Typed /\ ControlInv /\ CallbackInv /\ ServeInv /\ OrderInv
  BY DEF CoreInv
<1>2. CASE Launch(u)
  BY <1>1, <1>2, Launch_Control, Launch_Callback, Launch_Serve, Launch_Order DEF CoreInv
<1>3. CASE WakeWorker(u)
  BY <1>1, <1>3, WakeWorker_Control, Cancel_Callback, Cancel_Serve, Cancel_Order DEF CoreInv
<1>4. CASE DrainCancelled(u)
  BY <1>1, <1>4, DrainCancelled_Control, DrainCancelled_Callback, Cancel_Serve, Cancel_Order DEF CoreInv
<1>5. CASE NotifyCancelled(u)
  BY <1>1, CancelledMade, <1>5, NotifyCancelled_Control, NotifyCancelled_Callback, Cancel_Serve,
    Cancel_Order DEF CoreInv
<1>6. CASE LetGo(u, o) \/ Hold(u, o)
  BY <1>6, OutsideSteps, <1>1, LetGo_Control, Hold_Control, Outside_Callback, Others_Serve,
    Outside_Order DEF CoreInv
<1>7. CASE AsyncAction(u, o)
  BY <1>7, AsyncAction_Submits, <1>1, Submits_Control, Submits_Callback, Submits_Serve,
    Submits_Order DEF CoreInv
<1>8. CASE AsyncCancel(u, o)
  BY <1>1, <1>8, AsyncCancel_Control, Cancel_Callback, Cancel_Serve, Cancel_Order DEF CoreInv
<1>9. QED
  BY <1>2, <1>3, <1>4, <1>5, <1>6, <1>7, <1>8

LEMMA Others_Core ==
    ASSUME CoreInv,
           \/ \E targets \in SUBSET Objects : AsyncWait(targets)
           \/ \E o \in Objects : Free(o)
           \/ StopTask \/ CloseSubmissions \/ JoinThreads
    PROVE  CoreInv'
<1>1. Typed /\ ControlInv /\ CallbackInv /\ ServeInv /\ OrderInv
  BY DEF CoreInv
<1>2. CASE \E targets \in SUBSET Objects : AsyncWait(targets)
  BY <1>1, <1>2, AsyncWait_Control, Loops_Callback, Loops_Serve, Loops_Order DEF CoreInv
<1>3. CASE \E o \in Objects : Free(o)
  BY <1>3, <1>1, OutsideSteps, Free_Control, Outside_Callback, Free_Serve, Outside_Order DEF CoreInv
<1>4. CASE StopTask \/ CloseSubmissions
  BY <1>1, <1>4, OutsideSteps, StopTask_Control, Outside_Callback, StopTask_Serve, Outside_Order DEF CoreInv
<1>5. CASE JoinThreads
  BY <1>1, <1>5, JoinThreads_Control, JoinThreads_Callback, JoinThreads_Serve, JoinThreads_Order DEF CoreInv
<1>6. QED
  BY <1>2, <1>3, <1>4, <1>5

LEMMA Next_Core == CoreInv /\ [Next]_vars => CoreInv'
<1>1. SUFFICES ASSUME CoreInv, [Next]_vars PROVE CoreInv'
  OBVIOUS
<1>2. ASSUME NEW u \in Users, UserStep(u) PROVE CoreInv'
  <2>1. CASE \E o \in Objects : LetGo(u, o)
    BY <1>1, <2>1, Users_Core
  <2>2. CASE Launch(u) \/ WakeWorker(u) \/ DrainCancelled(u) \/ NotifyCancelled(u)
    BY <1>1, <2>2, Users_Core DEF Launch, WakeWorker, DrainCancelled, NotifyCancelled, CoreInv,
      ControlInv, JobsOK, JobOK
  <2>3. QED
    BY <1>2, <2>1, <2>2 DEF UserStep
<1>3. QED
  BY <1>1, <1>2, Stutter_Core, Worker_Core, Main_Core, Users_Core, Others_Core DEF Next, CoreInv

----------------------------------------------------------------------------
(* What follows from the invariant: one request is served at a time.       *)

\* The inductive invariant holds: of the types, the control of threads and frames, where
\* callbacks wait, who serves which object, and in which order (lib_objects.cpp:654-960,
\* 1196-1528).
THEOREM CoreAlways == Spec => []CoreInv
  BY Init_Core, Next_Core, PTL DEF Spec

LEMMA FewElements == ASSUME NEW S, \A x, y \in S : x = y PROVE IsFiniteSet(S) /\ Cardinality(S) \in {0, 1}
<1>1. CASE S = {}
  BY <1>1, FS_EmptySet
<1>2. CASE S # {}
  <2>1. PICK x : S = {x}
    BY <1>2
  <2>2. IsFiniteSet({x}) /\ Cardinality({x}) = 1
    BY FS_Singleton
  <2>3. QED
    BY <2>1, <2>2
<1>3. QED
  BY <1>1, <1>2

\* The object o is served at place k of the list n.
ServedAt(o, n, k) == n \in Names /\ k \in DOMAIN Services[n] /\ Services[n][k] = o

LEMMA OnePlace ==
    ASSUME ServeInv, NEW o \in Objects, NEW n, NEW k, NEW m, NEW j, ServedAt(o, n, k), ServedAt(o, m, j)
    PROVE  n = m /\ k = j
  BY DEF ServeInv, ServedAt, Inside, Apart, Single

LEMMA ServiceLists ==
    Lists(Services, Idle(Objects), JobServes, Idle(Users), WorkerServes, ObjectsOf(glQueue, target), FrameServes,
          Idle(Levels), Idle(Levels))
  BY KeptAt DEF Services

\* A worker serves its object,
LEMMA WorkerPlace ==
    ASSUME NEW o \in Objects, NEW r \in Requests
    PROVE  r \in Workers(o) <=> ServedAt(o, <<"worker", r>>, 1)
<1>1. <<"worker", r>> \in Names /\ Services[<<"worker", r>>] = ForWorker(worker[r], target[r])
  BY NamesAre, ServiceLists DEF Lists, WorkerServes
<1>2. PICK s : s = ForWorker(worker[r], target[r])
  OBVIOUS
<1>3. CASE InWorker(r)
  BY <1>2, <1>3, <1>1 DEF ForWorker, InWorker, Workers, ServedAt
<1>4. CASE ~InWorker(r)
  BY <1>2, <1>4, <1>1 DEF ForWorker, InWorker, Workers, ServedAt
<1>5. QED
  BY <1>3, <1>4

\* as does a submitter,
LEMMA SubmitterPlace ==
    ASSUME NEW o \in Objects, NEW u \in Users
    PROVE  (pc[u] = "submitting" /\ job[u].object = o) <=> ServedAt(o, <<"submitter", u>>, 1)
<1>1. <<"submitter", u>> \in Names /\ Services[<<"submitter", u>>] = ForJob(pc[u], job[u])
  BY NamesAre, ServiceLists DEF Lists, JobServes
<1>2. PICK s : s = ForJob(pc[u], job[u])
  OBVIOUS
<1>3. CASE pc[u] = "submitting"
  BY <1>2, <1>3, <1>1 DEF ForJob, ServedAt
<1>4. CASE pc[u] # "submitting"
  BY <1>2, <1>4, <1>1 DEF ForJob, ServedAt
<1>5. QED
  BY <1>3, <1>4

\* and so does a completion that has yet to be dispatched.
LEMMA CompletionIs ==
    ASSUME NEW m \in Messages
    PROVE  (m.DispatchNext /\ m.request \in Requests) <=> \E r \in Requests : m = Completion(r)
  BY DEF Completion, Messages

LEMMA PostedPlace ==
    ASSUME Typed, ControlInv, NEW o \in Objects, NEW k
    PROVE  ServedAt(o, <<"posted", 1>>, k) <=>
              k \in DOMAIN glQueue /\ \E r \in Requests : glQueue[k] = Completion(r) /\ target[r] = o
<1>1. <<"posted", 1>> \in Names /\ Services[<<"posted", 1>>] = ObjectsOf(glQueue, target)
  BY NamesAre, ServiceLists DEF Lists
<1>2. glQueue \in Seq(Messages) /\ MessagesOK(glQueue, target)
  BY DEF Typed, ControlInv, PostedOK
<1>3. ASSUME k \in DOMAIN glQueue
      PROVE  ObjectsOf(glQueue, target)[k] = o <=> \E r \in Requests : glQueue[k] = Completion(r) /\ target[r] = o
  BY <1>2, <1>3, CompletionIs, AsyncAssumption DEF MessagesOK, BREAK, Completion, ObjectsOf
<1>4. QED
  BY <1>1, <1>3 DEF ServedAt, ObjectsOf

LEMMA BatchPlace ==
    ASSUME Typed, ControlInv, NEW o \in Objects, NEW i \in DOMAIN frames, NEW k
    PROVE  ServedAt(o, <<"batch", i>>, k) <=>
              k \in DOMAIN Undone(frames[i]) /\ \E r \in Requests : Undone(frames[i])[k] = Completion(r) /\ target[r] = o
<1>1. i \in Levels
  BY DEF Typed, ControlInv, Nested, Levels
<1>2. PICK m : m = Undone(frames[i])
  OBVIOUS
<1>3. <<"batch", i>> \in Names /\ Services[<<"batch", i>>] = ObjectsOf(m, target)
  BY <1>1, <1>2, NamesAre, ServiceLists DEF Lists, FrameServes
<1>4. m \in Seq(Messages) /\ MessagesOK(m, target)
  BY <1>2, UnseenTyped DEF Typed, ControlInv, FramesOK, Things
<1>5. ASSUME k \in DOMAIN m
      PROVE  ObjectsOf(m, target)[k] = o <=> \E r \in Requests : m[k] = Completion(r) /\ target[r] = o
  BY <1>4, <1>5, CompletionIs, AsyncAssumption DEF MessagesOK, BREAK, Completion, ObjectsOf
<1>6. QED
  BY <1>2, <1>3, <1>5 DEF ServedAt, ObjectsOf

\* The messages that a frame has yet to dispatch.
LEMMA UndoneIs ==
    ASSUME NEW f \in FrameType, f.at # "loop" => f.batch # <<>>, NEW m
    PROVE  (\E k \in DOMAIN Undone(f) : Undone(f)[k] = m) <=>
              \E n \in DOMAIN f.batch : /\ f.batch[n] = m
                                        /\ n = 1 => f.at \in {"loop", "callback", "dispatch", "launch", "check", "drain"}
<1>1. CASE f.at \in {"clear", "count", "notify", "unlock"}
  <2>1. PICK b, t : b = f.batch /\ t = Undone(f)
    OBVIOUS
  <2>2. b \in Seq(Messages) /\ b # <<>> /\ t = Tail(b)
    BY <1>1, <2>1 DEF Undone, FrameType
  <2>3. /\ Len(b) \in Nat /\ DOMAIN b = 1..Len(b) /\ DOMAIN t = 1..Len(b) - 1
        /\ \A j \in 1..Len(b) - 1 : t[j] = b[j + 1]
    BY <2>2
  <2>4. ASSUME NEW j \in DOMAIN t, t[j] = m PROVE j + 1 \in DOMAIN b /\ j + 1 # 1 /\ b[j + 1] = m
    BY <2>3, <2>4
  <2>5. ASSUME NEW n \in DOMAIN b, b[n] = m, n # 1 PROVE n - 1 \in DOMAIN t /\ t[n - 1] = m
    BY <2>3, <2>5
  <2>6. QED
    BY <1>1, <2>1, <2>4, <2>5
<1>2. CASE f.at \notin {"clear", "count", "notify", "unlock"}
  BY <1>2 DEF Undone, FrameType, FrameSteps
<1>3. QED
  BY <1>1, <1>2

\* A completion in the messages or in a batch, to be dispatched.
CompletionAt(r, n, k) ==
    \/ n = <<"posted", 1>> /\ k \in DOMAIN glQueue /\ glQueue[k] = Completion(r)
    \/ \E i \in DOMAIN frames : /\ n = <<"batch", i>> /\ k \in DOMAIN Undone(frames[i])
                                /\ Undone(frames[i])[k] = Completion(r)

LEMMA UndispatchedPlace ==
    ASSUME Typed, ControlInv, NEW o \in Objects, NEW r \in Requests
    PROVE  r \in Undispatched(o) <=> target[r] = o /\ \E n, k : CompletionAt(r, n, k) /\ ServedAt(o, n, k)
<1>1. \A i \in DOMAIN frames : frames[i] \in FrameType /\ (frames[i].at # "loop" => frames[i].batch # <<>>)
  BY DEF Typed, ControlInv, FramesOK, FrameOK
<1>2. r \in Undispatched(o) <=> target[r] = o /\ \E n, k : CompletionAt(r, n, k)
  <2>1. Completion(r) \in Range(glQueue) <=> \E k \in DOMAIN glQueue : glQueue[k] = Completion(r)
    BY DEF Range
  <2>2. PICK m : m = Completion(r)
    OBVIOUS
  <2>3. \A i \in DOMAIN frames : (\E k \in DOMAIN Undone(frames[i]) : Undone(frames[i])[k] = m) <=>
           \E n \in DOMAIN frames[i].batch :
              /\ frames[i].batch[n] = m
              /\ n = 1 => frames[i].at \in {"loop", "callback", "dispatch", "launch", "check", "drain"}
    BY <1>1, UndoneIs
  <2>4. (\E n, k : CompletionAt(r, n, k)) <=>
           \/ \E k \in DOMAIN glQueue : glQueue[k] = m
           \/ \E i \in DOMAIN frames : \E k \in DOMAIN Undone(frames[i]) : Undone(frames[i])[k] = m
    BY <2>2 DEF CompletionAt
  <2>5. QED
    BY <2>1, <2>2, <2>3, <2>4 DEF Undispatched
<1>3. ASSUME NEW n, NEW k, CompletionAt(r, n, k), target[r] = o PROVE ServedAt(o, n, k)
  BY <1>3, PostedPlace, BatchPlace DEF CompletionAt
<1>4. QED
  BY <1>2, <1>3

LEMMA OneCompletion ==
    ASSUME NEW r, NEW q, NEW n, NEW k, CompletionAt(r, n, k), CompletionAt(q, n, k)
    PROVE  r = q /\ n[1] \in {"posted", "batch"}
<1>1. \A x, y : Completion(x) = Completion(y) => x = y
  BY DEF Completion
<1>2. \A i : <<"batch", i>> # <<"posted", 1>> /\ <<"batch", i>>[1] = "batch" /\ <<"posted", 1>>[1] = "posted"
  OBVIOUS
<1>3. \A i, j : <<"batch", i>> = <<"batch", j>> => i = j
  OBVIOUS
<1>4. QED
  BY <1>1, <1>2, <1>3 DEF CompletionAt

LEMMA ServedOnce ==
    ASSUME Typed, ControlInv, ServeInv, NEW o \in Objects
    PROVE  /\ \A r, q \in Workers(o) : r = q
           /\ \A r, q \in Undispatched(o) : r = q
           /\ Workers(o) = {} \/ Undispatched(o) = {}
<1>1. Workers(o) \subseteq Requests /\ Undispatched(o) \subseteq Requests
  BY DEF Workers, Undispatched
<1>2. ASSUME NEW r \in Workers(o), NEW q \in Workers(o) PROVE r = q
  <2>1. ServedAt(o, <<"worker", r>>, 1) /\ ServedAt(o, <<"worker", q>>, 1)
    BY <1>1, <1>2, WorkerPlace
  <2>2. <<"worker", r>> = <<"worker", q>>
    BY <2>1, OnePlace
  <2>3. QED
    BY <2>2
<1>3. ASSUME NEW r \in Undispatched(o), NEW q \in Undispatched(o) PROVE r = q
  BY <1>1, <1>3, UndispatchedPlace, OnePlace, OneCompletion
<1>4. ASSUME NEW r \in Workers(o), NEW q \in Undispatched(o) PROVE FALSE
  <2>1. PICK n, k : CompletionAt(q, n, k) /\ ServedAt(o, n, k)
    BY <1>1, <1>4, UndispatchedPlace
  <2>2. ServedAt(o, <<"worker", r>>, 1)
    BY <1>1, <1>4, WorkerPlace
  <2>3. n = <<"worker", r>>
    BY <2>1, <2>2, OnePlace
  <2>4. n[1] \in {"posted", "batch"}
    BY <2>1, OneCompletion
  <2>5. QED
    BY <2>3, <2>4
<1>5. QED
  BY <1>2, <1>3, <1>4

LEMMA CoreSerialised == CoreInv => Serialised
  BY ServedOnce, FewElements, FS_EmptySet DEF CoreInv, Serialised

\* Requests for one object are never served together: from the start of a worker to the end
\* of the callback and the dispatch that follows there is no other worker and no other
\* completion for the object (launch_async_thread(), msg_threadaction(),
\* dispatch_queued_action()).
THEOREM OneAtATime == Spec => []Serialised
  BY CoreAlways, CoreSerialised, PTL

\* What is served is a submission, a worker or a completion.
LEMMA ServedBy ==
    ASSUME Typed, ControlInv, NEW o \in Objects
    PROVE  o \in Served <=> \/ Workers(o) \cup Undispatched(o) # {}
                            \/ \E u \in Users : pc[u] = "submitting" /\ job[u].object = o
<1>1. o \in Served <=> \E n, k : ServedAt(o, n, k)
  BY DEF Served, Content, Inside, ServedAt
<1>2. Workers(o) \subseteq Requests /\ Undispatched(o) \subseteq Requests
  BY DEF Workers, Undispatched
<1>3. ASSUME NEW n, NEW k, ServedAt(o, n, k)
      PROVE  \/ Workers(o) \cup Undispatched(o) # {}
             \/ \E u \in Users : pc[u] = "submitting" /\ job[u].object = o
  <2>1. n \in Names /\ k \in DOMAIN Services[n] /\ Services[n][k] = o
    BY <1>3 DEF ServedAt
  <2>2. Services[n] # <<>>
    BY <2>1
  <2>3. ASSUME NEW x \in Objects, n = <<"queue", x>> PROVE FALSE
    BY <2>2, <2>3, ServiceLists DEF Lists, Idle
  <2>4. ASSUME NEW x \in Users, n = <<"cancelled", x>> PROVE FALSE
    BY <2>2, <2>4, ServiceLists DEF Lists, Idle
  <2>5. ASSUME NEW x \in Levels, n = <<"next", x>> \/ n = <<"drained", x>> PROVE FALSE
    BY <2>2, <2>5, ServiceLists DEF Lists, Idle
  <2>6. ASSUME NEW u \in Users, n = <<"submitter", u>> PROVE pc[u] = "submitting" /\ job[u].object = o
    <3>1. k = 1
      <4>1. Services[n] = ForJob(pc[u], job[u])
        BY <2>6, ServiceLists DEF Lists, JobServes
      <4>2. QED
        BY <2>1, <4>1 DEF ForJob
    <3>2. QED
      BY <1>3, <2>6, <3>1, SubmitterPlace
  <2>7. ASSUME NEW r \in Requests, n = <<"worker", r>> PROVE r \in Workers(o)
    <3>1. k = 1
      <4>1. Services[n] = ForWorker(worker[r], target[r])
        BY <2>7, ServiceLists DEF Lists, WorkerServes
      <4>2. QED
        BY <2>1, <4>1 DEF ForWorker
    <3>2. QED
      BY <1>3, <2>7, <3>1, WorkerPlace
  <2>8. CASE n = <<"posted", 1>>
    BY <1>3, <2>8, PostedPlace, UndispatchedPlace DEF CompletionAt
  <2>9. ASSUME NEW i \in Levels, n = <<"batch", i>> PROVE Undispatched(o) # {}
    BY <2>2, <2>9, ServiceLists, <1>3, BatchPlace, UndispatchedPlace DEF Lists, FrameServes,
      CompletionAt
  <2>10. QED
    BY <2>1, <2>3, <2>4, <2>5, <2>6, <2>7, <2>8, <2>9, NameCases
<1>4. ASSUME NEW r \in Workers(o) PROVE \E n, k : ServedAt(o, n, k)
  BY <1>2, <1>4, WorkerPlace
<1>5. ASSUME NEW r \in Undispatched(o) PROVE \E n, k : ServedAt(o, n, k)
  BY <1>2, <1>5, UndispatchedPlace
<1>6. ASSUME NEW u \in Users, pc[u] = "submitting" /\ job[u].object = o PROVE \E n, k : ServedAt(o, n, k)
  BY <1>6, SubmitterPlace
<1>7. QED
  BY <1>1, <1>3, <1>4, <1>5, <1>6

LEMMA CoreActive == CoreInv => ActiveIsServed
  BY ServedBy DEF CoreInv, ActiveIsServed, ServeInv

\* An object that counts as active is being served, so that what is queued behind it will be
\* dispatched; nothing is served or queued for an object that does not (AsyncAction(),
\* dispatch_queued_action(), drain_action_queue()).
THEOREM NeverStranded == Spec => []ActiveIsServed
  BY CoreAlways, CoreActive, PTL

LEMMA CoreOrdered == CoreInv => FirstInFirstOut
  BY WorkerMade, AsyncAssumption DEF FirstInFirstOut, CoreInv, OrderInv, Ahead, Typed, TablesTyped,
    Range, Requests

\* The requests for an object are executed in the order in which they were made: none is
\* left behind in the queue, or starts after a later one (AsyncAction(),
\* dispatch_queued_action()).
THEOREM ServedInOrder == Spec => []FirstInFirstOut
  BY CoreAlways, CoreOrdered, PTL

----------------------------------------------------------------------------
(* What follows from the invariant: no callback is lost or called twice.   *)

\* The callback of r waits at place k of the list n.
WaitsAt(r, n, k) == n \in Names /\ k \in DOMAIN Callbacks[n] /\ Callbacks[n][k] = r

\* How Places names it.
PlaceOf(n, k) ==
    IF n[1] \in {"queue", "posted"} THEN <<n[1], k>>
    ELSE IF n[1] \in {"submitter", "worker", "next"} THEN n ELSE <<n, k>>

LEMMA OneWait ==
    ASSUME CallbackInv, NEW r \in Requests, NEW n, NEW k, NEW m, NEW j, WaitsAt(r, n, k), WaitsAt(r, m, j)
    PROVE  n = m /\ k = j /\ r \in Waiting
  BY DEF CallbackInv, WaitsAt, Inside, Apart, Waiting, Content, Single

LEMMA CallbackLists ==
    Lists(Callbacks, glActionQueues, Submitted, Cancelled, Working, RequestsOf(glQueue), Batches, Nexts, Drains)
  BY KeptAt DEF Callbacks

\* The place of a name of each kind.
LEMMA PlacesAre ==
    /\ \A o, k : PlaceOf(<<"queue", o>>, k) = <<"queue", k>>
    /\ \A u, k : PlaceOf(<<"submitter", u>>, k) = <<"submitter", u>>
    /\ \A u, k : PlaceOf(<<"cancelled", u>>, k) = <<<<"cancelled", u>>, k>>
    /\ \A r, k : PlaceOf(<<"worker", r>>, k) = <<"worker", r>>
    /\ \A k : PlaceOf(<<"posted", 1>>, k) = <<"posted", k>>
    /\ \A i, k : PlaceOf(<<"batch", i>>, k) = <<<<"batch", i>>, k>>
    /\ \A i, k : PlaceOf(<<"next", i>>, k) = <<"next", i>>
    /\ \A i, k : PlaceOf(<<"drained", i>>, k) = <<<<"drained", i>>, k>>
  BY DEF PlaceOf

LEMMA FrameLevels == ASSUME Typed, ControlInv PROVE DOMAIN frames \subseteq Levels
  BY DEF Typed, ControlInv, Nested, Levels

\* A list of one element is that of a submitter, a worker or a launch.
LEMMA SingleWaits ==
    ASSUME Typed, ControlInv, NEW r \in Requests
    PROVE  /\ \A u \in Users : \A k : WaitsAt(r, <<"submitter", u>>, k) <=>
                 k = 1 /\ pc[u] = "submitting" /\ job[u].thread = r
           /\ \A q \in Requests : \A k : WaitsAt(r, <<"worker", q>>, k) <=> k = 1 /\ q = r /\ InWorker(q)
           /\ \A i \in DOMAIN frames : \A k : WaitsAt(r, <<"next", i>>, k) <=>
                 k = 1 /\ frames[i].at \in {"launch", "check"} /\ frames[i].next = r
<1>1. ASSUME NEW u \in Users, NEW k
      PROVE  WaitsAt(r, <<"submitter", u>>, k) <=> k = 1 /\ pc[u] = "submitting" /\ job[u].thread = r
  <2>1. <<"submitter", u>> \in Names /\ Callbacks[<<"submitter", u>>] = OfJob(pc[u], job[u])
    BY NamesAre, CallbackLists DEF Lists, Submitted
  <2>2. QED
    BY <2>1 DEF WaitsAt, OfJob
<1>2. ASSUME NEW q \in Requests, NEW k
      PROVE  WaitsAt(r, <<"worker", q>>, k) <=> k = 1 /\ q = r /\ InWorker(q)
  <2>1. <<"worker", q>> \in Names /\ Callbacks[<<"worker", q>>] = OfWorker(q, worker[q])
    BY NamesAre, CallbackLists DEF Lists, Working
  <2>2. QED
    BY <2>1 DEF WaitsAt, OfWorker, InWorker
<1>3. ASSUME NEW i \in DOMAIN frames, NEW k
      PROVE  WaitsAt(r, <<"next", i>>, k) <=> k = 1 /\ frames[i].at \in {"launch", "check"} /\ frames[i].next = r
  <2>1. i \in Levels
    BY FrameLevels
  <2>2. <<"next", i>> \in Names /\ Callbacks[<<"next", i>>] = OfNext(frames[i])
    BY <2>1, NamesAre, CallbackLists DEF Lists, Nexts
  <2>3. QED
    BY <2>2 DEF WaitsAt, OfNext, InLaunch
<1>4. QED
  BY <1>1, <1>2, <1>3

LEMMA ListWaits ==
    ASSUME Typed, ControlInv, NEW r \in Requests
    PROVE  /\ \A o \in Objects : \A k : WaitsAt(r, <<"queue", o>>, k) <=> k \in Listed(glActionQueues[o], r)
           /\ \A u \in Users : \A k : WaitsAt(r, <<"cancelled", u>>, k) <=> k \in Listed(job[u].drained, r)
           /\ \A k : WaitsAt(r, <<"posted", 1>>, k) <=> k \in Posted(glQueue, r)
           /\ \A i \in DOMAIN frames : \A k : WaitsAt(r, <<"batch", i>>, k) <=> k \in Posted(Unseen(frames[i]), r)
           /\ \A i \in DOMAIN frames : \A k : WaitsAt(r, <<"drained", i>>, k) <=> k \in Listed(frames[i].drained, r)
<1>1. ASSUME NEW o \in Objects, NEW k PROVE WaitsAt(r, <<"queue", o>>, k) <=> k \in Listed(glActionQueues[o], r)
  BY NamesAre, CallbackLists DEF Lists, WaitsAt, Listed
<1>2. ASSUME NEW u \in Users, NEW k PROVE WaitsAt(r, <<"cancelled", u>>, k) <=> k \in Listed(job[u].drained, r)
  BY NamesAre, CallbackLists DEF Lists, WaitsAt, Listed, Cancelled
<1>3. ASSUME NEW k PROVE WaitsAt(r, <<"posted", 1>>, k) <=> k \in Posted(glQueue, r)
  BY NamesAre, CallbackLists DEF Lists, WaitsAt, Posted, RequestsOf
<1>4. ASSUME NEW i \in DOMAIN frames, NEW k
      PROVE  /\ WaitsAt(r, <<"batch", i>>, k) <=> k \in Posted(Unseen(frames[i]), r)
             /\ WaitsAt(r, <<"drained", i>>, k) <=> k \in Listed(frames[i].drained, r)
  <2>1. i \in Levels
    BY FrameLevels
  <2>2. /\ <<"batch", i>> \in Names /\ Callbacks[<<"batch", i>>] = RequestsOf(Unseen(frames[i]))
        /\ <<"drained", i>> \in Names /\ Callbacks[<<"drained", i>>] = frames[i].drained
    BY <2>1, NamesAre, CallbackLists DEF Lists, Batches, Drains
  <2>3. QED
    BY <2>2 DEF WaitsAt, Posted, Listed, RequestsOf
<1>5. QED
  BY <1>1, <1>2, <1>3, <1>4

\* The places of a callback, one kind after the other.
LEMMA AnyPlace ==
    ASSUME NEW r, NEW p
    PROVE  p \in Places(r) <=>
             \/ p \in {"queue"} \X Listed(glActionQueues[target[r]], r)
             \/ p \in {"submitter"} \X {u \in Users : pc[u] = "submitting" /\ job[u].thread = r}
             \/ p \in {"worker"} \X {q \in {r} : InWorker(q)}
             \/ p \in {"posted"} \X Posted(glQueue, r)
             \/ \E i \in DOMAIN frames : p \in {<<"batch", i>>} \X Posted(Unseen(frames[i]), r)
             \/ p \in {"next"} \X {i \in DOMAIN frames : frames[i].at \in {"launch", "check"} /\ frames[i].next = r}
             \/ \E i \in DOMAIN frames : p \in {<<"drained", i>>} \X Listed(frames[i].drained, r)
             \/ \E u \in Users : p \in {<<"cancelled", u>>} \X Listed(job[u].drained, r)
<1> DEFINE Q == {"queue"} \X Listed(glActionQueues[target[r]], r)
           S == {"submitter"} \X {u \in Users : pc[u] = "submitting" /\ job[u].thread = r}
           W == {"worker"} \X {q \in {r} : InWorker(q)}
           P == {"posted"} \X Posted(glQueue, r)
           B(i) == {<<"batch", i>>} \X Posted(Unseen(frames[i]), r)
           N == {"next"} \X {i \in DOMAIN frames : frames[i].at \in {"launch", "check"} /\ frames[i].next = r}
           D(i) == {<<"drained", i>>} \X Listed(frames[i].drained, r)
           C(u) == {<<"cancelled", u>>} \X Listed(job[u].drained, r)
           BB == UNION {{<<"batch", i>>} \X Posted(Unseen(frames[i]), r) : i \in DOMAIN frames}
           DD == UNION {{<<"drained", i>>} \X Listed(frames[i].drained, r) : i \in DOMAIN frames}
           CC == UNION {{<<"cancelled", u>>} \X Listed(job[u].drained, r) : u \in Users}
<1>1. Places(r) = Q \cup S \cup W \cup P \cup BB \cup N \cup DD \cup CC
  BY Zenon DEF Places
<1> SUFFICES p \in Places(r) <=>
               \/ p \in Q
               \/ p \in S
               \/ p \in W
               \/ p \in P
               \/ \E i \in DOMAIN frames : p \in B(i)
               \/ p \in N
               \/ \E i \in DOMAIN frames : p \in D(i)
               \/ \E u \in Users : p \in C(u)
  OBVIOUS
<1> HIDE DEF Q, S, W, P, N
<1>2. /\ p \in BB <=> \E i \in DOMAIN frames : p \in B(i)
      /\ p \in DD <=> \E i \in DOMAIN frames : p \in D(i)
      /\ p \in CC <=> \E u \in Users : p \in C(u)
  OBVIOUS
<1> HIDE DEF B, D, C, BB, DD, CC
<1>3. p \in Places(r) <=>
        p \in Q \/ p \in S \/ p \in W \/ p \in P \/ p \in BB \/ p \in N \/ p \in DD \/ p \in CC
  BY <1>1
<1>4. QED
  BY <1>2, <1>3, Zenon

\* Places are where a callback waits,
LEMMA PlaceWaits ==
    ASSUME Typed, ControlInv, NEW r \in Requests, target[r] \in Objects, NEW p \in Places(r)
    PROVE  \E n, k : WaitsAt(r, n, k) /\ p = PlaceOf(n, k)
<1>1. CASE p \in {"queue"} \X Listed(glActionQueues[target[r]], r)
  <2>1. PICK k : p = <<"queue", k>> /\ k \in Listed(glActionQueues[target[r]], r)
    BY <1>1
  <2>2. WaitsAt(r, <<"queue", target[r]>>, k)
    BY <2>1, ListWaits
  <2>3. QED
    BY <2>1, <2>2, PlacesAre
<1>2. CASE p \in {"submitter"} \X {u \in Users : pc[u] = "submitting" /\ job[u].thread = r}
  BY <1>2, SingleWaits, PlacesAre
<1>3. CASE p \in {"worker"} \X {q \in {r} : InWorker(q)}
  BY <1>3, SingleWaits, PlacesAre
<1>4. CASE p \in {"posted"} \X Posted(glQueue, r)
  BY <1>4, ListWaits, PlacesAre
<1>5. CASE \E i \in DOMAIN frames : p \in {<<"batch", i>>} \X Posted(Unseen(frames[i]), r)
  BY <1>5, ListWaits, PlacesAre
<1>6. CASE p \in {"next"} \X {i \in DOMAIN frames : frames[i].at \in {"launch", "check"} /\ frames[i].next = r}
  BY <1>6, SingleWaits, PlacesAre
<1>7. CASE \E i \in DOMAIN frames : p \in {<<"drained", i>>} \X Listed(frames[i].drained, r)
  BY <1>7, ListWaits, PlacesAre
<1>8. CASE \E u \in Users : p \in {<<"cancelled", u>>} \X Listed(job[u].drained, r)
  BY <1>8, ListWaits, PlacesAre
<1>9. QED
  BY <1>1, <1>2, <1>3, <1>4, <1>5, <1>6, <1>7, <1>8, AnyPlace

\* and a callback that waits has a place.
LEMMA WaitPlaces ==
    ASSUME Typed, ControlInv, NEW r \in Requests, NEW n, NEW k, WaitsAt(r, n, k)
    PROVE  PlaceOf(n, k) \in Places(r)
<1>1. n \in Names /\ Callbacks[n] # <<>>
  BY DEF WaitsAt
<1>2. ASSUME NEW o \in Objects, n = <<"queue", o>> PROVE PlaceOf(n, k) \in Places(r)
  BY <1>2, ListWaits, PlacesAre, AnyPlace DEF Listed, ControlInv, QueuesOK, QueueOK
<1>3. ASSUME NEW u \in Users, n = <<"submitter", u>> PROVE PlaceOf(n, k) \in Places(r)
  BY <1>3, SingleWaits, PlacesAre, AnyPlace
<1>4. ASSUME NEW u \in Users, n = <<"cancelled", u>> PROVE PlaceOf(n, k) \in Places(r)
  BY <1>4, ListWaits, PlacesAre, AnyPlace
<1>5. ASSUME NEW q \in Requests, n = <<"worker", q>> PROVE PlaceOf(n, k) \in Places(r)
  BY <1>5, SingleWaits, PlacesAre, AnyPlace
<1>6. CASE n = <<"posted", 1>>
  BY <1>6, ListWaits, PlacesAre, AnyPlace
<1>7. ASSUME NEW i \in Levels, n = <<"batch", i>> \/ n = <<"next", i>> \/ n = <<"drained", i>> PROVE i \in DOMAIN frames
  BY <1>1, <1>7, CallbackLists DEF Lists, Batches, Nexts, Drains
<1>8. ASSUME NEW i \in DOMAIN frames, n = <<"batch", i>> PROVE PlaceOf(n, k) \in Places(r)
  BY <1>8, ListWaits, PlacesAre, AnyPlace
<1>9. ASSUME NEW i \in DOMAIN frames, n = <<"next", i>> PROVE PlaceOf(n, k) \in Places(r)
  BY <1>9, SingleWaits, PlacesAre, AnyPlace
<1>10. ASSUME NEW i \in DOMAIN frames, n = <<"drained", i>> PROVE PlaceOf(n, k) \in Places(r)
  BY <1>10, ListWaits, PlacesAre, AnyPlace
<1>11. QED
  BY <1>1, <1>2, <1>3, <1>4, <1>5, <1>6, <1>7, <1>8, <1>9, <1>10, NameCases

LEMMA CoreAccounted == CoreInv => CallbackAccounted
<1>1. SUFFICES ASSUME Typed, ControlInv, CallbackInv, state # "done", NEW r \in Requests, target[r] # None
               PROVE  Cardinality(Places(r)) + callbacks[r] = 1
  BY DEF CoreInv, CallbackAccounted
<1>2. target[r] \in Objects /\ callbacks[r] \in {0, 1}
  BY <1>1 DEF Typed, HistoryTyped, CallbackInv
<1>3. \A p \in Places(r) : \E n, k : WaitsAt(r, n, k) /\ p = PlaceOf(n, k)
  BY <1>1, <1>2, PlaceWaits
<1>4. Cardinality(Places(r)) \in {0, 1}
  BY <1>1, <1>3, OneWait, FewElements
<1>5. CASE callbacks[r] = 0
  <2>1. r \in Waiting
    BY <1>1, <1>5 DEF CallbackInv
  <2>2. PICK n, k : WaitsAt(r, n, k)
    BY <2>1 DEF Waiting, Content, Inside, WaitsAt
  <2>3. PlaceOf(n, k) \in Places(r)
    BY <1>1, <2>2, WaitPlaces
  <2>4. IsFiniteSet(Places(r))
    BY <1>1, <1>3, OneWait, FewElements
  <2>5. Cardinality(Places(r)) # 0
    BY <2>3, <2>4, FS_EmptySet
  <2>6. QED
    BY <1>4, <1>5, <2>5
<1>6. CASE callbacks[r] = 1
  <2>1. Places(r) = {}
    BY <1>1, <1>3, OneWait, <1>6 DEF CallbackInv
  <2>2. QED
    BY <1>6, <2>1, FS_EmptySet
<1>7. QED
  BY <1>2, <1>5, <1>6

\* The callback of a request is neither lost nor called twice, whoever drains the queue: until
\* it is called it is in exactly one place, afterwards in none (drain_action_queue(),
\* dispatch_queued_action(), AsyncCancel(), object_free(), msg_threadaction()).
THEOREM NeitherLostNorTwice == Spec => []CallbackAccounted
  BY CoreAlways, CoreAccounted, PTL

----------------------------------------------------------------------------
(* A request that has no worker yet has never had one.                     *)

\* A callback that waits somewhere is not in a queue, with a submitter, with the launch
\* or with a worker elsewhere.
LEMMA Alone ==
    ASSUME Typed, ControlInv, CallbackInv, NEW r \in Requests, NEW n, NEW k, WaitsAt(r, n, k)
    PROVE  /\ \A o \in Objects : r \in Range(glActionQueues[o]) => n = <<"queue", o>>
           /\ \A u \in Users : pc[u] = "submitting" /\ job[u].thread = r => n = <<"submitter", u>>
           /\ \A i \in DOMAIN frames : InLaunch(frames[i]) /\ frames[i].next = r => n = <<"next", i>>
           /\ InWorker(r) => n = <<"worker", r>>
<1>1. \A m, j : WaitsAt(r, m, j) => n = m
  BY OneWait
<1>2. \A o \in Objects : r \in Range(glActionQueues[o]) => n = <<"queue", o>>
  BY ListWaits, <1>1 DEF Listed, Range
<1>3. \A u \in Users : pc[u] = "submitting" /\ job[u].thread = r => n = <<"submitter", u>>
  <2>1. SUFFICES ASSUME NEW u \in Users, pc[u] = "submitting", job[u].thread = r PROVE n = <<"submitter", u>>
    OBVIOUS
  <2>2. WaitsAt(r, <<"submitter", u>>, 1)
    BY <2>1, SingleWaits
  <2>3. QED
    BY <1>1, <2>2
<1>4. \A i \in DOMAIN frames : InLaunch(frames[i]) /\ frames[i].next = r => n = <<"next", i>>
  <2>1. SUFFICES ASSUME NEW i \in DOMAIN frames, InLaunch(frames[i]), frames[i].next = r PROVE n = <<"next", i>>
    OBVIOUS
  <2>2. WaitsAt(r, <<"next", i>>, 1)
    BY <2>1, SingleWaits DEF InLaunch
  <2>3. QED
    BY <1>1, <2>2
<1>5. InWorker(r) => n = <<"worker", r>>
  <2>1. InWorker(r) => WaitsAt(r, <<"worker", r>>, 1)
    BY SingleWaits
  <2>2. QED
    BY <1>1, <2>1
<1>6. QED
  BY <1>2, <1>3, <1>4, <1>5

\* Requests have a worker that had one or are in S, and nothing that is in S waits for one.
Spends(S) ==
    /\ \A q \in Requests : worker'[q] # "none" => worker[q] # "none" \/ q \in S
    /\ \A q \in Requests : target'[q] = None => target[q] = None /\ q \notin S
    /\ \A o \in Objects : Range(glActionQueues'[o]) \subseteq Range(glActionQueues[o]) \ S
    /\ \A u \in Users : pc'[u] = "submitting" =>
          pc[u] = "submitting" /\ job'[u].thread = job[u].thread /\ job[u].thread \notin S
    /\ \A i \in DOMAIN frames' : InLaunch(frames'[i]) =>
          /\ \E j \in DOMAIN frames : InLaunch(frames[j]) /\ frames[j].next = frames'[i].next
          /\ frames'[i].next \notin S

LEMMA Waiters ==
    ASSUME Typed, ControlInv
    PROVE  /\ \A o \in Objects : Range(glActionQueues[o]) \subseteq Requests
           /\ \A u \in Users : pc[u] = "submitting" => job[u].thread \in Requests
           /\ \A i \in DOMAIN frames : InLaunch(frames[i]) => frames[i].next \in Requests
  BY DEF Typed, TablesTyped, Range, ControlInv, JobsOK, JobOK, FramesOK, FrameOK

LEMMA FreshStays ==
    ASSUME Typed, ControlInv, FreshInv, NEW S, Spends(S)
    PROVE  FreshInv'
<1>1. \A q \in Requests : worker[q] = "none" /\ q \notin S => worker'[q] = "none"
  BY DEF Spends
<1>2. \A q \in Requests : target'[q] = None => worker'[q] = "none"
  BY <1>1 DEF Spends, FreshInv
<1>3. \A o \in Objects : \A r \in Range(glActionQueues'[o]) : worker'[r] = "none"
  BY <1>1, Waiters DEF Spends, FreshInv
<1>4. \A u \in Users : pc'[u] = "submitting" => worker'[job'[u].thread] = "none"
  BY <1>1, Waiters DEF Spends, FreshInv
<1>5. \A i \in DOMAIN frames' : InLaunch(frames'[i]) => worker'[frames'[i].next] = "none"
  BY Waiters, <1>1 DEF Spends, FreshInv
<1>6. QED
  BY <1>2, <1>3, <1>4, <1>5 DEF FreshInv

\* No worker is started, and requests and frames stay as they are.
LEMMA FreshKept ==
    ASSUME Typed, ControlInv, FreshInv, Shorter, UNCHANGED target,
           \A q \in Requests : worker'[q] # "none" => worker[q] # "none",
           \A u \in Users : pc'[u] = "submitting" => pc[u] = "submitting" /\ job'[u].thread = job[u].thread,
           \A i \in DOMAIN frames' : InLaunch(frames'[i]) =>
               \E j \in DOMAIN frames : InLaunch(frames[j]) /\ frames[j].next = frames'[i].next
    PROVE  FreshInv'
<1>1. Spends({})
  BY DEF Spends, Shorter
<1>2. QED
  BY <1>1, FreshStays

LEMMA Submits_Fresh ==
    ASSUME Typed, ControlInv, FreshInv, NEW u \in Users, NEW o \in Objects, NEW r \in Requests, Submits(u, o, r)
    PROVE  FreshInv'
<1>1. /\ target[r] = None /\ target' = [target EXCEPT ![r] = o] /\ UNCHANGED <<worker, frames>>
      /\ worker[r] = "none"
  BY DEF Submits, threads, FreshInv
<1>2. \A q \in Requests : target'[q] = None => worker'[q] = "none"
  BY <1>1, AsyncAssumption DEF FreshInv, Typed
<1>3. \A i \in DOMAIN frames' : InLaunch(frames'[i]) => worker'[frames'[i].next] = "none"
  BY <1>1 DEF FreshInv
<1>4. CASE glActionQueues' = [glActionQueues EXCEPT ![o] = Append(@, r)] /\ UNCHANGED users
  BY <1>4, <1>1, <1>2, <1>3 DEF Typed, TablesTyped, Range, FreshInv, users
<1>5. CASE /\ pc' = [pc EXCEPT ![u] = "submitting"] /\ UNCHANGED glActionQueues
           /\ job' = [job EXCEPT ![u] = [NoJob EXCEPT !.object = o, !.thread = r]]
  BY <1>5, <1>1, <1>2, <1>3 DEF Typed, UsersTyped, NoJob, FreshInv
<1>6. QED
  BY <1>4, <1>5 DEF Submits

LEMMA Launch_Fresh ==
    ASSUME Typed, ControlInv, CallbackInv, OrderInv, FreshInv, NEW u \in Users, Launch(u)
    PROVE  FreshInv'
<1>1. PICK r : r = job[u].thread
  OBVIOUS
<1>2. /\ pc[u] = "submitting" /\ worker' = [worker EXCEPT ![r] = "start"]
      /\ pc' = [pc EXCEPT ![u] = "idle"] /\ job' = [job EXCEPT ![u] = NoJob]
      /\ UNCHANGED <<target, frames, glActionQueues>>
  BY <1>1 DEF Launch, tables
<1>3. r \in Requests /\ target[r] # None /\ WaitsAt(r, <<"submitter", u>>, 1)
  BY <1>1, <1>2, SingleWaits, AsyncAssumption DEF ControlInv, JobsOK, JobOK
<1>4. Spends({r})
  BY <1>2, <1>3, Alone DEF Typed, ThreadsTyped, UsersTyped, Spends
<1>5. QED
  BY <1>4, FreshStays

LEMMA LaunchNext_Fresh ==
    ASSUME Typed, ControlInv, CallbackInv, OrderInv, FreshInv, LaunchNext
    PROVE  FreshInv'
<1>1. PICK f, r, o, k : /\ f = [Top EXCEPT !.at = "loop", !.batch = Tail(@), !.next = None, !.locked = FALSE]
                        /\ r = Top.next /\ o = Object /\ k = Len(frames)
  OBVIOUS
<1>2. /\ frames # <<>> /\ Top.at = "check" /\ SetTop(f) /\ worker' = [worker EXCEPT ![r] = "start"]
      /\ ReleaseObject(o) \/ UNCHANGED <<objects, tables, glQueue>>
      /\ UNCHANGED <<target, users>>
  BY <1>1 DEF LaunchNext, MainAt, DispatchElsewhere, MainElsewhere, NextMessage
<1>3. /\ r \in Requests /\ o \in Objects /\ target[r] = o /\ ~InLaunch(f)
      /\ k \in DOMAIN frames /\ Top = frames[k] /\ DOMAIN frames' = DOMAIN frames /\ frames'[k] = f
      /\ \A i \in DOMAIN frames : i # k => frames'[i] = frames[i]
  BY <1>1, <1>2, NextIn, TopIs, TopSet DEF InLaunch, FrameType, Levels
<1>4. WaitsAt(r, <<"next", k>>, 1)
  BY <1>1, <1>2, <1>3, SingleWaits
<1>5. Shorter
  BY <1>2, <1>3, Shortened
<1>6. Spends({r})
  <2>1. \A q \in Requests : worker'[q] # "none" => worker[q] # "none" \/ q = r
    BY <1>2 DEF Typed, ThreadsTyped
  <2>2. \A x \in Objects : r \notin Range(glActionQueues[x])
    BY <1>3, <1>4, Alone
  <2>3. \A v \in Users : pc[v] = "submitting" => job[v].thread # r
    BY <1>3, <1>4, Alone
  <2>4. \A i \in DOMAIN frames : InLaunch(frames[i]) /\ frames[i].next = r => i = k
    BY <1>3, <1>4, Alone
  <2>5. \A i \in DOMAIN frames' : InLaunch(frames'[i]) => i # k /\ i \in DOMAIN frames /\ frames'[i] = frames[i]
    BY <1>3
  <2>6. target[r] # None
    BY <1>3, AsyncAssumption
  <2>7. \A x \in Objects : Range(glActionQueues'[x]) \subseteq Range(glActionQueues[x]) \ {r}
    BY <1>5, <2>2 DEF Shorter
  <2>8. \A v \in Users : pc'[v] = "submitting" =>
          pc[v] = "submitting" /\ job'[v].thread = job[v].thread /\ job[v].thread # r
    BY <1>2, <2>3 DEF users
  <2>9. QED
    BY <1>2, <2>1, <2>4, <2>5, <2>6, <2>7, <2>8 DEF Spends
<1>7. QED
  BY <1>6, FreshStays

----------------------------------------------------------------------------
(* A request that has no worker yet has never had one: the other actions.  *)

LEMMA Worker_Fresh ==
    ASSUME Typed, ControlInv, CallbackInv, OrderInv, FreshInv, NEW r \in Requests, WorkerMoves(r)
    PROVE  FreshInv'
  BY Worker_Shorter, FreshKept DEF WorkerMoves, WorkerElsewhere, InWorker, Typed, ThreadsTyped,
    users

LEMMA Cancel_Fresh ==
    ASSUME Typed, ControlInv, CallbackInv, OrderInv, FreshInv, NEW u \in Users,
           WakeWorker(u) \/ DrainCancelled(u) \/ NotifyCancelled(u) \/ \E o \in Objects : AsyncCancel(u, o)
    PROVE  FreshInv'
  BY Cancel_Shorter, Cancel_Submits, FreshKept DEF WakeWorker, DrainCancelled, NotifyCancelled,
    AsyncCancel, CancelElsewhere

LEMMA Still_Fresh ==
    ASSUME Typed, ControlInv, CallbackInv, OrderInv, FreshInv, Outside \/ JoinThreads
    PROVE  FreshInv'
  BY Shortened, FreshKept DEF Outside, Elsewhere, threads, JoinThreads, users

LEMMA Loops_Fresh ==
    ASSUME Typed, ControlInv, CallbackInv, OrderInv, FreshInv,
           EventLoop \/ LeaveLoop \/ \E targets \in SUBSET Objects : AsyncWait(targets)
    PROVE  FreshInv'
  BY Loops_Launch, Shortened, FreshKept DEF EventLoop, LeaveLoop, AsyncWait, MainElsewhere, users

\* The steps of the main thread that launch nothing.
LEMMA SteadyLaunch ==
    ASSUME Typed, ControlInv, Steady
    PROVE  \A i \in DOMAIN frames' : InLaunch(frames'[i]) =>
               \E j \in DOMAIN frames : InLaunch(frames[j]) /\ frames[j].next = frames'[i].next
  BY TopIs, TopSet DEF Steady, Levels

LEMMA Steady_Fresh ==
    ASSUME Typed, ControlInv, FreshInv, Steady, UNCHANGED worker, Shorter
    PROVE  FreshInv'
  BY SteadyLaunch, FreshKept DEF Steady, users

LEMMA Pop_Fresh ==
    ASSUME Typed, ControlInv, CallbackInv, OrderInv, FreshInv, Pop
    PROVE  FreshInv'
<1>1. frames # <<>> /\ Top.at = "dispatch" /\ UNCHANGED <<users, target, worker>>
  BY DEF Pop, MainAt, DispatchElsewhere, MainElsewhere
<1>2. Object \in Objects /\ Top \in FrameType
  BY <1>1, Dispatching
<1>3. CASE Goto("clear") /\ UNCHANGED glActionQueues
  BY <1>2, <1>3, <1>1, Steady_Fresh, Shortened DEF Goto, InLaunch, FrameType, Steady
<1>4. CASE /\ SetTop([Top EXCEPT !.at = "launch", !.next = Head(glActionQueues[Object])])
           /\ glActionQueues[Object] # <<>>
           /\ glActionQueues' = [glActionQueues EXCEPT ![Object] = Tail(@)]
  <2>1. PICK f, o, s, k : /\ f = [Top EXCEPT !.at = "launch", !.next = Head(glActionQueues[Object])] /\ o = Object
                          /\ s = glActionQueues[o] /\ k = Len(frames)
    OBVIOUS
  <2>2. s \in Seq(Requests) /\ s # <<>> /\ Sorted(s) /\ o \in Objects /\ Head(s) \in Range(s)
    BY <1>2, <1>4, <2>1 DEF Typed, TablesTyped, OrderInv, Range
  <2>3. Range(Tail(s)) \subseteq Range(s)
    BY <2>2, SortedTail
  <2>4. glActionQueues'[o] = Tail(s) /\ \A x \in Objects : x # o => glActionQueues'[x] = glActionQueues[x]
    BY <1>2, <1>4, <2>1 DEF Typed, TablesTyped
  <2>5. f.next = Head(s) /\ worker[Head(s)] = "none"
    BY <1>2, <2>1, <2>2 DEF FrameType, FreshInv
  <2>6. /\ DOMAIN frames' = DOMAIN frames /\ frames'[k] = f
        /\ \A i \in DOMAIN frames : i # k => frames'[i] = frames[i]
    BY <1>1, <1>4, <2>1, TopSet
  <2>7. \A i \in DOMAIN frames' : InLaunch(frames'[i]) => worker[frames'[i].next] = "none"
    BY <2>5, <2>6 DEF FreshInv
  <2>8. \A x \in Objects : \A r \in Range(glActionQueues'[x]) : worker[r] = "none"
    BY <2>1, <2>3, <2>4 DEF FreshInv
  <2>9. QED
    BY <1>1, <2>7, <2>8 DEF FreshInv, users
<1>5. QED
  BY <1>3, <1>4 DEF Pop

LEMMA Next_Fresh ==
    ASSUME Typed, ControlInv, CallbackInv, ServeInv, OrderInv, FreshInv, Next
    PROVE  FreshInv'
<1>1. ASSUME NEW r \in Requests, WorkerStep(r) PROVE FreshInv'
  BY <1>1, Worker_Moves, Worker_Fresh
<1>2. CASE MainStep
  <2>1. CASE EventLoop \/ LeaveLoop
    BY <2>1, Loops_Fresh
  <2>2. CASE FetchBatch \/ BreakMessage \/ BeginCallback \/ EndCallback
    BY <2>2, Messages_Steady, Messages_Shorter, Steady_Fresh
  <2>3. CASE StopDispatch \/ AccessForLaunch \/ DropQueue \/ RefuseLaunch \/ DrainQueue
               \/ ClearFlag \/ CountDown \/ Notify \/ EndDispatch
    BY <2>3, Dispatch_Steady, Dispatch_Shorter, Steady_Fresh
  <2>4. QED
    BY <1>2, <2>1, <2>2, <2>3, Pop_Fresh, LaunchNext_Fresh DEF MainStep
<1>3. ASSUME NEW u \in Users, UserStep(u) PROVE FreshInv'
  BY Launch_Fresh, Cancel_Fresh, OutsideSteps, Still_Fresh, <1>3 DEF UserStep
<1>4. ASSUME NEW u \in Users, NEW o \in Objects, AsyncAction(u, o) \/ AsyncCancel(u, o) \/ Hold(u, o) PROVE FreshInv'
  <2>1. CASE AsyncAction(u, o)
    BY <2>1, AsyncAction_Submits, Submits_Fresh
  <2>2. QED
    BY <1>4, <2>1, Cancel_Fresh, OutsideSteps, Still_Fresh
<1>5. ASSUME NEW targets \in SUBSET Objects, AsyncWait(targets) PROVE FreshInv'
  BY <1>5, Loops_Fresh
<1>6. CASE (\E o \in Objects : Free(o)) \/ StopTask \/ CloseSubmissions \/ JoinThreads
  BY <1>6, OutsideSteps, Still_Fresh
<1>7. QED
  BY <1>1, <1>2, <1>3, <1>4, <1>5, <1>6 DEF Next

----------------------------------------------------------------------------
(* Who has an object locked.                                               *)

Early(r)   == worker[r] \in {"start", "registered", "lock"}
Holding(r) == worker[r] \in {"locked", "action", "release"}

WorkersLocked ==
    /\ \A r \in Requests :
          /\ Early(r) => object[target[r]] = "alive"
          /\ Holding(r) => holder[target[r]] = r /\ object[target[r]] # "gone"
    /\ \A u \in Users : pc[u] = "submitting" => object[job[u].object] = "alive"
FramesLocked ==
    /\ \A i \in DOMAIN frames : frames[i].locked => frames[i].at # "loop"
    /\ \A o \in Objects : \A i \in DOMAIN frames : Has(frames[i], o) =>
          holder[o] = Main /\ \A j \in DOMAIN frames : Has(frames[j], o) => j = i

LEMMA LockParts == (LockInv <=> WorkersLocked /\ FramesLocked) /\ (LockInv <=> WorkersLocked /\ FramesLocked)'
  BY DEF LockInv, WorkersLocked, FramesLocked, Early, Holding

\* The objects of workers and submitters.
LEMMA LockObjects ==
    ASSUME Typed, ControlInv, CallbackInv
    PROVE  /\ \A r \in Requests : Early(r) \/ Holding(r) => target[r] \in Objects /\ InWorker(r)
           /\ \A u \in Users : pc[u] = "submitting" => job[u].object \in Objects
  BY WorkerMade DEF Early, Holding, InWorker, ControlInv, JobsOK, JobOK

\* What a step may do to objects that workers have locked, but for the workers in R.
Respects(R) ==
    /\ \A o \in Objects : object[o] = "alive" => object'[o] = "alive"
    /\ \A o \in Objects, q \in Requests \ R :
          holder[o] = q /\ object[o] # "gone" => holder'[o] = q /\ object'[o] # "gone"

LEMMA WorkerLocks ==
    ASSUME Typed, ControlInv, CallbackInv, WorkersLocked, UNCHANGED target, NEW R, Respects(R),
           \A q \in Requests \ R : worker'[q] = worker[q],
           \A q \in Requests \cap R :
               /\ Early(q)' => object'[target[q]] = "alive"
               /\ Holding(q)' => holder'[target[q]] = q /\ object'[target[q]] # "gone",
           \A u \in Users : pc'[u] = "submitting" => pc[u] = "submitting" /\ job'[u] = job[u]
    PROVE  WorkersLocked'
<1>1. ASSUME NEW q \in Requests
      PROVE  /\ Early(q)' => object'[target[q]] = "alive"
             /\ Holding(q)' => holder'[target[q]] = q /\ object'[target[q]] # "gone"
  <2>1. CASE q \in R
    BY <2>1
  <2>2. CASE q \notin R
    BY <2>2, LockObjects DEF Early, Holding, WorkersLocked, Respects
  <2>3. QED
    BY <2>1, <2>2
<1>2. \A u \in Users : pc'[u] = "submitting" => object'[job'[u].object] = "alive"
  BY LockObjects DEF WorkersLocked, Respects
<1>3. QED
  BY <1>1, <1>2 DEF WorkersLocked

\* A step on the frame on top.
LEMMA FrameLocks ==
    ASSUME Typed, ControlInv, FramesLocked, frames # <<>>, NEW f, SetTop(f), UNCHANGED target,
           f.locked => f.at # "loop",
           \A o \in Objects : holder[o] = Main => holder'[o] = Main \/ (Has(Top, o) /\ ~Has(f, o)),
           \A o \in Objects : Has(f, o) => Has(Top, o) \/ (holder[o] # Main /\ holder'[o] = Main)
    PROVE  FramesLocked'
<1>1. PICK k : k = Len(frames)
  OBVIOUS
<1>2. /\ k \in DOMAIN frames /\ Top = frames[k] /\ DOMAIN frames' = DOMAIN frames /\ frames'[k] = f
      /\ \A i \in DOMAIN frames : i # k => frames'[i] = frames[i]
  BY <1>1, TopIs, TopSet DEF Levels
<1>3. \A o : \A i \in DOMAIN frames : i # k => (Has(frames[i], o)' <=> Has(frames[i], o))
  BY <1>2 DEF Has
<1>4. \A o : Has(frames[k], o)' <=> Has(f, o)
  BY <1>2 DEF Has
<1>5. ASSUME NEW o \in Objects, NEW i \in DOMAIN frames, Has(frames[i], o)'
      PROVE  holder'[o] = Main /\ \A j \in DOMAIN frames : Has(frames[j], o)' => j = i
  <2>1. CASE i # k
    BY <1>3, <1>5, <2>1, <1>2, <1>4 DEF FramesLocked
  <2>2. CASE i = k
    <3>1. Has(f, o)
      BY <1>4, <1>5, <2>2
    <3>2. CASE Has(Top, o)
      BY <1>2, <3>2, <1>3, <2>2, <3>1 DEF FramesLocked
    <3>3. CASE ~Has(Top, o)
      BY <3>1, <3>3, <1>3, <2>2 DEF FramesLocked
    <3>4. QED
      BY <3>2, <3>3
  <2>3. QED
    BY <2>1, <2>2
<1>6. \A i \in DOMAIN frames' : frames'[i].locked => frames'[i].at # "loop"
  BY <1>2 DEF FramesLocked
<1>7. QED
  BY <1>2, <1>5, <1>6 DEF FramesLocked

\* The frames stay, or are those that were there and new ones.
LEMMA FramesLockedStay ==
    ASSUME FramesLocked, UNCHANGED target,
           \A o \in Objects : holder[o] = Main => holder'[o] = Main,
           \A i \in DOMAIN frames' : frames'[i].locked => i \in DOMAIN frames /\ frames'[i] = frames[i]
    PROVE  FramesLocked'
  BY DEF Has, FramesLocked

LEMMA Names_Differ == (\A r \in Requests : r # None /\ r # Main /\ r \notin Users) /\ Main # None /\ None \notin Users
  BY AsyncAssumption DEF Requests, Users

\* A lock is given back, and the object freed when it is marked.
LEMMA ReleaseDoes ==
    ASSUME Typed, NEW o \in Objects, ReleaseObject(o) \/ UNCHANGED <<objects, tables, glQueue>>
    PROVE  /\ \A x \in Objects : object[x] = "alive" => object'[x] = "alive"
           /\ \A x \in Objects : x # o => holder'[x] = holder[x] /\ object'[x] = object[x]
           /\ ReleaseObject(o) => holder'[o] = None
<1>1. CASE ReleaseObject(o)
  BY <1>1 DEF ReleaseObject, object_free, Typed, ObjectsTyped
<1>2. CASE UNCHANGED <<objects, tables, glQueue>> /\ ~ReleaseObject(o)
  BY <1>2 DEF objects
<1>3. QED
  BY <1>1, <1>2

----------------------------------------------------------------------------
(* Who has an object locked: the actions.                                  *)

\* A step of the main thread gives the lock on its object back, takes it, or leaves it.
Turns(f) ==
    /\ frames # <<>> /\ SetTop(f) /\ UNCHANGED target /\ (f.locked => f.at # "loop")
    /\ \/ UNCHANGED objects /\ (f.locked => Top.locked /\ Head(f.batch) = Head(Top.batch))
       \/ /\ Top.locked /\ Object \in Objects /\ ~f.locked
          /\ ReleaseObject(Object)
       \/ /\ holder[Object] = None /\ Object \in Objects /\ Head(f.batch) = Head(Top.batch)
          /\ UNCHANGED object
          /\ holder' = [holder EXCEPT ![Object] = Main]

LEMMA Turned ==
    ASSUME Typed, ControlInv, FramesLocked, NEW f, Turns(f)
    PROVE  FramesLocked' /\ Respects({})
<1>1. /\ frames # <<>> /\ SetTop(f) /\ UNCHANGED target /\ (f.locked => f.at # "loop")
      /\ \A o \in Objects : Has(Top, o) => holder[o] = Main
  BY TopIs DEF Turns, Levels, FramesLocked
<1>2. CASE UNCHANGED objects /\ (f.locked => Top.locked /\ Head(f.batch) = Head(Top.batch))
  BY <1>2, <1>1, FrameLocks DEF Has, objects, Respects
<1>3. CASE Top.locked /\ Object \in Objects /\ ~f.locked /\ ReleaseObject(Object)
  BY <1>1, <1>3, ReleaseDoes, FrameLocks, Names_Differ DEF Has, Object, Message, Respects
<1>4. CASE /\ holder[Object] = None /\ Object \in Objects /\ Head(f.batch) = Head(Top.batch)
           /\ UNCHANGED object /\ holder' = [holder EXCEPT ![Object] = Main]
  BY <1>4, Names_Differ, <1>1, FrameLocks DEF Has, Object, Message, Typed, ObjectsTyped, Respects
<1>5. QED
  BY <1>2, <1>3, <1>4 DEF Turns

\* The next message, with the lock given back if the main thread has it.
LEMMA NextTurns ==
    ASSUME Typed, ControlInv, frames # <<>>, Top.at # "loop", Top.batch # <<>>, NextMessage, UNCHANGED target,
           IF Top.locked THEN ReleaseObject(Object) ELSE UNCHANGED <<objects, tables, glQueue>>
    PROVE  \E f : Turns(f)
<1>1. PICK f : f = [Top EXCEPT !.at = "loop", !.batch = Tail(@), !.next = None, !.locked = FALSE]
  OBVIOUS
<1>2. SetTop(f) /\ ~f.locked /\ Object \in Objects
  BY <1>1, TopIs, InHand DEF NextMessage, FrameType
<1>3. QED
  BY <1>2 DEF Turns

LEMMA Messages_Turns ==
    ASSUME Typed, ControlInv, FramesLocked, FetchBatch \/ BreakMessage \/ BeginCallback \/ EndCallback
    PROVE  \E f : Turns(f)
<1>1. /\ frames # <<>> /\ Top \in FrameType /\ UNCHANGED target /\ (Top.at = "loop" => ~Top.locked)
  BY TopIs DEF FetchBatch, BreakMessage, BeginCallback, EndCallback, MainAt, MainElsewhere, Levels,
    FramesLocked
<1>2. CASE FetchBatch
  BY <1>1, <1>2 DEF FetchBatch, FrameType, MainAt, Turns
<1>3. CASE BreakMessage
  <2>1. PICK f : f = [Top EXCEPT !.batch = Tail(@), !.breaking = @ \/ Top.loop = "wait"]
    OBVIOUS
  <2>2. SetTop(f) /\ ~f.locked
    BY <1>1, <1>3, <2>1 DEF BreakMessage, FrameType, MainAt
  <2>3. QED
    BY <1>1, <1>3, <2>2 DEF Turns, BreakMessage
<1>4. CASE BeginCallback
  <2>1. PICK f, g : f = [Top EXCEPT !.at = "callback", !.locked = TRUE] /\ g = [Top EXCEPT !.at = "callback"]
    OBVIOUS
  <2>2. /\ f.at = "callback" /\ Head(f.batch) = Head(Top.batch) /\ ~g.locked
    BY <1>1, <1>4, <2>1 DEF BeginCallback, MainAt, FrameType
  <2>3. Object \in Objects
    BY <1>1, <1>4, InHand DEF BeginCallback
  <2>4. CASE holder[Object] = None /\ holder' = [holder EXCEPT ![Object] = Main] /\ SetTop(f)
    BY <1>1, <1>4, <2>2, <2>3, <2>4 DEF Turns, BeginCallback
  <2>5. CASE SetTop(g) /\ UNCHANGED holder
    BY <1>1, <1>4, <2>2, <2>5 DEF Turns, BeginCallback, objects
  <2>6. QED
    BY <1>4, <2>1, <2>4, <2>5 DEF BeginCallback, Goto
<1>5. CASE EndCallback
  <2>1. PICK f : f = [Top EXCEPT !.at = "dispatch", !.locked = FALSE]
    OBVIOUS
  <2>2. Top.at # "loop" /\ Top.batch # <<>> /\ Object \in Objects /\ ~f.locked
    BY <1>1, <1>5, <2>1, TopIs, InHand DEF EndCallback, MainAt, FrameType, FrameOK
  <2>3. CASE SetTop(f)
    BY <1>1, <1>5, <2>2, <2>3 DEF Turns, EndCallback
  <2>4. CASE NextMessage
    BY <1>1, <1>5, <2>2, <2>4, NextTurns DEF EndCallback
  <2>5. QED
    BY <1>5, <2>1, <2>3, <2>4 DEF EndCallback
<1>6. QED
  BY <1>2, <1>3, <1>4, <1>5

LEMMA Dispatch_Turns ==
    ASSUME Typed, ControlInv, FramesLocked,
           Pop \/ StopDispatch \/ AccessForLaunch \/ DropQueue \/ LaunchNext \/ RefuseLaunch \/ DrainQueue
             \/ ClearFlag \/ CountDown \/ Notify \/ EndDispatch
    PROVE  \E f : Turns(f)
<1>1. /\ frames # <<>> /\ UNCHANGED target /\ Top.at \notin {"loop", "callback"}
  BY DEF Pop, StopDispatch, AccessForLaunch, DropQueue, LaunchNext, RefuseLaunch, DrainQueue, ClearFlag, CountDown,
         Notify, EndDispatch, MainAt, DispatchElsewhere, MainElsewhere
<1>2. Top \in FrameType /\ Object \in Objects /\ Top.batch # <<>>
  BY <1>1, Dispatching
<1>3. ASSUME NEW label \in FrameSteps \ {"loop"}, UNCHANGED objects, Goto(label) PROVE \E f : Turns(f)
  BY <1>2, <1>3, <1>1 DEF Goto, FrameType, Turns
<1>4. CASE Pop
  <2>1. PICK f : f = [Top EXCEPT !.at = "launch", !.next = Head(glActionQueues[Object])]
    OBVIOUS
  <2>2. f.at = "launch" /\ f.batch = Top.batch /\ f.locked = Top.locked
    BY <1>2, <2>1 DEF FrameType
  <2>3. CASE SetTop(f)
    BY <1>1, <1>4, <2>2, <2>3 DEF Turns, Pop
  <2>4. QED
    BY <1>3, <1>4, <2>1, <2>3 DEF Pop, FrameSteps
<1>5. CASE AccessForLaunch
  <2>1. PICK f : f = [Top EXCEPT !.at = "check", !.locked = (holder[Object] = None)]
    OBVIOUS
  <2>2. SetTop(f) /\ f.at = "check" /\ f.batch = Top.batch /\ (f.locked <=> holder[Object] = None)
    BY <1>2, <1>5, <2>1 DEF AccessForLaunch, FrameType
  <2>3. CASE holder[Object] = None
    BY <1>1, <1>2, <1>5, <2>2, <2>3 DEF Turns, AccessForLaunch
  <2>4. CASE holder[Object] = Main
    BY <1>5, <2>4, <1>1, <2>2, Names_Differ DEF AccessForLaunch, objects, Typed, ObjectsTyped, Turns
  <2>5. QED
    BY <1>5, <2>3, <2>4 DEF AccessForLaunch, Accessible
<1>6. CASE DropQueue
  <2>1. PICK f : f = [Top EXCEPT !.at = "loop", !.batch = Tail(@), !.next = None, !.locked = FALSE]
    OBVIOUS
  <2>2. SetTop(f) /\ ~f.locked
    BY <1>2, <1>6, <2>1 DEF DropQueue, NextMessage, FrameType
  <2>3. QED
    BY <1>1, <1>6, <2>2 DEF Turns, DropQueue
<1>7. CASE LaunchNext \/ EndDispatch
  BY <1>1, <1>2, <1>7, NextTurns DEF LaunchNext, EndDispatch
<1>8. CASE DrainQueue
  <2>1. PICK f : f = [Top EXCEPT !.at = "clear", !.drained = glActionQueues[Object]]
    OBVIOUS
  <2>2. SetTop(f) /\ f.at = "clear" /\ f.batch = Top.batch /\ f.locked = Top.locked
    BY <1>2, <1>8, <2>1 DEF DrainQueue, FrameType
  <2>3. QED
    BY <1>1, <1>8, <2>2 DEF Turns, DrainQueue
<1>9. CASE ClearFlag
  <2>1. PICK f : f = [Top EXCEPT !.at = "count", !.locked = @ \/ holder[Object] = None]
    OBVIOUS
  <2>2. f.at = "count" /\ f.batch = Top.batch /\ (holder[Object] # None => f.locked = Top.locked)
    BY <1>2, <2>1 DEF FrameType
  <2>3. CASE Accessible(Object) /\ SetTop(f) /\ holder' = [holder EXCEPT ![Object] = Main] /\ UNCHANGED object
    <3>1. CASE holder[Object] = None
      BY <1>1, <1>2, <2>2, <2>3, <3>1 DEF Turns
    <3>2. CASE holder[Object] = Main
      BY <2>3, <3>2, <1>1, <2>2, Names_Differ DEF objects, Typed, ObjectsTyped, Turns
    <3>3. QED
      BY <2>3, <3>1, <3>2 DEF Accessible
  <2>4. CASE Goto("notify") /\ UNCHANGED <<holder, object>>
    BY <1>3, <2>4 DEF objects, FrameSteps
  <2>5. QED
    BY <1>9, <2>1, <2>3, <2>4 DEF ClearFlag
<1>10. CASE Notify
  <2>1. PICK f : f = [Top EXCEPT !.at = "unlock", !.drained = <<>>]
    OBVIOUS
  <2>2. SetTop(f) /\ f.at = "unlock" /\ f.batch = Top.batch /\ f.locked = Top.locked
    BY <1>2, <1>10, <2>1 DEF Notify, FrameType
  <2>3. QED
    BY <1>1, <1>10, <2>2 DEF Turns, Notify
<1>11. CASE StopDispatch \/ RefuseLaunch \/ CountDown
  BY <1>3, <1>11 DEF StopDispatch, RefuseLaunch, CountDown, FrameSteps
<1>12. QED
  BY <1>4, <1>5, <1>6, <1>7, <1>8, <1>9, <1>10, <1>11

----------------------------------------------------------------------------
(* Who has an object locked is kept.                                       *)

LEMMA Main_Lock ==
    ASSUME Typed, ControlInv, CallbackInv, LockInv, NEW f, Turns(f), UNCHANGED <<worker, users>>
    PROVE  LockInv'
  BY LockParts, Turned, WorkerLocks DEF Turns, users

LEMMA LaunchNext_Lock ==
    ASSUME Typed, ControlInv, CallbackInv, LockInv, LaunchNext
    PROVE  LockInv'
<1>1. WorkersLocked /\ FramesLocked
  BY LockParts
<1>2. PICK f : Turns(f)
  BY <1>1, Dispatch_Turns
<1>3. FramesLocked' /\ Respects({}) /\ UNCHANGED target
  BY <1>1, <1>2, Turned DEF Turns
<1>4. PICK r : r = Top.next
  OBVIOUS
<1>5. /\ frames # <<>> /\ Top.at = "check" /\ object[Object] = "alive" /\ UNCHANGED users
      /\ worker' = [worker EXCEPT ![r] = "start"]
  BY <1>4 DEF LaunchNext, MainAt, DispatchElsewhere, MainElsewhere
<1>6. r \in Requests /\ target[r] = Object /\ Object \in Objects
  BY <1>4, <1>5, Dispatching DEF InLaunch
<1>7. worker'[r] = "start" /\ \A q \in Requests : q # r => worker'[q] = worker[q]
  BY <1>5, <1>6 DEF Typed, ThreadsTyped
<1>8. Early(r)' => object'[target[r]] = "alive"
  BY <1>3, <1>5, <1>6 DEF Respects
<1>9. ~Holding(r)'
  BY <1>7 DEF Holding
<1>10. Respects({r})
  BY <1>3 DEF Respects
<1>11. WorkersLocked'
  BY <1>1, <1>3, <1>5, <1>7, <1>8, <1>9, <1>10, WorkerLocks DEF users
<1>12. QED
  BY <1>3, <1>11, LockParts

LEMMA Loops_Lock ==
    ASSUME Typed, ControlInv, CallbackInv, LockInv,
           EventLoop \/ LeaveLoop \/ \E targets \in SUBSET Objects : AsyncWait(targets)
    PROVE  LockInv'
<1>1. UNCHANGED <<users, worker, target, objects>>
  BY DEF EventLoop, LeaveLoop, AsyncWait, MainElsewhere
<1>2. \A loop : ~Frame(loop).locked
  BY DEF Frame
<1>3. \A i \in DOMAIN frames' : frames'[i].locked => i \in DOMAIN frames /\ frames'[i] = frames[i]
  BY <1>2, Loops_Frames
<1>4. WorkersLocked /\ FramesLocked
  BY LockParts
<1>5. FramesLocked'
  BY <1>1, <1>3, <1>4, FramesLockedStay DEF objects
<1>6. Respects({})
  BY <1>1 DEF Respects, objects
<1>7. WorkersLocked'
  BY <1>1, <1>4, <1>6, WorkerLocks DEF users
<1>8. QED
  BY <1>5, <1>7, LockParts

\* What a worker does to objects.
LEMMA WorkerOwn ==
    ASSUME Typed, ControlInv, CallbackInv, WorkersLocked, NEW r \in Requests, WorkerStep(r)
    PROVE  /\ Respects({r}) /\ \A o \in Objects : holder[o] = Main => holder'[o] = Main
           /\ Early(r)' => object'[target[r]] = "alive"
           /\ Holding(r)' => holder'[target[r]] = r /\ object'[target[r]] # "gone"
<1>1. \A status : worker' = [worker EXCEPT ![r] = status] => worker'[r] = status
  BY DEF Typed, ThreadsTyped
<1>2. CASE Register(r) \/ CheckStop(r) \/ BeginAction(r) \/ EndAction(r) \/ SendCompletion(r) \/ cleanup(r)
  <2>1. UNCHANGED objects
    BY <1>2 DEF Register, CheckStop, BeginAction, EndAction, SendCompletion, cleanup
  <2>2. (Early(r)' => Early(r)) /\ (Holding(r)' => Holding(r))
    <3>1. CASE Register(r) \/ CheckStop(r)
      BY <1>1, <3>1 DEF Register, CheckStop, WorkerAt, WorkerGoto, GiveUp, Early, Holding
    <3>2. CASE BeginAction(r) \/ EndAction(r)
      BY <1>1, <3>2 DEF BeginAction, EndAction, WorkerAt, WorkerGoto, Early, Holding
    <3>3. CASE SendCompletion(r) \/ cleanup(r)
      BY <1>1, <3>3 DEF SendCompletion, cleanup, WorkerAt, WorkerGoto, Early, Holding
    <3>4. QED
      BY <1>2, <3>1, <3>2, <3>3
  <2>3. QED
    BY <2>1, <2>2 DEF Respects, WorkersLocked, objects
<1>3. CASE LockObject(r)
  <2>1. PICK o : o = target[r]
    OBVIOUS
  <2>2. worker[r] = "lock" /\ UNCHANGED object /\ o \in Objects /\ object[o] = "alive"
    BY <1>3, <2>1, LockObjects DEF LockObject, WorkerAt, Early, WorkersLocked
  <2>3. CASE holder[o] = None /\ holder' = [holder EXCEPT ![o] = r] /\ worker' = [worker EXCEPT ![r] = "locked"]
    BY <2>2, <2>3, <1>1, <2>1, Names_Differ DEF Typed, ObjectsTyped, Respects, Early
  <2>4. CASE UNCHANGED holder /\ worker' = [worker EXCEPT ![r] = "send"]
    BY <1>1, <2>2, <2>4 DEF Respects, Early, Holding
  <2>5. QED
    BY <1>3, <2>1, <2>3, <2>4 DEF LockObject, WorkerGoto
<1>4. CASE EndWork(r)
  <2>1. PICK o : o = target[r]
    OBVIOUS
  <2>2. Holding(r) /\ worker' = [worker EXCEPT ![r] = "send"] /\ ReleaseObject(o)
    BY <1>4, <2>1 DEF EndWork, WorkerAt, WorkerGoto, Holding
  <2>3. o \in Objects /\ holder[o] = r
    BY <2>1, <2>2, LockObjects DEF WorkersLocked
  <2>4. /\ \A x \in Objects : object[x] = "alive" => object'[x] = "alive"
        /\ \A x \in Objects : x # o => holder'[x] = holder[x] /\ object'[x] = object[x]
    BY <2>2, <2>3, ReleaseDoes
  <2>5. QED
    BY <1>1, <2>2, <2>3, <2>4, Names_Differ DEF Respects, Early, Holding
<1>5. QED
  BY <1>2, <1>3, <1>4 DEF WorkerStep

LEMMA Worker_Lock ==
    ASSUME Typed, ControlInv, CallbackInv, LockInv, NEW r \in Requests, WorkerStep(r)
    PROVE  LockInv'
<1>1. WorkersLocked /\ FramesLocked
  BY LockParts
<1>2. UNCHANGED <<target, frames, users>> /\ \A q \in Requests : q # r => worker'[q] = worker[q]
  BY Worker_Moves DEF WorkerMoves, WorkerElsewhere, Typed, ThreadsTyped
<1>3. /\ Respects({r}) /\ \A o \in Objects : holder[o] = Main => holder'[o] = Main
      /\ Early(r)' => object'[target[r]] = "alive"
      /\ Holding(r)' => holder'[target[r]] = r /\ object'[target[r]] # "gone"
  BY <1>1, WorkerOwn
<1>4. WorkersLocked'
  BY <1>1, <1>2, <1>3, WorkerLocks DEF users
<1>5. FramesLocked'
  BY <1>1, <1>2, <1>3, FramesLockedStay
<1>6. QED
  BY <1>4, <1>5, LockParts

\* A user's step that leaves the objects alone.
LEMMA Users_Lock ==
    ASSUME Typed, ControlInv, CallbackInv, LockInv, UNCHANGED <<target, frames, worker>>,
           Respects({}), \A o \in Objects : holder[o] = Main => holder'[o] = Main,
           \A u \in Users : pc'[u] = "submitting" => pc[u] = "submitting" /\ job'[u] = job[u]
    PROVE  LockInv'
  BY LockParts, WorkerLocks, FramesLockedStay

LEMMA Cancel_Lock ==
    ASSUME Typed, ControlInv, CallbackInv, LockInv, NEW u \in Users,
           WakeWorker(u) \/ DrainCancelled(u) \/ NotifyCancelled(u) \/ \E o \in Objects : AsyncCancel(u, o)
    PROVE  LockInv'
  BY Cancel_Submits, Users_Lock DEF WakeWorker, DrainCancelled, NotifyCancelled, AsyncCancel,
    CancelElsewhere, Respects, objects

LEMMA Outside_Lock ==
    ASSUME Typed, ControlInv, CallbackInv, LockInv,
           \/ \E u \in Users, o \in Objects : Hold(u, o) \/ LetGo(u, o)
           \/ StopTask \/ CloseSubmissions \/ JoinThreads
    PROVE  LockInv'
<1>1. UNCHANGED <<target, frames, worker, users>>
  BY DEF Hold, LetGo, StopTask, CloseSubmissions, JoinThreads, Elsewhere, threads
<1>2. Respects({}) /\ \A o \in Objects : holder[o] = Main => holder'[o] = Main
  <2>1. ASSUME NEW u \in Users, NEW o \in Objects, Hold(u, o)
        PROVE  Respects({}) /\ \A x \in Objects : holder[x] = Main => holder'[x] = Main
    BY <2>1, Names_Differ DEF Hold, Typed, ObjectsTyped, Respects
  <2>2. ASSUME NEW u \in Users, NEW o \in Objects, LetGo(u, o)
        PROVE  Respects({}) /\ \A x \in Objects : holder[x] = Main => holder'[x] = Main
    BY <2>2, ReleaseDoes, Names_Differ DEF LetGo, Respects
  <2>3. CASE StopTask \/ CloseSubmissions \/ JoinThreads
    BY <2>3 DEF StopTask, CloseSubmissions, JoinThreads, Respects, objects
  <2>4. QED
    BY <2>1, <2>2, <2>3
<1>3. QED
  BY <1>1, <1>2, Users_Lock DEF users

\* An object that no worker is about to lock is freed.
LEMMA Free_Lock ==
    ASSUME Typed, ControlInv, CallbackInv, LockInv, NEW o \in Objects, Free(o)
    PROVE  LockInv'
<1>1. WorkersLocked /\ FramesLocked
  BY LockParts
<1>2. UNCHANGED <<target, frames, worker, users, holder>>
  BY DEF Free, Elsewhere, threads
<1>3. /\ \A r \in Requests : target[r] = o => ~Early(r)
      /\ \A u \in Users : pc[u] = "submitting" => job[u].object # o
  BY DEF Free, Early
<1>4. /\ \A x \in Objects : x # o => object'[x] = object[x]
      /\ object'[o] = "gone" => holder[o] = None
  BY DEF Free, object_free, Typed, ObjectsTyped
<1>5. \A r \in Requests : Early(r)' = Early(r) /\ Holding(r)' = Holding(r)
  BY <1>2 DEF Early, Holding
<1>6. WorkersLocked'
  BY <1>1, <1>3, <1>4, LockObjects, Names_Differ, <1>2, <1>5 DEF WorkersLocked, users
<1>7. FramesLocked'
  BY <1>1, <1>2, FramesLockedStay
<1>8. QED
  BY <1>6, <1>7, LockParts

LEMMA Launch_Lock ==
    ASSUME Typed, ControlInv, CallbackInv, LockInv, NEW u \in Users, Launch(u)
    PROVE  LockInv'
<1>1. WorkersLocked /\ FramesLocked
  BY LockParts
<1>2. PICK r, o : r = job[u].thread /\ o = job[u].object
  OBVIOUS
<1>3. /\ pc[u] = "submitting" /\ UNCHANGED <<target, frames, objects>>
      /\ worker' = [worker EXCEPT ![r] = "start"]
      /\ pc' = [pc EXCEPT ![u] = "idle"] /\ job' = [job EXCEPT ![u] = NoJob]
  BY <1>2 DEF Launch
<1>4. r \in Requests /\ target[r] = o /\ o \in Objects /\ object[o] = "alive"
  BY <1>1, <1>2, <1>3 DEF ControlInv, JobsOK, JobOK, WorkersLocked
<1>5. worker'[r] = "start" /\ \A q \in Requests : q # r => worker'[q] = worker[q]
  BY <1>3, <1>4 DEF Typed, ThreadsTyped
<1>6. \A v \in Users : pc'[v] = "submitting" => pc[v] = "submitting" /\ job'[v] = job[v]
  BY <1>3 DEF Typed, UsersTyped
<1>7. Respects({r}) /\ \A x \in Objects : holder[x] = Main => holder'[x] = Main
  BY <1>3 DEF Respects, objects
<1>8. Early(r)' => object'[target[r]] = "alive"
  BY <1>3, <1>4 DEF objects
<1>9. ~Holding(r)'
  BY <1>5 DEF Holding
<1>10. WorkersLocked'
  BY <1>1, <1>3, <1>5, <1>6, <1>7, <1>8, <1>9, WorkerLocks
<1>11. FramesLocked'
  BY <1>1, <1>3, <1>7, FramesLockedStay
<1>12. QED
  BY <1>10, <1>11, LockParts

LEMMA Submits_Lock ==
    ASSUME Typed, ControlInv, CallbackInv, FreshInv, LockInv,
           NEW u \in Users, NEW o \in Objects, NEW r \in Requests, Submits(u, o, r)
    PROVE  LockInv'
<1>1. WorkersLocked /\ FramesLocked
  BY LockParts
<1>2. /\ target[r] = None /\ target' = [target EXCEPT ![r] = o] /\ worker[r] = "none" /\ object[o] = "alive"
      /\ UNCHANGED <<worker, frames, objects>>
      /\ UNCHANGED users \/ (/\ pc' = [pc EXCEPT ![u] = "submitting"]
                             /\ job' = [job EXCEPT ![u] = [NoJob EXCEPT !.object = o, !.thread = r]])
  BY DEF Submits, threads, FreshInv
<1>3. target'[r] = o /\ \A q \in Requests : q # r => target'[q] = target[q]
  BY <1>2 DEF Typed
<1>4. \A q \in Requests : (Early(q)' <=> Early(q)) /\ (Holding(q)' <=> Holding(q)) /\ ~Early(r) /\ ~Holding(r)
  BY <1>2 DEF Early, Holding
<1>5. \A v \in Users : pc'[v] = "submitting" => object[job'[v].object] = "alive"
  <2>1. SUFFICES ASSUME NEW v \in Users, pc'[v] = "submitting" PROVE object[job'[v].object] = "alive"
    OBVIOUS
  <2>2. CASE UNCHANGED users
    BY <1>1, <2>1, <2>2 DEF WorkersLocked, users
  <2>3. CASE /\ pc' = [pc EXCEPT ![u] = "submitting"]
             /\ job' = [job EXCEPT ![u] = [NoJob EXCEPT !.object = o, !.thread = r]]
    <3>1. CASE v = u
      BY <2>3, <3>1, <1>2 DEF Typed, UsersTyped, NoJob
    <3>2. CASE v # u
      BY <1>1, <2>1, <2>3, <3>2 DEF WorkersLocked, Typed, UsersTyped
    <3>3. QED
      BY <3>1, <3>2
  <2>4. QED
    BY <1>2, <2>2, <2>3
<1>6. WorkersLocked'
  BY <1>1, <1>2, <1>3, <1>4, <1>5 DEF WorkersLocked, objects
<1>7. \A x : \A i \in DOMAIN frames : Has(frames[i], x)' <=> Has(frames[i], x)
  <2>1. SUFFICES ASSUME NEW i \in DOMAIN frames, frames[i].locked
                 PROVE target'[Head(frames[i].batch).request] = target[Head(frames[i].batch).request]
    BY <1>2 DEF Has
  <2>2. frames[i] \in FrameType /\ FrameOK(frames[i], target) /\ frames[i].at # "loop"
    BY <1>1, <2>1 DEF FramesLocked, ControlInv, FramesOK, Typed
  <2>3. Head(frames[i].batch).request \in Requests /\ target[Head(frames[i].batch).request] # None
    BY <2>2, Names_Differ DEF FrameType, FrameOK, BREAK, MessagesOK
  <2>4. QED
    BY <1>2, <1>3, <2>3
<1>8. FramesLocked'
  BY <1>1, <1>2, <1>7 DEF FramesLocked, objects
<1>9. QED
  BY <1>6, <1>8, LockParts

LEMMA Next_Lock ==
    ASSUME Typed, ControlInv, CallbackInv, FreshInv, LockInv, Next
    PROVE  LockInv'
<1>1. ASSUME NEW r \in Requests, WorkerStep(r) PROVE LockInv'
  BY <1>1, Worker_Lock
<1>2. CASE MainStep
  <2>1. CASE EventLoop \/ LeaveLoop
    BY <2>1, Loops_Lock
  <2>2. CASE FetchBatch \/ BreakMessage \/ BeginCallback \/ EndCallback
    BY <2>2, Messages_Turns, LockParts, Messages_Steady, Main_Lock DEF Steady
  <2>3. CASE Pop \/ StopDispatch \/ AccessForLaunch \/ DropQueue \/ RefuseLaunch \/ DrainQueue
               \/ ClearFlag \/ CountDown \/ Notify \/ EndDispatch
    <3>1. PICK f : Turns(f)
      BY <2>3, Dispatch_Turns, LockParts
    <3>2. UNCHANGED <<worker, users>>
      BY <2>3 DEF Pop, StopDispatch, AccessForLaunch, DropQueue, RefuseLaunch, DrainQueue, ClearFlag, CountDown,
                  Notify, EndDispatch, DispatchElsewhere, MainElsewhere
    <3>3. QED
      BY <3>1, <3>2, Main_Lock
  <2>4. QED
    BY <1>2, <2>1, <2>2, <2>3, LaunchNext_Lock DEF MainStep
<1>3. ASSUME NEW u \in Users, UserStep(u) PROVE LockInv'
  BY <1>3, Launch_Lock, Cancel_Lock, Outside_Lock DEF UserStep
<1>4. ASSUME NEW u \in Users, NEW o \in Objects, AsyncAction(u, o) \/ AsyncCancel(u, o) \/ Hold(u, o) PROVE LockInv'
  <2>1. CASE AsyncAction(u, o)
    BY <2>1, AsyncAction_Submits, Submits_Lock
  <2>2. QED
    BY <1>4, <2>1, Cancel_Lock, Outside_Lock
<1>5. ASSUME NEW targets \in SUBSET Objects, AsyncWait(targets) PROVE LockInv'
  BY <1>5, Loops_Lock
<1>6. CASE (\E o \in Objects : Free(o)) \/ StopTask \/ CloseSubmissions \/ JoinThreads
  BY <1>6, Free_Lock, Outside_Lock
<1>7. QED
  BY <1>1, <1>2, <1>3, <1>4, <1>5, <1>6 DEF Next

----------------------------------------------------------------------------
(* What AsyncWait() counts.                                                *)

CountsAll == glAsyncWaitCounter >= Cardinality(Counted) + (IF Discounts THEN 1 ELSE 0)
CountsFew == glAsyncWaitCounter <= Cardinality(glAsyncWaitTargets) + Cardinality(Launched)
Unwaited  == ~glAsyncWaiting => glAsyncWaitTargets = {} /\ glAsyncWaitCounter = 0 /\ covered = {}

LEMMA CounterParts == (CounterInv <=> CountsAll /\ CountsFew /\ Unwaited) /\ (CounterInv <=> CountsAll /\ CountsFew /\ Unwaited)'
  BY DEF CounterInv, CountsAll, CountsFew, Unwaited

LEMMA FiniteCounts ==
    /\ \A S \in SUBSET Objects : IsFiniteSet(S) /\ Cardinality(S) \in Nat
    /\ \A S \in SUBSET Requests : IsFiniteSet(S) /\ Cardinality(S) \in Nat
<1>1. IsFiniteSet(Objects) /\ IsFiniteSet(Requests)
  BY FS_Interval, AsyncAssumption DEF Requests
<1>2. QED
  BY <1>1, FS_Subset, FS_CardinalityType

LEMMA CountedIn ==
    ASSUME Typed
    PROVE  /\ Counted \subseteq glAsyncWaitTargets /\ Counted \subseteq Objects /\ Launched \subseteq Requests
           /\ glAsyncWaitTargets \subseteq Objects /\ glAsyncWaitCounter \in Int
           /\ Cardinality(Counted) \in Nat /\ Cardinality(Launched) \in Nat /\ Cardinality(glAsyncWaitTargets) \in Nat
  BY FiniteCounts DEF Counted, Launched, Typed, WaitTyped

LEMMA Fewer ==
    /\ \A S, T \in SUBSET Objects : S \subseteq T => Cardinality(S) <= Cardinality(T)
    /\ \A S, T \in SUBSET Requests : S \subseteq T => Cardinality(S) <= Cardinality(T)
  BY FS_Subset, FiniteCounts

\* Nothing more is counted.
LEMMA CountKept ==
    ASSUME Typed, Typed', CounterInv, UNCHANGED wait, Counted' \subseteq Counted, Discounts' => Discounts,
           Launched \subseteq Launched'
    PROVE  CounterInv'
<1>1. CountsAll /\ CountsFew /\ Unwaited
  BY CounterParts
<1>2. PICK c, d, l, m : /\ c = Cardinality(Counted) /\ d = Cardinality(Counted')
                        /\ l = Cardinality(Launched) /\ m = Cardinality(Launched')
  OBVIOUS
<1>3. Counted \in SUBSET Objects /\ Counted' \in SUBSET Objects /\ Launched \in SUBSET Requests /\ Launched' \in SUBSET Requests
  BY CountedIn DEF Counted, Launched, Typed, WaitTyped
<1>4. d <= c /\ l <= m /\ c \in Nat /\ d \in Nat /\ l \in Nat /\ m \in Nat
  BY <1>2, <1>3, Fewer, FiniteCounts
<1>5. UNCHANGED <<glAsyncWaiting, glAsyncWaitTargets, glAsyncWaitCounter, covered>> /\ glAsyncWaitCounter \in Int
      /\ Cardinality(glAsyncWaitTargets) \in Nat
  BY CountedIn DEF wait
<1>6. CountsAll'
  BY <1>1, <1>2, <1>4, <1>5 DEF CountsAll
<1>7. CountsFew'
  BY <1>1, <1>2, <1>4, <1>5 DEF CountsFew
<1>8. Unwaited'
  BY <1>1, <1>5 DEF Unwaited
<1>9. QED
  BY <1>6, <1>7, <1>8, CounterParts

\* Only the innermost call launches.
LEMMA LaunchingIs ==
    ASSUME Typed, ControlInv, NEW o
    PROVE  Launching(o) <=> frames # <<>> /\ InLaunch(Top) /\ Object = o
<1>1. ASSUME NEW i \in DOMAIN frames, InLaunch(frames[i])
      PROVE  frames # <<>> /\ i = Len(frames) /\ InLaunch(Top) /\ target[frames[i].next] = Object
  <2>1. frames # <<>>
    BY <1>1
  <2>2. i \in 1..Len(frames) /\ Len(frames) \in {1, 2}
    BY <2>1, TopIs DEF Levels
  <2>3. Len(frames) = 2 => frames[1].at = "callback"
    BY DEF ControlInv, Nested
  <2>4. i = Len(frames)
    <3>1. ~(Len(frames) = 2 /\ i = 1)
      BY <1>1, <2>3 DEF InLaunch
    <3>2. \A n \in {1, 2} : \A j \in 1..n : ~(n = 2 /\ j = 1) => j = n
      OBVIOUS
    <3>3. QED
      BY <2>2, <3>1, <3>2
  <2>5. InLaunch(Top) /\ Top = frames[i]
    BY <1>1, <2>1, <2>4, TopIs
  <2>6. target[Top.next] = Object
    BY <2>1, <2>5, Dispatching DEF InLaunch
  <2>7. QED
    BY <2>1, <2>4, <2>5, <2>6
<1>2. ASSUME frames # <<>>, InLaunch(Top)
      PROVE  Len(frames) \in DOMAIN frames /\ Top = frames[Len(frames)] /\ target[Top.next] = Object
  BY <1>2, TopIs, Dispatching DEF InLaunch, Levels
<1>3. QED
  BY <1>1, <1>2 DEF Launching

\* Less is active, and nothing more is launched.
LEMMA CountedLess ==
    ASSUME UNCHANGED glAsyncWaitTargets, glActiveAsyncObjects' \subseteq glActiveAsyncObjects,
           \A o \in glAsyncWaitTargets : Launching(o)' => Launching(o),
           \A o : Submitting(o) => Submitting(o)'
    PROVE  Counted' \subseteq Counted
  BY DEF Counted

\* What is gone stays so.
Buried == \A o \in Objects : object[o] = "gone" => object'[o] = "gone"

LEMMA Releasing ==
    ASSUME Typed, NEW o \in Objects,
           UNCHANGED <<object, tables>> \/ ReleaseObject(o) \/ object_free(o)
    PROVE  Buried /\ glActiveAsyncObjects' \subseteq glActiveAsyncObjects
  BY DEF Buried, tables, object_free, ForgetObject, Typed, ObjectsTyped, ReleaseObject

\* A step of another thread.
LEMMA Others_Count ==
    ASSUME Typed, Typed', ControlInv, CounterInv, UNCHANGED <<wait, frames, target>>, Buried,
           glActiveAsyncObjects' \subseteq glActiveAsyncObjects, Launched \subseteq Launched',
           \A o : Submitting(o) => Submitting(o)'
    PROVE  CounterInv'
<1>1. UNCHANGED <<glAsyncWaitTargets, Top, Message>>
  BY DEF wait, Top, Message
<1>2. UNCHANGED Object
  BY <1>1 DEF Object
<1>3. \A o : Launching(o)' => Launching(o)
  BY DEF Launching
<1>4. Counted' \subseteq Counted
  BY <1>1, <1>3, CountedLess
<1>5. Discounts' => Discounts
  BY Dispatching, <1>1, <1>2 DEF Discounts, Buried
<1>6. QED
  BY <1>4, <1>5, CountKept

\* Submitters stay.
LEMMA SubmittersStay ==
    ASSUME \A v \in Users : pc[v] = "submitting" => pc'[v] = "submitting" /\ job'[v].object = job[v].object
    PROVE  \A o : Submitting(o) => Submitting(o)'
  BY DEF Submitting

LEMMA Worker_Count ==
    ASSUME Typed, Typed', ControlInv, CallbackInv, CounterInv, NEW r \in Requests, WorkerStep(r)
    PROVE  CounterInv'
<1>1. WorkerMoves(r) /\ UNCHANGED <<wait, frames, target, users>>
  BY Worker_Moves DEF WorkerMoves, WorkerElsewhere
<1>2. Launched \subseteq Launched'
  BY <1>1 DEF WorkerMoves, Launched, Typed, ThreadsTyped
<1>3. Buried /\ glActiveAsyncObjects' \subseteq glActiveAsyncObjects
  <2>1. CASE UNCHANGED <<object, tables>>
    BY <2>1 DEF Buried, tables
  <2>2. CASE worker[r] = "release" /\ ReleaseObject(target[r])
    BY <2>2, WorkerMade, Releasing DEF InWorker
  <2>3. QED
    BY <1>1, <2>1, <2>2 DEF WorkerMoves, objects
<1>4. \A o : Submitting(o) => Submitting(o)'
  BY <1>1, SubmittersStay DEF users
<1>5. QED
  BY <1>1, <1>2, <1>3, <1>4, Others_Count

LEMMA Cancel_Count ==
    ASSUME Typed, Typed', ControlInv, CounterInv, NEW u \in Users,
           WakeWorker(u) \/ DrainCancelled(u) \/ NotifyCancelled(u) \/ \E o \in Objects : AsyncCancel(u, o)
    PROVE  CounterInv'
<1>1. UNCHANGED <<wait, frames, target, worker, objects>>
  BY DEF WakeWorker, DrainCancelled, NotifyCancelled, AsyncCancel, CancelElsewhere
<1>2. UNCHANGED glActiveAsyncObjects
  BY DEF WakeWorker, DrainCancelled, NotifyCancelled, AsyncCancel, TakeQueue, tables
<1>3. pc[u] # "submitting" /\ \A v \in Users : v # u => pc'[v] = pc[v] /\ job'[v] = job[v]
  BY DEF WakeWorker, DrainCancelled, NotifyCancelled, AsyncCancel, Runs, Typed, UsersTyped
<1>4. \A o : Submitting(o) => Submitting(o)'
  BY <1>3, SubmittersStay
<1>5. QED
  BY <1>1, <1>2, <1>4, Others_Count DEF Buried, Launched, objects

LEMMA Outside_Count ==
    ASSUME Typed, Typed', ControlInv, CounterInv,
           \/ \E u \in Users, o \in Objects : Hold(u, o) \/ LetGo(u, o)
           \/ \E o \in Objects : Free(o)
           \/ StopTask \/ CloseSubmissions \/ JoinThreads
    PROVE  CounterInv'
<1>1. UNCHANGED <<wait, frames, target, worker, users>>
  BY DEF Hold, LetGo, Free, StopTask, CloseSubmissions, JoinThreads, Elsewhere, threads
<1>2. Buried /\ glActiveAsyncObjects' \subseteq glActiveAsyncObjects
  <2>1. ASSUME NEW u \in Users, NEW o \in Objects, Hold(u, o) \/ LetGo(u, o)
        PROVE  Buried /\ glActiveAsyncObjects' \subseteq glActiveAsyncObjects
    BY <2>1, Releasing DEF Hold, LetGo
  <2>2. ASSUME NEW o \in Objects, Free(o)
        PROVE  Buried /\ glActiveAsyncObjects' \subseteq glActiveAsyncObjects
    BY <2>2, Releasing DEF Free, Buried, Typed, ObjectsTyped, tables
  <2>3. CASE StopTask \/ CloseSubmissions
    BY <2>3 DEF StopTask, CloseSubmissions, Buried, objects, tables
  <2>4. CASE JoinThreads
    BY <2>4 DEF JoinThreads, Buried, objects
  <2>5. QED
    BY <2>1, <2>2, <2>3, <2>4
<1>3. \A o : Submitting(o) => Submitting(o)'
  BY <1>1, SubmittersStay DEF users
<1>4. QED
  BY <1>1, <1>2, <1>3, Others_Count DEF Launched

----------------------------------------------------------------------------
(* What AsyncWait() counts: the steps of the main thread.                  *)

\* What the frame on top makes of the count.
LEMMA TopDiscounts ==
    ASSUME Typed, ControlInv, frames # <<>>, NEW f, SetTop(f)
    PROVE  /\ f.at \notin {"clear", "count"} => ~Discounts'
           /\ Head(f.batch) = Head(Top.batch) /\ UNCHANGED target =>
                 (Discounts' <=> /\ f.at = "count" \/ (f.at = "clear" /\ object'[Object] # "gone")
                                 /\ Object \in glAsyncWaitTargets')
  BY TopSet DEF Discounts, Top, Message, Object

LEMMA SteadyLaunching ==
    ASSUME Typed, ControlInv, Steady
    PROVE  \A o : Launching(o)' => Launching(o)
  BY SteadyLaunch DEF Launching, Steady

LEMMA Main_Count ==
    ASSUME Typed, Typed', ControlInv, CounterInv, Steady, UNCHANGED wait, Launched \subseteq Launched',
           glActiveAsyncObjects' \subseteq glActiveAsyncObjects, Discounts' => Discounts
    PROVE  CounterInv'
  BY SteadyLaunching, SubmittersStay, CountedLess, CountKept DEF wait, Steady, users

\* Most steps do not go where the count is changed.
LEMMA Passing ==
    ASSUME Typed, ControlInv,
           \/ FetchBatch \/ BreakMessage \/ BeginCallback \/ EndCallback \/ StopDispatch \/ AccessForLaunch
           \/ DropQueue \/ LaunchNext \/ RefuseLaunch \/ CountDown \/ Notify \/ EndDispatch
           \/ (ClearFlag /\ Goto("notify"))
    PROVE  frames # <<>> /\ ~Discounts'
<1>1. frames # <<>> /\ Top \in FrameType
  BY TopIs DEF FetchBatch, BreakMessage, BeginCallback, EndCallback, StopDispatch, AccessForLaunch, DropQueue,
               LaunchNext, RefuseLaunch, CountDown, Notify, EndDispatch, ClearFlag, MainAt
<1>2. ASSUME NEW f, SetTop(f), f.at \notin {"clear", "count"} PROVE ~Discounts'
  BY <1>1, <1>2, TopDiscounts
<1>3. ASSUME NEW label \in {"callback", "drain", "notify"}, Goto(label) PROVE ~Discounts'
  BY <1>1, <1>3, <1>2 DEF Goto, FrameType
<1>4. CASE NextMessage
  BY <1>1, <1>4, <1>2 DEF NextMessage, FrameType
<1>5. CASE FetchBatch
  BY <1>1, <1>5, <1>2 DEF FetchBatch, FrameType, MainAt
<1>6. CASE BreakMessage
  BY <1>1, <1>6, <1>2 DEF BreakMessage, FrameType, MainAt
<1>7. CASE BeginCallback
  BY <1>1, <1>7, <1>2, <1>3 DEF BeginCallback, FrameType
<1>8. CASE EndCallback
  BY <1>1, <1>8, <1>2, <1>4 DEF EndCallback, FrameType
<1>9. CASE AccessForLaunch
  BY <1>1, <1>9, <1>2 DEF AccessForLaunch, FrameType
<1>10. CASE Notify
  BY <1>1, <1>10, <1>2 DEF Notify, FrameType
<1>11. QED
  BY <1>1, <1>3, <1>4, <1>5, <1>6, <1>7, <1>8, <1>9, <1>10
     DEF StopDispatch, DropQueue, LaunchNext, RefuseLaunch, CountDown, EndDispatch

\* The object of the completion in hand is served until it is dispatched.
LEMMA HandServes ==
    ASSUME Typed, ControlInv, ServeInv, frames # <<>>, Top.at \in {"dispatch", "launch", "check", "drain"}
    PROVE  Object \in Objects /\ Object \in Served /\ (object[Object] # "gone" => Object \in glActiveAsyncObjects)
<1>1. PICK r, k : r = Message.request /\ k = Len(frames)
  OBVIOUS
<1>2. /\ Object \in Objects /\ r \in Requests /\ Message.DispatchNext /\ target[r] = Object
      /\ Message = Top.batch[1] /\ Message \in Messages /\ 1 \in DOMAIN Top.batch
  BY <1>1, Dispatching, InHand DEF FrameType, Object
<1>3. PICK q \in Requests : Message = Completion(q)
  BY <1>1, <1>2, CompletionIs
<1>4. q = r
  BY <1>1, <1>3 DEF Completion
<1>5. k \in DOMAIN frames /\ frames[k] = Top
  BY <1>1, TopIs DEF Levels
<1>6. r \in Undispatched(Object)
  BY <1>2, <1>3, <1>4, <1>5 DEF Undispatched
<1>7. Object \in Served
  BY <1>2, <1>6, ServedBy
<1>8. state # "done"
  BY DEF ControlInv, Closing
<1>9. QED
  BY <1>2, <1>7, <1>8 DEF ServeInv

\* The object is no longer active, and about to be taken off the count.
LEMMA Clear_Count ==
    ASSUME Typed, Typed', ControlInv, ServeInv, CounterInv, frames # <<>>, Top.at \in {"dispatch", "drain"},
           glmActionQueue, NEW f, SetTop(f), f.at = "clear", Head(f.batch) = Head(Top.batch),
           glActiveAsyncObjects' = glActiveAsyncObjects \ {Object}, UNCHANGED <<wait, target, users, objects, worker>>
    PROVE  CounterInv'
<1>1. PICK x : x = Object
  OBVIOUS
<1>2. Steady
  BY DEF Steady, InLaunch
<1>3. \A o : ~Launching(o)'
  BY <1>2, SteadyLaunching, LaunchingIs DEF InLaunch
<1>4. \A o : ~Submitting(o)
  BY DEF Submitting, glmActionQueue
<1>5. UNCHANGED <<glAsyncWaitTargets, glAsyncWaitCounter>> /\ Launched' = Launched
  BY DEF wait, Launched
<1>6. Counted' \subseteq Counted \ {x}
  BY <1>1, <1>3, <1>4, <1>5 DEF Counted
<1>7. CASE ~Discounts'
  BY <1>5, <1>6, <1>7, CountKept
<1>8. CASE Discounts'
  <2>1. object'[x] # "gone" /\ x \in glAsyncWaitTargets'
    BY <1>1, <1>8, TopDiscounts
  <2>2. x \in glActiveAsyncObjects
    BY <1>1, <2>1, HandServes DEF objects
  <2>3. x \in Counted
    BY <1>4, <1>5, <2>1, <2>2 DEF Counted
  <2>4. PICK c, d : c = Cardinality(Counted) /\ d = Cardinality(Counted')
    OBVIOUS
  <2>5. Counted \in SUBSET Objects /\ Counted' \in SUBSET Objects /\ Counted \ {x} \in SUBSET Objects
    BY <1>6, CountedIn
  <2>6. Cardinality(Counted \ {x}) = c - 1
    BY <2>3, <2>4, <2>5, FiniteCounts, FS_RemoveElement
  <2>7. d <= c - 1 /\ c \in Nat /\ d \in Nat
    BY <1>6, <2>4, <2>5, <2>6, Fewer, FiniteCounts
  <2>8. ~Discounts
    BY DEF Discounts
  <2>9. CountsAll'
    BY <1>5, <1>8, <2>4, <2>7, <2>8, CounterParts, CountedIn DEF CountsAll
  <2>10. CountsFew' /\ Unwaited'
    BY CounterParts, <1>5 DEF CountsFew, Unwaited, wait
  <2>11. QED
    BY <2>9, <2>10, CounterParts
<1>9. QED
  BY <1>7, <1>8

LEMMA DrainQueue_Count ==
    ASSUME Typed, Typed', ControlInv, ServeInv, CounterInv, DrainQueue
    PROVE  CounterInv'
  BY TopIs, Clear_Count DEF DrainQueue, MainAt, ForgetObject, DispatchElsewhere, MainElsewhere,
    FrameType

LEMMA Pop_Count ==
    ASSUME Typed, Typed', ControlInv, ServeInv, CounterInv, Pop
    PROVE  CounterInv'
<1>1. frames # <<>> /\ Top.at = "dispatch" /\ glmActionQueue /\ UNCHANGED <<wait, target, users, objects, worker>>
  BY DEF Pop, MainAt, DispatchElsewhere, MainElsewhere
<1>2. Object \in Objects /\ Top \in FrameType
  BY <1>1, Dispatching
<1>3. CASE Goto("clear") /\ glActiveAsyncObjects' = glActiveAsyncObjects \ {Object}
  BY <1>2, <1>3, <1>1, Clear_Count DEF Goto, FrameType
<1>4. CASE /\ SetTop([Top EXCEPT !.at = "launch", !.next = Head(glActionQueues[Object])])
           /\ glActionQueues[Object] # <<>> /\ UNCHANGED glActiveAsyncObjects
  <2>1. PICK f, o, s, k : /\ f = [Top EXCEPT !.at = "launch", !.next = Head(glActionQueues[Object])] /\ o = Object
                          /\ s = glActionQueues[o] /\ k = Len(frames)
    OBVIOUS
  <2>2. f.at = "launch" /\ f.next = Head(s) /\ SetTop(f)
    BY <1>2, <1>4, <2>1 DEF FrameType
  <2>3. target[Head(s)] = o /\ o \in glActiveAsyncObjects
    BY <1>2, <1>4, <2>1 DEF Typed, TablesTyped, ControlInv, QueuesOK, QueueOK, ServeInv
  <2>4. /\ DOMAIN frames' = DOMAIN frames /\ frames'[k] = f
        /\ \A i \in DOMAIN frames : i # k => frames'[i] = frames[i]
    BY <1>1, <2>1, <2>2, TopSet
  <2>5. \A i \in DOMAIN frames : ~InLaunch(frames[i])
    BY <1>1, LaunchingIs DEF Launching, InLaunch
  <2>6. \A x : Launching(x)' => x = o
    BY <1>1, <2>2, <2>3, <2>4, <2>5 DEF Launching
  <2>7. \A x : ~Submitting(x)
    BY <1>1 DEF Submitting, glmActionQueue
  <2>8. UNCHANGED glAsyncWaitTargets /\ Launched' = Launched
    BY <1>1 DEF wait, Launched
  <2>9. Counted' \subseteq Counted
    BY <1>4, <2>3, <2>6, <2>7, <2>8 DEF Counted
  <2>10. ~Discounts'
    BY <1>1, <2>2, TopDiscounts
  <2>11. QED
    BY <1>1, <2>8, <2>9, <2>10, CountKept
<1>5. QED
  BY <1>3, <1>4 DEF Pop

----------------------------------------------------------------------------
(* What AsyncWait() counts: the other actions.                             *)

LEMMA Passing_Count ==
    ASSUME Typed, Typed', ControlInv, CounterInv,
           \/ FetchBatch \/ BreakMessage \/ BeginCallback \/ EndCallback \/ StopDispatch \/ AccessForLaunch
           \/ DropQueue \/ LaunchNext \/ RefuseLaunch \/ Notify \/ EndDispatch
           \/ (ClearFlag /\ Goto("notify"))
    PROVE  CounterInv'
<1>1. frames # <<>> /\ ~Discounts'
  BY Passing
<1>2. UNCHANGED wait
  BY DEF FetchBatch, BreakMessage, BeginCallback, EndCallback, StopDispatch, AccessForLaunch,
         DropQueue, LaunchNext, RefuseLaunch, Notify, EndDispatch, ClearFlag
<1>3. CASE LaunchNext
  <2>1. /\ Top.at = "check" /\ worker' = [worker EXCEPT ![Top.next] = "start"]
        /\ ReleaseObject(Object) \/ UNCHANGED <<objects, tables, glQueue>>
        /\ UNCHANGED <<target, users>> /\ NextMessage
    BY <1>3 DEF LaunchNext, MainAt, DispatchElsewhere, MainElsewhere
  <2>2. Object \in Objects /\ Top \in FrameType
    BY <1>1, <2>1, Dispatching
  <2>3. PICK f : f = [Top EXCEPT !.at = "loop", !.batch = Tail(@), !.next = None, !.locked = FALSE]
    OBVIOUS
  <2>4. SetTop(f) /\ f.at = "loop"
    BY <2>1, <2>2, <2>3 DEF NextMessage, FrameType
  <2>5. Steady
    BY <1>1, <2>1, <2>4 DEF Steady, InLaunch
  <2>6. Launched \subseteq Launched'
    BY <2>1 DEF Launched, Typed, ThreadsTyped
  <2>7. glActiveAsyncObjects' \subseteq glActiveAsyncObjects
    BY <2>1, <2>2, Releasing DEF objects
  <2>8. QED
    BY <1>1, <1>2, <2>5, <2>6, <2>7, Main_Count
<1>4. CASE ~LaunchNext
  <2>1. Steady /\ UNCHANGED worker
    BY <1>4, Messages_Steady, Dispatch_Steady
  <2>2. glActiveAsyncObjects' \subseteq glActiveAsyncObjects
    <3>1. CASE UNCHANGED tables
      BY <3>1 DEF tables
    <3>2. CASE EndCallback \/ EndDispatch
      BY <1>1, <3>2, TopIs, InHand, Releasing DEF EndCallback, EndDispatch, MainAt, FrameOK, objects
    <3>3. CASE DropQueue
      BY <3>3 DEF DropQueue, ForgetObject
    <3>4. QED
      BY <1>4, <3>1, <3>2, <3>3 DEF FetchBatch, BreakMessage, BeginCallback, StopDispatch, AccessForLaunch,
         RefuseLaunch, Notify, ClearFlag
  <2>3. QED
    BY <1>1, <1>2, <2>1, <2>2, Main_Count DEF Launched
<1>5. QED
  BY <1>3, <1>4

LEMMA ClearFlag_Count ==
    ASSUME Typed, Typed', ControlInv, CounterInv, ClearFlag
    PROVE  CounterInv'
<1>1. /\ frames # <<>> /\ Top.at = "clear" /\ UNCHANGED <<wait, object, tables>>
      /\ Steady /\ UNCHANGED worker
  BY Dispatch_Steady DEF ClearFlag, MainAt
<1>2. CASE Goto("notify")
  BY <1>2, Passing_Count
<1>3. CASE Accessible(Object) /\ SetTop([Top EXCEPT !.at = "count", !.locked = @ \/ holder[Object] = None])
  <2>1. PICK f : f = [Top EXCEPT !.at = "count", !.locked = @ \/ holder[Object] = None]
    OBVIOUS
  <2>2. SetTop(f) /\ f.at = "count" /\ f.batch = Top.batch
    BY <1>1, <1>3, <2>1, TopIs DEF FrameType
  <2>3. Discounts' => Discounts
    BY <1>1, <1>3, <2>2, TopDiscounts DEF Discounts, Accessible, wait, Steady
  <2>4. QED
    BY <1>1, <2>3, Main_Count DEF Launched, tables
<1>4. QED
  BY <1>2, <1>3 DEF ClearFlag

\* An object is taken off the count.
LEMMA CountDown_Count ==
    ASSUME Typed, Typed', ControlInv, CounterInv, CountDown
    PROVE  CounterInv'
<1>1. PICK x : x = Object
  OBVIOUS
<1>2. /\ frames # <<>> /\ Top.at = "count" /\ async_wait_callback(x, -1) /\ UNCHANGED <<tables, worker, users>>
      /\ Steady
  BY <1>1, Dispatch_Steady DEF CountDown, MainAt, DispatchElsewhere, MainElsewhere
<1>3. CountsAll /\ CountsFew /\ Unwaited
  BY CounterParts
<1>4. /\ UNCHANGED <<glAsyncWaiting, glAsyncWaitTargets, covered>>
      /\ glAsyncWaitCounter' = IF WaitedFor(x) THEN glAsyncWaitCounter - 1 ELSE glAsyncWaitCounter
      /\ glAsyncWaitCounter \in Int
  BY <1>2, CountedIn DEF async_wait_callback
<1>5. Discounts <=> WaitedFor(x)
  BY <1>1, <1>2, <1>3 DEF Discounts, WaitedFor, Unwaited
<1>6. ~Discounts'
  BY Passing
<1>7. Counted' \subseteq Counted /\ Launched' = Launched
  BY <1>2, SteadyLaunching, SubmittersStay, <1>4, CountedLess DEF users, Launched, tables
<1>8. PICK c, d : c = Cardinality(Counted) /\ d = Cardinality(Counted')
  OBVIOUS
<1>9. d <= c /\ c \in Nat /\ d \in Nat
  BY <1>7, <1>8, CountedIn, Fewer, FiniteCounts
<1>10. CountsAll'
  BY <1>3, <1>4, <1>5, <1>6, <1>8, <1>9 DEF CountsAll
<1>11. CountsFew'
  BY <1>3, <1>4, <1>7, CountedIn DEF CountsFew
<1>12. Unwaited'
  BY <1>3, <1>4 DEF Unwaited, WaitedFor
<1>13. QED
  BY <1>10, <1>11, <1>12, CounterParts

\* A new activity is counted.
LEMMA Launch_Count ==
    ASSUME Typed, Typed', ControlInv, FreshInv, CounterInv, NEW u \in Users, Launch(u)
    PROVE  CounterInv'
<1>1. PICK r, o : r = job[u].thread /\ o = job[u].object
  OBVIOUS
<1>2. /\ pc[u] = "submitting" /\ async_wait_callback(o, 1)
      /\ worker' = [worker EXCEPT ![r] = "start"]
      /\ pc' = [pc EXCEPT ![u] = "idle"] /\ job' = [job EXCEPT ![u] = NoJob]
      /\ UNCHANGED <<tables, objects, target, frames>>
  BY <1>1 DEF Launch, CountNew
<1>3. r \in Requests /\ o \in Objects /\ worker[r] = "none"
  BY <1>1, <1>2 DEF ControlInv, JobsOK, JobOK, FreshInv
<1>4. CountsAll /\ CountsFew /\ Unwaited
  BY CounterParts
<1>5. /\ UNCHANGED <<glAsyncWaiting, glAsyncWaitTargets, covered>>
      /\ glAsyncWaitCounter' = IF WaitedFor(o) THEN glAsyncWaitCounter + 1 ELSE glAsyncWaitCounter
      /\ glAsyncWaitCounter \in Int
  BY <1>2, CountedIn DEF async_wait_callback
<1>6. Discounts' <=> Discounts
  BY <1>2, <1>5 DEF Discounts, Top, Message, Object, objects
<1>7. Counted' \subseteq Counted \cup (glAsyncWaitTargets \cap {o})
  BY <1>1, <1>2, <1>5 DEF Submitting, Typed, UsersTyped, Launching, Counted, tables
<1>8. Launched' = Launched \cup {r} /\ r \notin Launched
  BY <1>2, <1>3 DEF Launched, Typed, ThreadsTyped
<1>9. PICK c, d, l, m : /\ c = Cardinality(Counted) /\ d = Cardinality(Counted')
                        /\ l = Cardinality(Launched) /\ m = Cardinality(Launched')
  OBVIOUS
<1>10. /\ Counted \in SUBSET Objects /\ Counted' \in SUBSET Objects /\ Counted \cup {o} \in SUBSET Objects
       /\ Launched \in SUBSET Requests /\ c \in Nat /\ d \in Nat /\ l \in Nat
  BY <1>3, <1>5, <1>7, <1>9, CountedIn, FiniteCounts
<1>11. m = l + 1
  BY <1>8, <1>9, <1>10, FiniteCounts, FS_AddElement
<1>12. d <= c + 1 /\ (~WaitedFor(o) => d <= c)
  <2>1. Cardinality(Counted \cup {o}) <= c + 1
    <3>1. CASE o \in Counted
      BY <3>1, <1>9, <1>10
    <3>2. CASE o \notin Counted
      BY <1>9, <1>10, <3>2, FiniteCounts, FS_AddElement
    <3>3. QED
      BY <3>1, <3>2
  <2>2. Cardinality(Counted \cup {o}) \in Nat /\ d <= Cardinality(Counted \cup {o})
    BY <1>7, <1>9, <1>10, Fewer, FiniteCounts
  <2>3. ~WaitedFor(o) => o \notin glAsyncWaitTargets
    BY <1>4 DEF WaitedFor, Unwaited
  <2>4. ~WaitedFor(o) => d <= c
    BY <1>7, <1>9, <1>10, <2>3, Fewer
  <2>5. QED
    BY <1>10, <2>1, <2>2, <2>4
<1>13. CountsAll'
  BY <1>4, <1>5, <1>6, <1>9, <1>10, <1>12 DEF CountsAll
<1>14. CountsFew'
  BY <1>4, <1>5, <1>9, <1>10, <1>11, CountedIn DEF CountsFew
<1>15. Unwaited'
  BY <1>4, <1>5 DEF Unwaited, WaitedFor
<1>16. QED
  BY <1>13, <1>14, <1>15, CounterParts

LEMMA Submits_Count ==
    ASSUME Typed, Typed', ControlInv, CounterInv, NEW u \in Users, NEW o \in Objects, NEW r \in Requests, Submits(u, o, r)
    PROVE  CounterInv'
<1>1. /\ target[r] = None /\ target' = [target EXCEPT ![r] = o] /\ pc[u] = "idle"
      /\ UNCHANGED <<worker, frames, objects, wait>>
      /\ \/ UNCHANGED <<glActiveAsyncObjects, users>>
         \/ /\ glActiveAsyncObjects' = glActiveAsyncObjects \cup {o}
            /\ pc' = [pc EXCEPT ![u] = "submitting"]
            /\ job' = [job EXCEPT ![u] = [NoJob EXCEPT !.object = o, !.thread = r]]
  BY DEF Submits, threads
<1>2. \A q \in Requests : target[q] # None => target'[q] = target[q]
  BY <1>1 DEF Typed
<1>3. \A x \in Objects : Launching(x)' => Launching(x)
  <2>1. SUFFICES ASSUME NEW i \in DOMAIN frames, InLaunch(frames[i])
                 PROVE target'[frames[i].next] = target[frames[i].next]
    BY <1>1 DEF Launching
  <2>2. FrameOK(frames[i], target) /\ frames # <<>>
    BY DEF ControlInv, FramesOK
  <2>3. i = Len(frames) /\ frames[i] = Top
    BY <2>2, TopIs, <2>1 DEF Levels, ControlInv, Nested, InLaunch
  <2>4. frames[i].next \in Requests /\ target[frames[i].next] \in Objects
    BY <2>1, <2>2, <2>3, Dispatching DEF InLaunch
  <2>5. QED
    BY <1>2, <2>4, AsyncAssumption
<1>4. \A x : Submitting(x) => Submitting(x)'
  BY <1>1, SubmittersStay DEF Typed, UsersTyped, users
<1>5. Counted' \subseteq Counted
  <2>1. CASE UNCHANGED <<glActiveAsyncObjects, users>>
    BY <1>1, <1>3, <1>4, <2>1, CountedLess, CountedIn DEF wait
  <2>2. CASE /\ glActiveAsyncObjects' = glActiveAsyncObjects \cup {o}
             /\ pc' = [pc EXCEPT ![u] = "submitting"]
             /\ job' = [job EXCEPT ![u] = [NoJob EXCEPT !.object = o, !.thread = r]]
    BY <2>2, <1>1, <1>3, <1>4, CountedIn DEF Typed, UsersTyped, NoJob, Submitting, Counted, wait
  <2>3. QED
    BY <1>1, <2>1, <2>2
<1>6. Discounts' => Discounts
  BY <1>1, Dispatching, <1>2, AsyncAssumption DEF Discounts, Top, Object, Message, objects, wait
<1>7. QED
  BY <1>1, <1>5, <1>6, CountKept DEF Launched

\* The wait begins with what is active.
LEMMA AsyncWait_Count ==
    ASSUME Typed, Typed', ControlInv, CounterInv, NEW targets \in SUBSET Objects, AsyncWait(targets)
    PROVE  CounterInv'
<1>1. /\ frames # <<>> => Top.at = "callback"
      /\ glmActionQueue /\ glAsyncWaiting' = TRUE /\ glAsyncWaitTargets' = targets
      /\ glAsyncWaitCounter' = Cardinality(targets \cap glActiveAsyncObjects)
      /\ frames' = Append(frames, Frame("wait")) /\ UNCHANGED <<tables, worker, users, target>>
  BY DEF AsyncWait, Runs, MainElsewhere, Pending
<1>2. \A o : ~Submitting(o)
  BY <1>1 DEF Submitting, glmActionQueue
<1>3. \A o : ~Launching(o)'
  BY Loops_Launch, <1>1, LaunchingIs DEF Launching, InLaunch
<1>4. Counted' \subseteq targets \cap glActiveAsyncObjects /\ Launched' = Launched
  BY <1>1, <1>3 DEF Counted, tables, Launched
<1>5. ~Discounts'
  BY <1>1 DEF Typed, Top, Last, Discounts, Frame
<1>6. PICK a, t, d, l : /\ a = Cardinality(targets \cap glActiveAsyncObjects) /\ t = Cardinality(targets)
                        /\ d = Cardinality(Counted') /\ l = Cardinality(Launched)
  OBVIOUS
<1>7. /\ targets \cap glActiveAsyncObjects \in SUBSET Objects /\ Counted' \in SUBSET Objects
      /\ Launched \in SUBSET Requests
  BY <1>4, CountedIn
<1>8. d <= a /\ a <= t /\ d \in Nat /\ a \in Nat /\ t \in Nat /\ l \in Nat
  BY <1>4, <1>6, <1>7, Fewer, FiniteCounts
<1>9. CountsAll'
  BY <1>1, <1>5, <1>6, <1>8 DEF CountsAll
<1>10. CountsFew'
  BY <1>1, <1>4, <1>6, <1>8 DEF CountsFew
<1>11. Unwaited'
  BY <1>1 DEF Unwaited
<1>12. QED
  BY <1>9, <1>10, <1>11, CounterParts

\* No wait is on.
LEMMA Unwaited_Count ==
    ASSUME Typed', glAsyncWaitTargets' = {}, glAsyncWaitCounter' = 0, covered' = {}
    PROVE  CounterInv'
  BY FS_EmptySet, FiniteCounts, CounterParts DEF Counted, Discounts, Launched, Typed, ThreadsTyped,
    CountsAll, CountsFew, Unwaited

LEMMA Loops_Count ==
    ASSUME Typed, Typed', ControlInv, CounterInv, EventLoop \/ LeaveLoop
    PROVE  CounterInv'
<1>1. Unwaited
  BY CounterParts
<1>2. CASE ~glAsyncWaiting /\ UNCHANGED wait
  BY <1>1, <1>2, Unwaited_Count DEF Unwaited, wait
<1>3. CASE EventLoop
  BY <1>3, <1>2 DEF EventLoop, ControlInv, Nested
<1>4. CASE LeaveLoop
  <2>1. frames # <<>> /\ (IF Top.loop = "wait" THEN EndWait ELSE UNCHANGED wait)
    BY <1>4 DEF LeaveLoop, Drained, MainAt
  <2>2. CASE Top.loop = "wait"
    BY <2>1, <2>2, Unwaited_Count DEF EndWait
  <2>3. CASE Top.loop # "wait"
    BY <2>1, TopIs, <2>3, <1>2 DEF Levels, ControlInv, Nested
  <2>4. QED
    BY <2>2, <2>3
<1>5. QED
  BY <1>3, <1>4

LEMMA Next_Count ==
    ASSUME Typed, Typed', ControlInv, CallbackInv, ServeInv, FreshInv, CounterInv, Next
    PROVE  CounterInv'
<1>1. ASSUME NEW r \in Requests, WorkerStep(r) PROVE CounterInv'
  BY <1>1, Worker_Count
<1>2. CASE MainStep
  BY <1>2, Loops_Count, Passing_Count, Pop_Count, DrainQueue_Count, ClearFlag_Count, CountDown_Count DEF MainStep
<1>3. ASSUME NEW u \in Users, UserStep(u) PROVE CounterInv'
  BY <1>3, Launch_Count, Cancel_Count, Outside_Count DEF UserStep
<1>4. ASSUME NEW u \in Users, NEW o \in Objects, AsyncAction(u, o) \/ AsyncCancel(u, o) \/ Hold(u, o) PROVE CounterInv'
  <2>1. CASE AsyncAction(u, o)
    BY <2>1, AsyncAction_Submits, Submits_Count
  <2>2. QED
    BY <1>4, <2>1, Cancel_Count, Outside_Count
<1>5. ASSUME NEW targets \in SUBSET Objects, AsyncWait(targets) PROVE CounterInv'
  BY <1>5, AsyncWait_Count
<1>6. CASE (\E o \in Objects : Free(o)) \/ StopTask \/ CloseSubmissions \/ JoinThreads
  BY <1>6, Outside_Count
<1>7. QED
  BY <1>1, <1>2, <1>3, <1>4, <1>5, <1>6 DEF Next

----------------------------------------------------------------------------
(* What AsyncWait() covers.                                                *)

\* A request is queued, being launched or executing.
Executing(r) == InWorker(r) /\ worker[r] # "send"
Due(r) ==
    \/ \E o \in Objects : r \in Range(glActionQueues[o])
    \/ Executing(r)
    \/ \E i \in DOMAIN frames : InLaunch(frames[i]) /\ frames[i].next = r

PostedBreak == \E n \in DOMAIN glQueue : glQueue[n] = BREAK
EventsGoOn == \A i \in DOMAIN frames : frames[i].loop = "events" => ~Breaks(frames[i])
Targeted   == \A r \in covered : target[r] \in glAsyncWaitTargets
NewStarts  == \A u \in Users : pc[u] = "submitting" =>
    job[u].thread \notin covered /\ glActionQueues[job[u].object] = <<>>

LEMMA CoverParts ==
    /\ CoverInv <=> (Told => glAsyncWaiting /\ Over) /\ EventsGoOn /\ Targeted /\ NewStarts
    /\ (CoverInv <=> (Told => glAsyncWaiting /\ Over) /\ EventsGoOn /\ Targeted /\ NewStarts)'
  BY DEF CoverInv, EventsGoOn, Targeted, NewStarts

LEMMA OverIs ==
    /\ covered \subseteq Requests /\ (\A r \in covered : target[r] \in Objects) =>
          (Over <=> \A r \in covered : ~Due(r))
    /\ covered' \subseteq Requests /\ (\A r \in covered' : target'[r] \in Objects) =>
          (Over' <=> \A r \in covered' : ~Due(r)')
<1>1. ASSUME covered \subseteq Requests, \A r \in covered : target[r] \in Objects
      PROVE  Over <=> \A r \in covered : ~Due(r)
  <2>1. ASSUME NEW r \in covered, NEW o \in Objects, r \in Outstanding(o) PROVE Due(r)
    BY <2>1 DEF Outstanding, Due, Executing, InLaunch
  <2>2. ASSUME NEW r \in covered, Due(r) PROVE \E o \in Objects : r \in Outstanding(o)
    BY <1>1, <2>2 DEF Outstanding, Executing, InLaunch, Due
  <2>3. QED
    BY <2>1, <2>2 DEF Over
<1>2. ASSUME covered' \subseteq Requests, \A r \in covered' : target'[r] \in Objects
      PROVE  Over' <=> \A r \in covered' : ~Due(r)'
  <2>1. ASSUME NEW r \in covered', NEW o \in Objects, r \in Outstanding(o)' PROVE Due(r)'
    BY <2>1 DEF Outstanding, Due, Executing, InLaunch
  <2>2. ASSUME NEW r \in covered', Due(r)' PROVE \E o \in Objects : r \in Outstanding(o)'
    BY <1>2, <2>2 DEF Outstanding, Executing, InLaunch, Due
  <2>3. QED
    BY <2>1, <2>2 DEF Over
<1>3. QED
  BY <1>1, <1>2

\* What is covered has been made, for a target.
LEMMA Covers ==
    ASSUME Typed, CoverInv
    PROVE  covered \subseteq Requests /\ \A r \in covered : target[r] \in Objects /\ target[r] # None
  BY CoverParts, AsyncAssumption DEF Typed, WaitTyped, Targeted

\* Nothing that is covered comes back, and nobody is told without reason.
LEMMA CoverKept ==
    ASSUME Typed, ControlInv, CoverInv, UNCHANGED <<glAsyncWaiting, glAsyncWaitTargets, covered>>,
           \A r \in Requests : target[r] # None => target'[r] = target[r],
           \A r \in covered : Due(r)' => Due(r),
           Told' => Told \/ (glAsyncWaiting /\ Over),
           EventsGoOn', NewStarts'
    PROVE  CoverInv'
  BY Covers, CoverParts, OverIs DEF Targeted

\* Submitters stay, and no queue grows.
LEMMA StartsStay ==
    ASSUME Typed, Typed', ControlInv, CoverInv, Shorter, UNCHANGED covered,
           \A u \in Users : pc'[u] = "submitting" => pc[u] = "submitting" /\ job'[u] = job[u]
    PROVE  NewStarts'
<1>1. NewStarts
  BY CoverParts
<1>2. SUFFICES ASSUME NEW u \in Users, pc'[u] = "submitting"
               PROVE job'[u].thread \notin covered' /\ glActionQueues'[job'[u].object] = <<>>
  BY DEF NewStarts
<1>3. PICK o : o = job[u].object
  OBVIOUS
<1>4. pc[u] = "submitting" /\ job'[u] = job[u] /\ o \in Objects /\ glActionQueues[o] = <<>> /\ job[u].thread \notin covered
  BY <1>1, <1>2, <1>3 DEF NewStarts, ControlInv, JobsOK, JobOK
<1>5. \A i \in DOMAIN glActionQueues[o] : FALSE
  BY <1>4
<1>6. \A i \in DOMAIN glActionQueues'[o] : glActionQueues'[o][i] \in Range(glActionQueues[o])
  BY <1>4 DEF Shorter, Range
<1>7. \A i \in DOMAIN glActionQueues'[o] : FALSE
  BY <1>5, <1>6 DEF Range
<1>8. glActionQueues'[o] = <<>>
  <2>1. PICK s : s = glActionQueues'[o]
    OBVIOUS
  <2>2. s \in Seq(Requests)
    BY <1>4, <2>1 DEF Typed, TablesTyped
  <2>3. Len(s) \in Nat /\ DOMAIN s = 1..Len(s)
    BY <2>2
  <2>4. Len(s) = 0
    <3>1. \A i \in 1..Len(s) : FALSE
      BY <1>7, <2>1, <2>3
    <3>2. QED
      BY <2>3, <3>1
  <2>5. QED
    BY <2>1, <2>2, <2>4
<1>9. QED
  BY <1>2, <1>3, <1>4, <1>8

\* Messages about requests do not break.
NoBreak(m) == m \in Seq(Messages) /\ \A n \in DOMAIN m : m[n] # BREAK

LEMMA NoticesGoOn ==
    /\ \A d \in Seq(Requests) : NoBreak(Notices(d))
    /\ \A r \in Requests : NoBreak(<<Notice(r)>>) /\ NoBreak(<<Completion(r)>>)
    /\ NoBreak(<<>>)
<1>1. \A r \in Requests : Notice(r) # BREAK /\ Completion(r) # BREAK /\ Notice(r) \in Messages /\ Completion(r) \in Messages
  BY Names_Differ DEF Notice, Completion, BREAK, Messages
<1>2. ASSUME NEW d \in Seq(Requests) PROVE NoBreak(Notices(d))
  BY NoticeLists, <1>1 DEF Notices, NoBreak
<1>3. \A m \in Messages : m # BREAK => NoBreak(<<m>>)
  BY DEF NoBreak
<1>4. NoBreak(<<>>)
  BY DEF NoBreak
<1>5. QED
  BY <1>1, <1>2, <1>3, <1>4

LEMMA JoinGoesOn == ASSUME NEW m, NEW k, NoBreak(m), NoBreak(k) PROVE NoBreak(m \o k)
<1>1. PICK j : j = m \o k
  OBVIOUS
<1>2. /\ j \in Seq(Messages) /\ DOMAIN j = 1..Len(m) + Len(k)
      /\ DOMAIN m = 1..Len(m) /\ DOMAIN k = 1..Len(k) /\ Len(m) \in Nat /\ Len(k) \in Nat
      /\ \A i \in 1..Len(m) + Len(k) : j[i] = IF i <= Len(m) THEN m[i] ELSE k[i - Len(m)]
  BY <1>1 DEF NoBreak
<1>3. ASSUME NEW i \in DOMAIN j PROVE j[i] # BREAK
  <2>1. CASE i <= Len(m)
    BY <1>2, <2>1 DEF NoBreak
  <2>2. CASE ~(i <= Len(m))
    <3>1. i - Len(m) \in 1..Len(k)
      BY <1>2, <2>2
    <3>2. QED
      BY <1>2, <2>2, <3>1 DEF NoBreak
  <2>3. QED
    BY <2>1, <2>2
<1>4. QED
  BY <1>1, <1>2, <1>3 DEF NoBreak

LEMMA SentGoesOn ==
    ASSUME Typed, NEW m, NoBreak(m), SendMessages(m)
    PROVE  PostedBreak' => PostedBreak
  BY JoinGoesOn DEF PostedBreak, NoBreak, Typed, SendMessages

\* No object is freed with a message that breaks.
LEMMA FreedGoesOn ==
    ASSUME Typed, ControlInv, NEW o \in Objects, object_free(o) \/ ReleaseObject(o) \/ UNCHANGED glQueue
    PROVE  PostedBreak' => PostedBreak
<1>1. CASE UNCHANGED glQueue
  BY <1>1 DEF PostedBreak
<1>2. CASE object_free(o)
  BY <1>2, NoticesGoOn, SentGoesOn DEF Typed, TablesTyped, object_free
<1>3. CASE ReleaseObject(o)
  BY <1>1, <1>2, <1>3 DEF ReleaseObject
<1>4. QED
  BY <1>1, <1>2, <1>3

\* A step of another thread.
LEMMA Others_Cover ==
    ASSUME Typed, Typed', ControlInv, CoverInv, UNCHANGED <<wait, frames, target>>, Shorter,
           \A r \in covered : Executing(r)' => Due(r), PostedBreak' => PostedBreak,
           \A u \in Users : pc'[u] = "submitting" => pc[u] = "submitting" /\ job'[u] = job[u]
    PROVE  CoverInv'
  BY CoverParts, StartsStay, CoverKept DEF wait, Due, Shorter, Told, PostedBreak, Breaks, EventsGoOn

----------------------------------------------------------------------------
(* What AsyncWait() covers: the steps of other threads, and the loops.     *)

LEMMA Worker_Cover ==
    ASSUME Typed, Typed', ControlInv, CallbackInv, OrderInv, CoverInv, NEW r \in Requests, WorkerStep(r)
    PROVE  CoverInv'
<1>1. WorkerMoves(r) /\ UNCHANGED <<wait, frames, target, users>>
  BY Worker_Moves DEF WorkerMoves, WorkerElsewhere
<1>2. Shorter
  BY <1>1, Worker_Shorter
<1>3. covered \subseteq Requests
  BY Covers
<1>4. Executing(r)' => Executing(r)
  <2>1. \A status : worker' = [worker EXCEPT ![r] = status] => worker'[r] = status
    BY DEF Typed, ThreadsTyped
  <2>2. CASE Register(r) \/ CheckStop(r) \/ LockObject(r)
    BY <2>1, <2>2 DEF Register, CheckStop, LockObject, WorkerAt, WorkerGoto, GiveUp, Executing, InWorker
  <2>3. CASE BeginAction(r) \/ EndAction(r) \/ EndWork(r)
    BY <2>1, <2>3 DEF BeginAction, EndAction, EndWork, WorkerAt, WorkerGoto, Executing, InWorker
  <2>4. CASE SendCompletion(r) \/ cleanup(r)
    BY <2>1, <2>4 DEF SendCompletion, cleanup, WorkerAt, WorkerGoto, Executing, InWorker
  <2>5. QED
    BY <2>2, <2>3, <2>4 DEF WorkerStep
<1>5. \A q \in Requests : q # r => worker'[q] = worker[q]
  BY <1>1 DEF WorkerMoves, Typed, ThreadsTyped
<1>6. \A q \in covered : Executing(q)' => Due(q)
  BY <1>3, <1>4, <1>5 DEF Executing, InWorker, Due
<1>7. PostedBreak' => PostedBreak
  <2>1. CASE UNCHANGED glQueue
    BY <2>1 DEF PostedBreak
  <2>2. CASE SendMessages(<<Completion(r)>>)
    BY <2>2, NoticesGoOn, SentGoesOn
  <2>3. CASE worker[r] = "release" /\ ReleaseObject(target[r])
    BY <2>3, WorkerMade, FreedGoesOn DEF InWorker
  <2>4. QED
    BY <1>1, <2>1, <2>2, <2>3 DEF WorkerMoves
<1>8. QED
  BY <1>1, <1>2, <1>6, <1>7, Others_Cover DEF users

LEMMA Cancel_Cover ==
    ASSUME Typed, Typed', ControlInv, CallbackInv, OrderInv, CoverInv, NEW u \in Users,
           WakeWorker(u) \/ DrainCancelled(u) \/ NotifyCancelled(u) \/ \E o \in Objects : AsyncCancel(u, o)
    PROVE  CoverInv'
<1>1. UNCHANGED <<wait, frames, target, worker>>
  BY DEF WakeWorker, DrainCancelled, NotifyCancelled, AsyncCancel, CancelElsewhere
<1>2. Shorter /\ \A v \in Users : pc'[v] = "submitting" => pc[v] = "submitting" /\ job'[v] = job[v]
  BY Cancel_Shorter, Cancel_Submits
<1>3. \A q \in covered : Executing(q)' => Due(q)
  BY <1>1 DEF Executing, InWorker, Due
<1>4. PostedBreak' => PostedBreak
  <2>1. CASE UNCHANGED glQueue
    BY <2>1 DEF PostedBreak
  <2>2. CASE SendMessages(Notices(job[u].drained))
    BY <2>2, NoticesGoOn, SentGoesOn DEF Typed, UsersTyped, JobType
  <2>3. QED
    BY <2>1, <2>2 DEF WakeWorker, DrainCancelled, NotifyCancelled, AsyncCancel
<1>5. QED
  BY <1>1, <1>2, <1>3, <1>4, Others_Cover

LEMMA Outside_Cover ==
    ASSUME Typed, Typed', ControlInv, CallbackInv, OrderInv, CoverInv, Outside \/ JoinThreads
    PROVE  CoverInv'
<1>1. UNCHANGED <<wait, frames, target, worker, users>>
  BY DEF Outside, JoinThreads, Elsewhere, threads
<1>2. Shorter
  BY Shortened DEF Outside, JoinThreads
<1>3. \A q \in covered : Executing(q)' => Due(q)
  BY <1>1 DEF Executing, InWorker, Due
<1>4. PostedBreak' => PostedBreak
  BY FreedGoesOn DEF PostedBreak, Outside, JoinThreads
<1>5. QED
  BY <1>1, <1>2, <1>3, <1>4, Others_Cover DEF users

\* What is launched was not covered, and there is something to wait for.
LEMMA Launch_Cover ==
    ASSUME Typed, Typed', ControlInv, OrderInv, CounterInv, CoverInv, NEW u \in Users, Launch(u)
    PROVE  CoverInv'
<1>1. PICK r, o : r = job[u].thread /\ o = job[u].object
  OBVIOUS
<1>2. /\ pc[u] = "submitting" /\ async_wait_callback(o, 1)
      /\ worker' = [worker EXCEPT ![r] = "start"]
      /\ pc' = [pc EXCEPT ![u] = "idle"] /\ job' = [job EXCEPT ![u] = NoJob]
      /\ UNCHANGED <<tables, target, frames>>
  BY <1>1 DEF Launch, CountNew
<1>3. r \in Requests /\ r \notin covered
  BY <1>1, <1>2, CoverParts DEF ControlInv, JobsOK, JobOK, NewStarts
<1>4. UNCHANGED <<glAsyncWaiting, glAsyncWaitTargets, covered>>
  BY <1>2 DEF async_wait_callback
<1>5. Shorter
  BY <1>2, Shortened
<1>6. PostedBreak' => PostedBreak
  BY CountedIn, CounterParts, <1>2, NoticesGoOn, SentGoesOn DEF CountsAll, async_wait_callback,
    LastCounted
<1>7. Told' => Told
  BY <1>2, <1>6 DEF Told, PostedBreak, Breaks
<1>8. \A q \in covered : Due(q)' => Due(q)
  BY <1>2, <1>3, Covers DEF Typed, ThreadsTyped, Due, Executing, InWorker, tables
<1>9. EventsGoOn'
  BY <1>2, CoverParts DEF EventsGoOn, Breaks
<1>10. NewStarts'
  BY <1>2, <1>4, <1>5, StartsStay DEF Typed, UsersTyped
<1>11. QED
  BY <1>2, <1>4, <1>7, <1>8, <1>9, <1>10, CoverKept

\* A new request is not covered, and is queued only behind another one.
LEMMA Submits_Cover ==
    ASSUME Typed, Typed', ControlInv, ServeInv, CoverInv,
           NEW u \in Users, NEW o \in Objects, NEW r \in Requests, Submits(u, o, r)
    PROVE  CoverInv'
<1>1. /\ target[r] = None /\ target' = [target EXCEPT ![r] = o] /\ glmActionQueue
      /\ UNCHANGED <<worker, frames, wait, glQueue>>
      /\ \/ /\ glActionQueues' = [glActionQueues EXCEPT ![o] = Append(@, r)]
            /\ UNCHANGED users
         \/ /\ o \notin glActiveAsyncObjects
            /\ pc' = [pc EXCEPT ![u] = "submitting"]
            /\ job' = [job EXCEPT ![u] = [NoJob EXCEPT !.object = o, !.thread = r]]
            /\ UNCHANGED glActionQueues
  BY DEF Submits, threads
<1>2. r \notin covered /\ UNCHANGED <<glAsyncWaiting, glAsyncWaitTargets, covered>>
  BY <1>1, Covers DEF wait
<1>3. \A q \in Requests : target[q] # None => target'[q] = target[q]
  BY <1>1 DEF Typed
<1>4. \A q \in covered : Due(q)' => Due(q)
  <2>1. \A x \in Objects : Range(glActionQueues'[x]) \subseteq Range(glActionQueues[x]) \cup {r}
    <3>1. CASE glActionQueues' = [glActionQueues EXCEPT ![o] = Append(@, r)]
      BY <3>1 DEF Typed, TablesTyped, Range
    <3>2. CASE UNCHANGED glActionQueues
      BY <3>2
    <3>3. QED
      BY <1>1, <3>1, <3>2
  <2>2. QED
    BY <1>1, <1>2, <2>1 DEF Due, Executing, InWorker
<1>5. (Told' => Told) /\ EventsGoOn'
  BY <1>1, CoverParts DEF Told, EventsGoOn, Breaks
<1>6. NewStarts'
  <2>1. SUFFICES ASSUME NEW v \in Users, pc'[v] = "submitting"
                 PROVE  job'[v].thread \notin covered' /\ glActionQueues'[job'[v].object] = <<>>
    BY DEF NewStarts
  <2>2. pc[v] # "submitting"
    BY <1>1 DEF glmActionQueue
  <2>3. /\ o \notin glActiveAsyncObjects /\ UNCHANGED glActionQueues
        /\ pc' = [pc EXCEPT ![u] = "submitting"]
        /\ job' = [job EXCEPT ![u] = [NoJob EXCEPT !.object = o, !.thread = r]]
    BY <1>1, <2>1, <2>2 DEF users
  <2>4. v = u
    BY <2>1, <2>2, <2>3 DEF Typed, UsersTyped
  <2>5. job'[v].thread = r /\ job'[v].object = o
    BY <2>3, <2>4 DEF Typed, UsersTyped, NoJob
  <2>6. glActionQueues[o] = <<>>
    BY <2>3 DEF ServeInv
  <2>7. QED
    BY <1>2, <2>3, <2>5, <2>6
<1>7. QED
  BY <1>2, <1>3, <1>4, <1>5, <1>6, CoverKept

LEMMA NewFrame == \A loop : ~Breaks(Frame(loop)) /\ ~InLaunch(Frame(loop))
  BY DEF Breaks, Frame, InLaunch

\* Everything that is outstanding for the targets is covered.
LEMMA AsyncWait_Cover ==
    ASSUME Typed, Typed', ControlInv, CoverInv, NEW targets \in SUBSET Objects, AsyncWait(targets)
    PROVE  CoverInv'
<1>1. /\ ~glAsyncWaiting /\ glmActionQueue /\ glAsyncWaitTargets' = targets
      /\ covered' = UNION {Outstanding(o) : o \in targets}
      /\ UNCHANGED <<glQueue, target, users>>
  BY DEF AsyncWait, MainElsewhere
<1>2. ~Told /\ EventsGoOn
  BY <1>1, CoverParts
<1>3. \A i \in DOMAIN frames' : (i \in DOMAIN frames /\ frames'[i] = frames[i]) \/ ~Breaks(frames'[i])
  BY Loops_Frames, NewFrame
<1>4. ~Told' /\ EventsGoOn'
  BY <1>1, <1>2, <1>3 DEF Told, EventsGoOn, Breaks
<1>5. ASSUME NEW o \in targets, NEW r \in Outstanding(o) PROVE target[r] = o
  BY <1>5 DEF Range, ControlInv, QueuesOK, QueueOK, Outstanding
<1>6. Targeted'
  BY <1>1, <1>5 DEF Targeted
<1>7. NewStarts'
  BY <1>1 DEF NewStarts, glmActionQueue, users
<1>8. QED
  BY <1>4, <1>6, <1>7, CoverParts

LEMMA EventLoop_Cover ==
    ASSUME Typed, Typed', ControlInv, OrderInv, CoverInv, EventLoop
    PROVE  CoverInv'
<1>1. UNCHANGED <<tables, target, worker, users, glQueue, wait>>
  BY DEF EventLoop, MainElsewhere
<1>2. UNCHANGED <<glAsyncWaiting, glAsyncWaitTargets, covered>> /\ Shorter
  BY <1>1, Shortened DEF wait
<1>3. \A i \in DOMAIN frames' : (i \in DOMAIN frames /\ frames'[i] = frames[i])
                                \/ (~Breaks(frames'[i]) /\ ~InLaunch(frames'[i]))
  BY Loops_Frames, NewFrame
<1>4. (Told' => Told) /\ EventsGoOn'
  BY <1>1, <1>3, CoverParts DEF Told, EventsGoOn, Breaks
<1>5. \A q \in covered : Due(q)' => Due(q)
  BY <1>1, <1>3 DEF Due, Executing, InWorker, tables
<1>6. NewStarts'
  BY <1>1, <1>2, StartsStay DEF users
<1>7. QED
  BY <1>1, <1>2, <1>4, <1>5, <1>6, CoverKept

LEMMA LeaveLoop_Cover ==
    ASSUME Typed, Typed', ControlInv, OrderInv, CoverInv, LeaveLoop
    PROVE  CoverInv'
<1>1. /\ frames # <<>> /\ glQueue = <<>> /\ frames' = Front(frames) /\ Top.at = "loop" /\ Top.batch = <<>>
      /\ UNCHANGED <<tables, target, worker, users, glQueue>>
      /\ IF Top.loop = "wait" THEN EndWait ELSE UNCHANGED wait
  BY DEF LeaveLoop, Drained, MainAt, MainElsewhere
<1>2. /\ \A i \in DOMAIN frames' : frames'[i] = frames[i] /\ i \in DOMAIN frames
      /\ DOMAIN frames' = DOMAIN frames \ {Len(frames)} /\ DOMAIN frames = 1..Len(frames)
  BY <1>1, Left
<1>3. EventsGoOn'
  BY <1>2, CoverParts DEF EventsGoOn, Breaks
<1>4. CASE Top.loop = "wait"
  <2>1. covered' = {} /\ glAsyncWaitTargets' = {}
    BY <1>1, <1>4 DEF EndWait
  <2>2. \A i \in DOMAIN frames' : frames[i].loop = "events"
    BY <1>1, TopIs, <1>2 DEF Levels, ControlInv, Nested
  <2>3. \A i \in DOMAIN frames' : ~Breaks(frames'[i])
    BY <1>2, <1>3, <2>2 DEF EventsGoOn, Breaks
  <2>4. ~Told'
    BY <1>1, <2>3 DEF Told, Breaks
  <2>5. Targeted' /\ NewStarts'
    BY CoverParts, <1>1, <2>1 DEF Targeted, NewStarts, users, tables
  <2>6. QED
    BY <1>3, <2>4, <2>5, CoverParts
<1>5. CASE Top.loop # "wait"
  <2>1. UNCHANGED <<glAsyncWaiting, glAsyncWaitTargets, covered>> /\ Shorter
    BY <1>1, <1>5, Shortened DEF wait
  <2>2. Told' => Told
    BY <1>1, <1>2 DEF Told, Breaks
  <2>3. \A q \in covered : Due(q)' => Due(q)
    BY <1>1, <1>2 DEF Due, Executing, InWorker, tables, InLaunch
  <2>4. NewStarts'
    BY <1>1, <2>1, StartsStay DEF users
  <2>5. QED
    BY <1>1, <1>3, <2>1, <2>2, <2>3, <2>4, CoverKept
<1>6. QED
  BY <1>4, <1>5

----------------------------------------------------------------------------
(* What AsyncWait() covers: the steps of the main thread.                  *)

LEMMA Main_Cover ==
    ASSUME Typed, Typed', ControlInv, CoverInv, frames # <<>>, NEW f, SetTop(f), f.loop = Top.loop,
           UNCHANGED <<target, users, glAsyncWaiting, glAsyncWaitTargets, covered>>, Shorter,
           Breaks(f) => Told, f.loop = "events" => ~Breaks(f), InLaunch(f) => Due(f.next),
           \A q \in covered : Executing(q)' => Due(q),
           PostedBreak' => Told \/ (glAsyncWaiting /\ Over)
    PROVE  CoverInv'
<1>1. PICK k : k = Len(frames)
  OBVIOUS
<1>2. /\ DOMAIN frames' = DOMAIN frames /\ frames'[k] = f
      /\ \A i \in DOMAIN frames : i # k => frames'[i] = frames[i]
  BY <1>1, TopSet
<1>3. Told' => Told \/ (glAsyncWaiting /\ Over)
  BY <1>2 DEF Told, PostedBreak
<1>4. EventsGoOn'
  BY CoverParts, <1>2 DEF EventsGoOn, Breaks
<1>5. \A q \in covered : Due(q)' => Due(q)
  BY <1>2 DEF Shorter, Due
<1>6. NewStarts'
  BY StartsStay DEF users
<1>7. QED
  BY <1>3, <1>4, <1>5, <1>6, CoverKept

\* A step goes on with the messages in hand, or the next one.
Carries(f) ==
    /\ SetTop(f) /\ f.loop = Top.loop /\ f.breaking = Top.breaking
    /\ f.batch = Top.batch \/ (Top.batch # <<>> /\ f.batch = Tail(Top.batch))

LEMMA CarriedBreaks ==
    ASSUME Typed, ControlInv, CoverInv, frames # <<>>, NEW f, Carries(f)
    PROVE  (Breaks(f) => Told) /\ (f.loop = "events" => ~Breaks(f))
<1>1. Len(frames) \in DOMAIN frames /\ Top = frames[Len(frames)] /\ Top \in FrameType
  BY TopIs DEF Levels
<1>2. Breaks(Top) => Told
  BY <1>1 DEF Told
<1>3. Top.loop = "events" => ~Breaks(Top)
  BY <1>1, CoverParts DEF EventsGoOn
<1>4. Breaks(f) => Breaks(Top)
  <2>1. PICK b : b = Top.batch /\ b \in Seq(Messages)
    BY <1>1 DEF FrameType
  <2>2. b # <<>> => \A n \in DOMAIN Tail(b) : Tail(b)[n] = b[n + 1] /\ n + 1 \in DOMAIN b
    BY <2>1
  <2>3. CASE f.batch = b
    BY <2>1, <2>3 DEF Carries, Breaks
  <2>4. CASE b # <<>> /\ f.batch = Tail(b)
    BY <2>2, <2>4, <2>1 DEF Carries, Breaks
  <2>5. QED
    BY <2>1, <2>3, <2>4 DEF Carries
<1>5. QED
  BY <1>2, <1>3, <1>4 DEF Carries

\* A step that launches nothing and starts no worker.
LEMMA Steady_Cover ==
    ASSUME Typed, Typed', ControlInv, CoverInv, NEW f, Carries(f), frames # <<>>,
           InLaunch(f) => InLaunch(Top) /\ f.next = Top.next,
           UNCHANGED <<target, users, worker, glAsyncWaiting, glAsyncWaitTargets, covered>>, Shorter,
           PostedBreak' => Told \/ (glAsyncWaiting /\ Over)
    PROVE  CoverInv'
  BY CarriedBreaks, TopIs, Main_Cover DEF Due, Levels, Executing, InWorker, Carries

LEMMA FetchBatch_Cover ==
    ASSUME Typed, Typed', ControlInv, OrderInv, CoverInv, FetchBatch
    PROVE  CoverInv'
<1>1. /\ frames # <<>> /\ Top.at = "loop" /\ glQueue' = <<>>
      /\ UNCHANGED <<target, users, worker, wait>> /\ Shorter
  BY Messages_Shorter DEF FetchBatch, MainAt, MainElsewhere
<1>2. Len(frames) \in DOMAIN frames /\ Top = frames[Len(frames)] /\ Top \in FrameType
  BY <1>1, TopIs DEF Levels
<1>3. PICK f : f = [Top EXCEPT !.batch = glQueue]
  OBVIOUS
<1>4. /\ SetTop(f) /\ f.at = "loop" /\ f.loop = Top.loop /\ f.breaking = Top.breaking /\ f.batch = glQueue
  BY <1>1, <1>2, <1>3 DEF FetchBatch, FrameType
<1>5. (Told => glAsyncWaiting) /\ EventsGoOn
  BY CoverParts
<1>6. Breaks(f) => Told
  BY <1>2, <1>4 DEF Breaks, Told
<1>7. f.loop = "events" => ~Breaks(f)
  BY <1>4, <1>5, <1>6, <1>1, TopIs, <1>2 DEF Levels, ControlInv, Nested
<1>8. ~PostedBreak'
  BY <1>1 DEF PostedBreak
<1>9. \A q \in covered : Executing(q)' => Due(q)
  BY <1>1 DEF Due, Executing, InWorker
<1>10. ~InLaunch(f)
  BY <1>4 DEF InLaunch
<1>11. QED
  BY <1>1, <1>4, <1>6, <1>7, <1>8, <1>9, <1>10, Main_Cover DEF wait

LEMMA BreakMessage_Cover ==
    ASSUME Typed, Typed', ControlInv, OrderInv, CoverInv, BreakMessage
    PROVE  CoverInv'
<1>1. /\ frames # <<>> /\ Top.at = "loop" /\ Top.batch # <<>> /\ Message = BREAK
      /\ UNCHANGED <<target, users, worker, wait, glQueue>> /\ Shorter
  BY Messages_Shorter DEF BreakMessage, MainAt, MainElsewhere
<1>2. Len(frames) \in DOMAIN frames /\ Top = frames[Len(frames)] /\ Top \in FrameType /\ Message = Top.batch[1]
  BY <1>1, TopIs, InHand DEF Levels
<1>3. 1 \in DOMAIN Top.batch
  BY <1>1, <1>2 DEF FrameType
<1>4. Breaks(Top) /\ Told
  BY <1>1, <1>2, <1>3 DEF Breaks, Told
<1>5. PICK f : f = [Top EXCEPT !.batch = Tail(@), !.breaking = @ \/ Top.loop = "wait"]
  OBVIOUS
<1>6. SetTop(f) /\ f.at = "loop" /\ f.loop = Top.loop
  BY <1>1, <1>2, <1>5 DEF BreakMessage, FrameType
<1>7. Top.loop # "events"
  BY <1>2, <1>4, CoverParts DEF EventsGoOn
<1>8. \A q \in covered : Executing(q)' => Due(q)
  BY <1>1 DEF Due, Executing, InWorker
<1>9. ~InLaunch(f)
  BY <1>6 DEF InLaunch
<1>10. QED
  BY <1>1, <1>4, <1>6, <1>7, <1>8, <1>9, Main_Cover DEF wait

\* The wait is told when the last object is counted off: nothing that it covers is left.
LEMMA LastOne ==
    ASSUME Typed, ControlInv, CallbackInv, ServeInv, LockInv, CounterInv, CoverInv,
           frames # <<>>, Top.at = "count", Object \in glAsyncWaitTargets, glAsyncWaitCounter = 1
    PROVE  glAsyncWaiting /\ Over
<1>1. glAsyncWaiting
  BY CounterParts DEF Unwaited
<1>2. Counted = {}
  BY CounterParts, CountedIn, FiniteCounts, FS_EmptySet DEF Discounts, CountsAll
<1>3. covered \subseteq Requests /\ \A r \in covered : target[r] \in Objects /\ target[r] \in glAsyncWaitTargets
  BY Covers, CoverParts DEF Targeted
<1>4. ASSUME NEW r \in covered, Due(r) PROVE FALSE
  <2>1. PICK o : o = target[r]
    OBVIOUS
  <2>2. r \in Requests /\ o \in Objects /\ o \in glAsyncWaitTargets
    BY <1>3, <2>1
  <2>3. ~(~Submitting(o) /\ o \in glActiveAsyncObjects)
    BY <1>2, <2>2 DEF Counted
  <2>4. CASE \E x \in Objects : r \in Range(glActionQueues[x])
    BY <2>4, <2>1, <2>2, CoverParts, <2>3 DEF Range, ControlInv, QueuesOK, QueueOK, ServeInv,
      Submitting, NewStarts
  <2>5. CASE Executing(r)
    <3>1. InWorker(r) /\ worker[r] \in {"start", "registered", "lock", "locked", "action", "release"}
      BY <2>2, <2>5 DEF Executing, InWorker, Typed, ThreadsTyped
    <3>2. object[o] # "gone"
      BY <2>1, <2>2, <3>1 DEF LockInv
    <3>3. r \in Workers(o)
      BY <2>1, <2>2, <3>1 DEF Workers
    <3>4. o \in Served /\ state # "done"
      BY <2>2, <3>3, ServedBy DEF ControlInv, Closing
    <3>5. o \in glActiveAsyncObjects
      BY <2>2, <3>2, <3>4 DEF ServeInv
    <3>6. ~Submitting(o)
      <4>1. SUFFICES ASSUME NEW u \in Users, pc[u] = "submitting", job[u].object = o PROVE FALSE
        BY DEF Submitting
      <4>2. ServedAt(o, <<"worker", r>>, 1) /\ ServedAt(o, <<"submitter", u>>, 1)
        BY <2>2, <3>3, <4>1, WorkerPlace, SubmitterPlace
      <4>3. <<"worker", r>> = <<"submitter", u>>
        BY <2>2, <4>2, OnePlace
      <4>4. QED
        BY <4>3
    <3>7. QED
      BY <2>3, <3>5, <3>6
  <2>6. CASE \E i \in DOMAIN frames : InLaunch(frames[i]) /\ frames[i].next = r
    BY <2>1, <2>6, LaunchingIs DEF Launching, InLaunch
  <2>7. QED
    BY <1>4, <2>4, <2>5, <2>6 DEF Due
<1>5. Over
  BY <1>3, <1>4, OverIs
<1>6. QED
  BY <1>1, <1>5

LEMMA CountDown_Cover ==
    ASSUME Typed, Typed', ControlInv, CallbackInv, ServeInv, OrderInv, LockInv, CounterInv, CoverInv, CountDown
    PROVE  CoverInv'
<1>1. PICK x : x = Object
  OBVIOUS
<1>2. /\ frames # <<>> /\ Top.at = "count" /\ async_wait_callback(x, -1) /\ UNCHANGED <<target, users, worker>>
      /\ Shorter
  BY <1>1, Dispatch_Shorter DEF CountDown, MainAt, DispatchElsewhere, MainElsewhere
<1>3. PICK f : f = [Top EXCEPT !.at = "notify"]
  OBVIOUS
<1>4. Carries(f) /\ ~InLaunch(f)
  BY <1>2, <1>3, TopIs DEF CountDown, Goto, FrameType, Carries, InLaunch
<1>5. UNCHANGED <<glAsyncWaiting, glAsyncWaitTargets, covered>>
  BY <1>2 DEF async_wait_callback
<1>6. PostedBreak' => Told \/ (glAsyncWaiting /\ Over)
  <2>1. CASE WaitedFor(x) /\ LastCounted
    BY <1>2, <2>1, CountedIn, <1>1, LastOne DEF async_wait_callback, LastCounted, WaitedFor
  <2>2. CASE ~(WaitedFor(x) /\ LastCounted)
    BY <1>2, <2>2, NoticesGoOn, SentGoesOn DEF async_wait_callback, Told, PostedBreak
  <2>3. QED
    BY <2>1, <2>2
<1>7. QED
  BY <1>2, <1>4, <1>5, <1>6, Steady_Cover

\* The next message.
LEMMA NextCarries ==
    ASSUME Top \in FrameType, Top.batch # <<>>, NextMessage
    PROVE  \E f : Carries(f) /\ ~InLaunch(f)
<1>1. PICK f : f = [Top EXCEPT !.at = "loop", !.batch = Tail(@), !.next = None, !.locked = FALSE]
  OBVIOUS
<1>2. SetTop(f) /\ f.at = "loop" /\ f.loop = Top.loop /\ f.breaking = Top.breaking /\ f.batch = Tail(Top.batch)
  BY <1>1 DEF NextMessage, FrameType
<1>3. Carries(f) /\ ~InLaunch(f)
  BY <1>2 DEF Carries, InLaunch
<1>4. QED
  BY <1>3

\* Another label for the message in hand.
LEMMA GotoCarries ==
    ASSUME Top \in FrameType, NEW label \in FrameSteps \ {"launch", "check"}, Goto(label)
    PROVE  \E f : Carries(f) /\ ~InLaunch(f)
  BY DEF Goto, FrameType, Carries, InLaunch

LEMMA Pop_Cover ==
    ASSUME Typed, Typed', ControlInv, OrderInv, CoverInv, Pop
    PROVE  CoverInv'
<1>1. frames # <<>> /\ Top.at = "dispatch" /\ UNCHANGED <<users, target, worker, wait, glQueue>>
  BY DEF Pop, MainAt, DispatchElsewhere, MainElsewhere
<1>2. Object \in Objects /\ Top \in FrameType
  BY <1>1, Dispatching
<1>3. \A q \in covered : Executing(q)' => Due(q)
  BY <1>1 DEF Due, Executing, InWorker
<1>4. PostedBreak' => Told
  BY <1>1 DEF PostedBreak, Told
<1>5. CASE Goto("clear") /\ UNCHANGED glActionQueues
  BY <1>2, <1>5, GotoCarries, Shortened, <1>1, <1>4, Steady_Cover DEF FrameSteps, wait
<1>6. CASE /\ SetTop([Top EXCEPT !.at = "launch", !.next = Head(glActionQueues[Object])])
           /\ glActionQueues[Object] # <<>>
           /\ glActionQueues' = [glActionQueues EXCEPT ![Object] = Tail(@)]
  <2>1. PICK f, o, s : /\ f = [Top EXCEPT !.at = "launch", !.next = Head(glActionQueues[Object])] /\ o = Object
                       /\ s = glActionQueues[o]
    OBVIOUS
  <2>2. s \in Seq(Requests) /\ s # <<>> /\ Sorted(s) /\ o \in Objects /\ Head(s) \in Range(s)
    BY <1>2, <1>6, <2>1 DEF Typed, TablesTyped, OrderInv, Range
  <2>3. Sorted(Tail(s)) /\ Range(Tail(s)) \subseteq Range(s)
    BY <2>2, SortedTail
  <2>4. glActionQueues'[o] = Tail(s) /\ \A x \in Objects : x # o => glActionQueues'[x] = glActionQueues[x]
    BY <1>2, <1>6, <2>1 DEF Typed, TablesTyped
  <2>5. Shorter
    BY <2>1, <2>3, <2>4 DEF Shorter, OrderInv
  <2>6. SetTop(f) /\ f.loop = Top.loop /\ f.breaking = Top.breaking /\ f.batch = Top.batch /\ f.next = Head(s)
    BY <1>2, <1>6, <2>1 DEF FrameType
  <2>7. Carries(f)
    BY <2>6 DEF Carries
  <2>8. (Breaks(f) => Told) /\ (f.loop = "events" => ~Breaks(f))
    BY <1>1, <2>7, CarriedBreaks
  <2>9. Due(f.next)
    BY <2>1, <2>2, <2>6 DEF Due
  <2>10. QED
    BY <1>1, <1>3, <1>4, <2>5, <2>6, <2>8, <2>9, Main_Cover DEF wait
<1>7. QED
  BY <1>5, <1>6 DEF Pop

LEMMA LaunchNext_Cover ==
    ASSUME Typed, Typed', ControlInv, OrderInv, CoverInv, LaunchNext
    PROVE  CoverInv'
<1>1. PICK r, o : r = Top.next /\ o = Object
  OBVIOUS
<1>2. /\ frames # <<>> /\ Top.at = "check" /\ worker' = [worker EXCEPT ![r] = "start"] /\ NextMessage
      /\ ReleaseObject(o) \/ UNCHANGED <<objects, tables, glQueue>>
      /\ UNCHANGED <<target, users, wait>>
  BY <1>1 DEF LaunchNext, MainAt, DispatchElsewhere, MainElsewhere
<1>3. r \in Requests /\ o \in Objects /\ Top \in FrameType /\ Top.batch # <<>>
  BY <1>1, <1>2, NextIn, Dispatching DEF InLaunch
<1>4. PICK f : Carries(f) /\ ~InLaunch(f)
  BY <1>2, <1>3, NextCarries
<1>5. (Breaks(f) => Told) /\ (f.loop = "events" => ~Breaks(f))
  BY <1>2, <1>4, CarriedBreaks
<1>6. Due(r)
  BY <1>1, <1>2, TopIs DEF Due, InLaunch, Levels
<1>7. \A q \in covered : Executing(q)' => Due(q)
  BY <1>6, <1>2, <1>3, Covers DEF Due, Typed, ThreadsTyped, Executing, InWorker
<1>8. Shorter
  BY <1>2, <1>3, Shortened
<1>9. PostedBreak' => Told
  BY <1>2, <1>3, FreedGoesOn DEF PostedBreak, Told
<1>10. QED
  BY <1>2, <1>4, <1>5, <1>7, <1>8, <1>9, Main_Cover DEF Carries, wait

\* What the other steps carry, and that they tell nobody.
LEMMA Callback_Carries ==
    ASSUME Typed, ControlInv, BeginCallback \/ EndCallback
    PROVE  frames # <<>> /\ (\E f : Carries(f) /\ ~InLaunch(f)) /\ (PostedBreak' => PostedBreak)
<1>1. frames # <<>> /\ Top \in FrameType /\ Top.batch # <<>>
  BY TopIs DEF BeginCallback, EndCallback, MainAt, FrameOK
<1>2. CASE BeginCallback
  <2>1. PostedBreak' => PostedBreak
    BY <1>2 DEF BeginCallback, PostedBreak
  <2>2. CASE Goto("callback")
    BY <1>1, <2>1, <2>2, GotoCarries DEF FrameSteps
  <2>3. CASE SetTop([Top EXCEPT !.at = "callback", !.locked = TRUE])
    <3>1. PICK f : f = [Top EXCEPT !.at = "callback", !.locked = TRUE]
      OBVIOUS
    <3>2. Carries(f) /\ ~InLaunch(f)
      BY <1>1, <2>3, <3>1 DEF Carries, InLaunch, FrameType
    <3>3. QED
      BY <1>1, <2>1, <3>2
  <2>4. QED
    BY <1>2, <2>2, <2>3 DEF BeginCallback
<1>3. CASE EndCallback
  <2>1. Object \in Objects
    BY <1>1, <1>3, TopIs, InHand DEF EndCallback, MainAt
  <2>2. PostedBreak' => PostedBreak
    BY <1>3, <2>1, FreedGoesOn DEF EndCallback
  <2>3. CASE NextMessage
    BY <1>1, <2>2, <2>3, NextCarries
  <2>4. CASE SetTop([Top EXCEPT !.at = "dispatch", !.locked = FALSE])
    <3>1. PICK f : f = [Top EXCEPT !.at = "dispatch", !.locked = FALSE]
      OBVIOUS
    <3>2. Carries(f) /\ ~InLaunch(f)
      BY <1>1, <2>4, <3>1 DEF Carries, InLaunch, FrameType
    <3>3. QED
      BY <1>1, <2>2, <3>2
  <2>5. QED
    BY <1>3, <2>3, <2>4 DEF EndCallback
<1>4. QED
  BY <1>2, <1>3

LEMMA Dispatch_Carries ==
    ASSUME Typed, ControlInv,
           StopDispatch \/ AccessForLaunch \/ DropQueue \/ RefuseLaunch \/ DrainQueue \/ ClearFlag \/ Notify \/ EndDispatch
    PROVE  /\ frames # <<>>
           /\ \E f : Carries(f) /\ (InLaunch(f) => InLaunch(Top) /\ f.next = Top.next)
<1>1. frames # <<>> /\ Top \in FrameType /\ Top.batch # <<>>
  BY Dispatching DEF StopDispatch, AccessForLaunch, DropQueue, RefuseLaunch, DrainQueue, ClearFlag, Notify, EndDispatch, MainAt
<1>2. CASE StopDispatch \/ RefuseLaunch
  BY <1>1, <1>2, GotoCarries DEF StopDispatch, RefuseLaunch, FrameSteps
<1>3. CASE DropQueue \/ EndDispatch
  BY <1>1, <1>3, NextCarries DEF DropQueue, EndDispatch
<1>4. CASE AccessForLaunch
  <2>1. PICK f : f = [Top EXCEPT !.at = "check", !.locked = (holder[Object] = None)]
    OBVIOUS
  <2>2. Carries(f) /\ f.next = Top.next /\ InLaunch(Top)
    BY <1>1, <1>4, <2>1 DEF AccessForLaunch, MainAt, Carries, InLaunch, FrameType
  <2>3. QED
    BY <1>1, <2>2
<1>5. CASE DrainQueue
  <2>1. PICK f : f = [Top EXCEPT !.at = "clear", !.drained = glActionQueues[Object]]
    OBVIOUS
  <2>2. Carries(f) /\ ~InLaunch(f)
    BY <1>1, <1>5, <2>1 DEF DrainQueue, Carries, InLaunch, FrameType
  <2>3. QED
    BY <1>1, <2>2
<1>6. CASE ClearFlag
  <2>1. PICK f : f = [Top EXCEPT !.at = "count", !.locked = @ \/ holder[Object] = None]
    OBVIOUS
  <2>2. CASE SetTop(f)
    <3>1. Carries(f) /\ ~InLaunch(f)
      BY <1>1, <2>1, <2>2 DEF Carries, InLaunch, FrameType
    <3>2. QED
      BY <1>1, <3>1
  <2>3. CASE Goto("notify")
    BY <1>1, <2>3, GotoCarries DEF FrameSteps
  <2>4. QED
    BY <1>6, <2>1, <2>2, <2>3 DEF ClearFlag
<1>7. CASE Notify
  <2>1. PICK f : f = [Top EXCEPT !.at = "unlock", !.drained = <<>>]
    OBVIOUS
  <2>2. Carries(f) /\ ~InLaunch(f)
    BY <1>1, <1>7, <2>1 DEF Notify, Carries, InLaunch, FrameType
  <2>3. QED
    BY <1>1, <2>2
<1>8. QED
  BY <1>2, <1>3, <1>4, <1>5, <1>6, <1>7

LEMMA Dispatch_GoesOn ==
    ASSUME Typed, ControlInv,
           StopDispatch \/ AccessForLaunch \/ DropQueue \/ RefuseLaunch \/ DrainQueue \/ ClearFlag \/ Notify \/ EndDispatch
    PROVE  PostedBreak' => PostedBreak
<1>1. CASE UNCHANGED glQueue
  BY <1>1 DEF PostedBreak
<1>2. CASE RefuseLaunch \/ DropQueue
  <2>1. frames # <<>> /\ Top.at \in {"launch", "check"}
    BY <1>2 DEF RefuseLaunch, DropQueue, MainAt
  <2>2. PICK r, o : r = Top.next /\ o = Object
    OBVIOUS
  <2>3. r \in Requests /\ o \in Objects
    BY <2>1, <2>2, NextIn, Dispatching DEF InLaunch
  <2>4. PICK q : q = glActionQueues[o] /\ q \in Seq(Requests)
    BY <2>3 DEF Typed, TablesTyped
  <2>5. NoBreak(<<Notice(r)>>) /\ NoBreak(<<Notice(r)>> \o Notices(q))
    BY <2>3, <2>4, NoticesGoOn, JoinGoesOn
  <2>6. SendMessages(<<Notice(r)>>) \/ SendMessages(<<Notice(r)>> \o Notices(q))
    BY <1>2, <2>2, <2>4 DEF RefuseLaunch, DropQueue, DropMessages
  <2>7. QED
    BY <2>5, <2>6, SentGoesOn
<1>3. CASE Notify
  BY <1>3, Dispatching, NoticesGoOn, SentGoesOn DEF Notify, MainAt, FrameType
<1>4. CASE EndDispatch
  BY <1>4, Dispatching, FreedGoesOn DEF EndDispatch, MainAt
<1>5. QED
  BY <1>1, <1>2, <1>3, <1>4 DEF StopDispatch, AccessForLaunch, DrainQueue, ClearFlag

LEMMA Callback_Cover ==
    ASSUME Typed, Typed', ControlInv, OrderInv, CoverInv, BeginCallback \/ EndCallback
    PROVE  CoverInv'
  BY Messages_Shorter, Callback_Carries, Steady_Cover DEF BeginCallback, EndCallback, MainElsewhere,
    PostedBreak, Told, wait

LEMMA Dispatch_Cover ==
    ASSUME Typed, Typed', ControlInv, OrderInv, CoverInv,
           StopDispatch \/ AccessForLaunch \/ DropQueue \/ RefuseLaunch \/ DrainQueue \/ ClearFlag \/ Notify \/ EndDispatch
    PROVE  CoverInv'
<1>1. UNCHANGED <<target, users, worker, wait>> /\ Shorter
  BY Dispatch_Shorter DEF StopDispatch, AccessForLaunch, DropQueue, RefuseLaunch, DrainQueue, ClearFlag, Notify,
                          EndDispatch, DispatchElsewhere, MainElsewhere
<1>2. frames # <<>> /\ (PostedBreak' => Told)
  BY Dispatch_Carries, Dispatch_GoesOn DEF PostedBreak, Told
<1>3. PICK f : Carries(f) /\ (InLaunch(f) => InLaunch(Top) /\ f.next = Top.next)
  BY Dispatch_Carries
<1>4. QED
  BY <1>1, <1>2, <1>3, Steady_Cover DEF wait

LEMMA Main_StepsCover ==
    ASSUME Typed, Typed', ControlInv, CallbackInv, ServeInv, OrderInv, LockInv, CounterInv, CoverInv, MainStep
    PROVE  CoverInv'
<1>1. CASE EventLoop \/ FetchBatch \/ BreakMessage \/ LeaveLoop
  BY <1>1, EventLoop_Cover, FetchBatch_Cover, BreakMessage_Cover, LeaveLoop_Cover
<1>2. CASE BeginCallback \/ EndCallback
  BY <1>2, Callback_Cover
<1>3. CASE Pop \/ LaunchNext \/ CountDown
  BY <1>3, Pop_Cover, LaunchNext_Cover, CountDown_Cover
<1>4. CASE StopDispatch \/ AccessForLaunch \/ DropQueue \/ RefuseLaunch \/ DrainQueue \/ ClearFlag \/ Notify \/ EndDispatch
  BY <1>4, Dispatch_Cover
<1>5. QED
  BY <1>1, <1>2, <1>3, <1>4 DEF MainStep

LEMMA Next_Cover ==
    ASSUME Typed, Typed', ControlInv, CallbackInv, ServeInv, OrderInv, LockInv, CounterInv, CoverInv, Next
    PROVE  CoverInv'
<1>1. ASSUME NEW r \in Requests, WorkerStep(r) PROVE CoverInv'
  BY <1>1, Worker_Cover
<1>2. CASE MainStep
  BY <1>2, Main_StepsCover
<1>3. ASSUME NEW u \in Users, UserStep(u) PROVE CoverInv'
  BY Launch_Cover, Cancel_Cover, OutsideSteps, Outside_Cover, <1>3 DEF UserStep
<1>4. ASSUME NEW u \in Users, NEW o \in Objects, AsyncAction(u, o) \/ AsyncCancel(u, o) \/ Hold(u, o) PROVE CoverInv'
  <2>1. CASE AsyncAction(u, o)
    BY <2>1, AsyncAction_Submits, Submits_Cover
  <2>2. QED
    BY <1>4, <2>1, Cancel_Cover, OutsideSteps, Outside_Cover
<1>5. ASSUME NEW targets \in SUBSET Objects, AsyncWait(targets) PROVE CoverInv'
  BY <1>5, AsyncWait_Cover
<1>6. CASE (\E o \in Objects : Free(o)) \/ StopTask \/ CloseSubmissions \/ JoinThreads
  BY <1>6, OutsideSteps, Outside_Cover
<1>7. QED
  BY <1>1, <1>2, <1>3, <1>4, <1>5, <1>6 DEF Next

----------------------------------------------------------------------------
(* The invariant of AsyncWait(): locks, workers, its counter, what it covers. *)

WaitInv == FreshInv /\ LockInv /\ CounterInv /\ CoverInv

LEMMA Init_Wait == ASSUME Init PROVE WaitInv
<1>1. frames = <<>> /\ DOMAIN frames = {} /\ glQueue = <<>> /\ DOMAIN glQueue = {}
  BY DEF Init
<1>2. Typed
  BY Init_Core DEF CoreInv
<1>3. FreshInv
  BY <1>1 DEF Init, FreshInv, Range
<1>4. LockInv
  BY <1>1 DEF Init, LockInv
<1>5. CounterInv
  BY <1>1, FS_EmptySet, <1>2, CountedIn DEF Init, Counted, Discounts, CounterInv
<1>6. CoverInv
  BY <1>1 DEF Told, Init, CoverInv
<1>7. QED
  BY <1>3, <1>4, <1>5, <1>6 DEF WaitInv

LEMMA Stutter_Wait ==
    ASSUME CoreInv, Typed', WaitInv, UNCHANGED vars
    PROVE  WaitInv'
<1>1. Outside
  BY DEF vars, Outside, Elsewhere
<1>2. Typed /\ ControlInv /\ CallbackInv /\ OrderInv /\ FreshInv /\ LockInv /\ CounterInv /\ CoverInv
  BY DEF CoreInv, WaitInv
<1>3. LockInv'
  BY <1>2 DEF vars, objects, threads, users, LockInv, Has
<1>4. FreshInv' /\ CoverInv'
  BY <1>1, <1>2, Still_Fresh, Outside_Cover
<1>5. CounterInv'
  <2>1. UNCHANGED <<glActiveAsyncObjects, glAsyncWaitTargets, worker, object, target, pc, job, frames, wait>>
    BY DEF vars, tables, objects, threads, users, wait
  <2>2. Counted' = Counted /\ Launched' = Launched
    BY <2>1 DEF Counted, Launched, Submitting, Launching, InLaunch
  <2>3. Discounts' <=> Discounts
    BY <2>1 DEF Discounts, Top, Object, Message
  <2>4. QED
    BY <1>2, <2>1, <2>2, <2>3, CountKept
<1>6. QED
  BY <1>3, <1>4, <1>5 DEF WaitInv

LEMMA Next_Wait == CoreInv /\ CoreInv' /\ WaitInv /\ [Next]_vars => WaitInv'
  BY Stutter_Wait, Next_Fresh, Next_Lock, Next_Count, Next_Cover DEF CoreInv, WaitInv

\* The invariant of AsyncWait() holds as well: nothing frees an object that a worker is about
\* to lock, the counter covers what is active of the targets, and the loop is told to break
\* only when nothing is left of what the wait covers (async_wait_callback() and AsyncWait()).
THEOREM WaitsAlways == Spec => [](CoreInv /\ WaitInv)
<1>1. Init => CoreInv /\ WaitInv
  BY Init_Core, Init_Wait
<1>2. CoreInv /\ WaitInv /\ [Next]_vars => (CoreInv /\ WaitInv)'
  BY Next_Core, Next_Wait
<1>3. QED
  BY <1>1, <1>2, PTL DEF Spec

LEMMA CounterBounds ==
    ASSUME Typed, CounterInv
    PROVE  glAsyncWaitCounter \in 0 .. Cardinality(Objects) + MaxRequests
<1>1. /\ Cardinality(Counted) \in Nat /\ Cardinality(Launched) \in Nat /\ Cardinality(glAsyncWaitTargets) \in Nat
      /\ glAsyncWaitCounter \in Int /\ Launched \subseteq Requests /\ glAsyncWaitTargets \subseteq Objects
  BY CountedIn
<1>2. MaxRequests \in Nat /\ Cardinality(Requests) = MaxRequests
  BY AsyncAssumption, FS_Interval DEF Requests
<1>3. Cardinality(glAsyncWaitTargets) <= Cardinality(Objects) /\ Cardinality(Launched) <= MaxRequests
  BY <1>1, <1>2, Fewer
<1>4. Cardinality(Objects) \in Nat
  BY FiniteCounts
<1>5. 0 <= glAsyncWaitCounter
  BY <1>1, CounterParts DEF CountsAll
<1>6. glAsyncWaitCounter <= Cardinality(glAsyncWaitTargets) + Cardinality(Launched)
  BY CounterParts DEF CountsFew
<1>7. QED
  BY <1>1, <1>2, <1>3, <1>4, <1>5, <1>6

LEMMA WaitTypes == CoreInv /\ WaitInv => AsyncInv
<1>1. SUFFICES ASSUME Typed, ControlInv, CounterInv PROVE AsyncInv
  BY DEF CoreInv, WaitInv
<1>2. \A o \in Objects : Range(glActionQueues[o]) \subseteq Requests
  BY <1>1, Waiters
<1>3. Range(glQueue) \subseteq Messages
  BY <1>1 DEF Typed, Range
<1>4. \A i \in DOMAIN frames : Range(frames[i].batch) \subseteq Messages
  BY <1>1, TopIs DEF FrameType, Range
<1>5. Len(frames) \in 0 .. 2
  <2>1. PICK n : n = Len(frames)
    OBVIOUS
  <2>2. n \in Nat /\ n <= 2
    BY <1>1, <2>1 DEF Typed, ControlInv, Nested
  <2>3. n \in 0 .. 2
    BY <2>2
  <2>4. QED
    BY <2>1, <2>3
<1>6. glAsyncWaitCounter \in 0 .. Cardinality(Objects) + MaxRequests
  BY <1>1, CounterBounds
<1>7. /\ glActiveAsyncObjects \subseteq Objects /\ glCancelledAsyncObjects \subseteq Objects
      /\ ASYNC_ACTIVE \subseteq Objects /\ STOPPING \subseteq Requests /\ glAsyncWaitTargets \subseteq Objects
  BY <1>1 DEF Typed, TablesTyped, ThreadsTyped, WaitTyped
<1>8. glAsyncWaiting \in BOOLEAN
  BY <1>1 DEF Typed, WaitTyped
<1>9. /\ glAsyncObjectThreads \in [Objects -> Requests \cup {None}]
      /\ object \in [Objects -> {"alive", "marked", "gone"}]
      /\ holder \in [Objects -> Requests \cup Users \cup {None}]
      /\ target \in [Requests -> Objects \cup {None}]
      /\ worker \in [Requests -> {"none", "start", "registered", "lock", "locked",
                          "action", "release", "send", "cleanup", "finished"}]
  BY <1>1 DEF Typed, ObjectsTyped, ThreadsTyped
<1>10. /\ state \in {"running", "stopping", "closed", "done"}
       /\ pc \in [Users -> {"idle", "submitting", "wake", "drain", "notify"}]
       /\ covered \subseteq Requests /\ doomed \subseteq Requests /\ callbacks \in [Requests -> Nat]
  BY <1>1 DEF Typed, WaitTyped, UsersTyped, HistoryTyped
<1>11. TypeOK
  BY <1>2, <1>3, <1>4, <1>5, <1>6, <1>7, <1>8, <1>9, <1>10 DEF TypeOK
<1>12. ShutdownQuiet
  BY <1>1 DEF ControlInv, Closing, ShutdownQuiet
<1>13. SnapshotComplete
  BY <1>1 DEF ControlInv, Closing, SnapshotComplete, glmActionQueue
<1>14. QED
  BY <1>11, <1>12, <1>13 DEF AsyncInv

\* Every variable keeps to its type, the counter of AsyncWait() included, which never falls
\* below zero, stop_async_actions() takes its set of workers with no request on its way to one,
\* and once it has returned no worker runs and nothing is queued or active (lib_objects.cpp).
THEOREM QuietAtTheEnd == Spec => []AsyncInv
  BY WaitsAlways, WaitTypes, PTL

\* AsyncWait() that is told that its objects are done returns with nothing left to execute of
\* what had been requested for them when it was called (AsyncWait(), async_wait_callback()).
THEOREM WaitIsOver == Spec => WaitCovers
<1>1. CoreInv /\ WaitInv =>
        [glAsyncWaiting /\ ~glAsyncWaiting' /\ Top.breaking =>
            \A o \in Objects : covered \cap Outstanding(o) = {}]_vars
  BY TopIs DEF CoreInv, WaitInv, ControlInv, Nested, Levels, Told, Breaks, CoverInv, Over
<1>2. QED
  BY <1>1, WaitsAlways, PTL DEF WaitCovers

=============================================================================
