---------------------------- MODULE Pool_proofs ----------------------------
(***************************************************************************)
(* Safety of the thread pools, for any number of threads and tasks and any *)
(* arguments of the constructors.                                          *)
(*                                                                         *)
(* First where tasks are (IInv), then what the counters of an elastic pool *)
(* are worth (Counted) and what follows from them about threads that leave *)
(* and threads that are not started (Served); last, what is over when the  *)
(* destructor has returned (Ended).                                        *)
(***************************************************************************)
EXTENDS Pool, FiniteSetTheorems, TLAPS

WorkerType == [pc : WorkerPCs, task : Tasks \cup {None}]
SubType == [pc : SubPCs, task : Tasks \cup {None}]

\* TypeOK, but for nidl >= 0, which needs the counters' invariant.
TypeA == /\ pool \in [elastic : BOOLEAN, capacity : Nat \ {0}]
         /\ queue \in Seq(Tasks) /\ Len(queue) <= pool.capacity
         /\ closed \in BOOLEAN
         /\ worker \in [Workers -> WorkerType]
         /\ sub \in [Threads -> SubType]
         /\ nth \in Int /\ nidl \in Int /\ ndet \in Int
         /\ life \in {"open", "closed", "waiting", "down"}
         /\ fate \in [Tasks -> {"new", "submitted", "done", "refused"}]
         /\ hung \in BOOLEAN /\ raced \in BOOLEAN
         /\ pool \in Pools

\* Who has a task, and what a threadpool never does.
Shape == /\ \A w \in Workers : worker[w].task \in Tasks <=> worker[w].pc \in {"got", "run"}
         /\ \A th \in Threads : sub[th].task \in Tasks <=> sub[th].pc \in {"full", "retry"}
         /\ \A w \in Workers : sub[w].pc # "none" => worker[w].pc = "run"
         /\ ~pool.elastic =>
              /\ nidl = 0
              /\ \A w \in Workers : worker[w].pc \in {"none", "dequeue", "wait", "run"}
              /\ \A th \in Threads : sub[th].pc \in {"none", "full", "retry"}

IInv == TypeA /\ Shape /\ OnePlace

----------------------------------------------------------------------------
\* What a step of one thread does to worker and sub.

LEMMA MoveW ==
    ASSUME worker \in [Workers -> WorkerType], NEW w \in Workers, NEW l \in WorkerPCs, GotoW(w, l)
    PROVE  /\ worker' \in [Workers -> WorkerType]
           /\ worker'[w].pc = l /\ worker'[w].task = worker[w].task
           /\ \A x \in Workers : x # w => worker'[x] = worker[x]
           /\ \A x \in Workers : worker'[x].task = worker[x].task
<1> DEFINE r == [worker[w] EXCEPT !.pc = l]
<1>1. r \in WorkerType /\ r.pc = l /\ r.task = worker[w].task
  BY DEF WorkerType
<1>2. worker' = [worker EXCEPT ![w] = r]
  BY DEF GotoW
<1> HIDE DEF r
<1>3. worker' \in [Workers -> WorkerType] /\ worker'[w] = r /\ \A x \in Workers : x # w => worker'[x] = worker[x]
  BY <1>1, <1>2
<1> QED
  BY <1>1, <1>3, Zenon

LEMMA SetW ==
    ASSUME worker \in [Workers -> WorkerType], NEW w \in Workers, NEW l \in WorkerPCs,
           NEW t \in Tasks \cup {None},
           worker' = [worker EXCEPT ![w] = [pc |-> l, task |-> t]]
    PROVE  /\ worker' \in [Workers -> WorkerType]
           /\ worker'[w].pc = l /\ worker'[w].task = t
           /\ \A x \in Workers : x # w => worker'[x] = worker[x]
<1> DEFINE r == [pc |-> l, task |-> t]
<1>1. r \in WorkerType /\ r.pc = l /\ r.task = t
  BY DEF WorkerType
<1> HIDE DEF r
<1>2. worker' = [worker EXCEPT ![w] = r]
  BY DEF r
<1>3. worker' \in [Workers -> WorkerType] /\ worker'[w] = r /\ \A x \in Workers : x # w => worker'[x] = worker[x]
  BY <1>1, <1>2
<1> QED
  BY <1>1, <1>3, Zenon

LEMMA SetS ==
    ASSUME sub \in [Threads -> SubType], NEW th \in Threads, NEW l \in SubPCs,
           NEW t \in Tasks \cup {None},
           sub' = [sub EXCEPT ![th] = [pc |-> l, task |-> t]]
    PROVE  /\ sub' \in [Threads -> SubType]
           /\ sub'[th].pc = l /\ sub'[th].task = t
           /\ \A x \in Threads : x # th => sub'[x] = sub[x]
<1> DEFINE r == [pc |-> l, task |-> t]
<1>1. r \in SubType /\ r.pc = l /\ r.task = t
  BY DEF SubType
<1> HIDE DEF r
<1>2. sub' = [sub EXCEPT ![th] = r]
  BY DEF r
<1>3. sub' \in [Threads -> SubType] /\ sub'[th] = r /\ \A x \in Threads : x # th => sub'[x] = sub[x]
  BY <1>1, <1>2
<1> QED
  BY <1>1, <1>3, Zenon

LEMMA MoveS ==
    ASSUME sub \in [Threads -> SubType], NEW th \in Threads, NEW l \in SubPCs, GotoS(th, l)
    PROVE  /\ sub' \in [Threads -> SubType]
           /\ sub'[th].pc = l /\ sub'[th].task = None
           /\ \A x \in Threads : x # th => sub'[x] = sub[x]
BY SetS DEF GotoS, At

\* A waiting submit is woken: only its place changes.
LEMMA WakeS ==
    ASSUME sub \in [Threads -> SubType], NEW th \in Threads, sub' = [sub EXCEPT ![th].pc = "retry"]
    PROVE  /\ sub' \in [Threads -> SubType]
           /\ sub'[th].pc = "retry" /\ sub'[th].task = sub[th].task
           /\ \A x \in Threads : x # th => sub'[x] = sub[x]
           /\ \A x \in Threads : sub'[x].task = sub[x].task
<1> DEFINE r == [sub[th] EXCEPT !.pc = "retry"]
<1>1. r \in SubType /\ r.pc = "retry" /\ r.task = sub[th].task
  BY DEF SubType, SubPCs
<1>2. sub' = [sub EXCEPT ![th] = r]
  OBVIOUS
<1> HIDE DEF r
<1>3. sub' \in [Threads -> SubType] /\ sub'[th] = r /\ \A x \in Threads : x # th => sub'[x] = sub[x]
  BY <1>1, <1>2
<1> QED
  BY <1>1, <1>3, Zenon

\* notify_one of either condition variable changes at most one place.
LEMMA NotifyD ==
    ASSUME worker \in [Workers -> WorkerType], notify_dequeue
    PROVE  /\ worker' \in [Workers -> WorkerType]
           /\ \A x \in Workers : worker'[x].task = worker[x].task
           /\ \A x \in Workers : \/ worker'[x] = worker[x]
                                 \/ worker[x].pc = "wait" /\ worker'[x].pc = "dequeue"
<1>1. CASE Waiting = {}
  BY <1>1, Zenon DEF notify_dequeue
<1>2. CASE Waiting # {}
  <2>1. PICK w \in Waiting : GotoW(w, "dequeue")
    BY <1>2 DEF notify_dequeue
  <2>2. w \in Workers /\ worker[w].pc = "wait" /\ "dequeue" \in WorkerPCs
    BY DEF Waiting, WorkerPCs
  <2>3. /\ worker' \in [Workers -> WorkerType]
        /\ worker'[w].pc = "dequeue"
        /\ \A x \in Workers : x # w => worker'[x] = worker[x]
        /\ \A x \in Workers : worker'[x].task = worker[x].task
    BY <2>1, <2>2, MoveW
  <2> QED
    BY <2>2, <2>3, Zenon
<1> QED
  BY <1>1, <1>2, Zenon

LEMMA NotifyE ==
    ASSUME sub \in [Threads -> SubType], notify_enqueue
    PROVE  /\ sub' \in [Threads -> SubType]
           /\ \A x \in Threads : sub'[x].task = sub[x].task
           /\ \A x \in Threads : \/ sub'[x] = sub[x]
                                 \/ sub[x].pc = "full" /\ sub'[x].pc = "retry"
<1>1. CASE Blocked = {}
  BY <1>1, Zenon DEF notify_enqueue
<1>2. CASE Blocked # {}
  <2>1. PICK th \in Blocked : sub' = [sub EXCEPT ![th].pc = "retry"]
    BY <1>2 DEF notify_enqueue
  <2>2. th \in Threads /\ sub[th].pc = "full"
    BY DEF Blocked
  <2>3. /\ sub' \in [Threads -> SubType]
        /\ sub'[th].pc = "retry"
        /\ \A x \in Threads : x # th => sub'[x] = sub[x]
        /\ \A x \in Threads : sub'[x].task = sub[x].task
    BY <2>1, <2>2, WakeS
  <2> QED
    BY <2>2, <2>3, Zenon
<1> QED
  BY <1>1, <1>2, Zenon

----------------------------------------------------------------------------
\* Where tasks are.

\* Nothing moves.
LEMMA NothingMoves ==
    ASSUME OnePlace, UNCHANGED <<queue, fate>>,
           \A w \in Workers : worker'[w].task = worker[w].task,
           \A th \in Threads : sub'[th].task = sub[th].task
    PROVE  OnePlace'
<1>1. \A t : HeldBy(t)' = HeldBy(t) /\ OfferedBy(t)' = OfferedBy(t)
  BY DEF HeldBy, OfferedBy
<1>2. \A t : Queued(t)' <=> Queued(t)
  BY DEF Queued
<1> QED
  BY <1>1, <1>2, Zenon DEF OnePlace

LEMMA InitIInv == Init => IInv
<1> SUFFICES ASSUME Init PROVE IInv
  OBVIOUS
<1>1. pool \in [elastic : BOOLEAN, capacity : Nat \ {0}]
  BY PoolAssumption DEF Init
<1>2. \A l \in {"none", "dequeue"} : At(l) \in WorkerType /\ At(l).pc = l /\ At(l).task = None
  BY DEF At, WorkerType, WorkerPCs
<1>3. At("none") \in SubType /\ At("none").pc = "none" /\ At("none").task = None
  BY DEF At, SubType, SubPCs
<1>4. \A w \in Workers : worker[w] = At(IF pool.elastic THEN "none" ELSE "dequeue")
  BY DEF Init
<1>5. \A w \in Workers : /\ worker[w] \in WorkerType /\ worker[w].task = None
                         /\ worker[w].pc = IF pool.elastic THEN "none" ELSE "dequeue"
  BY <1>2, <1>4, Zenon
<1>6. worker \in [Workers -> WorkerType]
  BY <1>5, Zenon DEF Init
<1>7. \A th \in Threads : sub[th] = At("none")
  BY DEF Init
<1>8. sub \in [Threads -> SubType]
  BY <1>3, Zenon DEF Init
<1>9. queue \in Seq(Tasks) /\ Len(queue) = 0 /\ Len(queue) <= pool.capacity
  BY <1>1 DEF Init
<1>10. TypeA
  <2>1. /\ pool \in Pools /\ closed = FALSE /\ nth = 0 /\ nidl = 0 /\ ndet = 0
        /\ life = "open" /\ hung = FALSE /\ raced = FALSE
    BY DEF Init
  <2>2. fate \in [Tasks -> {"new", "submitted", "done", "refused"}]
    BY DEF Init
  <2>3. nth \in Int /\ nidl \in Int /\ ndet \in Int
    BY <2>1
  <2> QED
    BY <1>1, <1>6, <1>8, <1>9, <2>1, <2>2, <2>3, Zenon DEF TypeA
<1>11. Shape
  <2>1. \A th \in Threads : sub[th].pc = "none" /\ sub[th].task = None
    BY <1>3, <1>7, Zenon
  <2>2. \A w \in Workers : sub[w].pc = "none"
    BY <2>1 DEF Threads
  <2>3. \A w \in Workers : worker[w].task = None /\ worker[w].pc \in {"none", "dequeue"}
    BY <1>5
  <2>4. nidl = 0
    BY DEF Init
  <2> QED
    BY <2>1, <2>2, <2>3, <2>4, TaskAssumption DEF Shape
<1>12. OnePlace
  <2>1. \A t \in Tasks : HeldBy(t) = {} /\ OfferedBy(t) = {}
    BY <1>3, <1>5, <1>7, TaskAssumption DEF HeldBy, OfferedBy
  <2>2. \A t \in Tasks : ~Queued(t) /\ fate[t] = "new"
    BY <1>9 DEF Queued, Init
  <2> QED
    BY <1>9, <2>1, <2>2 DEF OnePlace
<1> QED
  BY <1>10, <1>11, <1>12 DEF IInv

----------------------------------------------------------------------------
\* Steps that move no task.

\* The types of the variables that most steps leave alone.
Frame == /\ UNCHANGED <<pool, queue, fate>>
         /\ closed' \in BOOLEAN /\ hung' \in BOOLEAN /\ raced' \in BOOLEAN
         /\ nth' \in Int /\ nidl' \in Int /\ ndet' \in Int
         /\ life' \in {"open", "closed", "waiting", "down"}

\* A thread of the pool moves on.
LEMMA WorkerMoves ==
    ASSUME IInv, Frame, UNCHANGED sub, NEW w \in Workers, NEW l \in WorkerPCs, GotoW(w, l),
           worker[w].pc \in {"got", "run"} <=> l \in {"got", "run"},
           l # "run" => sub[w].pc = "none",
           ~pool.elastic => l \in {"none", "dequeue", "wait", "run"} /\ nidl' = nidl
    PROVE  IInv'
<1>1. TypeA /\ Shape /\ OnePlace /\ worker \in [Workers -> WorkerType]
  BY DEF IInv, TypeA
<1>2. /\ worker' \in [Workers -> WorkerType]
      /\ worker'[w].pc = l /\ worker'[w].task = worker[w].task
      /\ \A x \in Workers : x # w => worker'[x] = worker[x]
      /\ \A x \in Workers : worker'[x].task = worker[x].task
  BY <1>1, MoveW
<1>3. OnePlace'
  BY <1>1, <1>2, NothingMoves DEF Frame
<1>4. TypeA'
  BY <1>1, <1>2, Zenon DEF TypeA, Frame
<1>5. \A x \in Workers : worker'[x].task \in Tasks <=> worker'[x].pc \in {"got", "run"}
  BY <1>1, <1>2, Zenon DEF Shape
<1>6. \A x \in Workers : sub'[x].pc # "none" => worker'[x].pc = "run"
  BY <1>1, <1>2, Zenon DEF Shape
<1>7. ~pool'.elastic => /\ nidl' = 0
                        /\ \A x \in Workers : worker'[x].pc \in {"none", "dequeue", "wait", "run"}
  BY <1>1, <1>2, Zenon DEF Shape, Frame
<1>8. Shape'
  BY <1>1, <1>5, <1>6, <1>7, Zenon DEF Shape, Frame
<1> QED
  BY <1>3, <1>4, <1>8 DEF IInv

\* A thread moves on in submit, after the enqueue.
LEMMA SubmitMoves ==
    ASSUME IInv, Frame, UNCHANGED worker, NEW th \in Threads, NEW l \in SubPCs, GotoS(th, l),
           sub[th].pc \in {"anyidle", "anyroom", "start", "count", "number", "check"},
           l \notin {"full", "retry"}, nidl' = nidl
    PROVE  IInv'
<1>1. TypeA /\ Shape /\ OnePlace /\ sub \in [Threads -> SubType]
  BY DEF IInv, TypeA
<1>2. /\ sub' \in [Threads -> SubType]
      /\ sub'[th].pc = l /\ sub'[th].task = None
      /\ \A x \in Threads : x # th => sub'[x] = sub[x]
  BY <1>1, MoveS
<1>3. sub[th].task = None /\ pool.elastic = TRUE
  <2>1. sub[th].pc \notin {"none", "full", "retry"} /\ sub[th].task \in Tasks \cup {None}
    BY <1>1 DEF SubType
  <2>2. pool.elastic \in BOOLEAN
    BY <1>1 DEF TypeA
  <2> QED
    BY <1>1, <2>1, <2>2 DEF Shape
<1>4. OnePlace'
  <2>1. \A x \in Threads : sub'[x].task = sub[x].task
    BY <1>2, <1>3, Zenon
  <2> QED
    BY <1>1, <2>1, NothingMoves DEF Frame
<1>5. TypeA'
  BY <1>1, <1>2, Zenon DEF TypeA, Frame
<1>6. \A x \in Threads : sub'[x].task \in Tasks <=> sub'[x].pc \in {"full", "retry"}
  BY <1>1, <1>2, TaskAssumption, Zenon DEF Shape
<1>7. \A x \in Workers : sub'[x].pc # "none" => worker'[x].pc = "run"
  <2>1. \A x \in Workers : x \in Threads
    BY DEF Threads
  <2>2. th \in Workers => worker[th].pc = "run"
    BY <1>1, Zenon DEF Shape
  <2> QED
    BY <1>1, <1>2, <2>1, <2>2, Zenon DEF Shape
<1>8. Shape'
  BY <1>1, <1>3, <1>6, <1>7, Zenon DEF Shape, Frame
<1> QED
  BY <1>4, <1>5, <1>8 DEF IInv

----------------------------------------------------------------------------
\* Steps that move a task.

Distinct == \A j, k \in 1 .. Len(queue) : queue[j] = queue[k] => j = k

OneTask(t) ==
    /\ fate[t] = "submitted" <=> Queued(t) \/ HeldBy(t) # {} \/ OfferedBy(t) # {}
    /\ Queued(t) => HeldBy(t) = {} /\ OfferedBy(t) = {}
    /\ HeldBy(t) # {} => OfferedBy(t) = {}
    /\ \A w, x \in HeldBy(t) : w = x
    /\ \A th, x \in OfferedBy(t) : th = x

LEMMA OnePlaceSplit == OnePlace <=> Distinct /\ \A t \in Tasks : OneTask(t)
BY Zenon DEF OnePlace, Distinct, OneTask

\* A task that the step is not about.
LEMMA OtherTask ==
    ASSUME NEW u, OneTask(u), fate'[u] = fate[u], Queued(u)' <=> Queued(u),
           HeldBy(u)' = HeldBy(u), OfferedBy(u)' = OfferedBy(u)
    PROVE  OneTask(u)'
BY Zenon DEF OneTask

\* Lists.
LEMMA Appended ==
    ASSUME queue \in Seq(Tasks), NEW t \in Tasks, ~Queued(t), Distinct, queue' = Append(queue, t)
    PROVE  /\ queue' \in Seq(Tasks) /\ Len(queue') = Len(queue) + 1
           /\ Distinct' /\ Queued(t)'
           /\ \A u : u # t => (Queued(u)' <=> Queued(u))
<1>1. Len(queue') = Len(queue) + 1 /\ Len(queue) \in Nat /\ queue' \in Seq(Tasks)
  OBVIOUS
<1>2. /\ \A k \in 1 .. Len(queue) : queue'[k] = queue[k]
      /\ queue'[Len(queue) + 1] = t
      /\ \A k \in 1 .. Len(queue) : queue[k] # t
  BY DEF Queued
<1>3. \A k : k \in 1 .. Len(queue') <=> k \in 1 .. Len(queue) \/ k = Len(queue) + 1
  BY <1>1
<1>4. Distinct'
  <2> SUFFICES ASSUME NEW j \in 1 .. Len(queue'), NEW k \in 1 .. Len(queue'), queue'[j] = queue'[k]
               PROVE  j = k
    BY DEF Distinct
  <2> QED
    BY <1>2, <1>3 DEF Distinct
<1>5. Queued(t)'
  BY <1>2, <1>3, Zenon DEF Queued
<1>6. \A u : u # t => (Queued(u)' <=> Queued(u))
  BY <1>2, <1>3, Zenon DEF Queued
<1> QED
  BY <1>1, <1>4, <1>5, <1>6, Zenon

LEMMA Popped ==
    ASSUME queue \in Seq(Tasks), queue # <<>>, Distinct, queue' = Tail(queue), NEW t, t = Head(queue)
    PROVE  /\ queue' \in Seq(Tasks) /\ Len(queue') <= Len(queue)
           /\ t \in Tasks /\ Queued(t)
           /\ Distinct' /\ ~Queued(t)'
           /\ \A u : u # t => (Queued(u)' <=> Queued(u))
<1>1. /\ Len(queue) \in Nat /\ Len(queue) >= 1 /\ Len(queue') = Len(queue) - 1
      /\ queue' \in Seq(Tasks) /\ t = queue[1] /\ t \in Tasks
  OBVIOUS
<1>2. \A k \in 1 .. Len(queue') : queue'[k] = queue[k + 1] /\ k + 1 \in 1 .. Len(queue)
  BY <1>1
<1>3. \A k \in 1 .. Len(queue) : k = 1 \/ \E j \in 1 .. Len(queue') : queue'[j] = queue[k]
  <2> SUFFICES ASSUME NEW k \in 1 .. Len(queue), k # 1
               PROVE  \E j \in 1 .. Len(queue') : queue'[j] = queue[k]
    OBVIOUS
  <2>1. PICK j \in 1 .. Len(queue') : j + 1 = k
    <3>1. k - 1 \in 1 .. Len(queue') /\ k - 1 + 1 = k
      BY <1>1
    <3> QED
      BY <3>1, Zenon
  <2> QED
    BY <1>2, <2>1, Zenon
<1>4. 1 \in 1 .. Len(queue)
  BY <1>1
<1>5. Distinct'
  <2> SUFFICES ASSUME NEW j \in 1 .. Len(queue'), NEW k \in 1 .. Len(queue'), queue'[j] = queue'[k]
               PROVE  j = k
    BY DEF Distinct
  <2>1. j + 1 = k + 1
    BY <1>2 DEF Distinct
  <2> QED
    BY <1>1, <2>1
<1>6. ~Queued(t)'
  <2> SUFFICES ASSUME NEW k \in 1 .. Len(queue'), queue'[k] = queue[1] PROVE FALSE
    BY <1>1 DEF Queued
  <2>1. k + 1 = 1
    BY <1>2, <1>4 DEF Distinct
  <2> QED
    BY <1>1, <2>1
<1>7. \A u : u # t => (Queued(u)' <=> Queued(u))
  <2> SUFFICES ASSUME NEW u, u # t PROVE Queued(u)' <=> Queued(u)
    OBVIOUS
  <2>1. ASSUME NEW k \in 1 .. Len(queue'), queue'[k] = u PROVE Queued(u)
    BY <1>2, <2>1, Zenon DEF Queued
  <2>2. ASSUME NEW k \in 1 .. Len(queue), queue[k] = u PROVE Queued(u)'
    BY <1>1, <1>3, <2>2, Zenon DEF Queued
  <2> QED
    BY <2>1, <2>2, Zenon DEF Queued
<1>8. Queued(t)
  BY <1>1, <1>4, Zenon DEF Queued
<1>9. Len(queue') <= Len(queue)
  BY <1>1
<1> QED
  BY <1>1, <1>5, <1>6, <1>7, <1>8, <1>9, Zenon

\* enqueue of a task that nobody else has.
LEMMA EnqueueIInv ==
    ASSUME IInv, NEW th \in Threads, NEW t \in Tasks, enqueue(th, t),
           UNCHANGED <<pool, closed, counters, life, history>>,
           ~Queued(t), HeldBy(t) = {}, OfferedBy(t) \subseteq {th}, sub[th].task \in {t, None},
           th \in Workers => worker[th].pc = "run"
    PROVE  IInv'
<1>1. TypeA /\ Shape /\ OnePlace /\ sub \in [Threads -> SubType] /\ worker \in [Workers -> WorkerType]
  BY DEF IInv, TypeA
<1>2. Distinct /\ \A u \in Tasks : OneTask(u)
  BY <1>1, OnePlaceSplit
<1>3. /\ sub' \in [Threads -> SubType] /\ sub'[th].task \in {t, None}
      /\ sub'[th].task \in Tasks <=> sub'[th].pc \in {"full", "retry"}
      /\ ~pool.elastic => sub'[th].pc \in {"none", "full", "retry"}
      /\ \A x \in Threads : x # th => sub'[x] = sub[x]
  <2>1. CASE GotoS(th, "none")
    BY <1>1, <2>1, MoveS, TaskAssumption DEF SubPCs
  <2>2. CASE sub' = [sub EXCEPT ![th] = [pc |-> "full", task |-> t]]
    BY <1>1, <2>2, SetS DEF SubPCs
  <2>3. CASE pool.elastic = TRUE /\ GotoS(th, "anyidle")
    BY <1>1, <2>3, MoveS, TaskAssumption DEF SubPCs
  <2>4. pool.elastic \in BOOLEAN
    BY <1>1 DEF TypeA
  <2> QED
    BY <2>1, <2>2, <2>3, <2>4 DEF enqueue
<1>4. /\ worker' \in [Workers -> WorkerType]
      /\ \A x \in Workers : worker'[x].task = worker[x].task
      /\ \A x \in Workers : \/ worker'[x] = worker[x]
                            \/ worker[x].pc = "wait" /\ worker'[x].pc = "dequeue"
  <2>1. CASE UNCHANGED worker
    BY <1>1, <2>1, Zenon
  <2>2. CASE notify_dequeue
    BY <1>1, <2>2, NotifyD
  <2> QED
    BY <2>1, <2>2 DEF enqueue
<1>5. \A u : HeldBy(u)' = HeldBy(u)
  BY <1>4 DEF HeldBy
<1>6. \A u \in Tasks : u # t => OfferedBy(u)' = OfferedBy(u)
  BY <1>3, TaskAssumption DEF OfferedBy
<1>7. OfferedBy(t)' = IF sub'[th].task = t THEN {th} ELSE {}
  BY <1>3 DEF OfferedBy
<1>8. /\ fate' \in [Tasks -> {"new", "submitted", "done", "refused"}]
      /\ \A u \in Tasks : u # t => fate'[u] = fate[u]
  BY <1>1 DEF enqueue, TypeA
<1>9. /\ queue' \in Seq(Tasks) /\ Len(queue') <= pool'.capacity
      /\ Distinct'
      /\ \A u : u # t => (Queued(u)' <=> Queued(u))
      /\ OneTask(t)'
  <2>1. fate \in [Tasks -> {"new", "submitted", "done", "refused"}] /\ queue \in Seq(Tasks)
        /\ Len(queue) <= pool.capacity /\ pool.capacity \in Nat /\ pool' = pool
    BY <1>1 DEF TypeA
  <2>2. CASE GotoS(th, "none") /\ fate' = [fate EXCEPT ![t] = "refused"] /\ UNCHANGED queue
    <3>1. sub'[th].task = None /\ fate'[t] = "refused"
      BY <1>1, <2>1, <2>2, MoveS DEF SubPCs
    <3>2. (\A u : Queued(u)' <=> Queued(u)) /\ Distinct'
      BY <1>2, <2>2 DEF Queued, Distinct
    <3>3. OfferedBy(t)' = {}
      BY <1>7, <3>1, TaskAssumption
    <3>4. OneTask(t)'
      BY <1>5, <3>1, <3>2, <3>3 DEF OneTask
    <3> QED
      BY <2>1, <2>2, <3>2, <3>4, Zenon
  <2>3. CASE /\ sub' = [sub EXCEPT ![th] = [pc |-> "full", task |-> t]]
             /\ fate' = [fate EXCEPT ![t] = "submitted"] /\ UNCHANGED queue
    <3>1. sub'[th].task = t /\ fate'[t] = "submitted"
      BY <1>1, <2>1, <2>3, SetS DEF SubPCs
    <3>2. (\A u : Queued(u)' <=> Queued(u)) /\ Distinct'
      BY <1>2, <2>3 DEF Queued, Distinct
    <3>3. OfferedBy(t)' = {th}
      BY <1>7, <3>1
    <3>4. OneTask(t)'
      BY <1>5, <3>1, <3>2, <3>3 DEF OneTask
    <3> QED
      BY <2>1, <2>3, <3>2, <3>4, Zenon
  <2>4. CASE /\ ~Full /\ queue' = Append(queue, t)
             /\ fate' = [fate EXCEPT ![t] = "submitted"]
             /\ GotoS(th, IF pool.elastic THEN "anyidle" ELSE "none")
    <3>1. sub'[th].task = None /\ fate'[t] = "submitted"
      BY <1>1, <2>1, <2>4, MoveS DEF SubPCs
    <3>2. /\ queue' \in Seq(Tasks) /\ Len(queue') = Len(queue) + 1
          /\ Distinct' /\ Queued(t)'
          /\ \A u : u # t => (Queued(u)' <=> Queued(u))
      BY <1>2, <2>1, <2>4, Appended
    <3>3. OfferedBy(t)' = {}
      BY <1>7, <3>1, TaskAssumption
    <3>4. OneTask(t)'
      BY <1>5, <3>1, <3>2, <3>3 DEF OneTask
    <3>5. Len(queue') <= pool'.capacity
      BY <2>1, <2>4, <3>2 DEF Full
    <3> QED
      BY <3>2, <3>4, <3>5, Zenon
  <2> QED
    BY <2>2, <2>3, <2>4 DEF enqueue
<1>10. OnePlace'
  <2>1. \A u \in Tasks : OneTask(u)'
    <3> TAKE u \in Tasks
    <3>1. u # t => /\ OneTask(u) /\ fate'[u] = fate[u] /\ (Queued(u)' <=> Queued(u))
                   /\ HeldBy(u)' = HeldBy(u) /\ OfferedBy(u)' = OfferedBy(u)
      BY <1>2, <1>5, <1>6, <1>8, <1>9, Zenon
    <3>2. u # t => OneTask(u)'
      BY <3>1, OtherTask
    <3> QED
      BY <1>9, <3>2
  <2> QED
    BY <1>9, <2>1, Zenon DEF OnePlace, Distinct, OneTask
<1>11. TypeA'
  <2>1. UNCHANGED <<pool, closed, nth, nidl, ndet, life, hung, raced>>
    BY DEF counters, history
  <2> QED
    BY <1>1, <1>3, <1>4, <1>8, <1>9, <2>1, Zenon DEF TypeA
<1>12. Shape'
  <2>1. \A x \in Workers : worker'[x].task \in Tasks <=> worker'[x].pc \in {"got", "run"}
    <3> TAKE x \in Workers
    <3>1. "wait" \notin {"got", "run"} /\ "dequeue" \notin {"got", "run"}
      OBVIOUS
    <3> QED
      BY <1>1, <1>4, <3>1, Zenon DEF Shape
  <2>2. \A x \in Threads : sub'[x].task \in Tasks <=> sub'[x].pc \in {"full", "retry"}
    BY <1>1, <1>3, Zenon DEF Shape
  <2>3. \A x \in Workers : worker[x].pc = "run" => worker'[x].pc = "run"
    BY <1>4
  <2>4. \A x \in Workers : sub'[x].pc # "none" => worker'[x].pc = "run"
    <3>1. \A x \in Workers : x \in Threads
      BY DEF Threads
    <3> QED
      BY <1>1, <1>3, <2>3, <3>1, Zenon DEF Shape
  <2>5. ~pool.elastic => \A x \in Workers : worker'[x].pc \in {"none", "dequeue", "wait", "run"}
    BY <1>1, <1>4 DEF Shape
  <2>6. ~pool.elastic => \A x \in Threads : sub'[x].pc \in {"none", "full", "retry"}
    BY <1>1, <1>3, Zenon DEF Shape
  <2>7. UNCHANGED <<pool, nidl>>
    BY DEF counters
  <2> QED
    BY <1>1, <2>1, <2>2, <2>4, <2>5, <2>6, <2>7, Zenon DEF Shape
<1> QED
  BY <1>10, <1>11, <1>12 DEF IInv

LEMMA SubmitIInv ==
    ASSUME IInv, NEW th \in Threads, Submit(th)
    PROVE  IInv'
<1>1. TypeA /\ Shape /\ OnePlace /\ sub \in [Threads -> SubType]
  BY DEF IInv, TypeA
<1>2. \A u \in Tasks : OneTask(u)
  BY <1>1, OnePlaceSplit
<1>3. UNCHANGED <<pool, closed, counters, life, history>>
  BY DEF Submit
<1>4. CASE MaySubmit(th) /\ \E t \in Tasks : fate[t] = "new" /\ enqueue(th, t)
  <2>1. PICK t \in Tasks : fate[t] = "new" /\ enqueue(th, t)
    BY <1>4
  <2>2. ~Queued(t) /\ HeldBy(t) = {} /\ OfferedBy(t) = {}
    BY <1>2, <2>1 DEF OneTask
  <2>3. sub[th].task \in {t, None}
    BY <1>1, <1>4 DEF MaySubmit, Shape, SubType
  <2>4. th \in Workers => worker[th].pc = "run"
    BY <1>4, ThreadAssumption DEF MaySubmit
  <2>5. OfferedBy(t) \subseteq {th}
    BY <2>2
  <2> QED
    BY <1>3, <2>1, <2>2, <2>3, <2>4, <2>5, EnqueueIInv
<1>5. CASE sub[th].pc = "retry" /\ enqueue(th, sub[th].task)
  <2> DEFINE t == sub[th].task
  <2>1. t \in Tasks /\ enqueue(th, t)
    BY <1>1, <1>5 DEF Shape
  <2>2. th \in OfferedBy(t)
    BY DEF OfferedBy
  <2> HIDE DEF t
  <2>3. ~Queued(t) /\ HeldBy(t) = {} /\ OfferedBy(t) \subseteq {th}
    BY <1>2, <2>1, <2>2 DEF OneTask
  <2>4. th \in Workers => worker[th].pc = "run"
    BY <1>1, <1>5 DEF Shape
  <2>5. sub[th].task \in {t, None}
    BY DEF t
  <2> QED
    BY <1>3, <2>1, <2>3, <2>4, <2>5, EnqueueIInv
<1> QED
  BY <1>4, <1>5 DEF Submit

LEMMA DequeueIInv ==
    ASSUME IInv, NEW w \in Workers, dequeue(w)
    PROVE  IInv'
<1>1. TypeA /\ Shape /\ OnePlace /\ sub \in [Threads -> SubType] /\ worker \in [Workers -> WorkerType]
  BY DEF IInv, TypeA
<1>2. /\ UNCHANGED <<pool, closed, nth, nidl, ndet, life, fate, hung, raced>>
      /\ pool.elastic \in BOOLEAN /\ closed \in BOOLEAN
  BY <1>1 DEF dequeue, counters, history, TypeA
<1>3. CASE queue = <<>>
  <2> DEFINE l == IF ~closed THEN "wait" ELSE IF pool.elastic THEN "empty" ELSE "none"
  <2>1. GotoW(w, l) /\ UNCHANGED <<queue, sub>> /\ worker[w].pc = "dequeue"
    BY <1>3 DEF dequeue
  <2>2. /\ l \in WorkerPCs /\ l \notin {"got", "run"}
        /\ ~pool.elastic => l \in {"none", "dequeue", "wait", "run"}
    BY DEF WorkerPCs
  <2> HIDE DEF l
  <2>3. Frame
    BY <1>1, <1>2, <2>1, Zenon DEF Frame, TypeA
  <2>4. sub[w].pc = "none"
    BY <1>1, <2>1 DEF Shape
  <2>5. worker[w].pc \in {"got", "run"} <=> l \in {"got", "run"}
    BY <2>1, <2>2
  <2> QED
    BY <1>2, <2>1, <2>2, <2>3, <2>4, <2>5, WorkerMoves
<1>4. CASE queue # <<>>
  <2> DEFINE l == IF pool.elastic THEN "got" ELSE "run"
  <2>1. PICK t : t = Head(queue)
    OBVIOUS
  <2>2. /\ worker[w].pc = "dequeue" /\ queue' = Tail(queue) /\ notify_enqueue
        /\ worker' = [worker EXCEPT ![w] = [pc |-> l, task |-> t]]
    BY <1>4, <2>1 DEF dequeue
  <2>3. l \in WorkerPCs /\ l \in {"got", "run"} /\ (~pool.elastic => l = "run")
    BY DEF WorkerPCs
  <2> HIDE DEF l
  <2>4. Distinct /\ \A u \in Tasks : OneTask(u)
    BY <1>1, OnePlaceSplit
  <2>5. /\ queue' \in Seq(Tasks) /\ Len(queue') <= Len(queue)
        /\ t \in Tasks /\ Queued(t)
        /\ Distinct' /\ ~Queued(t)'
        /\ \A u : u # t => (Queued(u)' <=> Queued(u))
    BY <1>1, <1>4, <2>1, <2>2, <2>4, Popped DEF TypeA
  <2>6. /\ worker' \in [Workers -> WorkerType]
        /\ worker'[w].pc = l /\ worker'[w].task = t
        /\ \A x \in Workers : x # w => worker'[x] = worker[x]
    BY <1>1, <2>2, <2>3, <2>5, SetW
  <2>7. /\ sub' \in [Threads -> SubType]
        /\ \A x \in Threads : sub'[x].task = sub[x].task
        /\ \A x \in Threads : \/ sub'[x] = sub[x]
                              \/ sub[x].pc = "full" /\ sub'[x].pc = "retry"
    BY <1>1, <2>2, NotifyE
  <2>8. worker[w].task = None /\ sub[w].pc = "none"
    <3>1. worker[w].task \in Tasks \cup {None}
      BY <1>1 DEF WorkerType
    <3> QED
      BY <1>1, <2>2, <3>1 DEF Shape
  <2>9. OnePlace'
    <3>1. \A u : OfferedBy(u)' = OfferedBy(u)
      BY <2>7 DEF OfferedBy
    <3>2. \A u \in Tasks : u # t => HeldBy(u)' = HeldBy(u)
      BY <2>6, <2>8, TaskAssumption DEF HeldBy
    <3>3. HeldBy(t) = {} /\ OfferedBy(t) = {} /\ fate[t] = "submitted"
      BY <2>4, <2>5, Zenon DEF OneTask
    <3>4. HeldBy(t)' = {w}
      BY <2>6, <3>3 DEF HeldBy
    <3>5. OneTask(t)'
      BY <1>2, <2>5, <3>1, <3>3, <3>4 DEF OneTask
    <3>6. \A u \in Tasks : OneTask(u)'
      <4> TAKE u \in Tasks
      <4>1. u # t => /\ OneTask(u) /\ fate'[u] = fate[u] /\ (Queued(u)' <=> Queued(u))
                     /\ HeldBy(u)' = HeldBy(u) /\ OfferedBy(u)' = OfferedBy(u)
        BY <1>2, <2>4, <2>5, <3>1, <3>2, Zenon
      <4>2. u # t => OneTask(u)'
        BY <4>1, OtherTask
      <4> QED
        BY <3>5, <4>2
    <3> QED
      BY <2>5, <3>6, Zenon DEF OnePlace, Distinct, OneTask
  <2>10. TypeA'
    <3>1. Len(queue') <= pool.capacity
      BY <1>1, <2>5 DEF TypeA
    <3> QED
      BY <1>1, <1>2, <2>5, <2>6, <2>7, <3>1, Zenon DEF TypeA
  <2>11. Shape'
    <3>1. \A x \in Workers : worker'[x].task \in Tasks <=> worker'[x].pc \in {"got", "run"}
      BY <1>1, <2>3, <2>5, <2>6, Zenon DEF Shape
    <3>2. \A x \in Threads : sub'[x].task \in Tasks <=> sub'[x].pc \in {"full", "retry"}
      <4>1. "full" \in {"full", "retry"} /\ "retry" \in {"full", "retry"}
        OBVIOUS
      <4> QED
        BY <1>1, <2>7, <4>1, Zenon DEF Shape
    <3>3. \A x \in Workers : x \in Threads
      BY DEF Threads
    <3>4. \A x \in Threads : sub[x].pc = "none" => sub'[x].pc = "none"
      BY <2>7
    <3>5. \A x \in Workers : sub'[x].pc # "none" => worker'[x].pc = "run"
      BY <1>1, <2>6, <2>8, <3>3, <3>4, Zenon DEF Shape
    <3>6. ~pool.elastic => \A x \in Workers : worker'[x].pc \in {"none", "dequeue", "wait", "run"}
      BY <1>1, <2>3, <2>6, Zenon DEF Shape
    <3>7. ~pool.elastic => \A x \in Threads : sub'[x].pc \in {"none", "full", "retry"}
      BY <1>1, <2>7 DEF Shape
    <3> QED
      BY <1>1, <1>2, <3>1, <3>2, <3>5, <3>6, <3>7, Zenon DEF Shape
  <2> QED
    BY <2>9, <2>10, <2>11 DEF IInv
<1> QED
  BY <1>3, <1>4

----------------------------------------------------------------------------
\* The other steps.

LEMMA FinishIInv ==
    ASSUME IInv, NEW w \in Workers, Finish(w)
    PROVE  IInv'
<1>1. TypeA /\ Shape /\ OnePlace /\ sub \in [Threads -> SubType] /\ worker \in [Workers -> WorkerType]
  BY DEF IInv, TypeA
<1>2. /\ UNCHANGED <<pool, queue, closed, sub, nth, nidl, ndet, life, hung, raced>>
      /\ worker[w].pc = "run" /\ sub[w].pc = "none"
  BY DEF Finish, counters, history
<1> DEFINE l == IF pool.elastic THEN "top" ELSE "dequeue"
<1>3. PICK t : t = worker[w].task
  OBVIOUS
<1>4. t \in Tasks
  BY <1>1, <1>2, <1>3 DEF Shape
<1>5. worker' = [worker EXCEPT ![w] = [pc |-> l, task |-> None]]
  BY DEF Finish, At
<1>6. l \in WorkerPCs /\ l \notin {"got", "run"} /\ (~pool.elastic => l = "dequeue")
  BY DEF WorkerPCs
<1> HIDE DEF l
<1>7. /\ worker' \in [Workers -> WorkerType]
      /\ worker'[w].pc = l /\ worker'[w].task = None
      /\ \A x \in Workers : x # w => worker'[x] = worker[x]
  BY <1>1, <1>5, <1>6, SetW
<1>8. /\ fate' \in [Tasks -> {"new", "submitted", "done", "refused"}]
      /\ fate'[t] = "done" /\ \A u \in Tasks : u # t => fate'[u] = fate[u]
  BY <1>1, <1>3, <1>4 DEF Finish, TypeA
<1>9. Distinct /\ \A u \in Tasks : OneTask(u)
  BY <1>1, OnePlaceSplit
<1>10. OnePlace'
  <2>1. \A u : OfferedBy(u)' = OfferedBy(u) /\ (Queued(u)' <=> Queued(u))
    BY <1>2 DEF OfferedBy, Queued
  <2>2. \A u \in Tasks : u # t => HeldBy(u)' = HeldBy(u)
    BY <1>3, <1>7, TaskAssumption DEF HeldBy
  <2>3. w \in HeldBy(t)
    BY <1>3 DEF HeldBy
  <2>4. HeldBy(t) = {w} /\ OfferedBy(t) = {} /\ ~Queued(t)
    BY <1>4, <1>9, <2>3 DEF OneTask
  <2>5. HeldBy(t)' = {}
    BY <1>4, <1>7, <2>4, TaskAssumption DEF HeldBy
  <2>6. OneTask(t)'
    BY <1>8, <2>1, <2>4, <2>5 DEF OneTask
  <2>7. \A u \in Tasks : OneTask(u)'
    <3> TAKE u \in Tasks
    <3>1. u # t => /\ OneTask(u) /\ fate'[u] = fate[u] /\ (Queued(u)' <=> Queued(u))
                   /\ HeldBy(u)' = HeldBy(u) /\ OfferedBy(u)' = OfferedBy(u)
      BY <1>8, <1>9, <2>1, <2>2, Zenon
    <3>2. u # t => OneTask(u)'
      BY <3>1, OtherTask
    <3> QED
      BY <2>6, <3>2
  <2>8. Distinct'
    BY <1>2, <1>9 DEF Distinct
  <2> QED
    BY <2>7, <2>8, Zenon DEF OnePlace, Distinct, OneTask
<1>11. TypeA'
  BY <1>1, <1>2, <1>7, <1>8, Zenon DEF TypeA
<1>12. Shape'
  <2>1. \A x \in Workers : worker'[x].task \in Tasks <=> worker'[x].pc \in {"got", "run"}
    BY <1>1, <1>6, <1>7, TaskAssumption, Zenon DEF Shape
  <2>2. \A x \in Workers : sub'[x].pc # "none" => worker'[x].pc = "run"
    BY <1>1, <1>2, <1>7, Zenon DEF Shape
  <2>3. ~pool.elastic => \A x \in Workers : worker'[x].pc \in {"none", "dequeue", "wait", "run"}
    BY <1>1, <1>6, <1>7 DEF Shape
  <2> QED
    BY <1>1, <1>2, <2>1, <2>2, <2>3, Zenon DEF Shape
<1> QED
  BY <1>10, <1>11, <1>12 DEF IInv

\* Threads move on, or are woken, and no task changes hands.
LEMMA ThreadsMove ==
    ASSUME IInv, Frame, nidl' = nidl,
           worker' \in [Workers -> WorkerType], sub' \in [Threads -> SubType],
           \A w \in Workers : /\ worker'[w].task = worker[w].task
                              /\ worker'[w].pc \in {"got", "run"} <=> worker[w].pc \in {"got", "run"}
                              /\ worker[w].pc = "run" => worker'[w].pc = "run",
           \A th \in Threads : /\ sub'[th].task = sub[th].task
                               /\ sub'[th].pc \in {"full", "retry"} <=> sub[th].pc \in {"full", "retry"}
                               /\ sub[th].pc = "none" => sub'[th].pc = "none",
           ~pool.elastic => /\ \A w \in Workers : worker'[w].pc \in {"none", "dequeue", "wait", "run"}
                            /\ \A th \in Threads : sub'[th].pc \in {"none", "full", "retry"}
    PROVE  IInv'
<1>1. TypeA /\ Shape /\ OnePlace
  BY DEF IInv
<1>2. OnePlace'
  BY <1>1, NothingMoves DEF Frame
<1>3. TypeA'
  BY <1>1, Zenon DEF TypeA, Frame
<1>4. \A w \in Workers : w \in Threads
  BY DEF Threads
<1>5. \A w \in Workers : sub'[w].pc # "none" => worker'[w].pc = "run"
  BY <1>1, <1>4, Zenon DEF Shape
<1>6. Shape'
  BY <1>1, <1>5, Zenon DEF Shape, Frame
<1> QED
  BY <1>2, <1>3, <1>6 DEF IInv

LEMMA SpuriousIInv ==
    ASSUME IInv, Spurious
    PROVE  IInv'
<1>1. TypeA /\ Shape /\ OnePlace /\ sub \in [Threads -> SubType] /\ worker \in [Workers -> WorkerType]
  BY DEF IInv, TypeA
<1>2. UNCHANGED <<pool, queue, closed, nth, nidl, ndet, fate, hung, raced>>
  BY DEF Spurious, counters, history
<1>3. life' \in {"open", "closed", "waiting", "down"}
  BY <1>1 DEF Spurious, TypeA
<1>4. Frame
  BY <1>1, <1>2, <1>3, Zenon DEF Frame, TypeA
<1>5. /\ worker' \in [Workers -> WorkerType]
      /\ \A x \in Workers : worker'[x].task = worker[x].task
      /\ \A x \in Workers : \/ worker'[x] = worker[x]
                            \/ worker[x].pc = "wait" /\ worker'[x].pc = "dequeue"
  <2>1. CASE UNCHANGED worker
    BY <1>1, <2>1, Zenon
  <2>2. CASE \E w \in Waiting : GotoW(w, "dequeue")
    BY <1>1, <2>2, NotifyD DEF notify_dequeue
  <2> QED
    BY <2>1, <2>2 DEF Spurious
<1>6. /\ sub' \in [Threads -> SubType]
      /\ \A x \in Threads : sub'[x].task = sub[x].task
      /\ \A x \in Threads : \/ sub'[x] = sub[x]
                            \/ sub[x].pc = "full" /\ sub'[x].pc = "retry"
  <2>1. CASE UNCHANGED sub
    BY <1>1, <2>1, Zenon
  <2>2. CASE \E th \in Blocked : sub' = [sub EXCEPT ![th].pc = "retry"]
    BY <1>1, <2>2, NotifyE DEF notify_enqueue
  <2> QED
    BY <2>1, <2>2 DEF Spurious
<1>7. \A w \in Workers : /\ worker'[w].pc \in {"got", "run"} <=> worker[w].pc \in {"got", "run"}
                         /\ worker[w].pc = "run" => worker'[w].pc = "run"
  BY <1>5
<1>8. \A th \in Threads : /\ sub'[th].pc \in {"full", "retry"} <=> sub[th].pc \in {"full", "retry"}
                          /\ sub[th].pc = "none" => sub'[th].pc = "none"
  BY <1>6
<1>9. ~pool.elastic => /\ \A w \in Workers : worker'[w].pc \in {"none", "dequeue", "wait", "run"}
                       /\ \A th \in Threads : sub'[th].pc \in {"none", "full", "retry"}
  BY <1>1, <1>5, <1>6 DEF Shape
<1> QED
  BY <1>2, <1>4, <1>5, <1>6, <1>7, <1>8, <1>9, ThreadsMove

LEMMA CloseIInv ==
    ASSUME IInv, Close
    PROVE  IInv'
<1>1. TypeA /\ Shape /\ OnePlace /\ sub \in [Threads -> SubType] /\ worker \in [Workers -> WorkerType]
  BY DEF IInv, TypeA
<1>2. UNCHANGED <<pool, queue, nth, nidl, ndet, fate, hung>> /\ closed' = TRUE /\ life' = "closed"
  BY DEF Close, counters
<1>3. raced' \in BOOLEAN
  BY DEF Close
<1>4. Frame
  BY <1>1, <1>2, <1>3, Zenon DEF Frame, TypeA
<1>5. /\ worker' \in [Workers -> WorkerType]
      /\ \A x \in Workers : worker'[x].task = worker[x].task
      /\ \A x \in Workers : \/ worker'[x] = worker[x]
                            \/ worker[x].pc = "wait" /\ worker'[x].pc = "dequeue"
  <2>1. At("dequeue") \in WorkerType /\ At("dequeue").pc = "dequeue" /\ At("dequeue").task = None
    BY DEF At, WorkerType, WorkerPCs
  <2>2. worker' = [w \in Workers |-> IF worker[w].pc = "wait" THEN At("dequeue") ELSE worker[w]]
    BY DEF Close
  <2>3. \A x \in Workers : worker[x].pc = "wait" => worker[x].task = None
    <3> TAKE x \in Workers
    <3>1. worker[x].task \in Tasks \cup {None}
      BY <1>1 DEF WorkerType
    <3> QED
      BY <1>1, <3>1 DEF Shape
  <2>4. \A x \in Workers : worker'[x] = IF worker[x].pc = "wait" THEN At("dequeue") ELSE worker[x]
    BY <2>2, Zenon
  <2>5. worker' \in [Workers -> WorkerType]
    BY <1>1, <2>1, <2>2
  <2>6. \A x \in Workers : worker'[x].task = worker[x].task
    BY <2>1, <2>3, <2>4, Zenon
  <2>7. \A x \in Workers : \/ worker'[x] = worker[x]
                           \/ worker[x].pc = "wait" /\ worker'[x].pc = "dequeue"
    BY <2>1, <2>4, Zenon
  <2> QED
    BY <2>5, <2>6, <2>7
<1>6. /\ sub' \in [Threads -> SubType]
      /\ \A x \in Threads : sub'[x].task = sub[x].task
      /\ \A x \in Threads : \/ sub'[x] = sub[x]
                            \/ sub[x].pc = "full" /\ sub'[x].pc = "retry"
  <2>1. \A x \in Threads : /\ [sub[x] EXCEPT !.pc = "retry"] \in SubType
                           /\ [sub[x] EXCEPT !.pc = "retry"].pc = "retry"
                           /\ [sub[x] EXCEPT !.pc = "retry"].task = sub[x].task
    BY <1>1 DEF SubType, SubPCs
  <2>2. sub' = [th \in Threads |-> IF sub[th].pc = "full"
                                   THEN [sub[th] EXCEPT !.pc = "retry"] ELSE sub[th]]
    BY DEF Close
  <2>3. \A x \in Threads : sub'[x] = IF sub[x].pc = "full"
                                     THEN [sub[x] EXCEPT !.pc = "retry"] ELSE sub[x]
    BY <2>2, Zenon
  <2>4. \A x \in Threads : /\ sub'[x] \in SubType /\ sub'[x].task = sub[x].task
                           /\ \/ sub'[x] = sub[x]
                              \/ sub[x].pc = "full" /\ sub'[x].pc = "retry"
    BY <1>1, <2>1, <2>3, Zenon
  <2>5. sub' \in [Threads -> SubType]
    BY <2>2, <2>3, <2>4, Zenon
  <2> QED
    BY <2>4, <2>5, Zenon
<1>7. \A w \in Workers : /\ worker'[w].pc \in {"got", "run"} <=> worker[w].pc \in {"got", "run"}
                         /\ worker[w].pc = "run" => worker'[w].pc = "run"
  BY <1>5
<1>8. \A th \in Threads : /\ sub'[th].pc \in {"full", "retry"} <=> sub[th].pc \in {"full", "retry"}
                          /\ sub[th].pc = "none" => sub'[th].pc = "none"
  BY <1>6
<1>9. ~pool.elastic => /\ \A w \in Workers : worker'[w].pc \in {"none", "dequeue", "wait", "run"}
                       /\ \A th \in Threads : sub'[th].pc \in {"none", "full", "retry"}
  BY <1>1, <1>5, <1>6 DEF Shape
<1> QED
  BY <1>2, <1>4, <1>5, <1>6, <1>7, <1>8, <1>9, ThreadsMove

LEMMA StartIInv ==
    ASSUME IInv, NEW th \in Threads, StartThread(th)
    PROVE  IInv'
<1>1. TypeA /\ Shape /\ OnePlace /\ sub \in [Threads -> SubType] /\ worker \in [Workers -> WorkerType]
  BY DEF IInv, TypeA
<1>2. UNCHANGED <<pool, queue, closed, nth, nidl, ndet, life, fate, raced>> /\ hung' = FALSE
  BY DEF StartThread, counters
<1>3. Frame
  BY <1>1, <1>2, Zenon DEF Frame, TypeA
<1>4. PICK w \in Workers : worker[w].pc = "none" /\ worker' = [worker EXCEPT ![w] = [pc |-> "top", task |-> None]]
  BY DEF StartThread, At
<1>5. /\ worker' \in [Workers -> WorkerType]
      /\ worker'[w].pc = "top" /\ worker'[w].task = None
      /\ \A x \in Workers : x # w => worker'[x] = worker[x]
  <2>1. "top" \in WorkerPCs
    BY DEF WorkerPCs
  <2> QED
    BY <1>1, <1>4, <2>1, SetW
<1>6. sub[th].pc = "start" /\ GotoS(th, "count")
  BY DEF StartThread
<1>7. /\ sub' \in [Threads -> SubType]
      /\ sub'[th].pc = "count" /\ sub'[th].task = None
      /\ \A x \in Threads : x # th => sub'[x] = sub[x]
  BY <1>1, <1>6, MoveS DEF SubPCs
<1>8. worker[w].task = None /\ sub[th].task = None
  <2>1. worker[w].task \in Tasks \cup {None} /\ sub[th].task \in Tasks \cup {None}
    BY <1>1 DEF WorkerType, SubType
  <2> QED
    BY <1>1, <1>4, <1>6, <2>1 DEF Shape
<1>9. \A x \in Workers : /\ worker'[x].task = worker[x].task
                         /\ worker'[x].pc \in {"got", "run"} <=> worker[x].pc \in {"got", "run"}
                         /\ worker[x].pc = "run" => worker'[x].pc = "run"
  BY <1>4, <1>5, <1>8
<1>10. \A x \in Threads : /\ sub'[x].task = sub[x].task
                          /\ sub'[x].pc \in {"full", "retry"} <=> sub[x].pc \in {"full", "retry"}
                          /\ sub[x].pc = "none" => sub'[x].pc = "none"
  BY <1>6, <1>7, <1>8
<1>11. pool.elastic
  BY <1>1, <1>6 DEF Shape
<1> QED
  BY <1>2, <1>3, <1>5, <1>7, <1>9, <1>10, <1>11, ThreadsMove

LEMMA ExitIInv ==
    ASSUME IInv, NEW w \in Workers, Exit(w)
    PROVE  IInv'
<1>1. TypeA /\ Shape /\ OnePlace /\ sub \in [Threads -> SubType] /\ worker \in [Workers -> WorkerType]
  BY DEF IInv, TypeA
<1>2. /\ UNCHANGED <<pool, queue, closed, nth, nidl, ndet, sub, fate, hung, raced>>
      /\ worker[w].pc = "exiting" /\ worker' = [worker EXCEPT ![w] = [pc |-> "none", task |-> None]]
  BY DEF Exit, counters, history, At
<1>3. life' \in {"open", "closed", "waiting", "down"}
  BY <1>1 DEF Exit, TypeA
<1>4. Frame
  BY <1>1, <1>2, <1>3, Zenon DEF Frame, TypeA
<1>5. /\ worker' \in [Workers -> WorkerType]
      /\ worker'[w].pc = "none" /\ worker'[w].task = None
      /\ \A x \in Workers : x # w => worker'[x] = worker[x]
  <2>1. "none" \in WorkerPCs
    BY DEF WorkerPCs
  <2> QED
    BY <1>1, <1>2, <2>1, SetW
<1>6. worker[w].task = None
  <2>1. worker[w].task \in Tasks \cup {None}
    BY <1>1 DEF WorkerType
  <2> QED
    BY <1>1, <1>2, <2>1 DEF Shape
<1>7. \A x \in Workers : /\ worker'[x].task = worker[x].task
                         /\ worker'[x].pc \in {"got", "run"} <=> worker[x].pc \in {"got", "run"}
                         /\ worker[x].pc = "run" => worker'[x].pc = "run"
  BY <1>2, <1>5, <1>6
<1>8. pool.elastic
  BY <1>1, <1>2 DEF Shape
<1> QED
  BY <1>1, <1>2, <1>4, <1>5, <1>7, <1>8, ThreadsMove

LEMMA WorkerIInv ==
    ASSUME IInv, NEW w \in Workers, WorkerStep(w)
    PROVE  IInv'
<1>1. TypeA /\ Shape /\ nth \in Int /\ nidl \in Int /\ ndet \in Int
  BY DEF IInv, TypeA
<1>2. ASSUME NEW l \in WorkerPCs, GotoW(w, l), worker[w].pc \in WorkerPCs \ {"none", "dequeue", "wait", "run"},
             worker[w].pc = "got" <=> l \in {"got", "run"},
             UNCHANGED <<pool, queue, closed, sub, life, fate, history>>,
             nth' \in Int, nidl' \in Int, ndet' \in Int
      PROVE  IInv'
  <2>1. Frame
    BY <1>1, <1>2, Zenon DEF Frame, TypeA, history
  <2>2. pool.elastic /\ sub[w].pc = "none"
    BY <1>1, <1>2 DEF Shape
  <2>3. worker[w].pc \in {"got", "run"} <=> l \in {"got", "run"}
    BY <1>2
  <2>4. UNCHANGED sub
    BY <1>2
  <2> QED
    BY <1>2, <2>1, <2>2, <2>3, <2>4, WorkerMoves
<1>3. CASE LoopTop(w)
  <2>1. GotoW(w, "idle") \/ GotoW(w, "crowded")
    BY <1>3 DEF LoopTop
  <2>2. /\ worker[w].pc \in WorkerPCs \ {"none", "dequeue", "wait", "run", "got"}
        /\ UNCHANGED <<pool, queue, closed, sub, life, fate, history>>
        /\ nth' \in Int /\ nidl' \in Int /\ ndet' \in Int
    BY <1>1, <1>3 DEF LoopTop, counters, WorkerPCs
  <2> QED
    BY <1>2, <2>1, <2>2 DEF WorkerPCs
<1>4. CASE Crowded(w)
  <2>1. GotoW(w, "idle") \/ GotoW(w, "leave")
    BY <1>4 DEF Crowded
  <2>2. /\ worker[w].pc \in WorkerPCs \ {"none", "dequeue", "wait", "run", "got"}
        /\ UNCHANGED <<pool, queue, closed, sub, life, fate, history>>
        /\ nth' \in Int /\ nidl' \in Int /\ ndet' \in Int
    BY <1>1, <1>4 DEF Crowded, WorkerPCs
  <2> QED
    BY <1>2, <2>1, <2>2 DEF WorkerPCs
<1>5. CASE BeginIdle(w)
  <2>1. /\ worker[w].pc \in WorkerPCs \ {"none", "dequeue", "wait", "run", "got"}
        /\ UNCHANGED <<pool, queue, closed, sub, life, fate, history>>
        /\ nth' \in Int /\ nidl' \in Int /\ ndet' \in Int
        /\ GotoW(w, "dequeue")
    BY <1>1, <1>5 DEF BeginIdle, WorkerPCs
  <2> QED
    BY <1>2, <2>1 DEF WorkerPCs
<1>6. CASE EndIdle(w)
  <2>1. /\ worker[w].pc \in {"got", "empty"}
        /\ UNCHANGED <<pool, queue, closed, sub, life, fate, history>>
        /\ nth' \in Int /\ nidl' \in Int /\ ndet' \in Int
        /\ GotoW(w, IF worker[w].pc = "got" THEN "run" ELSE "leave")
    BY <1>1, <1>6 DEF EndIdle
  <2> QED
    BY <1>2, <2>1 DEF WorkerPCs
<1>7. CASE Leave(w)
  <2>1. /\ worker[w].pc = "leave"
        /\ UNCHANGED <<pool, queue, closed, sub, life, fate, history>>
        /\ nth' \in Int /\ nidl' \in Int /\ ndet' \in Int
        /\ GotoW(w, "exiting")
    BY <1>1, <1>7 DEF Leave
  <2> QED
    BY <1>2, <2>1 DEF WorkerPCs
<1> QED
  BY <1>3, <1>4, <1>5, <1>6, <1>7, DequeueIInv, FinishIInv, ExitIInv DEF WorkerStep

LEMMA SubmitStepIInv ==
    ASSUME IInv, NEW th \in Threads, SubmitStep(th)
    PROVE  IInv'
<1>1. TypeA /\ Shape /\ nth \in Int /\ nidl \in Int /\ ndet \in Int
  BY DEF IInv, TypeA
<1>2. CASE Resume(th)
  BY <1>2, SubmitIInv DEF Resume
<1>3. CASE StartThread(th)
  BY <1>3, StartIInv
<1>4. ASSUME NEW l \in SubPCs \ {"full", "retry"}, GotoS(th, l),
             sub[th].pc \in {"anyidle", "anyroom", "start", "count", "number", "check"},
             UNCHANGED <<pool, queue, closed, worker, nidl, life, fate, raced>>,
             nth' \in Int, ndet' \in Int, hung' \in BOOLEAN
      PROVE  IInv'
  <2>1. Frame
    BY <1>1, <1>4, Zenon DEF Frame, TypeA
  <2> QED
    BY <1>4, <2>1, SubmitMoves
<1>5. hung \in BOOLEAN
  BY <1>1 DEF TypeA
<1>6. CASE AnyIdle(th)
  <2>1. GotoS(th, "check") \/ GotoS(th, "anyroom")
    BY <1>6 DEF AnyIdle
  <2>2. /\ sub[th].pc \in {"anyidle", "anyroom", "start", "count", "number", "check"}
        /\ UNCHANGED <<pool, queue, closed, worker, nidl, life, fate, raced>>
        /\ nth' \in Int /\ ndet' \in Int /\ hung' \in BOOLEAN
    BY <1>1, <1>5, <1>6 DEF AnyIdle, counters, history
  <2> QED
    BY <1>4, <2>1, <2>2 DEF SubPCs
<1>7. CASE AnyRoom(th)
  <2>1. GotoS(th, "check") \/ GotoS(th, "start")
    BY <1>7 DEF AnyRoom
  <2>2. /\ sub[th].pc \in {"anyidle", "anyroom", "start", "count", "number", "check"}
        /\ UNCHANGED <<pool, queue, closed, worker, nidl, life, fate, raced>>
        /\ nth' \in Int /\ ndet' \in Int /\ hung' \in BOOLEAN
    BY <1>1, <1>5, <1>7 DEF AnyRoom, counters, history
  <2> QED
    BY <1>4, <2>1, <2>2 DEF SubPCs
<1>8. CASE StartFails(th) \/ CountThread(th) \/ NumberThread(th) \/ SubmitReturns(th)
  <2>1. GotoS(th, "none") \/ GotoS(th, "number") \/ GotoS(th, "check")
    BY <1>8 DEF StartFails, CountThread, NumberThread, SubmitReturns
  <2>2. hung' \in BOOLEAN
    BY <1>5, <1>8 DEF StartFails, CountThread, NumberThread, SubmitReturns, history
  <2>3. nth' \in Int /\ ndet' \in Int
    BY <1>1, <1>8 DEF StartFails, CountThread, NumberThread, SubmitReturns, counters
  <2>4. /\ sub[th].pc \in {"anyidle", "anyroom", "start", "count", "number", "check"}
        /\ UNCHANGED <<pool, queue, closed, worker, nidl, life, fate, raced>>
    BY <1>8 DEF StartFails, CountThread, NumberThread, SubmitReturns, counters, history
  <2> QED
    BY <1>4, <2>1, <2>2, <2>3, <2>4 DEF SubPCs
<1> QED
  BY <1>2, <1>3, <1>6, <1>7, <1>8 DEF SubmitStep

LEMMA AwaitIInv ==
    ASSUME IInv, Await
    PROVE  IInv'
<1>1. TypeA /\ Shape /\ OnePlace /\ sub \in [Threads -> SubType] /\ worker \in [Workers -> WorkerType]
  BY DEF IInv, TypeA
<1>2. UNCHANGED <<pool, queue, closed, nth, nidl, ndet, worker, sub, fate, hung, raced>>
  BY DEF Await, counters, history
<1>3. life' \in {"open", "closed", "waiting", "down"}
  BY DEF Await
<1>4. Frame
  BY <1>1, <1>2, <1>3, Zenon DEF Frame, TypeA
<1> QED
  BY <1>1, <1>2, <1>4, ThreadsMove DEF Shape

LEMMA NextIInv ==
    ASSUME IInv, [Next]_vars
    PROVE  IInv'
<1>1. CASE UNCHANGED vars
  <2>1. UNCHANGED <<pool, queue, closed, worker, sub, nth, nidl, ndet, life, fate, hung, raced>>
    BY <1>1 DEF vars, counters, history
  <2>2. TypeA /\ Shape /\ OnePlace /\ sub \in [Threads -> SubType] /\ worker \in [Workers -> WorkerType]
    BY DEF IInv, TypeA
  <2>3. Frame
    BY <2>1, <2>2, Zenon DEF Frame, TypeA
  <2> QED
    BY <2>1, <2>2, <2>3, ThreadsMove DEF Shape
<1>2. CASE Next
  BY <1>2, SubmitIInv, SubmitStepIInv, WorkerIInv, SpuriousIInv, CloseIInv, AwaitIInv DEF Next
<1> QED
  BY <1>1, <1>2

(* For any number of threads and tasks, any lengths of queues and whatever
   the counters say: a submitted task is in exactly one place until it is
   done, so none is lost and none runs twice. *)
THEOREM EachTaskInOnePlace == Spec => []OnePlace
<1>1. Init => IInv
  BY InitIInv
<1>2. IInv /\ [Next]_vars => IInv'
  BY NextIInv
<1>3. IInv => OnePlace
  BY DEF IInv
<1> QED
  BY <1>1, <1>2, <1>3, PTL DEF Spec

----------------------------------------------------------------------------
\* The counters of an elastic pool.

WithPC(Q) == {w \in Workers : worker[w].pc \in Q}
InSubmit(Q) == {th \in Threads : sub[th].pc \in Q}

IdlePCs == {"dequeue", "wait", "got", "empty"}
DetachedPCs == {"top", "crowded", "idle", "dequeue", "wait", "got", "empty", "run", "leave"}
StartedPCs == {"count"}
AlivePCs == {"top", "crowded", "idle", "dequeue", "wait", "got", "run"}

NIdle == Cardinality(WithPC(IdlePCs))
NDetached == Cardinality(WithPC(DetachedPCs))
NAlive == Cardinality(WithPC(AlivePCs))
NUncounted == Cardinality(InSubmit(StartedPCs))
NUnnumbered == Cardinality(InSubmit({"count", "number"}))

Drained == closed /\ queue = <<>>
Lively == Drained \/ NAlive > 0

\* What the counters are worth: nidl is exact; ndet lags behind the threads
\* that were just started; nth never exceeds what it stands for, until the
\* queue is drained.
Counted == /\ nidl = NIdle
           /\ ndet = NDetached - NUncounted
           /\ Drained \/ nth + NUnnumbered <= NAlive

\* What the decisions made from them are worth.
Served == /\ \A w \in Workers : worker[w].pc = "empty" => Drained
          /\ nth < 0 => Lively
          /\ \A w \in Workers : worker[w].pc \in {"leave", "exiting"} => closed \/ nth >= 1
          /\ \A th \in Threads : sub[th].pc \in {"count", "number"} => Lively
          /\ \A th \in Threads : sub[th].pc = "check" => Lively \/ hung
          /\ queue # <<>> => \/ Lively \/ hung
                             \/ \E th \in Threads : sub[th].pc \in {"anyidle", "anyroom", "start"}
          /\ closed => /\ \A c \in Callers : sub[c].pc = "none"
                       /\ ~raced => \A th \in Threads : sub[th].pc = "none"

LEMMA FiniteThreads ==
    ASSUME NEW Q
    PROVE  /\ IsFiniteSet(WithPC(Q)) /\ Cardinality(WithPC(Q)) \in Nat
           /\ IsFiniteSet(WithPC(Q)') /\ Cardinality(WithPC(Q)') \in Nat
           /\ IsFiniteSet(InSubmit(Q)) /\ Cardinality(InSubmit(Q)) \in Nat
           /\ IsFiniteSet(InSubmit(Q)') /\ Cardinality(InSubmit(Q)') \in Nat
<1>1. IsFiniteSet(Workers) /\ IsFiniteSet(Threads)
  BY ThreadAssumption, FS_Union DEF Threads
<1>2. /\ WithPC(Q) \subseteq Workers /\ WithPC(Q)' \subseteq Workers
      /\ InSubmit(Q) \subseteq Threads /\ InSubmit(Q)' \subseteq Threads
  BY DEF WithPC, InSubmit
<1> QED
  BY <1>1, <1>2, FS_Subset, FS_CardinalityType

\* One element enters or leaves a finite set.
LEMMA OneMore ==
    ASSUME NEW S, NEW T, NEW x, IsFiniteSet(S), x \notin S, x \in T,
           \A y : y # x => (y \in T <=> y \in S)
    PROVE  Cardinality(T) = Cardinality(S) + 1
<1>1. T = S \cup {x}
  OBVIOUS
<1> QED
  BY <1>1, FS_AddElement

\* A thread of the pool moves.
LEMMA OneWorker ==
    ASSUME NEW Q, NEW w \in Workers, \A x \in Workers : x # w => worker'[x] = worker[x]
    PROVE  /\ worker[w].pc \in Q /\ worker'[w].pc \in Q => WithPC(Q)' = WithPC(Q)
           /\ worker[w].pc \notin Q /\ worker'[w].pc \notin Q => WithPC(Q)' = WithPC(Q)
           /\ worker[w].pc \notin Q /\ worker'[w].pc \in Q =>
                Cardinality(WithPC(Q)') = Cardinality(WithPC(Q)) + 1
           /\ worker[w].pc \in Q /\ worker'[w].pc \notin Q =>
                Cardinality(WithPC(Q)') = Cardinality(WithPC(Q)) - 1
<1>1. \A y : y # w => (y \in WithPC(Q)' <=> y \in WithPC(Q))
  BY DEF WithPC
<1>2. (w \in WithPC(Q) <=> worker[w].pc \in Q) /\ (w \in WithPC(Q)' <=> worker'[w].pc \in Q)
  BY DEF WithPC
<1>3. /\ IsFiniteSet(WithPC(Q)) /\ IsFiniteSet(WithPC(Q)')
      /\ Cardinality(WithPC(Q)) \in Nat /\ Cardinality(WithPC(Q)') \in Nat
  BY FiniteThreads
<1>4. ASSUME worker[w].pc \notin Q, worker'[w].pc \in Q
      PROVE  Cardinality(WithPC(Q)') = Cardinality(WithPC(Q)) + 1
  BY <1>1, <1>2, <1>3, <1>4, OneMore
<1>5. ASSUME worker[w].pc \in Q, worker'[w].pc \notin Q
      PROVE  Cardinality(WithPC(Q)) = Cardinality(WithPC(Q)') + 1
  BY <1>1, <1>2, <1>3, <1>5, OneMore
<1>6. ASSUME worker[w].pc \in Q <=> worker'[w].pc \in Q
      PROVE  WithPC(Q)' = WithPC(Q)
  BY <1>1, <1>2, <1>6
<1> QED
  BY <1>3, <1>4, <1>5, <1>6

\* A thread moves in submit.
LEMMA OneSubmit ==
    ASSUME NEW Q, NEW th \in Threads, \A x \in Threads : x # th => sub'[x] = sub[x]
    PROVE  /\ sub[th].pc \in Q /\ sub'[th].pc \in Q => InSubmit(Q)' = InSubmit(Q)
           /\ sub[th].pc \notin Q /\ sub'[th].pc \notin Q => InSubmit(Q)' = InSubmit(Q)
           /\ sub[th].pc \notin Q /\ sub'[th].pc \in Q =>
                Cardinality(InSubmit(Q)') = Cardinality(InSubmit(Q)) + 1
           /\ sub[th].pc \in Q /\ sub'[th].pc \notin Q =>
                Cardinality(InSubmit(Q)') = Cardinality(InSubmit(Q)) - 1
<1>1. \A y : y # th => (y \in InSubmit(Q)' <=> y \in InSubmit(Q))
  BY DEF InSubmit
<1>2. (th \in InSubmit(Q) <=> sub[th].pc \in Q) /\ (th \in InSubmit(Q)' <=> sub'[th].pc \in Q)
  BY DEF InSubmit
<1>3. /\ IsFiniteSet(InSubmit(Q)) /\ IsFiniteSet(InSubmit(Q)')
      /\ Cardinality(InSubmit(Q)) \in Nat /\ Cardinality(InSubmit(Q)') \in Nat
  BY FiniteThreads
<1>4. ASSUME sub[th].pc \notin Q, sub'[th].pc \in Q
      PROVE  Cardinality(InSubmit(Q)') = Cardinality(InSubmit(Q)) + 1
  BY <1>1, <1>2, <1>3, <1>4, OneMore
<1>5. ASSUME sub[th].pc \in Q, sub'[th].pc \notin Q
      PROVE  Cardinality(InSubmit(Q)) = Cardinality(InSubmit(Q)') + 1
  BY <1>1, <1>2, <1>3, <1>5, OneMore
<1>6. ASSUME sub[th].pc \in Q <=> sub'[th].pc \in Q
      PROVE  InSubmit(Q)' = InSubmit(Q)
  BY <1>1, <1>2, <1>6
<1> QED
  BY <1>3, <1>4, <1>5, <1>6

\* The numbers are numbers, and related.
NumbersAre == /\ NIdle \in Nat /\ NDetached \in Nat /\ NAlive \in Nat
              /\ NUncounted \in Nat /\ NUnnumbered \in Nat
              /\ NAlive <= NDetached /\ NUncounted <= NUnnumbered

LEMMA Numbers == NumbersAre /\ NumbersAre'
<1>1. /\ WithPC(AlivePCs) \subseteq WithPC(DetachedPCs)
      /\ WithPC(AlivePCs)' \subseteq WithPC(DetachedPCs)'
      /\ InSubmit(StartedPCs) \subseteq InSubmit({"count", "number"})
      /\ InSubmit(StartedPCs)' \subseteq InSubmit({"count", "number"})'
  BY DEF WithPC, AlivePCs, DetachedPCs, StartedPCs, InSubmit
<1>2. NumbersAre
  BY <1>1, FiniteThreads, FS_Subset
     DEF NumbersAre, NIdle, NDetached, NAlive, NUncounted, NUnnumbered
<1>3. NumbersAre'
  BY <1>1, FiniteThreads, FS_Subset
     DEF NumbersAre, NIdle, NDetached, NAlive, NUncounted, NUnnumbered
<1> QED
  BY <1>2, <1>3

Bit(b) == IF b THEN 1 ELSE 0

LEMMA WorkerEffect ==
    ASSUME NEW w \in Workers, \A x \in Workers : x # w => worker'[x] = worker[x]
    PROVE  /\ NIdle' = NIdle + Bit(worker'[w].pc \in IdlePCs) - Bit(worker[w].pc \in IdlePCs)
           /\ NDetached' = NDetached + Bit(worker'[w].pc \in DetachedPCs) - Bit(worker[w].pc \in DetachedPCs)
           /\ NAlive' = NAlive + Bit(worker'[w].pc \in AlivePCs) - Bit(worker[w].pc \in AlivePCs)
<1>1. NumbersAre /\ NumbersAre'
  BY Numbers
<1>2. NIdle' = NIdle + Bit(worker'[w].pc \in IdlePCs) - Bit(worker[w].pc \in IdlePCs)
  BY <1>1, OneWorker DEF NumbersAre, Bit, NIdle
<1>3. NDetached' = NDetached + Bit(worker'[w].pc \in DetachedPCs) - Bit(worker[w].pc \in DetachedPCs)
  BY <1>1, OneWorker DEF NumbersAre, Bit, NDetached
<1>4. NAlive' = NAlive + Bit(worker'[w].pc \in AlivePCs) - Bit(worker[w].pc \in AlivePCs)
  BY <1>1, OneWorker DEF NumbersAre, Bit, NAlive
<1> QED
  BY <1>2, <1>3, <1>4

LEMMA SubmitEffect ==
    ASSUME NEW th \in Threads, \A x \in Threads : x # th => sub'[x] = sub[x]
    PROVE  /\ NUncounted' = NUncounted + Bit(sub'[th].pc = "count") - Bit(sub[th].pc = "count")
           /\ NUnnumbered' = NUnnumbered + Bit(sub'[th].pc \in {"count", "number"})
                                         - Bit(sub[th].pc \in {"count", "number"})
<1>1. NumbersAre /\ NumbersAre'
  BY Numbers
<1>2. NUncounted' = NUncounted + Bit(sub'[th].pc \in StartedPCs) - Bit(sub[th].pc \in StartedPCs)
  BY <1>1, OneSubmit DEF NumbersAre, Bit, NUncounted
<1>3. NUnnumbered' = NUnnumbered + Bit(sub'[th].pc \in {"count", "number"})
                                 - Bit(sub[th].pc \in {"count", "number"})
  BY <1>1, OneSubmit DEF NumbersAre, Bit, NUnnumbered
<1> QED
  BY <1>2, <1>3 DEF Bit, StartedPCs

\* Threads are woken, or nothing happens to them.
WokenW == \A x \in Workers : \/ worker'[x] = worker[x]
                             \/ worker[x].pc = "wait" /\ worker'[x].pc = "dequeue"
WokenS == \A x \in Threads : \/ sub'[x] = sub[x]
                             \/ sub[x].pc = "full" /\ sub'[x].pc = "retry"

LEMMA WokenEffect ==
    /\ WokenW => NIdle' = NIdle /\ NDetached' = NDetached /\ NAlive' = NAlive
    /\ WokenS => NUncounted' = NUncounted /\ NUnnumbered' = NUnnumbered
<1>1. ASSUME WokenW
      PROVE  /\ WithPC(IdlePCs)' = WithPC(IdlePCs) /\ WithPC(DetachedPCs)' = WithPC(DetachedPCs)
             /\ WithPC(AlivePCs)' = WithPC(AlivePCs)
  BY <1>1 DEF WokenW, WithPC, IdlePCs, DetachedPCs, AlivePCs
<1>2. ASSUME WokenS
      PROVE  /\ InSubmit(StartedPCs)' = InSubmit(StartedPCs)
             /\ InSubmit({"count", "number"})' = InSubmit({"count", "number"})
  BY <1>2 DEF WokenS, InSubmit, StartedPCs
<1> QED
  BY <1>1, <1>2 DEF NIdle, NDetached, NAlive, NUncounted, NUnnumbered

\* As long as nth is positive, or nobody leaves, there is a thread.
LEMMA LivelyStays ==
    ASSUME Counted', Drained => Drained', NAlive' >= NAlive \/ nth' >= 1, nth' \in Int
    PROVE  (Lively => Lively') /\ (nth' >= 1 => Lively')
<1>1. NumbersAre /\ NumbersAre'
  BY Numbers
<1>2. CASE Drained'
  BY <1>2, Zenon DEF Lively
<1>3. CASE ~Drained'
  <2>1. nth' + NUnnumbered' <= NAlive'
    BY <1>3, Zenon DEF Counted
  <2>2. nth' >= 1 => NAlive' > 0
    <3>1. NUnnumbered' \in Nat /\ NAlive' \in Nat
      BY <1>1, Zenon DEF NumbersAre
    <3>2. \A a \in Int : \A b, c \in Nat : a + b <= c /\ a >= 1 => c > 0
      OBVIOUS
    <3> QED
      BY <2>1, <3>1, <3>2, Zenon
  <2>3. NAlive > 0 => NAlive' > 0
    BY <1>1, <2>2 DEF NumbersAre
  <2> QED
    BY <1>3, <2>2, <2>3, Zenon DEF Lively
<1> QED
  BY <1>2, <1>3

LEMMA ServedWorker ==
    ASSUME Served, Lively => Lively', Drained => Drained', WokenS,
           UNCHANGED <<closed, raced, hung>>,
           NEW w \in Workers, \A x \in Workers : x # w => worker'[x] = worker[x],
           worker'[w].pc = "empty" => Drained',
           nth' < 0 => nth < 0 \/ Lively',
           worker'[w].pc \in {"leave", "exiting"} => closed \/ nth' >= 1,
           nth >= 1 => nth' >= 1,
           queue' # <<>> => queue # <<>>
    PROVE  Served'
<1>1. \A x \in Threads : \A P \in {{"count", "number"}, {"check"}, {"anyidle", "anyroom", "start"}, {"none"}} :
          sub'[x].pc \in P <=> sub[x].pc \in P
  BY DEF WokenS
<1>2. \A x \in Threads : /\ sub'[x].pc \in {"count", "number"} <=> sub[x].pc \in {"count", "number"}
                         /\ sub'[x].pc = "check" <=> sub[x].pc = "check"
                         /\ sub'[x].pc \in {"anyidle", "anyroom", "start"} <=> sub[x].pc \in {"anyidle", "anyroom", "start"}
                         /\ sub'[x].pc = "none" <=> sub[x].pc = "none"
  BY <1>1
<1>3. \A x \in Workers : worker'[x].pc = "empty" => Drained'
  BY Zenon DEF Served
<1>4. nth' < 0 => Lively'
  BY Zenon DEF Served
<1>5. \A x \in Workers : worker'[x].pc \in {"leave", "exiting"} => closed' \/ nth' >= 1
  BY Zenon DEF Served
<1>6. \A th \in Threads : sub'[th].pc \in {"count", "number"} => Lively'
  BY <1>2, Zenon DEF Served
<1>9. \A th \in Threads : sub'[th].pc = "check" => Lively' \/ hung'
  BY <1>2, Zenon DEF Served
<1>7. queue' # <<>> => \/ Lively' \/ hung'
                       \/ \E th \in Threads : sub'[th].pc \in {"anyidle", "anyroom", "start"}
  BY <1>2, Zenon DEF Served
<1>8. closed' => /\ \A c \in Callers : sub'[c].pc = "none"
                 /\ ~raced' => \A th \in Threads : sub'[th].pc = "none"
  <2>1. \A c \in Callers : c \in Threads
    BY DEF Threads
  <2> QED
    BY <1>2, <2>1, Zenon DEF Served
<1> QED
  BY <1>3, <1>4, <1>5, <1>6, <1>7, <1>8, <1>9, Zenon DEF Served

LEMMA ServedSubmit ==
    ASSUME Served, Lively => Lively', Drained => Drained',
           UNCHANGED <<closed, raced>>,
           NEW th \in Threads, \A x \in Threads : x # th => sub'[x] = sub[x],
           \A x \in Workers : worker'[x].pc \in {"empty", "leave", "exiting"} => worker'[x] = worker[x],
           nth >= 1 => nth' >= 1, nth' < 0 => nth < 0,
           sub'[th].pc \in {"count", "number"} => Lively',
           sub'[th].pc = "check" => Lively' \/ hung',
           hung => hung' \/ Lively',
           queue' # <<>> => \/ Lively' \/ hung' \/ sub'[th].pc \in {"anyidle", "anyroom", "start"}
                            \/ queue # <<>> /\ hung' = hung
                               /\ sub[th].pc \notin {"anyidle", "anyroom", "start"},
           closed => sub'[th].pc = "none" \/ sub[th].pc # "none"
    PROVE  Served'
<1>1. \A x \in Workers : worker'[x].pc = "empty" => Drained'
  <2>1. \A x \in Workers : worker'[x].pc = "empty" => worker'[x] = worker[x]
    OBVIOUS
  <2> QED
    BY <2>1, Zenon DEF Served
<1>2. nth' < 0 => Lively'
  BY Zenon DEF Served
<1>3. \A x \in Workers : worker'[x].pc \in {"leave", "exiting"} => closed' \/ nth' >= 1
  <2>1. \A x \in Workers : worker'[x].pc \in {"leave", "exiting"} => worker'[x] = worker[x]
    OBVIOUS
  <2> QED
    BY <2>1, Zenon DEF Served
<1>4. \A x \in Threads : sub'[x].pc \in {"count", "number"} => Lively'
  BY Zenon DEF Served
<1>7. \A x \in Threads : sub'[x].pc = "check" => Lively' \/ hung'
  BY Zenon DEF Served
<1>5. queue' # <<>> => \/ Lively' \/ hung'
                       \/ \E x \in Threads : sub'[x].pc \in {"anyidle", "anyroom", "start"}
  BY Zenon DEF Served
<1>6. closed' => /\ \A c \in Callers : sub'[c].pc = "none"
                 /\ ~raced' => \A x \in Threads : sub'[x].pc = "none"
  <2>1. \A c \in Callers : c \in Threads
    BY DEF Threads
  <2> QED
    BY <2>1, Zenon DEF Served
<1> QED
  BY <1>1, <1>2, <1>3, <1>4, <1>5, <1>6, <1>7, Zenon DEF Served

LEMMA CountedStep ==
    ASSUME Counted, nth \in Int, nth' \in Int, nidl \in Int, ndet \in Int, Drained => Drained',
           NEW i \in Int, NEW d \in Int, NEW a \in Int, NEW u \in Int, NEW n \in Int,
           NIdle' = NIdle + i, NDetached' = NDetached + d, NAlive' = NAlive + a,
           NUncounted' = NUncounted + u, NUnnumbered' = NUnnumbered + n,
           nidl' = nidl + i, ndet' = ndet + d - u,
           Drained' \/ nth' - nth <= a - n
    PROVE  Counted'
<1>1. /\ NIdle \in Nat /\ NDetached \in Nat /\ NAlive \in Nat
      /\ NUncounted \in Nat /\ NUnnumbered \in Nat
  BY Numbers, Zenon DEF NumbersAre
<1>2. nidl = NIdle /\ ndet = NDetached - NUncounted
  BY Zenon DEF Counted
<1>3. nidl' = NIdle' /\ ndet' = NDetached' - NUncounted'
  BY <1>1, <1>2
<1>4. ASSUME ~Drained' PROVE nth' + NUnnumbered' <= NAlive'
  <2>1. nth + NUnnumbered <= NAlive /\ nth' - nth <= a - n
    BY <1>4, Zenon DEF Counted
  <2>2. \A p, q, e, f \in Int : p + e <= f /\ q - p <= a - n => q + (e + n) <= f + a
    OBVIOUS
  <2>3. NUnnumbered \in Int /\ NAlive \in Int
    BY <1>1
  <2>4. nth' + (NUnnumbered + n) <= NAlive + a
    BY <2>1, <2>2, <2>3, Zenon
  <2> QED
    BY <2>4, Zenon
<1> QED
  BY <1>3, <1>4, Zenon DEF Counted

\* Nothing that is counted happens.
LEMMA CountedStays ==
    ASSUME Counted, nth \in Int, nidl \in Int, ndet \in Int, Drained => Drained', UNCHANGED <<nth, nidl, ndet>>,
           UNCHANGED <<NIdle, NDetached, NAlive, NUncounted, NUnnumbered>>
    PROVE  Counted'
<1>1. /\ NIdle \in Nat /\ NDetached \in Nat /\ NAlive \in Nat
      /\ NUncounted \in Nat /\ NUnnumbered \in Nat
  BY Numbers, Zenon DEF NumbersAre
<1> QED
  BY <1>1, Zenon DEF Counted

\* A thread moves between places that count the same.
LEMMA SameWorker ==
    ASSUME NEW w \in Workers, \A x \in Workers : x # w => worker'[x] = worker[x],
           \/ worker[w].pc \in {"top", "crowded", "idle", "run"} /\ worker'[w].pc \in {"top", "crowded", "idle", "run"}
           \/ worker[w].pc \in {"dequeue", "wait", "got"} /\ worker'[w].pc \in {"dequeue", "wait", "got"}
           \/ worker[w].pc = "exiting" /\ worker'[w].pc = "none"
    PROVE  UNCHANGED <<NIdle, NDetached, NAlive>>
<1>1. NumbersAre
  BY Numbers
<1> QED
  BY <1>1, WorkerEffect DEF Bit, IdlePCs, DetachedPCs, AlivePCs, NumbersAre

LEMMA SameSub ==
    ASSUME UNCHANGED sub
    PROVE  WokenS /\ NUncounted' = NUncounted /\ NUnnumbered' = NUnnumbered
<1>1. WokenS
  BY DEF WokenS
<1> QED
  BY <1>1, WokenEffect

Ints == nth \in Int /\ nidl \in Int /\ ndet \in Int

LEMMA LoopTopLedger ==
    ASSUME IInv, Counted, Served, NEW w \in Workers, LoopTop(w) \/ (Finish(w) /\ pool.elastic) \/ Exit(w)
    PROVE  Counted' /\ Served'
<1>1. worker \in [Workers -> WorkerType] /\ Ints
  BY DEF IInv, TypeA, Ints
<1>2. UNCHANGED <<queue, closed, sub, nth, nidl, ndet, hung, raced>>
  BY DEF LoopTop, Finish, Exit, counters, history
<1>3. /\ \A x \in Workers : x # w => worker'[x] = worker[x]
      /\ \/ worker[w].pc \in {"top", "run"} /\ worker'[w].pc \in {"top", "crowded", "idle"}
         \/ worker[w].pc = "exiting" /\ worker'[w].pc = "none"
  <2>1. CASE LoopTop(w)
    <3>1. worker[w].pc = "top" /\ (GotoW(w, "idle") \/ GotoW(w, "crowded"))
      BY <2>1 DEF LoopTop
    <3> QED
      BY <1>1, <3>1, MoveW DEF WorkerPCs
  <2>2. CASE Finish(w) /\ pool.elastic
    <3>1. worker[w].pc = "run" /\ worker' = [worker EXCEPT ![w] = [pc |-> "top", task |-> None]]
      BY <2>2 DEF Finish, At
    <3> QED
      BY <1>1, <3>1, SetW DEF WorkerPCs
  <2>3. CASE Exit(w)
    <3>1. worker[w].pc = "exiting" /\ worker' = [worker EXCEPT ![w] = [pc |-> "none", task |-> None]]
      BY <2>3 DEF Exit, At
    <3> QED
      BY <1>1, <3>1, SetW DEF WorkerPCs
  <2> QED
    BY <2>1, <2>2, <2>3
<1>4. UNCHANGED <<NIdle, NDetached, NAlive>>
  BY <1>3, SameWorker
<1>5. WokenS /\ UNCHANGED <<NUncounted, NUnnumbered>>
  BY <1>2, SameSub
<1>6. Drained' <=> Drained
  BY <1>2 DEF Drained
<1>7. Counted'
  BY <1>1, <1>2, <1>4, <1>5, <1>6, CountedStays DEF Ints
<1>8. Lively' <=> Lively
  BY <1>4, <1>6, Zenon DEF Lively
<1>9. /\ worker'[w].pc = "empty" => Drained'
      /\ worker'[w].pc \in {"leave", "exiting"} => closed \/ nth' >= 1
  BY <1>3
<1>10. Served'
  BY <1>2, <1>3, <1>5, <1>6, <1>8, <1>9, ServedWorker
<1> QED
  BY <1>7, <1>10

\* The steps of a thread of the pool that count.
LEMMA WorkerLedger ==
    ASSUME IInv, Counted, Served, NEW w \in Workers, NEW l \in WorkerPCs, GotoW(w, l),
           UNCHANGED <<queue, closed, sub, hung, raced>>, nth' \in Int,
           NEW i \in Int, NEW d \in Int, NEW a \in Int,
           i = Bit(l \in IdlePCs) - Bit(worker[w].pc \in IdlePCs),
           d = Bit(l \in DetachedPCs) - Bit(worker[w].pc \in DetachedPCs),
           a = Bit(l \in AlivePCs) - Bit(worker[w].pc \in AlivePCs),
           nidl' = nidl + i, ndet' = ndet + d, nth' - nth <= a,
           l # "empty", l \in {"leave", "exiting"} => closed \/ nth' >= 1,
           nth' < 0 => nth < 0 \/ l \in AlivePCs,
           nth >= 1 => nth' >= 1, a >= 0 \/ nth' >= 1
    PROVE  Counted' /\ Served'
<1>1. worker \in [Workers -> WorkerType] /\ nth \in Int /\ nidl \in Int /\ ndet \in Int
  BY DEF IInv, TypeA
<1>2. worker'[w].pc = l /\ \A x \in Workers : x # w => worker'[x] = worker[x]
  BY <1>1, MoveW
<1>3. /\ NIdle \in Nat /\ NDetached \in Nat /\ NAlive \in Nat
      /\ NUncounted \in Nat /\ NUnnumbered \in Nat
  BY Numbers, Zenon DEF NumbersAre
<1>4. \A b, c \in BOOLEAN : \A k \in Nat : k + Bit(b) - Bit(c) = k + (Bit(b) - Bit(c))
  BY DEF Bit
<1>5. NIdle' = NIdle + i /\ NDetached' = NDetached + d /\ NAlive' = NAlive + a
  <2>1. /\ NIdle' = NIdle + Bit(l \in IdlePCs) - Bit(worker[w].pc \in IdlePCs)
        /\ NDetached' = NDetached + Bit(l \in DetachedPCs) - Bit(worker[w].pc \in DetachedPCs)
        /\ NAlive' = NAlive + Bit(l \in AlivePCs) - Bit(worker[w].pc \in AlivePCs)
    BY <1>2, WorkerEffect
  <2>2. \A Q : (l \in Q) \in BOOLEAN /\ (worker[w].pc \in Q) \in BOOLEAN
    OBVIOUS
  <2> QED
    BY <1>3, <1>4, <2>1, <2>2, Zenon
<1>6. WokenS /\ UNCHANGED <<NUncounted, NUnnumbered>>
  BY SameSub
<1>7. NUncounted' = NUncounted + 0 /\ NUnnumbered' = NUnnumbered + 0
  BY <1>3, <1>6
<1>8. Drained' <=> Drained
  BY DEF Drained
<1>9. Counted'
  <2>1. ndet' = ndet + d - 0 /\ nth' - nth <= a - 0 /\ 0 \in Int
    BY <1>1
  <2> QED
    BY <1>1, <1>5, <1>7, <1>8, <2>1, CountedStep, Zenon
<1>10. NAlive' >= NAlive \/ nth' >= 1
  <2>1. \A k \in Nat : a >= 0 => k + a >= k
    OBVIOUS
  <2> QED
    BY <1>3, <1>5, <2>1, Zenon
<1>11. Lively => Lively'
  BY <1>8, <1>9, <1>10, LivelyStays
<1>12. l \in AlivePCs => Lively'
  <2>1. ASSUME l \in AlivePCs PROVE NAlive' # 0
    <3>1. w \in WithPC(AlivePCs)'
      BY <1>2, <2>1 DEF WithPC
    <3> QED
      BY <3>1, FiniteThreads, FS_EmptySet DEF NAlive
  <2>2. NAlive' \in Nat
    BY Numbers, Zenon DEF NumbersAre
  <2>3. l \in AlivePCs => NAlive' > 0
    BY <2>1, <2>2
  <2> QED
    BY <2>3, Zenon DEF Lively
<1>13. Served'
  <2>1. nth' < 0 => nth < 0 \/ Lively'
    BY <1>12, Zenon
  <2>2. worker'[w].pc # "empty" /\ (worker'[w].pc \in {"leave", "exiting"} => closed \/ nth' >= 1)
    BY <1>2
  <2> QED
    BY <1>2, <1>6, <1>8, <1>11, <2>1, <2>2, ServedWorker
<1> QED
  BY <1>9, <1>13

LEMMA CountingLedger ==
    ASSUME IInv, Counted, Served, NEW w \in Workers,
           Crowded(w) \/ BeginIdle(w) \/ EndIdle(w) \/ Leave(w)
    PROVE  Counted' /\ Served'
<1> USE DEF Bit, IdlePCs, DetachedPCs, AlivePCs, WorkerPCs
<1>1. nth \in Int /\ nidl \in Int /\ ndet \in Int
  BY DEF IInv, TypeA
<1>2. UNCHANGED <<queue, closed, sub, hung, raced>>
  BY DEF Crowded, BeginIdle, EndIdle, Leave, history
<1>3. CASE Crowded(w) /\ nth > 1
  <2>1. worker[w].pc = "crowded" /\ GotoW(w, "leave") /\ nth' = nth - 1 /\ nidl' = nidl + 0 /\ ndet' = ndet + 0
    BY <1>1, <1>3 DEF Crowded
  <2>2. /\ 0 = Bit("leave" \in IdlePCs) - Bit(worker[w].pc \in IdlePCs)
        /\ 0 = Bit("leave" \in DetachedPCs) - Bit(worker[w].pc \in DetachedPCs)
        /\ -1 = Bit("leave" \in AlivePCs) - Bit(worker[w].pc \in AlivePCs)
    BY <2>1
  <2>3. nth' - nth <= -1 /\ nth' >= 1 /\ nth' \in Int /\ ~(nth' < 0)
    BY <1>1, <1>3, <2>1
  <2>4. "leave" \in WorkerPCs /\ "leave" # "empty" /\ 0 \in Int /\ -1 \in Int
    OBVIOUS
  <2> HIDE DEF Bit, IdlePCs, DetachedPCs, AlivePCs, WorkerPCs
  <2> QED
    BY <1>2, <2>1, <2>2, <2>3, <2>4, WorkerLedger
<1>4. CASE Crowded(w) /\ ~(nth > 1)
  <2>1. /\ worker[w].pc = "crowded" /\ GotoW(w, "idle") /\ nidl' = nidl + 0 /\ ndet' = ndet + 0
        /\ nth' = IF nth - 1 # 0 THEN nth - 1 ELSE 1
    BY <1>1, <1>4 DEF Crowded
  <2>2. /\ 0 = Bit("idle" \in IdlePCs) - Bit(worker[w].pc \in IdlePCs)
        /\ 0 = Bit("idle" \in DetachedPCs) - Bit(worker[w].pc \in DetachedPCs)
        /\ 0 = Bit("idle" \in AlivePCs) - Bit(worker[w].pc \in AlivePCs)
    BY <2>1
  <2>3. nth' - nth <= 0 /\ nth' \in Int /\ (nth >= 1 => nth' >= 1)
    BY <1>1, <1>4, <2>1
  <2>4. "idle" \in WorkerPCs /\ "idle" # "empty" /\ 0 \in Int /\ "idle" \in AlivePCs /\ 0 >= 0
        /\ "idle" \notin {"leave", "exiting"}
    OBVIOUS
  <2> HIDE DEF Bit, IdlePCs, DetachedPCs, AlivePCs, WorkerPCs
  <2> QED
    BY <1>2, <2>1, <2>2, <2>3, <2>4, WorkerLedger
<1>5. CASE BeginIdle(w)
  <2>1. worker[w].pc = "idle" /\ GotoW(w, "dequeue") /\ nth' = nth /\ nidl' = nidl + 1 /\ ndet' = ndet + 0
    BY <1>1, <1>5 DEF BeginIdle
  <2>2. /\ 1 = Bit("dequeue" \in IdlePCs) - Bit(worker[w].pc \in IdlePCs)
        /\ 0 = Bit("dequeue" \in DetachedPCs) - Bit(worker[w].pc \in DetachedPCs)
        /\ 0 = Bit("dequeue" \in AlivePCs) - Bit(worker[w].pc \in AlivePCs)
    BY <2>1
  <2>3. nth' - nth <= 0 /\ nth' \in Int /\ (nth >= 1 => nth' >= 1)
    BY <1>1, <2>1
  <2>4. "dequeue" \in WorkerPCs /\ "dequeue" # "empty" /\ 0 \in Int /\ 1 \in Int /\ "dequeue" \in AlivePCs
        /\ 0 >= 0 /\ "dequeue" \notin {"leave", "exiting"}
    OBVIOUS
  <2> HIDE DEF Bit, IdlePCs, DetachedPCs, AlivePCs, WorkerPCs
  <2> QED
    BY <1>2, <2>1, <2>2, <2>3, <2>4, WorkerLedger
<1>6. CASE EndIdle(w) /\ worker[w].pc = "got"
  <2>1. worker[w].pc = "got" /\ GotoW(w, "run") /\ nth' = nth /\ nidl' = nidl + (-1) /\ ndet' = ndet + 0
    BY <1>1, <1>6 DEF EndIdle
  <2>2. /\ -1 = Bit("run" \in IdlePCs) - Bit(worker[w].pc \in IdlePCs)
        /\ 0 = Bit("run" \in DetachedPCs) - Bit(worker[w].pc \in DetachedPCs)
        /\ 0 = Bit("run" \in AlivePCs) - Bit(worker[w].pc \in AlivePCs)
    BY <2>1
  <2>3. nth' - nth <= 0 /\ nth' \in Int /\ (nth >= 1 => nth' >= 1)
    BY <1>1, <2>1
  <2>4. "run" \in WorkerPCs /\ "run" # "empty" /\ 0 \in Int /\ -1 \in Int /\ "run" \in AlivePCs /\ 0 >= 0
        /\ "run" \notin {"leave", "exiting"}
    OBVIOUS
  <2> HIDE DEF Bit, IdlePCs, DetachedPCs, AlivePCs, WorkerPCs
  <2> QED
    BY <1>2, <2>1, <2>2, <2>3, <2>4, WorkerLedger
<1>7. CASE EndIdle(w) /\ worker[w].pc = "empty"
  <2>1. worker[w].pc = "empty" /\ GotoW(w, "leave") /\ nth' = nth /\ nidl' = nidl + (-1) /\ ndet' = ndet + 0
    BY <1>1, <1>7 DEF EndIdle
  <2>2. /\ -1 = Bit("leave" \in IdlePCs) - Bit(worker[w].pc \in IdlePCs)
        /\ 0 = Bit("leave" \in DetachedPCs) - Bit(worker[w].pc \in DetachedPCs)
        /\ 0 = Bit("leave" \in AlivePCs) - Bit(worker[w].pc \in AlivePCs)
    BY <2>1
  <2>3. nth' - nth <= 0 /\ nth' \in Int /\ (nth >= 1 => nth' >= 1) /\ (nth' < 0 => nth < 0)
    BY <1>1, <2>1
  <2>4. "leave" \in WorkerPCs /\ "leave" # "empty" /\ 0 \in Int /\ -1 \in Int /\ 0 >= 0
    OBVIOUS
  <2>5. closed
    BY <2>1, Zenon DEF Served, Drained
  <2> HIDE DEF Bit, IdlePCs, DetachedPCs, AlivePCs, WorkerPCs
  <2> QED
    BY <1>2, <2>1, <2>2, <2>3, <2>4, <2>5, WorkerLedger
<1>8. CASE Leave(w)
  <2>1. worker[w].pc = "leave" /\ GotoW(w, "exiting") /\ nth' = nth /\ nidl' = nidl + 0 /\ ndet' = ndet + (-1)
    BY <1>1, <1>8 DEF Leave
  <2>2. /\ 0 = Bit("exiting" \in IdlePCs) - Bit(worker[w].pc \in IdlePCs)
        /\ -1 = Bit("exiting" \in DetachedPCs) - Bit(worker[w].pc \in DetachedPCs)
        /\ 0 = Bit("exiting" \in AlivePCs) - Bit(worker[w].pc \in AlivePCs)
    BY <2>1
  <2>3. nth' - nth <= 0 /\ nth' \in Int /\ (nth >= 1 => nth' >= 1) /\ (nth' < 0 => nth < 0)
    BY <1>1, <2>1
  <2>4. "exiting" \in WorkerPCs /\ "exiting" # "empty" /\ 0 \in Int /\ -1 \in Int /\ 0 >= 0
    OBVIOUS
  <2>5. closed \/ nth' >= 1
    BY <2>1 DEF Served
  <2> HIDE DEF Bit, IdlePCs, DetachedPCs, AlivePCs, WorkerPCs
  <2> QED
    BY <1>2, <2>1, <2>2, <2>3, <2>4, <2>5, WorkerLedger
<1>9. EndIdle(w) => worker[w].pc \in {"got", "empty"}
  BY DEF EndIdle
<1> QED
  BY <1>3, <1>4, <1>5, <1>6, <1>7, <1>8, <1>9

LEMMA DequeueLedger ==
    ASSUME IInv, pool.elastic, Counted, Served, NEW w \in Workers, dequeue(w)
    PROVE  Counted' /\ Served'
<1>1. /\ worker \in [Workers -> WorkerType] /\ sub \in [Threads -> SubType]
      /\ nth \in Int /\ nidl \in Int /\ ndet \in Int /\ queue \in Seq(Tasks) /\ closed \in BOOLEAN
  BY DEF IInv, TypeA
<1>2. UNCHANGED <<closed, nth, nidl, ndet, hung, raced>> /\ worker[w].pc = "dequeue"
  BY DEF dequeue, counters, history
<1>3. CASE queue # <<>>
  <2>1. /\ worker' = [worker EXCEPT ![w] = [pc |-> "got", task |-> Head(queue)]]
        /\ notify_enqueue
    BY <1>3 DEF dequeue
  <2>2. worker'[w].pc = "got" /\ \A x \in Workers : x # w => worker'[x] = worker[x]
    <3>1. Head(queue) \in Tasks \cup {None} /\ "got" \in WorkerPCs
      BY <1>1, <1>3 DEF WorkerPCs
    <3> QED
      BY <1>1, <2>1, <3>1, SetW
  <2>3. WokenS
    BY <1>1, <2>1, NotifyE DEF WokenS
  <2>4. UNCHANGED <<NIdle, NDetached, NAlive, NUncounted, NUnnumbered>>
    BY <1>2, <2>2, <2>3, SameWorker, WokenEffect
  <2>5. ~Drained
    BY <1>3 DEF Drained
  <2>6. Counted'
    BY <1>1, <1>2, <2>4, <2>5, CountedStays
  <2>7. Lively => Lively'
    BY <2>4, <2>5, Zenon DEF Lively
  <2>8. worker'[w].pc # "empty" /\ worker'[w].pc \notin {"leave", "exiting"}
    BY <2>2
  <2>9. Served'
    BY <1>2, <1>3, <2>2, <2>3, <2>5, <2>7, <2>8, ServedWorker
  <2> QED
    BY <2>6, <2>9
<1>4. CASE queue = <<>> /\ ~closed
  <2>1. GotoW(w, "wait") /\ UNCHANGED <<queue, sub>>
    BY <1>4 DEF dequeue
  <2>2. worker'[w].pc = "wait" /\ \A x \in Workers : x # w => worker'[x] = worker[x]
    BY <1>1, <2>1, MoveW DEF WorkerPCs
  <2>3. WokenS
    BY <2>1 DEF WokenS
  <2>4. UNCHANGED <<NIdle, NDetached, NAlive, NUncounted, NUnnumbered>>
    BY <1>2, <2>2, <2>3, SameWorker, WokenEffect
  <2>5. ~Drained
    BY <1>4 DEF Drained
  <2>6. Counted'
    BY <1>1, <1>2, <2>4, <2>5, CountedStays
  <2>7. Lively => Lively'
    BY <2>4, <2>5, Zenon DEF Lively
  <2>8. worker'[w].pc # "empty" /\ worker'[w].pc \notin {"leave", "exiting"}
    BY <2>2
  <2>9. Served'
    BY <1>2, <2>1, <2>2, <2>3, <2>5, <2>7, <2>8, ServedWorker
  <2> QED
    BY <2>6, <2>9
<1>5. CASE queue = <<>> /\ closed
  <2>1. GotoW(w, "empty") /\ UNCHANGED <<queue, sub>>
    BY <1>5 DEF dequeue
  <2>2. worker'[w].pc = "empty" /\ \A x \in Workers : x # w => worker'[x] = worker[x]
    BY <1>1, <2>1, MoveW DEF WorkerPCs
  <2>3. /\ NIdle \in Nat /\ NDetached \in Nat /\ NAlive \in Nat
        /\ NUncounted \in Nat /\ NUnnumbered \in Nat
    BY Numbers, Zenon DEF NumbersAre
  <2>4. NIdle' = NIdle + 0 /\ NDetached' = NDetached + 0 /\ NAlive' = NAlive + (-1)
    BY <1>2, <2>2, <2>3, WorkerEffect DEF Bit, IdlePCs, DetachedPCs, AlivePCs
  <2>5. WokenS /\ NUncounted' = NUncounted /\ NUnnumbered' = NUnnumbered
    BY <2>1, SameSub
  <2>6. NUncounted' = NUncounted + 0 /\ NUnnumbered' = NUnnumbered + 0
    BY <2>3, <2>5
  <2>7. Drained'
    BY <1>2, <1>5, <2>1 DEF Drained
  <2>8. nth' \in Int /\ nidl' = nidl + 0 /\ ndet' = ndet + 0 - 0 /\ 0 \in Int /\ -1 \in Int
    BY <1>1, <1>2
  <2>9. Counted'
    BY <1>1, <2>4, <2>6, <2>7, <2>8, CountedStep, Zenon
  <2>10. Lively'
    BY <2>7 DEF Lively
  <2>11. worker'[w].pc \notin {"leave", "exiting"}
    BY <2>2
  <2>12. Served'
    BY <1>2, <2>1, <2>2, <2>5, <2>7, <2>10, <2>11, ServedWorker
  <2> QED
    BY <2>9, <2>12
<1> QED
  BY <1>3, <1>4, <1>5

LEMMA EnqueueLedger ==
    ASSUME IInv, pool.elastic, Counted, Served, NEW th \in Threads, Submit(th)
    PROVE  Counted' /\ Served'
<1>1. /\ worker \in [Workers -> WorkerType] /\ sub \in [Threads -> SubType]
      /\ nth \in Int /\ nidl \in Int /\ ndet \in Int /\ queue \in Seq(Tasks)
  BY DEF IInv, TypeA
<1>2. UNCHANGED <<closed, nth, nidl, ndet, hung, raced>>
  BY DEF Submit, counters, history
<1>3. sub[th].pc \in {"none", "retry"}
  BY DEF Submit, MaySubmit
<1>4. PICK t \in Tasks : enqueue(th, t)
  <2>1. sub[th].pc = "retry" => sub[th].task \in Tasks
    BY DEF IInv, Shape
  <2> QED
    BY <2>1 DEF Submit
<1>5. /\ \A x \in Threads : x # th => sub'[x] = sub[x]
      /\ \/ sub'[th].pc = "none" /\ closed /\ UNCHANGED queue
         \/ sub'[th].pc = "full" /\ ~closed /\ UNCHANGED queue
         \/ sub'[th].pc = "anyidle" /\ ~closed
  <2>1. CASE closed /\ UNCHANGED queue /\ GotoS(th, "none")
    BY <1>1, <2>1, MoveS DEF SubPCs
  <2>2. CASE ~closed /\ UNCHANGED queue /\ sub' = [sub EXCEPT ![th] = [pc |-> "full", task |-> t]]
    BY <1>1, <2>2, SetS DEF SubPCs
  <2>3. CASE ~closed /\ GotoS(th, "anyidle")
    BY <1>1, <2>3, MoveS DEF SubPCs
  <2> QED
    BY <1>4, <2>1, <2>2, <2>3 DEF enqueue
<1>6. WokenW
  <2>1. CASE UNCHANGED worker
    BY <2>1 DEF WokenW
  <2>2. CASE notify_dequeue
    BY <1>1, <2>2, NotifyD DEF WokenW
  <2> QED
    BY <1>4, <2>1, <2>2 DEF enqueue
<1>7. UNCHANGED <<NIdle, NDetached, NAlive>>
  BY <1>6, WokenEffect
<1>8. UNCHANGED <<NUncounted, NUnnumbered>>
  <2>1. NUncounted \in Nat /\ NUnnumbered \in Nat
    BY Numbers, Zenon DEF NumbersAre
  <2> QED
    BY <1>3, <1>5, <2>1, SubmitEffect DEF Bit
<1>9. Drained => Drained'
  BY <1>2, <1>5 DEF Drained
<1>10. Counted'
  BY <1>1, <1>2, <1>7, <1>8, <1>9, CountedStays
<1>11. Lively => Lively'
  BY <1>7, <1>9, Zenon DEF Lively
<1>12. Served'
  <2>1. \A x \in Workers : worker'[x].pc \in {"empty", "leave", "exiting"} => worker'[x] = worker[x]
    BY <1>6 DEF WokenW
  <2>2. /\ sub'[th].pc \notin {"count", "number", "check"}
        /\ sub[th].pc \notin {"anyidle", "anyroom", "start"}
        /\ closed => sub'[th].pc = "none"
        /\ UNCHANGED queue \/ sub'[th].pc \in {"anyidle", "anyroom", "start"}
    BY <1>3, <1>5
  <2>3. queue' # <<>> => \/ Lively' \/ hung' \/ sub'[th].pc \in {"anyidle", "anyroom", "start"}
                         \/ queue # <<>> /\ hung' = hung
                            /\ sub[th].pc \notin {"anyidle", "anyroom", "start"}
    BY <1>2, <2>2, Zenon
  <2> QED
    BY <1>2, <1>5, <1>9, <1>11, <2>1, <2>2, <2>3, ServedSubmit
<1> QED
  BY <1>10, <1>12

\* What submit concludes from nidl and nth.
LEMMA PositiveMeansLively ==
    ASSUME IInv, Counted, Served
    PROVE  nidl > 0 \/ nth # 0 => Lively
<1>1. worker \in [Workers -> WorkerType] /\ nth \in Int
  BY DEF IInv, TypeA
<1>2. NIdle \in Nat /\ NAlive \in Nat /\ NUnnumbered \in Nat
  BY Numbers, Zenon DEF NumbersAre
<1>3. ASSUME nidl > 0 PROVE Lively
  <2>1. WithPC(IdlePCs) # {}
    BY <1>2, <1>3, FS_EmptySet DEF Counted, NIdle
  <2>2. PICK w \in Workers : worker[w].pc \in IdlePCs
    BY <2>1 DEF WithPC
  <2>3. CASE worker[w].pc = "empty"
    BY <2>3, Zenon DEF Served, Lively
  <2>4. CASE worker[w].pc # "empty"
    <3>1. w \in WithPC(AlivePCs)
      BY <2>2, <2>4 DEF WithPC, IdlePCs, AlivePCs
    <3>2. NAlive # 0
      BY <3>1, FiniteThreads, FS_EmptySet DEF NAlive
    <3>3. NAlive > 0
      BY <1>2, <3>2
    <3> QED
      BY <3>3, Zenon DEF Lively
  <2> QED
    BY <2>3, <2>4
<1>4. ASSUME nth > 0 PROVE Lively
  <2>1. CASE Drained
    BY <2>1, Zenon DEF Lively
  <2>2. CASE ~Drained
    <3>1. nth + NUnnumbered <= NAlive
      BY <2>2, Zenon DEF Counted
    <3>2. NAlive > 0
      BY <1>1, <1>2, <1>4, <3>1
    <3> QED
      BY <3>2, Zenon DEF Lively
  <2> QED
    BY <2>1, <2>2
<1>5. ASSUME nth < 0 PROVE Lively
  BY <1>5, Zenon DEF Served
<1>6. nth # 0 => nth > 0 \/ nth < 0
  BY <1>1
<1> QED
  BY <1>3, <1>4, <1>5, <1>6, Zenon

\* Steps of submit after which the thread count is as before.
LEMMA SubmitLedger ==
    ASSUME IInv, Counted, Served, NEW th \in Threads,
           AnyIdle(th) \/ AnyRoom(th) \/ StartFails(th) \/ SubmitReturns(th)
    PROVE  Counted' /\ Served'
<1>1. sub \in [Threads -> SubType] /\ nth \in Int /\ nidl \in Int /\ ndet \in Int
  BY DEF IInv, TypeA
<1>2. UNCHANGED <<queue, closed, worker, nth, nidl, ndet, raced>>
  BY DEF AnyIdle, AnyRoom, StartFails, SubmitReturns, counters, history
<1>3. /\ \A x \in Threads : x # th => sub'[x] = sub[x]
      /\ \/ /\ sub[th].pc \in {"anyidle", "anyroom"} /\ hung' = hung
            /\ sub'[th].pc \in {"anyroom", "start"} \/ (sub'[th].pc = "check" /\ (nidl > 0 \/ nth # 0))
         \/ sub[th].pc = "start" /\ sub'[th].pc = "check" /\ (hung' \/ nth # 0) /\ (hung => hung')
         \/ sub[th].pc = "check" /\ sub'[th].pc = "none" /\ hung' = hung
  <2>1. CASE AnyIdle(th)
    <3>1. /\ sub[th].pc = "anyidle" /\ hung' = hung
          /\ (GotoS(th, "check") /\ nidl > 0) \/ GotoS(th, "anyroom")
      BY <2>1 DEF AnyIdle, history
    <3>2. ASSUME GotoS(th, "check")
          PROVE  sub'[th].pc = "check" /\ \A x \in Threads : x # th => sub'[x] = sub[x]
      BY <1>1, <3>2, MoveS DEF SubPCs
    <3>3. ASSUME GotoS(th, "anyroom")
          PROVE  sub'[th].pc = "anyroom" /\ \A x \in Threads : x # th => sub'[x] = sub[x]
      BY <1>1, <3>3, MoveS DEF SubPCs
    <3> QED
      BY <3>1, <3>2, <3>3, Zenon
  <2>2. CASE AnyRoom(th)
    <3>1. /\ sub[th].pc = "anyroom" /\ hung' = hung
          /\ (GotoS(th, "check") /\ nth # 0) \/ GotoS(th, "start")
      BY <1>1, <2>2, MaxAssumption DEF AnyRoom, history
    <3>2. ASSUME GotoS(th, "check")
          PROVE  sub'[th].pc = "check" /\ \A x \in Threads : x # th => sub'[x] = sub[x]
      BY <1>1, <3>2, MoveS DEF SubPCs
    <3>3. ASSUME GotoS(th, "start")
          PROVE  sub'[th].pc = "start" /\ \A x \in Threads : x # th => sub'[x] = sub[x]
      BY <1>1, <3>3, MoveS DEF SubPCs
    <3> QED
      BY <3>1, <3>2, <3>3, Zenon
  <2>3. CASE StartFails(th)
    <3>1. /\ sub[th].pc = "start" /\ GotoS(th, "check")
          /\ (hung' \/ nth # 0) /\ (hung => hung')
      BY <2>3 DEF StartFails
    <3> QED
      BY <1>1, <3>1, MoveS DEF SubPCs
  <2>4. CASE SubmitReturns(th)
    <3>1. sub[th].pc = "check" /\ GotoS(th, "none") /\ hung' = hung
      BY <2>4 DEF SubmitReturns, history
    <3> QED
      BY <1>1, <3>1, MoveS DEF SubPCs
  <2> QED
    BY <2>1, <2>2, <2>3, <2>4
<1>4. UNCHANGED <<NIdle, NDetached, NAlive>>
  <2>1. WokenW
    BY <1>2 DEF WokenW
  <2> QED
    BY <2>1, WokenEffect
<1>5. UNCHANGED <<NUncounted, NUnnumbered>>
  <2>1. NUncounted \in Nat /\ NUnnumbered \in Nat
    BY Numbers, Zenon DEF NumbersAre
  <2> QED
    BY <1>3, <2>1, SubmitEffect DEF Bit
<1>6. Drained' <=> Drained
  BY <1>2 DEF Drained
<1>7. Counted'
  BY <1>1, <1>2, <1>4, <1>5, <1>6, CountedStays
<1>8. Lively' <=> Lively
  BY <1>4, <1>6, Zenon DEF Lively
<1>9. nidl > 0 \/ nth # 0 => Lively'
  BY <1>8, PositiveMeansLively, Zenon
<1>10. Served'
  <2>1. \A x \in Workers : worker'[x] = worker[x]
    BY <1>2
  <2>2. /\ sub'[th].pc \notin {"count", "number"}
        /\ sub'[th].pc = "check" => nidl > 0 \/ nth # 0 \/ hung'
        /\ sub[th].pc # "none" /\ (hung => hung')
        /\ \/ hung' \/ nth # 0 \/ nidl > 0 \/ sub'[th].pc \in {"anyidle", "anyroom", "start"}
           \/ hung' = hung /\ sub[th].pc \notin {"anyidle", "anyroom", "start"}
    BY <1>3
  <2>3. sub'[th].pc = "check" => Lively' \/ hung'
    BY <1>9, <2>2, Zenon
  <2>4. queue' # <<>> => \/ Lively' \/ hung' \/ sub'[th].pc \in {"anyidle", "anyroom", "start"}
                         \/ queue # <<>> /\ hung' = hung
                            /\ sub[th].pc \notin {"anyidle", "anyroom", "start"}
    BY <1>2, <1>9, <2>2, Zenon
  <2> QED
    BY <1>2, <1>3, <1>6, <1>8, <2>1, <2>2, <2>3, <2>4, ServedSubmit
<1> QED
  BY <1>7, <1>10

LEMMA StartLedger ==
    ASSUME IInv, Counted, Served, NEW th \in Threads, StartThread(th)
    PROVE  Counted' /\ Served'
<1>1. /\ worker \in [Workers -> WorkerType] /\ sub \in [Threads -> SubType]
      /\ nth \in Int /\ nidl \in Int /\ ndet \in Int
  BY DEF IInv, TypeA
<1>2. UNCHANGED <<queue, closed, nth, nidl, ndet, raced>>
  BY DEF StartThread, counters
<1>3. PICK w \in Workers : worker[w].pc = "none" /\ worker' = [worker EXCEPT ![w] = [pc |-> "top", task |-> None]]
  BY DEF StartThread, At
<1>4. worker'[w].pc = "top" /\ \A x \in Workers : x # w => worker'[x] = worker[x]
  BY <1>1, <1>3, SetW DEF WorkerPCs
<1>5. sub[th].pc = "start" /\ sub'[th].pc = "count" /\ \A x \in Threads : x # th => sub'[x] = sub[x]
  <2>1. sub[th].pc = "start" /\ GotoS(th, "count")
    BY DEF StartThread
  <2> QED
    BY <1>1, <2>1, MoveS DEF SubPCs
<1>6. /\ NIdle \in Nat /\ NDetached \in Nat /\ NAlive \in Nat
      /\ NUncounted \in Nat /\ NUnnumbered \in Nat
  BY Numbers, Zenon DEF NumbersAre
<1>7. NIdle' = NIdle + 0 /\ NDetached' = NDetached + 1 /\ NAlive' = NAlive + 1
  BY <1>3, <1>4, <1>6, WorkerEffect DEF Bit, IdlePCs, DetachedPCs, AlivePCs
<1>8. NUncounted' = NUncounted + 1 /\ NUnnumbered' = NUnnumbered + 1
  BY <1>5, <1>6, SubmitEffect DEF Bit
<1>9. Drained' <=> Drained
  BY <1>2 DEF Drained
<1>10. /\ nth' \in Int /\ nidl' = nidl + 0 /\ ndet' = ndet + 1 - 1 /\ nth' - nth <= 1 - 1
       /\ 0 \in Int /\ 1 \in Int
  BY <1>1, <1>2
<1>11. Counted'
  BY <1>1, <1>7, <1>8, <1>9, <1>10, CountedStep, Zenon
<1>12. Lively'
  <2>1. NAlive + 1 > 0
    BY <1>6
  <2> QED
    BY <1>7, <2>1, Zenon DEF Lively
<1>13. Served'
  <2>1. \A x \in Workers : worker'[x].pc \in {"empty", "leave", "exiting"} => worker'[x] = worker[x]
    BY <1>4
  <2>2. sub[th].pc # "none"
    BY <1>5
  <2> QED
    BY <1>2, <1>5, <1>9, <1>12, <2>1, <2>2, ServedSubmit
<1> QED
  BY <1>11, <1>13

LEMMA CountLedger ==
    ASSUME IInv, Counted, Served, NEW th \in Threads, CountThread(th) \/ NumberThread(th)
    PROVE  Counted' /\ Served'
<1>1. sub \in [Threads -> SubType] /\ nth \in Int /\ nidl \in Int /\ ndet \in Int
  BY DEF IInv, TypeA
<1>2. UNCHANGED <<queue, closed, worker, nidl, hung, raced>>
  BY DEF CountThread, NumberThread, history
<1>3. /\ NIdle \in Nat /\ NDetached \in Nat /\ NAlive \in Nat
      /\ NUncounted \in Nat /\ NUnnumbered \in Nat
  BY Numbers, Zenon DEF NumbersAre
<1>4. UNCHANGED <<NIdle, NDetached, NAlive>>
  <2>1. WokenW
    BY <1>2 DEF WokenW
  <2> QED
    BY <2>1, WokenEffect
<1>5. NIdle' = NIdle + 0 /\ NDetached' = NDetached + 0 /\ NAlive' = NAlive + 0
  BY <1>3, <1>4
<1>6. Drained' <=> Drained
  BY <1>2 DEF Drained
<1>7. Lively' <=> Lively
  BY <1>4, <1>6, Zenon DEF Lively
<1>8. /\ \A x \in Threads : x # th => sub'[x] = sub[x]
      /\ \/ sub[th].pc = "count" /\ sub'[th].pc = "number" /\ ndet' = ndet + 1 /\ nth' = nth
         \/ sub[th].pc = "number" /\ sub'[th].pc = "check" /\ ndet' = ndet /\ nth' = nth + 1
  <2>1. CASE CountThread(th)
    <3>1. sub[th].pc = "count" /\ GotoS(th, "number") /\ ndet' = ndet + 1 /\ nth' = nth
      BY <2>1 DEF CountThread
    <3> QED
      BY <1>1, <3>1, MoveS DEF SubPCs
  <2>2. CASE NumberThread(th)
    <3>1. sub[th].pc = "number" /\ GotoS(th, "check") /\ ndet' = ndet /\ nth' = nth + 1
      BY <2>2 DEF NumberThread
    <3> QED
      BY <1>1, <3>1, MoveS DEF SubPCs
  <2> QED
    BY <2>1, <2>2
<1>9. Counted'
  <2>1. CASE sub[th].pc = "count"
    <3>1. NUncounted' = NUncounted + (-1) /\ NUnnumbered' = NUnnumbered + 0
      BY <1>3, <1>8, <2>1, SubmitEffect DEF Bit
    <3>2. /\ nth' \in Int /\ nidl' = nidl + 0 /\ ndet' = ndet + 0 - (-1) /\ nth' - nth <= 0 - 0
          /\ 0 \in Int /\ -1 \in Int
      BY <1>1, <1>2, <1>8, <2>1
    <3> QED
      BY <1>1, <1>5, <1>6, <3>1, <3>2, CountedStep, Zenon
  <2>2. CASE sub[th].pc = "number"
    <3>1. NUncounted' = NUncounted + 0 /\ NUnnumbered' = NUnnumbered + (-1)
      BY <1>3, <1>8, <2>2, SubmitEffect DEF Bit
    <3>2. /\ nth' \in Int /\ nidl' = nidl + 0 /\ ndet' = ndet + 0 - 0 /\ nth' - nth <= 0 - (-1)
          /\ 0 \in Int /\ -1 \in Int
      BY <1>1, <1>2, <1>8, <2>2
    <3> QED
      BY <1>1, <1>5, <1>6, <3>1, <3>2, CountedStep, Zenon
  <2> QED
    BY <1>8, <2>1, <2>2
<1>10. Served'
  <2>1. \A x \in Workers : worker'[x] = worker[x]
    BY <1>2
  <2>2. /\ sub[th].pc \in {"count", "number"} /\ sub[th].pc # "none"
        /\ sub[th].pc \notin {"anyidle", "anyroom", "start"}
    BY <1>8
  <2>3. Lively'
    BY <1>7, <2>2, Zenon DEF Served
  <2>4. (nth >= 1 => nth' >= 1) /\ (nth' < 0 => nth < 0)
    BY <1>1, <1>8
  <2> QED
    BY <1>2, <1>6, <1>8, <2>1, <2>2, <2>3, <2>4, ServedSubmit
<1> QED
  BY <1>9, <1>10

----------------------------------------------------------------------------
\* shutdown

\* A threadpool's threads end when the queue is drained; and how far
\* shutdown is.
Ended == /\ closed <=> life # "open"
         /\ ~pool.elastic => \A w \in Workers : worker[w].pc = "none" => Drained
         /\ life = "down" /\ ~raced =>
              /\ \A w \in Workers : worker[w].pc = "none"
              /\ queue # <<>> => hung

\* Threads are woken by close or for no reason.
LEMMA WokenLedger ==
    ASSUME IInv, Counted, Served, WokenW, WokenS, UNCHANGED <<queue, nth, nidl, ndet, hung>>,
           closed => closed' /\ raced' = raced,
           ~closed => \/ ~closed'
                      \/ /\ \A c \in Callers : sub'[c].pc = "none"
                         /\ ~raced' => \A th \in Threads : sub'[th].pc = "none"
    PROVE  Counted' /\ Served'
<1>1. nth \in Int /\ nidl \in Int /\ ndet \in Int
  BY DEF IInv, TypeA
<1>2. UNCHANGED <<NIdle, NDetached, NAlive, NUncounted, NUnnumbered>>
  BY WokenEffect
<1>3. Drained => Drained'
  BY DEF Drained
<1>4. Counted'
  BY <1>1, <1>2, <1>3, CountedStays
<1>5. Lively => Lively'
  BY <1>2, <1>3, Zenon DEF Lively
<1>6. \A x \in Threads : /\ sub'[x].pc \in {"count", "number"} <=> sub[x].pc \in {"count", "number"}
                         /\ sub'[x].pc = "check" <=> sub[x].pc = "check"
                         /\ sub'[x].pc \in {"anyidle", "anyroom", "start"} <=> sub[x].pc \in {"anyidle", "anyroom", "start"}
                         /\ sub'[x].pc = "none" <=> sub[x].pc = "none"
  <2> TAKE x \in Threads
  <2>1. sub'[x] = sub[x] \/ (sub[x].pc = "full" /\ sub'[x].pc = "retry")
    BY DEF WokenS
  <2> QED
    BY <2>1
<1>7. \A x \in Workers : worker'[x].pc \in {"empty", "leave", "exiting"} => worker'[x] = worker[x]
  BY DEF WokenW
<1>8. \A x \in Workers : worker'[x].pc = "empty" => Drained'
  <2>1. \A x \in Workers : worker'[x].pc = "empty" => worker'[x] = worker[x]
    BY <1>7
  <2> QED
    BY <1>3, <2>1, Zenon DEF Served
<1>9. \A x \in Workers : worker'[x].pc \in {"leave", "exiting"} => closed' \/ nth' >= 1
  <2>1. \A x \in Workers : worker'[x].pc \in {"leave", "exiting"} => worker'[x] = worker[x]
    BY <1>7
  <2> QED
    BY <2>1, Zenon DEF Served
<1>10. nth' < 0 => Lively'
  BY <1>5, Zenon DEF Served
<1>11. \A th \in Threads : sub'[th].pc \in {"count", "number"} => Lively'
  BY <1>5, <1>6, Zenon DEF Served
<1>14. \A th \in Threads : sub'[th].pc = "check" => Lively' \/ hung'
  BY <1>5, <1>6, Zenon DEF Served
<1>12. queue' # <<>> => \/ Lively' \/ hung'
                        \/ \E th \in Threads : sub'[th].pc \in {"anyidle", "anyroom", "start"}
  BY <1>5, <1>6, Zenon DEF Served
<1>13. closed' => /\ \A c \in Callers : sub'[c].pc = "none"
                  /\ ~raced' => \A th \in Threads : sub'[th].pc = "none"
  <2>1. \A c \in Callers : c \in Threads
    BY DEF Threads
  <2> QED
    BY <1>6, <2>1, Zenon DEF Served
<1> QED
  BY <1>4, <1>8, <1>9, <1>10, <1>11, <1>12, <1>13, <1>14, Zenon DEF Served

LEMMA NextLedger ==
    ASSUME IInv, pool.elastic, Counted, Served, Ended, [Next]_vars
    PROVE  Counted' /\ Served'
<1>1. /\ worker \in [Workers -> WorkerType] /\ sub \in [Threads -> SubType] /\ closed \in BOOLEAN
  BY DEF IInv, TypeA
<1>2. CASE UNCHANGED vars
  <2>1. UNCHANGED <<queue, closed, worker, sub, nth, nidl, ndet, hung, raced>>
    BY <1>2 DEF vars, counters, history
  <2>2. WokenW /\ WokenS
    BY <2>1 DEF WokenW, WokenS
  <2> QED
    BY <2>1, <2>2, WokenLedger
<1>3. CASE Await
  <2>1. UNCHANGED <<queue, closed, worker, sub, nth, nidl, ndet, hung, raced>>
    BY <1>3 DEF Await, counters, history
  <2>2. WokenW /\ WokenS
    BY <2>1 DEF WokenW, WokenS
  <2> QED
    BY <2>1, <2>2, WokenLedger
<1>4. CASE Spurious
  <2>1. UNCHANGED <<queue, closed, nth, nidl, ndet, hung, raced>>
    BY <1>4 DEF Spurious, counters, history
  <2>2. WokenW
    <3>1. CASE UNCHANGED worker
      BY <3>1 DEF WokenW
    <3>2. CASE \E w \in Waiting : GotoW(w, "dequeue")
      BY <1>1, <3>2, NotifyD DEF notify_dequeue, WokenW
    <3> QED
      BY <1>4, <3>1, <3>2 DEF Spurious
  <2>3. WokenS
    <3>1. CASE UNCHANGED sub
      BY <3>1 DEF WokenS
    <3>2. CASE \E th \in Blocked : sub' = [sub EXCEPT ![th].pc = "retry"]
      BY <1>1, <3>2, NotifyE DEF notify_enqueue, WokenS
    <3> QED
      BY <1>4, <3>1, <3>2 DEF Spurious
  <2> QED
    BY <2>1, <2>2, <2>3, WokenLedger
<1>5. CASE Close
  <2>1. UNCHANGED <<queue, nth, nidl, ndet, hung>> /\ ~closed
    BY <1>5 DEF Close, counters, Ended
  <2>2. WokenW
    <3>1. \A x \in Workers : worker'[x] = IF worker[x].pc = "wait" THEN At("dequeue") ELSE worker[x]
      BY <1>5, Zenon DEF Close
    <3>2. At("dequeue").pc = "dequeue"
      BY DEF At
    <3> QED
      BY <3>1, <3>2, Zenon DEF WokenW
  <2>3. \A x \in Threads : sub'[x] = IF sub[x].pc = "full" THEN [sub[x] EXCEPT !.pc = "retry"] ELSE sub[x]
    BY <1>5, Zenon DEF Close
  <2>4. WokenS
    <3>1. \A x \in Threads : [sub[x] EXCEPT !.pc = "retry"].pc = "retry"
      BY <1>1 DEF SubType
    <3> QED
      BY <2>3, <3>1, Zenon DEF WokenS
  <2>5. \A x \in Threads : sub[x].pc = "none" => sub'[x].pc = "none"
    BY <2>4 DEF WokenS
  <2>6. \A c \in Callers : c \in Threads
    BY DEF Threads
  <2>7. \A c \in Callers : sub[c].pc = "none"
    BY <1>5, Zenon DEF Close
  <2>8. ~raced' => \A w \in Workers : sub[w].pc = "none"
    BY <1>5, Zenon DEF Close
  <2>9. \A x \in Threads : x \in Callers \/ x \in Workers
    BY DEF Threads
  <2>10. /\ \A c \in Callers : sub'[c].pc = "none"
         /\ ~raced' => \A th \in Threads : sub'[th].pc = "none"
    BY <2>5, <2>6, <2>7, <2>8, <2>9, Zenon
  <2> QED
    BY <2>1, <2>2, <2>4, <2>10, WokenLedger
<1>6. ASSUME NEW w \in Workers, WorkerStep(w) PROVE Counted' /\ Served'
  BY <1>6, LoopTopLedger, CountingLedger, DequeueLedger DEF WorkerStep
<1>7. ASSUME NEW th \in Threads, Submit(th) \/ SubmitStep(th) PROVE Counted' /\ Served'
  BY <1>7, EnqueueLedger, SubmitLedger, StartLedger, CountLedger DEF SubmitStep, Resume
<1> QED
  BY <1>2, <1>3, <1>4, <1>5, <1>6, <1>7 DEF Next

\* What a step does to closed and life.
LEMMA LifeStep ==
    ASSUME Ended, [Next]_vars
    PROVE  /\ closed' <=> life' # "open"
           /\ closed => closed' /\ raced' = raced
           /\ life' = "down" => life = "down" \/ Await
           /\ pool' = pool
<1>1. closed <=> life # "open"
  BY DEF Ended
<1>2. CASE Close
  BY <1>1, <1>2 DEF Close
<1>3. CASE Await
  BY <1>1, <1>3 DEF Await, history
<1>4. CASE Spurious
  BY <1>1, <1>4 DEF Spurious, history
<1>5. ASSUME NEW w \in Workers, Exit(w)
      PROVE  /\ closed' <=> life' # "open"
             /\ closed => closed' /\ raced' = raced
             /\ life' = "down" => life = "down"
             /\ pool' = pool
  BY <1>1, <1>5 DEF Exit, history
<1>6. CASE UNCHANGED <<closed, life, raced, pool>>
  BY <1>1, <1>6
<1>7. UNCHANGED vars => UNCHANGED <<closed, life, raced, pool>>
  BY DEF vars, history
<1>8. ASSUME NEW w \in Workers, WorkerStep(w) PROVE Exit(w) \/ UNCHANGED <<closed, life, raced, pool>>
  BY <1>8 DEF WorkerStep, LoopTop, Crowded, BeginIdle, dequeue, EndIdle, Finish, Leave, history
<1>9. ASSUME NEW th \in Threads, Submit(th) \/ SubmitStep(th) PROVE UNCHANGED <<closed, life, raced, pool>>
  BY <1>9 DEF Submit, SubmitStep, Resume, AnyIdle, AnyRoom, StartThread, StartFails, CountThread,
              NumberThread, SubmitReturns, history
<1> QED
  BY <1>2, <1>3, <1>4, <1>5, <1>6, <1>7, <1>8, <1>9 DEF Next

\* Once shutdown has returned, nothing happens to the queue or the threads.
LEMMA DownStays ==
    ASSUME IInv, pool.elastic => Served, Ended, [Next]_vars, life = "down", ~raced
    PROVE  UNCHANGED <<worker, queue, hung>>
<1>1. /\ worker \in [Workers -> WorkerType] /\ sub \in [Threads -> SubType] /\ Shape
  BY DEF IInv, TypeA
<1>2. closed /\ \A w \in Workers : worker[w].pc = "none"
  BY DEF Ended
<1>3. \A th \in Threads : sub[th].pc \in {"none", "full", "retry"}
  <2>1. CASE pool.elastic
    <3>1. \A th \in Threads : sub[th].pc = "none"
      BY <1>2, <2>1, Zenon DEF Served
    <3> QED
      BY <3>1
  <2>2. CASE ~pool.elastic
    BY <1>1, <2>2, Zenon DEF Shape
  <2> QED
    BY <2>1, <2>2
<1>4. ASSUME NEW w \in Workers, WorkerStep(w) PROVE FALSE
  BY <1>2, <1>4 DEF WorkerStep, LoopTop, Crowded, BeginIdle, dequeue, EndIdle, Finish, Leave, Exit
<1>5. ASSUME NEW th \in Threads, Submit(th) PROVE UNCHANGED <<worker, queue, hung>>
  BY <1>2, <1>5 DEF Submit, enqueue, history
<1>6. ASSUME NEW th \in Threads, SubmitStep(th) PROVE Submit(th)
  BY <1>3, <1>6 DEF SubmitStep, Resume, AnyIdle, AnyRoom, StartThread, StartFails, CountThread,
              NumberThread, SubmitReturns
<1>7. CASE Spurious
  <2>1. Waiting = {}
    BY <1>2 DEF Waiting
  <2> QED
    BY <1>7, <2>1 DEF Spurious, history
<1>8. CASE Close \/ Await
  BY <1>8 DEF Close, Await
<1>9. CASE UNCHANGED vars
  BY <1>9 DEF vars, history
<1> QED
  BY <1>4, <1>5, <1>6, <1>7, <1>8, <1>9 DEF Next

\* What shutdown waits for.
LEMMA DownBegins ==
    ASSUME IInv, pool.elastic => Counted /\ Served, Ended, Await, life' = "down", ~raced
    PROVE  /\ \A w \in Workers : worker[w].pc = "none"
           /\ queue # <<>> => hung
<1>1. AllDone /\ closed /\ \A w \in Workers : worker[w].pc # "exiting"
  BY DEF Await, Ended
<1>2. CASE ~pool.elastic
  <2>1. \A w \in Workers : worker[w].pc = "none"
    BY <1>1, <1>2 DEF AllDone
  <2>2. Drained
    BY <1>2, <2>1, ThreadAssumption, Zenon DEF Ended
  <2> QED
    BY <2>1, <2>2 DEF Drained
<1>3. CASE pool.elastic
  <2>1. ndet = 0 /\ Counted /\ Served
    BY <1>1, <1>3 DEF AllDone
  <2>2. \A th \in Threads : sub[th].pc = "none"
    BY <1>1, <2>1, Zenon DEF Served
  <2>3. InSubmit(StartedPCs) = {}
    BY <2>2 DEF InSubmit, StartedPCs
  <2>4. NUncounted = 0
    BY <2>3, FS_EmptySet DEF NUncounted
  <2>5. NDetached \in Nat /\ NAlive \in Nat /\ NAlive <= NDetached
    BY Numbers, Zenon DEF NumbersAre
  <2>6. NDetached = 0 /\ ~(NAlive > 0)
    BY <2>1, <2>4, <2>5 DEF Counted
  <2>7. WithPC(DetachedPCs) = {}
    BY <2>6, FiniteThreads, FS_EmptySet DEF NDetached
  <2>8. \A w \in Workers : worker[w].pc \in WorkerPCs /\ worker[w].pc \notin DetachedPCs
    BY <2>7 DEF WithPC, IInv, TypeA, WorkerType
  <2>9. \A w \in Workers : worker[w].pc = "none"
    BY <1>1, <2>8 DEF DetachedPCs, WorkerPCs
  <2>10. queue # <<>> => Lively \/ hung
    <3>1. \A th \in Threads : sub[th].pc \notin {"anyidle", "anyroom", "start"}
      BY <2>2
    <3> QED
      BY <2>1, <3>1, Zenon DEF Served
  <2>11. queue # <<>> => ~Lively
    BY <2>6, Zenon DEF Lively, Drained
  <2> QED
    BY <2>9, <2>10, <2>11, Zenon
<1> QED
  BY <1>2, <1>3

\* Threads of a threadpool end only when the queue is drained.
LEMMA FixedThreads ==
    ASSUME IInv, ~pool.elastic, Ended, [Next]_vars
    PROVE  \A w \in Workers : worker'[w].pc = "none" => Drained'
<1>1. /\ worker \in [Workers -> WorkerType] /\ sub \in [Threads -> SubType] /\ Shape /\ closed \in BOOLEAN
      /\ queue \in Seq(Tasks)
  BY DEF IInv, TypeA
<1>2. \A w \in Workers : worker[w].pc = "none" => Drained
  BY Zenon DEF Ended
<1>3. ASSUME WokenW, Drained => Drained' PROVE \A w \in Workers : worker'[w].pc = "none" => Drained'
  <2> TAKE w \in Workers
  <2>1. worker'[w].pc = "none" => worker[w].pc = "none"
    BY <1>3 DEF WokenW
  <2> QED
    BY <1>2, <1>3, <2>1, Zenon
<1>4. CASE UNCHANGED <<worker, queue>> /\ (closed => closed')
  BY <1>3, <1>4 DEF WokenW, Drained
<1>5. UNCHANGED vars \/ Await => UNCHANGED <<worker, queue>> /\ (closed => closed')
  BY DEF vars, Await
<1>6. CASE Spurious
  <2>1. WokenW
    <3>1. CASE UNCHANGED worker
      BY <3>1 DEF WokenW
    <3>2. CASE \E w \in Waiting : GotoW(w, "dequeue")
      BY <1>1, <3>2, NotifyD DEF notify_dequeue, WokenW
    <3> QED
      BY <1>6, <3>1, <3>2 DEF Spurious
  <2> QED
    BY <1>3, <1>6, <2>1 DEF Spurious, Drained
<1>7. CASE Close
  <2>1. WokenW
    <3>1. \A x \in Workers : worker'[x] = IF worker[x].pc = "wait" THEN At("dequeue") ELSE worker[x]
      BY <1>7, Zenon DEF Close
    <3>2. At("dequeue").pc = "dequeue"
      BY DEF At
    <3> QED
      BY <3>1, <3>2, Zenon DEF WokenW
  <2> QED
    BY <1>3, <1>7, <2>1 DEF Close, Drained
<1>8. ASSUME NEW th \in Threads, Submit(th) PROVE \A w \in Workers : worker'[w].pc = "none" => Drained'
  <2>1. PICK t : enqueue(th, t)
    BY <1>8 DEF Submit
  <2>2. WokenW
    <3>1. CASE UNCHANGED worker
      BY <3>1 DEF WokenW
    <3>2. CASE notify_dequeue
      BY <1>1, <3>2, NotifyD DEF WokenW
    <3> QED
      BY <2>1, <3>1, <3>2 DEF enqueue
  <2>3. Drained => Drained'
    BY <1>8, <2>1 DEF enqueue, Submit, Drained
  <2> QED
    BY <1>3, <2>2, <2>3
<1>9. ASSUME NEW th \in Threads, SubmitStep(th) PROVE Submit(th)
  <2>1. sub[th].pc \in {"none", "full", "retry"}
    BY <1>1 DEF Shape
  <2> QED
    BY <1>9, <2>1 DEF SubmitStep, Resume, AnyIdle, AnyRoom, StartThread, StartFails, CountThread,
                      NumberThread, SubmitReturns
<1>10. ASSUME NEW w \in Workers, WorkerStep(w) PROVE \A x \in Workers : worker'[x].pc = "none" => Drained'
  <2>1. worker[w].pc \in {"none", "dequeue", "wait", "run"}
    BY <1>1 DEF Shape
  <2>2. dequeue(w) \/ Finish(w)
    BY <1>10, <2>1 DEF WorkerStep, LoopTop, Crowded, BeginIdle, EndIdle, Leave, Exit
  <2>3. ASSUME NEW l \in WorkerPCs, worker'[w].pc = l, l # "none" \/ Drained',
               \A x \in Workers : x # w => worker'[x] = worker[x], Drained => Drained'
        PROVE  \A x \in Workers : worker'[x].pc = "none" => Drained'
    BY <1>2, <2>3, Zenon
  <2>4. CASE Finish(w)
    <3>1. worker' = [worker EXCEPT ![w] = [pc |-> "dequeue", task |-> None]] /\ "dequeue" \in WorkerPCs
      BY <2>4 DEF Finish, At, WorkerPCs
    <3>2. worker'[w].pc = "dequeue" /\ \A x \in Workers : x # w => worker'[x] = worker[x]
      BY <1>1, <3>1, SetW
    <3>3. Drained => Drained'
      BY <2>4 DEF Finish, Drained
    <3> QED
      BY <2>3, <3>1, <3>2, <3>3
  <2>5. CASE dequeue(w) /\ queue # <<>>
    <3>1. /\ worker' = [worker EXCEPT ![w] = [pc |-> "run", task |-> Head(queue)]] /\ "run" \in WorkerPCs
          /\ Head(queue) \in Tasks \cup {None}
      BY <1>1, <2>5 DEF dequeue, WorkerPCs
    <3>2. worker'[w].pc = "run" /\ \A x \in Workers : x # w => worker'[x] = worker[x]
      BY <1>1, <3>1, SetW
    <3>3. Drained => Drained'
      BY <2>5 DEF Drained
    <3> QED
      BY <2>3, <3>1, <3>2, <3>3
  <2>6. CASE dequeue(w) /\ queue = <<>>
    <3>1. /\ (GotoW(w, "wait") /\ ~closed) \/ (GotoW(w, "none") /\ closed)
          /\ UNCHANGED <<queue, closed>>
      BY <2>6 DEF dequeue
    <3>2. CASE GotoW(w, "wait")
      <4>1. worker'[w].pc = "wait" /\ \A x \in Workers : x # w => worker'[x] = worker[x]
        BY <1>1, <3>2, MoveW DEF WorkerPCs
      <4>2. Drained => Drained'
        BY <3>1 DEF Drained
      <4> QED
        BY <2>3, <4>1, <4>2 DEF WorkerPCs
    <3>3. CASE closed
      <4>1. Drained'
        BY <2>6, <3>1, <3>3 DEF Drained
      <4> QED
        BY <4>1
    <3> QED
      BY <3>1, <3>2, <3>3
  <2> QED
    BY <2>2, <2>4, <2>5, <2>6
<1> QED
  BY <1>4, <1>5, <1>6, <1>7, <1>8, <1>9, <1>10 DEF Next

LEMMA NextEnded ==
    ASSUME IInv, pool.elastic => Counted /\ Served, Ended, [Next]_vars
    PROVE  Ended'
<1>1. /\ closed' <=> life' # "open"
      /\ closed => closed' /\ raced' = raced
      /\ life' = "down" => life = "down" \/ Await
      /\ pool' = pool
  BY LifeStep
<1>2. ~pool'.elastic => \A w \in Workers : worker'[w].pc = "none" => Drained'
  BY <1>1, FixedThreads
<1>3. ASSUME life' = "down", ~raced'
      PROVE  (\A w \in Workers : worker'[w].pc = "none") /\ (queue' # <<>> => hung')
  <2>1. CASE life = "down"
    <3>1. closed /\ ~raced
      BY <1>1, <1>3, <2>1 DEF Ended
    <3>2. UNCHANGED <<worker, queue, hung>>
      BY <2>1, <3>1, DownStays
    <3> QED
      BY <2>1, <3>1, <3>2, Zenon DEF Ended
  <2>2. CASE Await
    <3>1. UNCHANGED <<worker, queue, hung, raced>>
      BY <2>2 DEF Await, history
    <3> QED
      BY <1>3, <2>2, <3>1, DownBegins, Zenon
  <2> QED
    BY <1>1, <1>3, <2>1, <2>2
<1> QED
  BY <1>1, <1>2, <1>3, Zenon DEF Ended

----------------------------------------------------------------------------
\* The whole invariant, and what it implies.

PoolInv == IInv /\ (pool.elastic => Counted /\ Served) /\ Ended

LEMMA InitPoolInv == Init => PoolInv
<1> SUFFICES ASSUME Init PROVE PoolInv
  OBVIOUS
<1>1. IInv
  BY InitIInv
<1>2. /\ \A w \in Workers : worker[w].pc = IF pool.elastic THEN "none" ELSE "dequeue"
      /\ \A th \in Threads : sub[th].pc = "none"
  <2>1. At("none").pc = "none" /\ At("dequeue").pc = "dequeue"
    BY DEF At
  <2>2. \A w \in Workers : worker[w] = At(IF pool.elastic THEN "none" ELSE "dequeue")
    BY DEF Init
  <2>3. \A th \in Threads : sub[th] = At("none")
    BY DEF Init
  <2> QED
    BY <2>1, <2>2, <2>3, Zenon
<1>3. /\ queue = <<>> /\ closed = FALSE /\ nth = 0 /\ nidl = 0 /\ ndet = 0
      /\ life = "open" /\ hung = FALSE /\ raced = FALSE
  BY DEF Init
<1>4. ASSUME pool.elastic PROVE Counted
  <2>1. /\ WithPC(IdlePCs) = {} /\ WithPC(DetachedPCs) = {} /\ WithPC(AlivePCs) = {}
        /\ InSubmit(StartedPCs) = {} /\ InSubmit({"count", "number"}) = {}
    BY <1>2, <1>4 DEF WithPC, InSubmit, IdlePCs, DetachedPCs, AlivePCs, StartedPCs
  <2>2. /\ NIdle = 0 /\ NDetached = 0 /\ NAlive = 0 /\ NUncounted = 0 /\ NUnnumbered = 0
    BY <2>1, FS_EmptySet DEF NIdle, NDetached, NAlive, NUncounted, NUnnumbered
  <2> QED
    BY <1>3, <2>2 DEF Counted
<1>5. ASSUME pool.elastic PROVE Served
  <2>1. \A w \in Workers : worker[w].pc = "none"
    BY <1>2, <1>5
  <2>2. /\ \A w \in Workers : worker[w].pc # "empty" /\ worker[w].pc \notin {"leave", "exiting"}
        /\ \A th \in Threads : sub[th].pc \notin {"count", "number", "check"}
    BY <1>2, <2>1
  <2>3. ~(nth < 0)
    BY <1>3
  <2> QED
    BY <1>3, <2>2, <2>3, Zenon DEF Served
<1>6. Ended
  BY <1>2, <1>3 DEF Ended
<1> QED
  BY <1>1, <1>4, <1>5, <1>6 DEF PoolInv

LEMMA NextPoolInv == PoolInv /\ [Next]_vars => PoolInv'
<1> SUFFICES ASSUME PoolInv, [Next]_vars PROVE PoolInv'
  OBVIOUS
<1>1. IInv /\ Ended /\ (pool.elastic => Counted /\ Served)
  BY DEF PoolInv
<1>2. IInv'
  BY <1>1, NextIInv
<1>3. pool' = pool
  BY <1>1, LifeStep
<1>4. pool.elastic => Counted' /\ Served'
  BY <1>1, NextLedger
<1>5. Ended'
  BY <1>1, NextEnded
<1> QED
  BY <1>2, <1>3, <1>4, <1>5, Zenon DEF PoolInv

LEMMA PoolInvariant == Spec => []PoolInv
BY InitPoolInv, NextPoolInv, PTL DEF Spec

(* Types; the queue never exceeds its capacity and nidl is never negative,
   whatever the number of producers and however often waits end without
   cause. *)
THEOREM TypeCorrect == Spec => []TypeOK
<1>1. PoolInv => TypeOK
  <2> SUFFICES ASSUME PoolInv PROVE TypeOK
    OBVIOUS
  <2>1. TypeA /\ Shape /\ (pool.elastic => Counted) /\ nidl \in Int
    BY DEF PoolInv, IInv, TypeA
  <2>2. nidl \in Nat
    <3>1. NIdle \in Nat
      BY Numbers, Zenon DEF NumbersAre
    <3>2. CASE pool.elastic
      BY <2>1, <3>1, <3>2, Zenon DEF Counted
    <3>3. CASE ~pool.elastic
      <4>1. nidl = 0
        BY <2>1, <3>3, Zenon DEF Shape
      <4> QED
        BY <4>1
    <3> QED
      BY <3>2, <3>3
  <2> QED
    BY <2>1, <2>2, Zenon DEF TypeA, TypeOK, WorkerType, SubType
<1> QED
  BY <1>1, PoolInvariant, PTL

(* elastic_threadpool's soft assertions hold for any number of threads,
   nthreadmax and nidlemax: a thread that leaves an open pool is not the
   last, and submit returns only to a pool that has a thread, unless the
   start of the only one has failed and submit has complained. *)
THEOREM SoftAssertsHold == Spec => []SoftAsserts
<1>1. PoolInv => SoftAsserts
  <2> SUFFICES ASSUME PoolInv, pool.elastic PROVE
                 /\ \A w \in Workers : worker[w].pc = "exiting" => ndet > 0 \/ closed
                 /\ (\A th \in Threads : sub[th].pc # "count") =>
                      \A th \in Threads : sub[th].pc = "check" => ndet > 0 \/ hung
    BY Zenon DEF SoftAsserts
  <2>1. Counted /\ Served /\ Shape /\ nth \in Int /\ ndet \in Int
    BY DEF PoolInv, IInv, TypeA
  <2>2. /\ NDetached \in Nat /\ NAlive \in Nat /\ NUncounted \in Nat /\ NUnnumbered \in Nat
        /\ NAlive <= NDetached /\ NUncounted <= NUnnumbered
    BY Numbers, Zenon DEF NumbersAre
  <2>3. ndet = NDetached - NUncounted
    BY <2>1, Zenon DEF Counted
  <2>4. ASSUME NEW w \in Workers, worker[w].pc = "exiting", ~closed PROVE ndet > 0
    <3>1. nth >= 1
      BY <2>1, <2>4 DEF Served
    <3>2. ~Drained
      BY <2>4 DEF Drained
    <3>3. nth + NUnnumbered <= NAlive
      BY <2>1, <3>2, Zenon DEF Counted
    <3> QED
      BY <2>1, <2>2, <2>3, <3>1, <3>3
  <2>5. ASSUME \A th \in Threads : sub[th].pc # "count", NEW th \in Threads,
               sub[th].pc = "check", ~hung
        PROVE  ndet > 0
    <3>1. NUncounted = 0
      <4>1. InSubmit(StartedPCs) = {}
        BY <2>5 DEF InSubmit, StartedPCs
      <4> QED
        BY <4>1, FS_EmptySet DEF NUncounted
    <3>2. sub[th].pc \in {"count", "number", "check"} /\ sub[th].pc # "none"
      BY <2>5
    <3>3. Lively
      BY <2>1, <2>5, Zenon DEF Served
    <3>4. NDetached > 0
      <4>1. CASE Drained
        <5>1. th \notin Callers
          BY <2>1, <3>2, <4>1, Zenon DEF Served, Drained
        <5>2. th \in Workers
          BY <5>1 DEF Threads
        <5>3. worker[th].pc = "run"
          BY <2>1, <3>2, <5>2, Zenon DEF Shape
        <5>4. th \in WithPC(DetachedPCs)
          BY <5>2, <5>3 DEF WithPC, DetachedPCs
        <5>5. NDetached # 0
          BY <5>4, FiniteThreads, FS_EmptySet DEF NDetached
        <5> QED
          BY <2>2, <5>5
      <4>2. CASE NAlive > 0
        BY <2>2, <4>2
      <4> QED
        BY <3>3, <4>1, <4>2 DEF Lively
    <3> QED
      BY <2>2, <2>3, <3>1, <3>4
  <2> QED
    BY <2>4, <2>5
<1> QED
  BY <1>1, PoolInvariant, PTL

(* No accepted task is left in the queue of a pool that has no thread to
   take it and no submit under way to start one, but when a thread could
   not be started. *)
THEOREM NoTaskStranded == Spec => []NeverStranded
<1>1. PoolInv => NeverStranded
  <2> SUFFICES ASSUME PoolInv, queue # <<>>, \A th \in Threads : sub[th].pc = "none", ~hung
               PROVE  \E w \in Workers : Alive(w)
    BY Zenon DEF NeverStranded
  <2>1. /\ Shape /\ Ended /\ (pool.elastic => Served)
        /\ \A w \in Workers : worker[w].pc \in WorkerPCs
    BY DEF PoolInv, IInv, TypeA, WorkerType
  <2>2. ~Drained
    BY DEF Drained
  <2>3. CASE ~pool.elastic
    <3>1. PICK w \in Workers : TRUE
      BY ThreadAssumption
    <3>2. worker[w].pc # "none" /\ worker[w].pc \in {"none", "dequeue", "wait", "run"}
      BY <2>1, <2>2, <2>3, Zenon DEF Ended, Shape
    <3> QED
      BY <3>2 DEF Alive
  <2>4. CASE pool.elastic
    <3>1. \A th \in Threads : sub[th].pc \notin {"anyidle", "anyroom", "start"}
      OBVIOUS
    <3>2. NAlive > 0
      BY <2>1, <2>2, <2>4, <3>1, Zenon DEF Served, Lively
    <3>3. WithPC(AlivePCs) # {}
      BY <3>2, FS_EmptySet DEF NAlive
    <3>4. PICK w \in Workers : worker[w].pc \in AlivePCs
      BY <3>3 DEF WithPC
    <3> QED
      BY <3>4 DEF Alive, AlivePCs
  <2> QED
    BY <2>3, <2>4
<1> QED
  BY <1>1, PoolInvariant, PTL

(* When shutdown returns, every accepted task has been retired and every
   thread is gone, unless a task was inside submit when shutdown began. *)
THEOREM ShutdownRetires == Spec => []Retired
<1>1. PoolInv => Retired
  BY Zenon DEF PoolInv, Ended, Retired
<1> QED
  BY <1>1, PoolInvariant, PTL

============================================================================
