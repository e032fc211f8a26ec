------------------------------- MODULE Pool -------------------------------
(***************************************************************************)
(* The two thread pools of core123 and the queue under both:               *)
(* producerconsumerqueue.hpp, threadpool.hpp, elastic_threadpool.hpp.      *)
(*                                                                         *)
(* A threadpool has a fixed number of threads and a queue of bounded       *)
(* length, which makes submit wait.  An elastic_threadpool never makes     *)
(* submit wait; it starts a thread when none is idle and lets threads go   *)
(* when too many are, deciding from three counters that other threads      *)
(* change between any two accesses.  Each access to a counter is a step    *)
(* of its own.  The queue's functions hold its mutex, so each is one step  *)
(* from the lock, or from the end of a wait, to the next wait or return.   *)
(*                                                                         *)
(* Tasks end, with a value or an exception; a task may submit tasks.       *)
(***************************************************************************)
EXTENDS Integers, Sequences, FiniteSets

CONSTANTS
    Workers,    \* threads of the pool: as many as the system can start
    Callers,    \* threads outside the pool
    Tasks,      \* what they submit, each once
    Pools,      \* the pools to consider: [elastic, capacity]
    Nthreadmax, \* arguments of elastic_threadpool
    Nidlemax,
    None        \* no task

ASSUME PoolAssumption == Pools \subseteq [elastic : BOOLEAN, capacity : Nat \ {0}]
ASSUME ThreadAssumption == /\ IsFiniteSet(Workers) /\ IsFiniteSet(Callers)
                           /\ Workers # {} /\ Workers \cap Callers = {}
ASSUME TaskAssumption == None \notin Tasks
ASSUME MaxAssumption == Nidlemax \in Nat \ {0} /\ Nthreadmax \in Nat /\ Nthreadmax >= Nidlemax

VARIABLES
    pool,       \* which of Pools this is
    queue,      \* the queue's list
    closed,     \* is_closed
    worker,     \* worker[w]: where a thread of the pool is, and its task
    sub,        \* sub[th]: where a thread is in submit
    nth, nidl, ndet,    \* elastic_threadpool's counters
    life,       \* "open", "closed", "waiting", "down": how far shutdown is
    fate,       \* fate[t]: "new", "submitted", "done" or "refused"
    hung,       \* a thread could not be started, and none was running
    raced       \* shutdown began while a task was inside submit

counters == <<nth, nidl, ndet>>
history == <<hung, raced>>
vars == <<pool, queue, closed, worker, sub, counters, life, fate, history>>

Threads == Workers \cup Callers

WorkerPCs == {"none", "top", "crowded", "idle", "dequeue", "wait", "got", "empty",
              "run", "leave", "exiting"}
SubPCs == {"none", "full", "retry", "anyidle", "anyroom", "start", "count", "number", "check"}

At(l) == [pc |-> l, task |-> None]

\* A threadpool starts its threads at once, an elastic_threadpool none.
Init == /\ pool \in Pools
        /\ queue = <<>>
        /\ closed = FALSE
        /\ worker = [w \in Workers |-> At(IF pool.elastic THEN "none" ELSE "dequeue")]
        /\ sub = [th \in Threads |-> At("none")]
        /\ nth = 0 /\ nidl = 0 /\ ndet = 0
        /\ life = "open"
        /\ fate = [t \in Tasks |-> "new"]
        /\ hung = FALSE /\ raced = FALSE

GotoW(w, l) == worker' = [worker EXCEPT ![w].pc = l]
GotoS(th, l) == sub' = [sub EXCEPT ![th] = At(l)]

----------------------------------------------------------------------------
\* producerconsumerqueue

Waiting == {w \in Workers : worker[w].pc = "wait"}
Blocked == {th \in Threads : sub[th].pc = "full"}

\* dequeue_able_cv.notify_one and enqueue_able_cv.notify_one.
notify_dequeue == IF Waiting = {} THEN UNCHANGED worker
                  ELSE \E w \in Waiting : GotoW(w, "dequeue")

\* Mutant: pop_front without notifying those who wait for room.
NotifyNobody == UNCHANGED sub

notify_enqueue == IF Blocked = {} THEN UNCHANGED sub
                  ELSE \E th \in Blocked : sub' = [sub EXCEPT ![th].pc = "retry"]

Full == Len(queue) >= pool.capacity

\* enqueue(t), on the first try or after a wait.  The caller of submit gets
\* an exception if the queue is closed.
enqueue(th, t) ==
    \/ /\ closed
       /\ fate' = [fate EXCEPT ![t] = "refused"]
       /\ GotoS(th, "none")
       /\ UNCHANGED <<queue, worker>>
    \/ /\ ~closed /\ Full
       /\ fate' = [fate EXCEPT ![t] = "submitted"]
       /\ sub' = [sub EXCEPT ![th] = [pc |-> "full", task |-> t]]
       /\ UNCHANGED <<queue, worker>>
    \/ /\ ~closed /\ ~Full
       /\ fate' = [fate EXCEPT ![t] = "submitted"]
       /\ queue' = Append(queue, t)
       /\ notify_dequeue
       /\ GotoS(th, IF pool.elastic THEN "anyidle" ELSE "none")

\* Mutant: the front is not popped.
DequeueCopies(w) ==
    /\ worker[w].pc = "dequeue"
    /\ \/ /\ queue # <<>>
          /\ worker' = [worker EXCEPT ![w] =
                          [pc |-> IF pool.elastic THEN "got" ELSE "run", task |-> Head(queue)]]
          /\ UNCHANGED queue
          /\ notify_enqueue
       \/ /\ queue = <<>>
          /\ GotoW(w, IF ~closed THEN "wait" ELSE IF pool.elastic THEN "empty" ELSE "none")
          /\ UNCHANGED <<queue, sub>>
    /\ UNCHANGED <<pool, closed, counters, life, fate, history>>

\* dequeue(), on the first try or after a wait.
dequeue(w) ==
    /\ worker[w].pc = "dequeue"
    /\ \/ /\ queue # <<>>
          /\ worker' = [worker EXCEPT ![w] =
                          [pc |-> IF pool.elastic THEN "got" ELSE "run", task |-> Head(queue)]]
          /\ queue' = Tail(queue)
          /\ notify_enqueue
       \/ /\ queue = <<>>
          /\ GotoW(w, IF ~closed THEN "wait" ELSE IF pool.elastic THEN "empty" ELSE "none")
          /\ UNCHANGED <<queue, sub>>
    /\ UNCHANGED <<pool, closed, counters, life, fate, history>>

\* A wait may end without a notification.
Spurious ==
    /\ \/ \E w \in Waiting : GotoW(w, "dequeue") /\ UNCHANGED <<sub, life>>
       \/ \E th \in Blocked : sub' = [sub EXCEPT ![th].pc = "retry"] /\ UNCHANGED <<worker, life>>
       \/ life = "waiting" /\ life' = "closed" /\ UNCHANGED <<worker, sub>>
    /\ UNCHANGED <<pool, queue, closed, counters, fate, history>>

----------------------------------------------------------------------------
\* submit

\* Callers outside the pool do not call submit after shutdown.  A task of a
\* threadpool may not submit: submit throws before it does anything.
MaySubmit(th) == /\ sub[th].pc = "none"
                 /\ IF th \in Callers THEN life = "open"
                    ELSE pool.elastic /\ worker[th].pc = "run"

Submit(th) ==
    /\ \/ MaySubmit(th) /\ \E t \in Tasks : fate[t] = "new" /\ enqueue(th, t)
       \/ sub[th].pc = "retry" /\ enqueue(th, sub[th].task)
    /\ UNCHANGED <<pool, closed, counters, life, history>>

\* Mutant: an off-by-one in no_more_threads.
AnyIdleOrNone(th) ==
    /\ sub[th].pc = "anyidle"
    /\ GotoS(th, IF nidl >= 0 THEN "check" ELSE "anyroom")
    /\ UNCHANGED <<pool, queue, closed, worker, counters, life, fate, history>>

\* no_more_threads: nidl.load() > 0 ...
AnyIdle(th) ==
    /\ sub[th].pc = "anyidle"
    /\ GotoS(th, IF nidl > 0 THEN "check" ELSE "anyroom")
    /\ UNCHANGED <<pool, queue, closed, worker, counters, life, fate, history>>

\* ... || nth.load() >= nthreadmax.
AnyRoom(th) ==
    /\ sub[th].pc = "anyroom"
    /\ GotoS(th, IF nth >= Nthreadmax THEN "check" ELSE "start")
    /\ UNCHANGED <<pool, queue, closed, worker, counters, life, fate, history>>

\* std::thread(worker_loop).detach().
StartThread(th) ==
    /\ sub[th].pc = "start"
    /\ \E w \in Workers : worker[w].pc = "none" /\ worker' = [worker EXCEPT ![w] = At("top")]
    /\ GotoS(th, "count")
    /\ hung' = FALSE
    /\ UNCHANGED <<pool, queue, closed, counters, life, fate, raced>>

\* The constructor throws.  With no other thread running, submit complains
\* that "submitted tasks will hang until the next call to submit()".
StartFails(th) ==
    /\ sub[th].pc = "start"
    /\ hung' = (hung \/ nth = 0)
    /\ GotoS(th, "check")
    /\ UNCHANGED <<pool, queue, closed, worker, counters, life, fate, raced>>

CountThread(th) ==
    /\ sub[th].pc = "count"
    /\ ndet' = ndet + 1
    /\ GotoS(th, "number")
    /\ UNCHANGED <<pool, queue, closed, worker, nth, nidl, life, fate, history>>

NumberThread(th) ==
    /\ sub[th].pc = "number"
    /\ nth' = nth + 1
    /\ GotoS(th, "check")
    /\ UNCHANGED <<pool, queue, closed, worker, nidl, ndet, life, fate, history>>

\* After core123_soft_assert(ndet.load() > 0).
SubmitReturns(th) ==
    /\ sub[th].pc = "check"
    /\ GotoS(th, "none")
    /\ UNCHANGED <<pool, queue, closed, worker, counters, life, fate, history>>

----------------------------------------------------------------------------
\* The threads of the pool

\* enough_idle_threads: is it worth to wait?
LoopTop(w) ==
    /\ worker[w].pc = "top"
    /\ GotoW(w, IF nidl < Nidlemax THEN "idle" ELSE "crowded")
    /\ UNCHANGED <<pool, queue, closed, sub, counters, life, fate, history>>

\* The compare_exchange of enough_idle_threads.
Crowded(w) ==
    /\ worker[w].pc = "crowded"
    /\ nth' = IF nth - 1 # 0 THEN nth - 1 ELSE 1
    /\ GotoW(w, IF nth > 1 THEN "leave" ELSE "idle")
    /\ UNCHANGED <<pool, queue, closed, sub, nidl, ndet, life, fate, history>>

BeginIdle(w) ==
    /\ worker[w].pc = "idle"
    /\ nidl' = nidl + 1
    /\ GotoW(w, "dequeue")
    /\ UNCHANGED <<pool, queue, closed, sub, nth, ndet, life, fate, history>>

EndIdle(w) ==
    /\ worker[w].pc \in {"got", "empty"}
    /\ nidl' = nidl - 1
    /\ GotoW(w, IF worker[w].pc = "got" THEN "run" ELSE "leave")
    /\ UNCHANGED <<pool, queue, closed, sub, nth, ndet, life, fate, history>>

\* The task returns or throws.
Finish(w) ==
    /\ worker[w].pc = "run" /\ sub[w].pc = "none"
    /\ fate' = [fate EXCEPT ![worker[w].task] = "done"]
    /\ worker' = [worker EXCEPT ![w] = At(IF pool.elastic THEN "top" ELSE "dequeue")]
    /\ UNCHANGED <<pool, queue, closed, sub, counters, life, history>>

\* worker_loop takes all_done_mtx until the thread has exited.
Leave(w) ==
    /\ worker[w].pc = "leave"
    /\ \A x \in Workers : worker[x].pc # "exiting"
    /\ ndet' = ndet - 1
    /\ GotoW(w, "exiting")
    /\ UNCHANGED <<pool, queue, closed, sub, nth, nidl, life, fate, history>>

\* Mutant: shutdown is not notified.
ExitSilently(w) ==
    /\ worker[w].pc = "exiting"
    /\ worker' = [worker EXCEPT ![w] = At("none")]
    /\ UNCHANGED <<pool, queue, closed, sub, counters, life, fate, history>>

\* After core123_soft_assert(ndet.load() > 0 || workq.closed()): the mutex is
\* released and shutdown is notified.
Exit(w) ==
    /\ worker[w].pc = "exiting"
    /\ worker' = [worker EXCEPT ![w] = At("none")]
    /\ life' = IF life = "waiting" THEN "closed" ELSE life
    /\ UNCHANGED <<pool, queue, closed, sub, counters, fate, history>>

----------------------------------------------------------------------------
\* shutdown

\* close() notifies everybody.  An elastic_threadpool's callers see to it
\* that no submit of theirs is under way.
Close ==
    /\ life = "open"
    /\ pool.elastic => \A c \in Callers : sub[c].pc = "none"
    /\ closed' = TRUE
    /\ worker' = [w \in Workers |-> IF worker[w].pc = "wait" THEN At("dequeue") ELSE worker[w]]
    /\ sub' = [th \in Threads |-> IF sub[th].pc = "full"
                                  THEN [sub[th] EXCEPT !.pc = "retry"] ELSE sub[th]]
    /\ life' = "closed"
    /\ raced' = \E w \in Workers : sub[w].pc # "none"
    /\ UNCHANGED <<pool, queue, counters, fate, hung>>

\* Mutant: shutdown waits for the queue to be drained, not for the tasks.
AllTaken == queue = <<>>

\* A threadpool joins its threads; an elastic_threadpool waits with
\* all_done_mtx for ndet to be 0.
AllDone == IF pool.elastic THEN ndet = 0 ELSE \A w \in Workers : worker[w].pc = "none"

Await ==
    /\ life = "closed"
    /\ \A w \in Workers : worker[w].pc # "exiting"
    /\ life' = IF AllDone THEN "down" ELSE IF pool.elastic THEN "waiting" ELSE "closed"
    /\ UNCHANGED <<pool, queue, closed, worker, sub, counters, fate, history>>

----------------------------------------------------------------------------
Resume(th) == sub[th].pc = "retry" /\ Submit(th)

SubmitStep(th) == Resume(th) \/ AnyIdle(th) \/ AnyRoom(th) \/ StartThread(th) \/ StartFails(th)
                  \/ CountThread(th) \/ NumberThread(th) \/ SubmitReturns(th)

WorkerStep(w) == LoopTop(w) \/ Crowded(w) \/ BeginIdle(w) \/ dequeue(w) \/ EndIdle(w)
                 \/ Finish(w) \/ Leave(w) \/ Exit(w)

Next == \/ \E th \in Threads : Submit(th) \/ SubmitStep(th)
        \/ \E w \in Workers : WorkerStep(w)
        \/ Spurious \/ Close \/ Await

Spec == Init /\ [][Next]_vars

\* Threads run and tasks end.
FairSpec == /\ Spec
            /\ \A c \in Callers : WF_vars(SubmitStep(c))
            /\ \A w \in Workers : WF_vars(SubmitStep(w) \/ WorkerStep(w))
            /\ WF_vars(Await)

----------------------------------------------------------------------------
(* The queue never holds more than its capacity, although several producers
   wait for room at once and waits end spuriously. *)
TypeOK == /\ pool \in Pools
          /\ queue \in Seq(Tasks) /\ Len(queue) <= pool.capacity
          /\ closed \in BOOLEAN
          /\ worker \in [Workers -> [pc : WorkerPCs, task : Tasks \cup {None}]]
          /\ sub \in [Threads -> [pc : SubPCs, task : Tasks \cup {None}]]
          /\ nth \in Int /\ nidl \in Nat /\ ndet \in Int
          /\ life \in {"open", "closed", "waiting", "down"}
          /\ fate \in [Tasks -> {"new", "submitted", "done", "refused"}]
          /\ hung \in BOOLEAN /\ raced \in BOOLEAN

Queued(t) == \E k \in 1 .. Len(queue) : queue[k] = t
HeldBy(t) == {w \in Workers : worker[w].task = t}
OfferedBy(t) == {th \in Threads : sub[th].task = t}

(* No task is lost or run twice: from submit to its end a task is in one
   place, with a submit that waits for room, in the queue, or with a thread. *)
OnePlace ==
    /\ \A j, k \in 1 .. Len(queue) : queue[j] = queue[k] => j = k
    /\ \A t \in Tasks :
         /\ fate[t] = "submitted" <=> Queued(t) \/ HeldBy(t) # {} \/ OfferedBy(t) # {}
         /\ Queued(t) => HeldBy(t) = {} /\ OfferedBy(t) = {}
         /\ HeldBy(t) # {} => OfferedBy(t) = {}
         /\ \A w, x \in HeldBy(t) : w = x
         /\ \A th, x \in OfferedBy(t) : th = x

(* The soft assertions of elastic_threadpool: no thread that leaves a pool
   in use is its last, and submit does not return from a pool without
   threads.  The second may fail while another submit has started a thread
   and not yet counted it, and when the pool's only thread could not be
   started, which submit has complained of. *)
SoftAsserts ==
    pool.elastic =>
        /\ \A w \in Workers : worker[w].pc = "exiting" => ndet > 0 \/ closed
        /\ (\A th \in Threads : sub[th].pc # "count") =>
             \A th \in Threads : sub[th].pc = "check" => ndet > 0 \/ hung

Alive(w) == worker[w].pc \notin {"none", "empty", "leave", "exiting"}

(* "If the last thread returns before the last submission there may be
   nothing to service the last submission.  That shouldn't happen"
   (ut_elastic_threadpool): with a task in the queue and no submit under
   way, some thread of the pool will come back to the queue, whatever the
   counters were when each decided to leave or not to start a thread; the
   exception is the one that submit complains of. *)
NeverStranded ==
    queue # <<>> /\ (\A th \in Threads : sub[th].pc = "none") =>
        (\E w \in Workers : Alive(w)) \/ hung

(* "shutdown() drains the work queue and waits until all previously
   submit()-ed work has been retired", if no task was inside submit when it
   began: a thread that such a task starts may exit before it is counted,
   and shutdown then returns while the task runs. *)
Retired ==
    life = "down" /\ ~raced /\ ~hung =>
        /\ queue = <<>>
        /\ \A w \in Workers : worker[w].pc = "none"

(* "f() will eventually be called by one of the threads in the pool": no
   notification is lost, neither on the way to an idle thread nor to a
   submit that waits for room, and close wakes both. *)
EveryTaskRuns ==
    \A t \in Tasks : fate[t] = "submitted" ~> fate[t] \in {"done", "refused"} \/ hung

(* shutdown, and with it the destructor, returns. *)
ShutdownReturns == life = "closed" ~> life = "down"
=============================================================================
