--------------------------- MODULE SharedThreader ---------------------------
(***************************************************************************)
(* The worker pool behind JSON parsing and threaded HTTP: BaseThreader of  *)
(* src/threading/SharedThreader.ts, the workers being those of             *)
(* WorkerCreator.ts, WorkerCreator.native.ts or SequentialWorker.ts.       *)
(*                                                                         *)
(* Everything but the workers runs on one JavaScript thread, so an action  *)
(* is the code between two awaits (or one callback).  run() is two         *)
(* actions, Run and Enter, around its `await this.init()`; terminate() is  *)
(* one action per worker it awaits.                                        *)
(*                                                                         *)
(* Bounds of the model, not of the code: MaxInits pools are created and    *)
(* each task is submitted once.                                            *)
(***************************************************************************)
EXTENDS Naturals, Sequences, FiniteSets

CONSTANTS
  Task,            \* calls to run() / runWithTransfer()
  Closer,          \* calls to terminate() or drain() that can be in progress
  PoolSize,        \* options.poolSize
  MaxInits,        \* how many times the pool may be created
  Stalling,        \* tasks whose worker may never answer: a fetch whose body stalls
  InitMayFail,     \* createWorker may throw
  WorkerMayCrash   \* a worker thread may die without answering

ASSUME PoolAssumption == PoolSize \in Nat \ {0} /\ MaxInits \in Nat \ {0}
ASSUME StallingAssumption == Stalling \subseteq Task
ASSUME SwitchAssumption == InitMayFail \in BOOLEAN /\ WorkerMayCrash \in BOOLEAN
ASSUME OutcomeAssumption == {"none", "unsettled", "rejected"} \cap Task = {}

InitId == 1..MaxInits
Worker == InitId \X (1..PoolSize)              \* the workers of each pool
Message == [id : Nat, task : Task]             \* postMessage({ id, op, data })

VARIABLES
  initialized,   \* this.initialized
  initializing,  \* this.initializing: 0 is null, k the promise of the k-th init
  initState,     \* what became of each init promise
  workers,       \* the array this.workers refers to is workers[arrayNo]
  arrayNo,       \* terminate() replaces the array; loops keep the one they began
  available,     \* this.available, a stack
  queue,         \* this.queue
  pending,       \* this.pending: id -> task
  idCounter,     \* this.idCounter
  inbox,         \* per worker, the messages whose answer may still arrive
  alive,         \* per worker, its thread runs and takes messages
  awaits,        \* per task, the init promise run() awaits; 0 when it need not
  phase,         \* per task, how far run() is: "idle", "awaitInit" or "entered"
  outcome,       \* per task, its promise: settled with the task whose result it is
  closer,        \* per closing call, where it stands
  raced          \* history: a run() has waited for the pool while it was being closed

poolVars == <<initialized, initializing, initState, workers, arrayNo>>
workVars == <<available, queue, pending, idCounter, inbox>>
vars == <<poolVars, workVars, alive, awaits, phase, outcome, closer, raced>>

CloserPC == {"idle", "draining", "drained", "terminating", "returned"}
NotClosing == [pc |-> "idle", array |-> 0, next |-> 0, watch |-> {}]

Closing == \E c \in Closer : closer[c].pc \notin {"idle", "returned"}
InRun == \E t \in Task : phase[t] = "awaitInit"

TypeOK ==
  /\ initialized \in BOOLEAN
  /\ initializing \in 0..MaxInits
  /\ initState \in [InitId -> {"unused", "creating", "done", "failed"}]
  /\ arrayNo \in Nat
  /\ workers \in Seq(Seq(Worker))
  /\ Len(workers) = arrayNo + 1
  /\ available \in Seq(Worker)
  /\ queue \in Seq(Task)
  /\ DOMAIN pending \subseteq Nat
  /\ \A id \in DOMAIN pending : pending[id] \in Task
  /\ idCounter \in Nat
  /\ inbox \in [Worker -> SUBSET Message]
  /\ alive \in [Worker -> BOOLEAN]
  /\ awaits \in [Task -> 0..MaxInits]
  /\ phase \in [Task -> {"idle", "awaitInit", "entered"}]
  /\ outcome \in [Task -> Task \cup {"none", "unsettled", "rejected"}]
  /\ closer \in [Closer -> [pc : CloserPC, array : Nat, next : Nat, watch : SUBSET Nat]]
  /\ raced \in BOOLEAN

Init ==
  /\ initialized = FALSE
  /\ initializing = 0
  /\ initState = [k \in InitId |-> "unused"]
  /\ workers = << <<>> >>
  /\ arrayNo = 0
  /\ available = <<>>
  /\ queue = <<>>
  /\ pending = [id \in {} |-> {}]
  /\ idCounter = 0
  /\ inbox = [w \in Worker |-> {}]
  /\ alive = [w \in Worker |-> FALSE]
  /\ awaits = [t \in Task |-> 0]
  /\ phase = [t \in Task |-> "idle"]
  /\ outcome = [t \in Task |-> "none"]
  /\ closer = [c \in Closer |-> NotClosing]
  /\ raced = FALSE
-----------------------------------------------------------------------------
(* Helpers *)

\* A promise keeps the first value it is settled with.
Settle(ts, v) ==
  [t \in Task |-> IF t \in ts /\ outcome[t] = "unsettled" THEN v ELSE outcome[t]]

QueuedTasks == {queue[i] : i \in 1..Len(queue)}
PendingTasks == {pending[id] : id \in DOMAIN pending}

\* Mutant: a task is filed under the number of tasks pending.
FirstIdIsSize(pend) == Cardinality(DOMAIN pend)

\* The id the next dispatched task is filed under.
FirstId(pend) == idCounter

\* Mutant: the worker is looked at and not popped.
ProcessQueueWithoutPop(q, av, pend, box) ==
  LET go == q # <<>> /\ av # <<>>
      m == [id |-> idCounter, task |-> Head(q)]
  IN /\ queue' = IF go THEN Tail(q) ELSE q
     /\ available' = av
     /\ pending' = IF go THEN [id \in DOMAIN pend \cup {m.id} |->
                                 IF id = m.id THEN m.task ELSE pend[id]]
                   ELSE pend
     /\ idCounter' = IF go THEN idCounter + 1 ELSE idCounter
     /\ inbox' = IF go THEN [box EXCEPT ![av[Len(av)]] = @ \cup {m}] ELSE box

\* processQueue(): the while loop pairs the head of the queue q with the top
\* of the stack av until one of them is empty.  A dead worker swallows its
\* message.
ProcessQueue(q, av, pend, box) ==
  LET k == IF Len(q) < Len(av) THEN Len(q) ELSE Len(av)
      first == FirstId(pend)
      ids == first .. (first + k - 1)
      TaskOf(id) == q[id - first + 1]
      WorkerOf(id) == av[Len(av) - (id - first)]
      Posted(w) == {[id |-> id, task |-> TaskOf(id)] : id \in {i \in ids : WorkerOf(i) = w}}
  IN /\ queue' = SubSeq(q, k + 1, Len(q))
     /\ available' = SubSeq(av, 1, Len(av) - k)
     /\ pending' = [id \in DOMAIN pend \cup ids |->
                      IF id \in ids THEN TaskOf(id) ELSE pend[id]]
     /\ idCounter' = idCounter + k
     /\ inbox' = [w \in Worker |-> IF alive[w] THEN box[w] \cup Posted(w) ELSE box[w]]

\* Mutant: Array.from is given one too many.
PoolOfOneMore(k) == [j \in 1..(PoolSize + 1) |-> <<k, j>>]

\* The pool of the k-th init, in the order Promise.all returns it.
PoolOf(k) == [j \in 1..PoolSize |-> <<k, j>>]
-----------------------------------------------------------------------------
(* run() and init() *)

\* run(op, data) up to `await this.init()`: init() returns at once when the
\* pool is up, joins a creation in progress (or one that failed: the promise
\* is never reset), or starts one.
Run(t) ==
  /\ phase[t] = "idle"
  /\ phase' = [phase EXCEPT ![t] = "awaitInit"]
  /\ outcome' = [outcome EXCEPT ![t] = "unsettled"]
  /\ \/ /\ initialized
        /\ UNCHANGED <<awaits, initializing, initState>>
     \/ /\ ~initialized /\ initializing # 0
        /\ awaits' = [awaits EXCEPT ![t] = initializing]
        /\ UNCHANGED <<initializing, initState>>
     \/ /\ ~initialized /\ initializing = 0
        /\ \E k \in InitId :
             /\ initState[k] = "unused"
             /\ \A j \in InitId : j < k => initState[j] # "unused"
             /\ initializing' = k
             /\ initState' = [initState EXCEPT ![k] = "creating"]
             /\ awaits' = [awaits EXCEPT ![t] = k]
  /\ raced' = (raced \/ Closing)
  /\ UNCHANGED <<initialized, workers, arrayNo, workVars, alive, closer>>

\* The workers of the k-th init are up: they join the arrays in use now, and
\* the pool counts as initialized, whatever terminate() did meanwhile.
InitDone(k) ==
  /\ initState[k] = "creating"
  /\ initState' = [initState EXCEPT ![k] = "done"]
  /\ workers' = [workers EXCEPT ![arrayNo + 1] = @ \o PoolOf(k)]
  /\ available' = available \o PoolOf(k)
  /\ alive' = [w \in Worker |-> w[1] = k \/ alive[w]]
  /\ initialized' = TRUE
  /\ UNCHANGED <<initializing, arrayNo, queue, pending, idCounter, inbox, awaits,
                 phase, outcome, closer, raced>>

\* createWorker throws: the init promise is rejected and stays in
\* this.initializing.
InitFail(k) ==
  /\ InitMayFail
  /\ initState[k] = "creating"
  /\ initState' = [initState EXCEPT ![k] = "failed"]
  /\ UNCHANGED <<initialized, initializing, workers, arrayNo, workVars, alive, awaits,
                 phase, outcome, closer, raced>>

\* `await this.init()` of task t is over.  When it throws, the executor's own
\* promise is the one rejected and the task is heard of no more.
PoolReady(t) ==
  phase[t] = "awaitInit" /\ (awaits[t] # 0 => initState[awaits[t]] = "done")

\* run() after `await this.init()`.
Enter(t) ==
  /\ PoolReady(t)
  /\ phase' = [phase EXCEPT ![t] = "entered"]
  /\ ProcessQueue(Append(queue, t), available, pending, inbox)
  /\ UNCHANGED <<poolVars, alive, awaits, outcome, closer, raced>>
-----------------------------------------------------------------------------
(* The message handler and the workers *)

\* Mutant: a drain looks at pending before the answered task is deleted.
WakeDrainsEarly(id, left) ==
  [c \in Closer |->
     IF closer[c].pc = "draining" /\ id \in closer[c].watch /\ DOMAIN pending = {}
     THEN [closer[c] EXCEPT !.pc = "drained"]
     ELSE closer[c]]

\* checkDone(), which drain() wraps around the handlers it found in pending.
WakeDrains(id, left) ==
  [c \in Closer |->
     IF closer[c].pc = "draining" /\ id \in closer[c].watch /\ DOMAIN left = {}
     THEN [closer[c] EXCEPT !.pc = "drained"]
     ELSE closer[c]]

\* Mutant: the worker is made available and the queue does not move.
ReleaseWithoutDispatch(w, left, box) ==
  /\ available' = Append(available, w)
  /\ pending' = left
  /\ inbox' = box
  /\ UNCHANGED <<queue, idCounter>>

\* `this.available.push(worker); this.processQueue()`
Release(w, left, box) == ProcessQueue(queue, Append(available, w), left, box)

\* The answer of a worker to m arrives (with a result or an error): the handler settles the
\* task filed under the id, a drain that watches the id looks whether pending
\* is empty, the worker becomes available and the queue moves.  An answer of a
\* worker that is being terminated arrives as long as that is awaited.
Reply(w, m, ok) ==
  LET known == m.id \in DOMAIN pending
      left == [id \in DOMAIN pending \ {m.id} |-> pending[id]]
  IN /\ m \in inbox[w]
     /\ outcome' = IF known
                   THEN Settle({pending[m.id]}, IF ok THEN m.task ELSE "rejected")
                   ELSE outcome
     /\ closer' = IF known THEN WakeDrains(m.id, left) ELSE closer
     /\ Release(w, left, [inbox EXCEPT ![w] = @ \ {m}])
     /\ UNCHANGED <<poolVars, alive, awaits, phase, raced>>

\* A worker dies and answers nothing any more: the 'error' listener of
\* createNodeWorker only logs.
Crash(w) ==
  /\ WorkerMayCrash
  /\ alive[w]
  /\ alive' = [alive EXCEPT ![w] = FALSE]
  /\ inbox' = [inbox EXCEPT ![w] = {}]
  /\ UNCHANGED <<poolVars, available, queue, pending, idCounter, awaits, phase,
                 outcome, closer, raced>>
-----------------------------------------------------------------------------
(* terminate() and drain() *)

\* Mutant: `this.workers = []` is forgotten.
ClearPoolKeepsWorkers(c) ==
  /\ queue' = <<>>
  /\ pending' = [id \in {} |-> {}]
  /\ available' = <<>>
  /\ initialized' = FALSE
  /\ initializing' = 0
  /\ closer' = [closer EXCEPT ![c].pc = "returned", ![c].watch = {}]
  /\ UNCHANGED <<initState, workers, arrayNo, idCounter, alive>>

\* The end of terminate(), reached when its loop has run out of workers.
ClearPool(c) ==
  /\ queue' = <<>>
  /\ pending' = [id \in {} |-> {}]
  /\ workers' = Append(workers, <<>>)
  /\ arrayNo' = arrayNo + 1
  /\ available' = <<>>
  /\ initialized' = FALSE
  /\ initializing' = 0
  /\ closer' = [closer EXCEPT ![c].pc = "returned", ![c].watch = {}]
  /\ UNCHANGED <<initState, idCounter, alive>>

\* One turn of `for (const worker of this.workers) await worker.terminate()`
\* over the array a, at its i-th worker, or the code after the loop; q is the
\* queue, box are the messages that may be answered by then.
TerminateFrom(c, a, i, q, box) ==
  /\ inbox' = box
  /\ \/ /\ i <= Len(workers[a])
        /\ alive' = [alive EXCEPT ![workers[a][i]] = FALSE]
        /\ closer' = [closer EXCEPT ![c] =
                        [pc |-> "terminating", array |-> a, next |-> i + 1, watch |-> {}]]
        /\ queue' = q
        /\ UNCHANGED <<poolVars, available, pending, idCounter>>
     \/ /\ i > Len(workers[a])
        /\ ClearPool(c)

\* Mutant: terminate() rejects what is queued and forgets what is pending.
TerminateBodyQueueOnly(c, q) ==
  /\ outcome' = Settle(QueuedTasks, "rejected")
  /\ TerminateFrom(c, arrayNo + 1, 1, q, inbox)

\* terminate() up to its first await; with no worker it runs to its end.  The
\* drains that wrapped the handlers see pending non-empty and stay.
TerminateBody(c, q) ==
  /\ outcome' = Settle(QueuedTasks \cup PendingTasks, "rejected")
  /\ TerminateFrom(c, arrayNo + 1, 1, q, inbox)

Terminate(c) ==
  /\ closer[c].pc = "idle"
  /\ initialized \/ initializing # 0
  /\ TerminateBody(c, queue)
  /\ raced' = (raced \/ InRun)
  /\ UNCHANGED <<awaits, phase>>

\* The worker whose terminate() c awaits.
Dying(c) == workers[closer[c].array][closer[c].next - 1]

\* The loop goes on once the worker's terminate() has settled: it is gone and
\* answers nothing any more.
TerminateNext(c) ==
  /\ closer[c].pc = "terminating"
  /\ TerminateFrom(c, closer[c].array, closer[c].next, queue,
                   [inbox EXCEPT ![Dying(c)] = {}])
  /\ UNCHANGED <<awaits, phase, outcome, raced>>

\* Mutant: `this.queue = []` is forgotten.
DrainKeepsQueue == queue

\* What drain() leaves queued, having rejected all of it.
DrainedQueue == <<>>

\* drain(): rejects what is queued, then waits for what is pending, or goes
\* straight on to terminate() when nothing is.
Drain(c) ==
  /\ closer[c].pc = "idle"
  /\ initialized
  /\ \/ /\ DOMAIN pending = {}
        /\ TerminateBody(c, DrainedQueue)
     \/ /\ DOMAIN pending # {}
        /\ outcome' = Settle(QueuedTasks, "rejected")
        /\ queue' = DrainedQueue
        /\ closer' = [closer EXCEPT ![c].pc = "draining", ![c].watch = DOMAIN pending]
        /\ UNCHANGED <<poolVars, available, pending, idCounter, inbox, alive>>
  /\ raced' = (raced \/ InRun)
  /\ UNCHANGED <<awaits, phase>>

\* drain() after its wait calls terminate(), whose first line may return.
DrainDone(c) ==
  /\ closer[c].pc = "drained"
  /\ \/ /\ initialized \/ initializing # 0
        /\ TerminateBody(c, queue)
     \/ /\ ~initialized /\ initializing = 0
        /\ closer' = [closer EXCEPT ![c].pc = "returned", ![c].watch = {}]
        /\ UNCHANGED <<poolVars, workVars, alive, outcome>>
  /\ UNCHANGED <<awaits, phase, raced>>
-----------------------------------------------------------------------------
Next ==
  \/ \E t \in Task : Run(t) \/ Enter(t)
  \/ \E k \in InitId : InitDone(k) \/ InitFail(k)
  \/ \E w \in Worker, ok \in BOOLEAN : \E m \in inbox[w] : Reply(w, m, ok)
  \/ \E w \in Worker : Crash(w)
  \/ \E c \in Closer : Terminate(c) \/ TerminateNext(c) \/ Drain(c) \/ DrainDone(c)

Spec == Init /\ [][Next]_vars

(* Fairness: continuations of settled promises run, createWorker returns,   *)
(* worker.terminate() settles, and a worker answers every task that is not  *)
(* Stalling.  The answer is an assumption about the environment: JSON.parse *)
(* returns, and the fetch of a worker aborts itself on a timer, but only    *)
(* until the headers are in (the timer is cleared before the body is read), *)
(* so a fetch whose body the server does not finish has no answer to be     *)
(* fair about.  Nothing is assumed of the callers of run(), terminate() and *)
(* drain(), of crashes or of failing creations.                             *)
FairSpec ==
  /\ Spec
  /\ \A t \in Task : WF_vars(Enter(t))
  /\ \A k \in InitId : WF_vars(InitDone(k) \/ InitFail(k))
  /\ \A w \in Worker : WF_vars(\E m \in inbox[w], ok \in BOOLEAN :
                                 m.task \notin Stalling /\ Reply(w, m, ok))
  /\ \A c \in Closer : WF_vars(TerminateNext(c)) /\ WF_vars(DrainDone(c))
-----------------------------------------------------------------------------
(* What a caller relies on.                                                *)

\* A worker thread is handed one task at a time: it is never on the stack of
\* available workers twice or while it still owes an answer (SharedThreader.ts,
\* the push in the message handler against the pop in processQueue).
OneTaskPerWorker ==
  /\ \A i, j \in 1..Len(available) : i # j => available[i] # available[j]
  /\ \A w \in Worker : \A m, n \in inbox[w] : m = n
  /\ \A i \in 1..Len(available) : inbox[available[i]] = {}

\* A caller receives the result of its own task, also when pools are torn down
\* and created again around the shared pending map and id counter.
OwnResult == \A t \in Task : outcome[t] \in Task => outcome[t] = t

\* No worker idles while a task is queued, except for the instant in which a
\* run() that will call processQueue() is about to resume.
NoIdleWorkerWhileQueued ==
  (queue # <<>> /\ available # <<>>) => \E t \in Task : PoolReady(t)

\* Until a run() races a close, every promise still open belongs to a call that
\* waits for the pool, is queued, or is filed in pending: through crashes and
\* failed creations neither terminate() nor drain() forgets a task.
NothingSwallowed ==
  raced \/ \A t \in Task : outcome[t] = "unsettled" =>
    phase[t] = "awaitInit" \/ t \in QueuedTasks \cup PendingTasks

\* Until a run() races a close, re-creation after terminate() does not grow the
\* pool past poolSize.
PoolBounded == raced \/ Len(workers[arrayNo + 1]) <= PoolSize

\* "Shut down all workers" (docs/providers/threaded-http.md, terminate()): once
\* terminate() has reset this.initializing, and no run() has asked for a pool
\* since, there are no workers.
TerminateShutsDown == initializing = 0 => workers[arrayNo + 1] = <<>>

\* A task is handed to a worker at most once, and never after its caller was
\* told that it ended (processQueue() against the rejections of terminate() and
\* drain()) -- except while terminate() awaits its workers: it has rejected the
\* queue and not yet emptied it, and an answer that arrives in between starts
\* what was rejected.
StartsOnce ==
  [][\A id \in DOMAIN pending' \ DOMAIN pending :
       /\ pending'[id] \notin PendingTasks
       /\ \/ outcome[pending'[id]] = "unsettled"
          \/ \E c \in Closer : closer[c].pc = "terminating"]_vars

\* As long as stalled bodies leave the pool a worker, every call of run()
\* settles, whether its pool answers, drains or terminates, unless a run() races
\* a close or the task is itself a stalling one that a worker has taken.
EveryTaskSettles ==
  Cardinality(Stalling) < PoolSize =>
    \A t \in Task :
      outcome[t] = "unsettled" ~>
        (outcome[t] # "unsettled" \/ raced \/ t \in Stalling \cap PendingTasks)

\* A drain() or terminate() returns, unless a run() races a close or a drain()
\* waits for a stalling task: it rejects what is queued, but waits without a
\* limit for what is pending.
CloseReturns ==
  \A c \in Closer :
    closer[c].pc # "idle" ~>
      \/ closer[c].pc = "returned"
      \/ raced
      \/ closer[c].pc = "draining" /\ Stalling \cap PendingTasks # {}
=============================================================================
