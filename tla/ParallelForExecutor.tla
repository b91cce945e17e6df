------------------------ MODULE ParallelForExecutor ------------------------
(***************************************************************************)
(* core/ParallelForExecutor.hpp: a persistent pool of threads that shares  *)
(* the indices of one batch at a time through an atomic counter.  A        *)
(* section guarded by mutex_ is one action; fetch_add, the bound test, the *)
(* task and the notifications outside the mutex are actions of their own.  *)
(* A thread blocked on a condition variable is in `sleeping`; a wait tests *)
(* its predicate, sleeps, and tests again once woken, spuriously or not.   *)
(***************************************************************************)
EXTENDS Integers, FiniteSets

CONSTANTS
  Caller,      \* the thread that owns the pool and takes part as worker 0
  Workers,     \* the threads the constructor may spawn
  MaxCount,    \* bound: largest batch
  MaxBatches   \* bound: batches handed to the pool before it is destroyed

ASSUME PoolAssumption ==
  /\ IsFiniteSet(Workers)
  /\ Caller \notin Workers
  /\ MaxCount \in Nat
  /\ MaxBatches \in Nat

VARIABLES
  threads,     \* threads_: fixed by the constructor's argument
  task,        \* task_: the epoch whose function it holds, 0 when empty
  taskCount,   \* task_count_
  next,        \* next_ (atomic)
  unfinished,  \* unfinished_workers_
  epoch,       \* epoch_
  error,       \* error_: the index whose exception is kept, -1 for nullptr
  stopping,    \* stopping_
  observed,    \* observed_epoch, local to each worker_loop
  index,       \* index, local to each run_available_tasks
  sleeping,    \* threads blocked in work_ready_.wait or finished_.wait
  pc,
  runs,        \* history: times each index was begun in this batch
  count,       \* history: the argument of the latest run
  completed,   \* history: indices that returned in this batch
  failed,      \* history: indices that threw in this batch
  result       \* history: how the latest run ended

pool == <<threads, task, taskCount, next, unfinished, epoch, error, stopping>>
local == <<observed, index, sleeping, pc>>
history == <<runs, count, completed, failed, result>>
vars == <<pool, local, history>>

Threads == {Caller} \cup Workers
NoError == -1

\* Program points inside run_available_tasks: the thread reads task_ and
\* task_count_ there without holding mutex_.
Unlocked == {"claim", "test", "exec", "caught"}

Goto(t, to) == pc' = [pc EXCEPT ![t] = to]

\* The constructor: workers - 1 threads, all of them about to wait.
Init ==
  /\ threads \in SUBSET Workers
  /\ task = 0 /\ taskCount = 0 /\ next = 0 /\ unfinished = 0
  /\ epoch = 0 /\ error = NoError /\ stopping = FALSE
  /\ observed = [w \in Workers |-> 0]
  /\ index = [t \in Threads |-> 0]
  /\ sleeping = {}
  /\ pc = [t \in Threads |-> IF t = Caller THEN "idle" ELSE "await"]
  /\ runs = [i \in 0 .. MaxCount - 1 |-> 0]
  /\ count = 0 /\ completed = {} /\ failed = {} /\ result = "none"

NewBatch(n) ==
  /\ runs' = [i \in 0 .. MaxCount - 1 |-> 0]
  /\ count' = n /\ completed' = {} /\ failed' = {} /\ result' = "none"

----------------------------------------------------------------------------
\* run() without threads, or on nothing: the caller's own loop.
InlineStart(n) ==
  /\ pc[Caller] = "idle"
  /\ threads = {} \/ n = 0
  /\ index' = [index EXCEPT ![Caller] = 0]
  /\ Goto(Caller, "inline")
  /\ NewBatch(n)
  /\ UNCHANGED <<pool, observed, sleeping>>

InlineTask ==
  LET i == index[Caller] IN
  /\ pc[Caller] = "inline" /\ i < count
  /\ runs' = [runs EXCEPT ![i] = @ + 1]
  /\ \/ /\ completed' = completed \cup {i}
        /\ index' = [index EXCEPT ![Caller] = i + 1]
        /\ UNCHANGED <<pc, failed>>
     \/ /\ failed' = failed \cup {i}
        /\ Goto(Caller, "unwind")
        /\ UNCHANGED <<index, completed>>
  /\ UNCHANGED <<pool, observed, sleeping, count, result>>

InlineReturn ==
  /\ \/ pc[Caller] = "inline" /\ index[Caller] = count /\ result' = "ok"
     \/ pc[Caller] = "unwind" /\ result' = "error"
  /\ Goto(Caller, "idle")
  /\ UNCHANGED <<pool, observed, index, sleeping, runs, count, completed, failed>>

----------------------------------------------------------------------------
\* threads_.size(): what unfinished_workers_ starts from in every batch.
Participants == Cardinality(threads)

\* run(), first critical section: publish the batch.
Start(n) ==
  /\ pc[Caller] = "idle"
  /\ threads # {} /\ n > 0 /\ epoch < MaxBatches
  /\ task' = epoch + 1
  /\ taskCount' = n
  /\ next' = 0
  /\ unfinished' = Participants
  /\ error' = NoError
  /\ epoch' = epoch + 1
  /\ Goto(Caller, "notify")
  /\ NewBatch(n)
  /\ UNCHANGED <<threads, stopping, observed, index, sleeping>>

\* Who still sleeps after a notification of work_ready_.
NotifyOne(S) == CHOOSE R \in SUBSET S : S = {} \/ Cardinality(S \ R) = 1
NotifyAll(S) == S \ threads

\* work_ready_.notify_all(), after the unlock, in run and in the destructor.
Notify ==
  /\ pc[Caller] \in {"notify", "notifyStop"}
  /\ sleeping' = NotifyAll(sleeping)
  /\ Goto(Caller, IF stopping THEN "join" ELSE "claim")
  /\ UNCHANGED <<pool, observed, index, history>>

----------------------------------------------------------------------------
\* run_available_tasks, by the caller and by the workers.
\* next_ after fetch_add.
Increment(i) == i + 1

Claim(t) ==
  /\ pc[t] = "claim"
  /\ index' = [index EXCEPT ![t] = next]
  /\ next' = Increment(next)
  /\ Goto(t, "test")
  /\ UNCHANGED <<threads, task, taskCount, unfinished, epoch, error, stopping,
                 observed, sleeping, history>>

Test(t) ==
  /\ pc[t] = "test"
  /\ \/ /\ index[t] >= taskCount
        /\ Goto(t, "done")
        /\ UNCHANGED runs
     \/ /\ index[t] < taskCount
        /\ Goto(t, "exec")
        /\ runs' = [runs EXCEPT ![index[t]] = @ + 1]
  /\ UNCHANGED <<pool, observed, index, sleeping, count, completed, failed, result>>

TaskReturns(t) ==
  /\ pc[t] = "exec"
  /\ completed' = completed \cup {index[t]}
  /\ Goto(t, "claim")
  /\ UNCHANGED <<pool, observed, index, sleeping, runs, count, failed, result>>

TaskThrows(t) ==
  /\ pc[t] = "exec"
  /\ failed' = failed \cup {index[t]}
  /\ Goto(t, "caught")
  /\ UNCHANGED <<pool, observed, index, sleeping, runs, count, completed, result>>

\* error_ keeps the first exception to reach the catch block.
NeverKept(e, i) == e
FirstKept(e, i) == IF e = NoError THEN i ELSE e

\* The catch block; next_ and error_ are written in one critical section, and
\* nobody reads error_ outside mutex_.
Caught(t) ==
  /\ pc[t] = "caught"
  /\ error' = FirstKept(error, index[t])
  /\ next' = taskCount
  /\ Goto(t, "done")
  /\ UNCHANGED <<threads, task, taskCount, unfinished, epoch, stopping,
                 observed, index, sleeping, history>>

----------------------------------------------------------------------------
\* worker_loop: the wait and the section around it.
Await(w) ==
  /\ pc[w] = "await" /\ w \in threads \ sleeping
  /\ IF epoch # observed[w]
       THEN /\ observed' = [observed EXCEPT ![w] = epoch]
            /\ Goto(w, IF stopping THEN "exited" ELSE "claim")
            /\ UNCHANGED sleeping
       ELSE /\ sleeping' = sleeping \cup {w}
            /\ UNCHANGED <<observed, pc>>
  /\ UNCHANGED <<pool, index, history>>

\* worker_loop: the section after the batch; the last worker wakes the caller.
Finish(w) ==
  /\ pc[w] = "done" /\ w \in threads
  /\ unfinished' = unfinished - 1
  /\ sleeping' = IF unfinished = 1 THEN sleeping \ {Caller} ELSE sleeping
  /\ Goto(w, "await")
  /\ UNCHANGED <<threads, task, taskCount, next, epoch, error, stopping,
                 observed, index, history>>

\* The predicate of finished_.wait.
CallerDone == next >= taskCount
AllFinished == unfinished = 0

\* run(), second critical section, and the rethrow.
Collect ==
  /\ pc[Caller] = "done" /\ Caller \notin sleeping
  /\ IF AllFinished
       THEN /\ task' = 0
            /\ result' = IF error = NoError THEN "ok" ELSE "error"
            /\ Goto(Caller, "idle")
            /\ UNCHANGED sleeping
       ELSE /\ sleeping' = sleeping \cup {Caller}
            /\ UNCHANGED <<task, result, pc>>
  /\ UNCHANGED <<threads, taskCount, next, unfinished, epoch, error, stopping,
                 observed, index, runs, count, completed, failed>>

SpuriousWakeup(t) ==
  /\ t \in sleeping
  /\ sleeping' = sleeping \ {t}
  /\ UNCHANGED <<pool, observed, index, pc, history>>

----------------------------------------------------------------------------
\* The destructor.
Stop ==
  /\ pc[Caller] = "idle"
  /\ stopping' = TRUE
  /\ epoch' = epoch + 1
  /\ Goto(Caller, "notifyStop")
  /\ UNCHANGED <<threads, task, taskCount, next, unfinished, error,
                 observed, index, sleeping, history>>

Join ==
  /\ pc[Caller] = "join"
  /\ \A w \in threads : pc[w] = "exited"
  /\ Goto(Caller, "gone")
  /\ UNCHANGED <<pool, observed, index, sleeping, history>>

Gone == pc[Caller] = "gone" /\ UNCHANGED vars

----------------------------------------------------------------------------
Work(t) == Claim(t) \/ Test(t) \/ TaskReturns(t) \/ TaskThrows(t) \/ Caught(t)

CallerStep == InlineTask \/ InlineReturn \/ Notify \/ Work(Caller) \/ Collect \/ Join
WorkerStep(w) == Work(w) \/ Await(w) \/ Finish(w)

Next ==
  \/ \E n \in 0 .. MaxCount : InlineStart(n) \/ Start(n)
  \/ CallerStep
  \/ \E w \in Workers : WorkerStep(w)
  \/ \E t \in Threads : SpuriousWakeup(t)
  \/ Stop
  \/ Gone

\* Every thread is scheduled, and a task ends; nobody has to call run again,
\* destroy the pool or be woken for no reason.
Fairness == WF_vars(CallerStep) /\ \A w \in Workers : WF_vars(WorkerStep(w))

SafeSpec == Init /\ [][Next]_vars
Spec == SafeSpec /\ Fairness

----------------------------------------------------------------------------
PcValues == {"idle", "inline", "unwind", "notify", "notifyStop", "join", "gone",
             "await", "exited", "done"} \cup Unlocked

\* Every variable keeps the type of the member or local it models.
TypeOK ==
  /\ threads \in SUBSET Workers
  /\ task \in 0 .. MaxBatches
  /\ taskCount \in 0 .. MaxCount
  /\ next \in Nat
  /\ unfinished \in 0 .. Cardinality(threads)
  /\ epoch \in 0 .. MaxBatches + 1
  /\ error \in {NoError} \cup (0 .. MaxCount - 1)
  /\ stopping \in BOOLEAN
  /\ observed \in [Workers -> 0 .. MaxBatches + 1]
  /\ index \in [Threads -> Nat]
  /\ sleeping \in SUBSET ({Caller} \cup threads)
  /\ pc \in [Threads -> PcValues]
  /\ runs \in [0 .. MaxCount - 1 -> Nat]
  /\ count \in 0 .. MaxCount
  /\ completed \in SUBSET (0 .. MaxCount - 1)
  /\ failed \in SUBSET (0 .. MaxCount - 1)
  /\ result \in {"none", "ok", "error"}

\* No index of a batch is handed to two threads, nor twice to one, whatever
\* the claims and the stores of the catch blocks do to next_.
AtMostOnce == \A i \in 0 .. MaxCount - 1 : runs[i] <= 1

\* task_, task_count_ are read in run_available_tasks without mutex_: a step
\* that writes them finds no thread there, so the reads race with nothing.
NoRaceOnBatch ==
  [][<<task, taskCount>>' # <<task, taskCount>> =>
       \A t \in threads \cup {Caller} : pc[t] \notin Unlocked]_vars

\* run() is a parallel for: it returns when every index has completed, throws
\* when one has thrown, and leaves nothing running behind it.
Idle == {"idle", "notifyStop", "join", "gone"}
Abstract == INSTANCE ParallelFor
              WITH phase <- IF pc[Caller] \in Idle THEN "idle" ELSE "running"
ImplementsParallelFor == Abstract!AbsSpec

\* Every run returns and the destructor joins, although a notification may
\* come before the wait it is for.
CallsReturn ==
  /\ pc[Caller] \in {"notify", "inline"} ~> pc[Caller] = "idle"
  /\ pc[Caller] = "notifyStop" ~> pc[Caller] = "gone"
=============================================================================
