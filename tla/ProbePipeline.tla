---------------------------- MODULE ProbePipeline ----------------------------
(***************************************************************************)
(* The reconstruction loop of the FireFly overlay (Reconstructor.hpp): the *)
(* main thread hands computed probes to feed jobs, feed jobs hand the      *)
(* values to the functions still under reconstruction and start interpola- *)
(* tion jobs, those ask for more probes or settle their function, and the  *)
(* probe jobs evaluate only the outputs a shared snapshot names.           *)
(*                                                                         *)
(* External, and modelled from this use: the thread pool (queued tasks run *)
(* in any order; after kill_all none is queued and none runs, as the       *)
(* change of the prime that follows it needs; an exception that leaves a   *)
(* task ends the process) and RatReconst (feed stores a value and says     *)
(* whether to start an interpolation, interpolate consumes what is stored  *)
(* unless another thread is at it, and a function ends by being done or by *)
(* asking for the next prime). How many values a function needs in a prime *)
(* is not known beforehand, nor which points are singular, but that the    *)
(* first is not. Factor and shift scans, saved states and the MPI variant  *)
(* are left out; there is one order of probes (zi_order).                  *)
(***************************************************************************)
EXTENDS Integers, FiniteSetsExt, Bags

CONSTANTS
  Threads,     \* the pool's threads; their number is thr_n
  Needs,       \* bound: the black boxes, each by the set of its functions, and
               \* how many values its functions may need in each prime
  PrimeLimit   \* prime_counter of run_until_done

ASSUME PipelineAssumption ==
  /\ IsFiniteSet(Threads) /\ Threads # {}
  /\ PrimeLimit \in Nat \ {0}
  /\ \A box \in DOMAIN Needs :
       /\ IsFiniteSet(box) /\ box # {} /\ box \subseteq Nat
       /\ \A p \in 0 .. PrimeLimit : /\ Needs[box][p] # {} /\ IsFiniteSet(Needs[box][p])
                                      /\ Needs[box][p] \subseteq [box -> Nat \ {0}]

VARIABLES
  outputs,       \* the functions of the black box
  prime,         \* prime_it
  main,          \* where the main thread is
  finished,      \* done
  status,        \* RatReconst_status, by output
  recPrime, recDone,   \* RatReconst::get_done_and_prime
  food, busy, eaten, need,   \* inside RatReconst, external
  snapshot,      \* active_output_snapshot, Dense while not selected_black_box_ready
  dirty,         \* active_output_snapshot_dirty
  itemsDone, itemsNewPrime,
  feedJobs, interpolateJobs,
  requested,     \* requested_probes.size()
  queued,        \* probes_queued
  computed,      \* computed_probes
  started,       \* started_probes of the one order
  balance,       \* balance_of_ones
  nextProbes,    \* probes_for_next_prime
  probeTasks, feedTasks, interpolateTasks,   \* queued in the thread pool
  at, probe, left, fed, output, take   \* by thread: where it is and its locals

rec == <<status, recPrime, recDone, food, busy, eaten, need>>
shared == <<snapshot, dirty>>
items == <<itemsDone, itemsNewPrime>>
jobs == <<feedJobs, interpolateJobs>>
probes == <<requested, queued, computed>>
plan == <<started, balance, nextProbes>>
tasks == <<probeTasks, feedTasks, interpolateTasks>>
locals == <<probe, left, fed, output, take>>
vars == <<outputs, prime, main, finished, rec, shared, items, jobs, probes, plan, tasks, at, locals>>

Dense == [epoch |-> -1, outputs |-> outputs]

\* The functions that still take values in this prime: what publish_active_
\* output_snapshot collects (one by one, as they only get fewer) and whom
\* feed_job feeds.
Idling == {o \in outputs : status[o] = "RECONSTRUCTING" /\ ~recDone[o] /\ ~busy[o]}
Collected == {o \in outputs : status[o] = "RECONSTRUCTING" /\ ~recDone[o] /\ recPrime[o] = prime}

Active == {o \in outputs : ~recDone[o] /\ recPrime[o] = prime}

Larger(a, b) == IF a > b THEN a ELSE b
Smaller(a, b) == IF a < b THEN a ELSE b
ThreadCount == Cardinality(Threads)

Init ==
  /\ outputs \in DOMAIN Needs
  /\ prime = 0 /\ main = "start" /\ finished = FALSE
  /\ status = [o \in outputs |-> "RECONSTRUCTING"]
  /\ recPrime = [o \in outputs |-> 0] /\ recDone = [o \in outputs |-> FALSE]
  /\ food = [o \in outputs |-> 0] /\ busy = [o \in outputs |-> FALSE]
  /\ eaten = [o \in outputs |-> 0] /\ need \in Needs[outputs][0]
  /\ snapshot = Dense /\ dirty = FALSE
  /\ itemsDone = 0 /\ itemsNewPrime = 0
  /\ feedJobs = 0 /\ interpolateJobs = 0
  /\ requested = 0 /\ queued = 0 /\ computed = EmptyBag
  /\ started = 0 /\ balance = 0 /\ nextProbes = 0
  /\ probeTasks = 0 /\ feedTasks = EmptyBag /\ interpolateTasks = [o \in outputs |-> 0]
  /\ at = [t \in Threads |-> "idle"]
  /\ probe = [t \in Threads |-> Dense] /\ left = [t \in Threads |-> {}]
  /\ fed = [t \in Threads |-> 0] /\ output = [t \in Threads |-> 0]
  /\ take = [t \in Threads |-> 0]

Idle(t) == at[t] = "idle" /\ main # "killing"
Goto(t, to) == at' = [at EXCEPT ![t] = to]

\* queue_probes, and one get_job task for each.
QueueProbes(k) ==
  /\ requested' = requested + k
  /\ queued' = queued + k
  /\ probeTasks' = probeTasks + k

----------------------------------------------------------------------------
\* Probe jobs: get_job and compute_probe.
TakeProbe(t) ==
  /\ Idle(t) /\ probeTasks > 0
  /\ probeTasks' = probeTasks - 1
  /\ requested' = IF requested = 0 THEN 0 ELSE requested - 1
  /\ Goto(t, IF requested = 0 THEN "idle" ELSE "select")
  /\ UNCHANGED <<outputs, prime, main, finished, rec, shared, items, jobs, queued, computed,
                 plan, feedTasks, interpolateTasks, locals>>

\* selected_black_box_outputs, up to the exchange of the dirty flag.
Select(t) ==
  /\ at[t] = "select"
  /\ Goto(t, IF snapshot = Dense THEN "evaluate" ELSE IF dirty THEN "collect" ELSE "load")
  /\ dirty' = (dirty /\ snapshot = Dense)
  /\ UNCHANGED <<outputs, prime, main, finished, rec, snapshot, items, jobs, probes, plan,
                 tasks, locals>>

\* publish_active_output_snapshot, its collection and its store: another
\* thread may publish in between.
Collect(t) ==
  /\ at[t] = "collect"
  /\ probe' = [probe EXCEPT ![t] = [epoch |-> prime, outputs |-> Collected]]
  /\ Goto(t, "store")
  /\ UNCHANGED <<outputs, prime, main, finished, rec, shared, items, jobs, probes, plan,
                 tasks, left, fed, output, take>>

Store(t) ==
  /\ at[t] = "store"
  /\ snapshot' = probe[t]
  /\ Goto(t, "load")
  /\ UNCHANGED <<outputs, prime, main, finished, rec, dirty, items, jobs, probes, plan, tasks,
                 locals>>

Load(t) ==
  /\ at[t] = "load"
  /\ probe' = [probe EXCEPT ![t] = snapshot]
  /\ Goto(t, "evaluate")
  /\ UNCHANGED <<outputs, prime, main, finished, rec, shared, items, jobs, probes, plan,
                 tasks, left, fed, output, take>>

Evaluate(t) ==
  /\ at[t] = "evaluate"
  /\ computed' = computed (+) SetToBag({probe[t]})
  /\ probe' = [probe EXCEPT ![t] = Dense]
  /\ Goto(t, "idle")
  /\ UNCHANGED <<outputs, prime, main, finished, rec, shared, items, jobs, requested, queued,
                 plan, tasks, left, fed, output, take>>

----------------------------------------------------------------------------
\* Feed jobs.  The two counters are kept under two mutexes; nothing reads both.
Supplied(p) == Cardinality(p.outputs)

TakeFeed(t) ==
  \E p \in BagToSet(feedTasks) :
    /\ Idle(t)
    /\ feedTasks' = feedTasks (-) SetToBag({p})
    /\ interpolateJobs' = interpolateJobs + Supplied(p)
    /\ balance' = IF prime = 0 THEN balance + 1 ELSE balance
    /\ probe' = [probe EXCEPT ![t] = p]
    /\ left' = [left EXCEPT ![t] = p.outputs]
    /\ Goto(t, "feed")
    /\ UNCHANGED <<outputs, prime, main, finished, rec, shared, items, feedJobs, probes,
                   started, nextProbes, probeTasks, interpolateTasks, fed, output, take>>

\* One round of the loop over reconst, in the order of the outputs.
Feed(t) ==
  \E o \in left[t] :
    /\ at[t] = "feed"
    /\ \A p \in left[t] : o <= p
    /\ left' = [left EXCEPT ![t] = @ \ {o}]
    /\ IF o \in Active
         THEN /\ food' = [food EXCEPT ![o] = @ + 1]
              /\ interpolateTasks' = [interpolateTasks EXCEPT ![o] = IF busy[o] THEN @ ELSE @ + 1]
              /\ fed' = [fed EXCEPT ![t] = IF busy[o] THEN @ ELSE @ + 1]
         ELSE UNCHANGED <<food, interpolateTasks, fed>>
    /\ UNCHANGED <<outputs, prime, main, finished, status, recPrime, recDone, busy, eaten, need,
                   shared, items, jobs, probes, plan, probeTasks, feedTasks, at,
                   probe, output, take>>

\* condition_feed.notify_one, with feed_control held.
NotifyNobody == main
Notify == IF main = "asleep" THEN "woken" ELSE main

\* The jobs that were counted but not started.
EverySupplied(t) == Supplied(probe[t])
NotStarted(t) == Supplied(probe[t]) - fed[t]

FeedEnd(t) ==
  /\ at[t] = "feed" /\ left[t] = {}
  /\ interpolateJobs' = interpolateJobs - NotStarted(t)
  /\ feedJobs' = feedJobs - 1
  /\ main' = Notify
  /\ probe' = [probe EXCEPT ![t] = Dense]
  /\ fed' = [fed EXCEPT ![t] = 0]
  /\ Goto(t, "idle")
  /\ UNCHANGED <<outputs, prime, finished, rec, shared, items, probes, plan, tasks, left, output, take>>

----------------------------------------------------------------------------
\* Interpolation jobs go on only if interpolate consumed something.
Proceeds(o) == status[o] = "RECONSTRUCTING" /\ ~busy[o] /\ food[o] > 0

TakeInterpolate(t) ==
  \E o \in outputs :
    /\ Idle(t) /\ interpolateTasks[o] > 0
    /\ interpolateTasks' = [interpolateTasks EXCEPT ![o] = @ - 1]
    /\ output' = [output EXCEPT ![t] = o]
    /\ busy' = [busy EXCEPT ![o] = @ \/ Proceeds(o)]
    /\ Goto(t, IF Proceeds(o) THEN "interpolate" ELSE "close")
    /\ UNCHANGED <<outputs, prime, main, finished, status, recPrime, recDone, food, eaten, need,
                   shared, items, jobs, probes, plan, probeTasks, feedTasks,
                   probe, left, fed, take>>

\* RatReconst::interpolate returns: values fed meanwhile were consumed too.
Settles(o) == eaten[o] + food[o] >= need[o]

Interpolate(t) ==
  LET o == output[t] IN
  /\ at[t] = "interpolate"
  /\ busy' = [busy EXCEPT ![o] = FALSE]
  /\ food' = [food EXCEPT ![o] = 0]
  /\ eaten' = [eaten EXCEPT ![o] = Smaller(@ + food[o], need[o])]
  /\ \/ /\ recDone[o] \/ (Settles(o) /\ recPrime[o] = prime)
        /\ recDone' = [recDone EXCEPT ![o] = TRUE]
        /\ Goto(t, "markDone")
        /\ UNCHANGED recPrime
     \/ /\ recPrime[o] > prime \/ (Settles(o) /\ ~recDone[o])
        /\ recPrime' = [recPrime EXCEPT ![o] = prime + 1]
        /\ Goto(t, "markNext")
        /\ UNCHANGED recDone
     \/ /\ ~Settles(o) /\ ~recDone[o] /\ recPrime[o] = prime
        /\ Goto(t, "more")
        /\ UNCHANGED <<recPrime, recDone>>
  /\ UNCHANGED <<outputs, prime, main, finished, status, need, shared, items, jobs, probes,
                 plan, tasks, locals>>

\* The function is done: one critical section of status_control.
MarkDone(t) ==
  LET o == output[t] IN
  /\ at[t] = "markDone"
  /\ IF status[o] = "RECONSTRUCTING"
       THEN /\ status' = [status EXCEPT ![o] = "DONE"]
            /\ dirty' = TRUE
            /\ itemsDone' = itemsDone + 1
       ELSE UNCHANGED <<status, dirty, itemsDone>>
  /\ Goto(t, "close")
  /\ UNCHANGED <<outputs, prime, main, finished, recPrime, recDone, food, busy, eaten, need,
                 snapshot, itemsNewPrime, jobs, probes, plan, tasks, locals>>

\* The function needs the next prime: the flag, the count, the estimate, of
\* which only matters how far it falls short of one probe for each thread.
MarkNext(t) ==
  /\ at[t] = "markNext"
  /\ dirty' = TRUE
  /\ Goto(t, "countNext")
  /\ UNCHANGED <<outputs, prime, main, finished, rec, snapshot, items, jobs, probes, plan,
                 tasks, locals>>

CountNext(t) ==
  /\ at[t] = "countNext"
  /\ itemsNewPrime' = itemsNewPrime + 1
  /\ Goto(t, "estimate")
  /\ UNCHANGED <<outputs, prime, main, finished, rec, shared, itemsDone, jobs, probes, plan,
                 tasks, locals>>

Estimate(t) ==
  /\ at[t] = "estimate"
  /\ \E equations \in 1 .. ThreadCount : nextProbes' = Larger(nextProbes, equations)
  /\ Goto(t, "close")
  /\ UNCHANGED <<outputs, prime, main, finished, rec, shared, items, jobs, probes, started,
                 balance, tasks, locals>>

\* The function needs more values: in the first prime every value fed lets one
\* probe start, later the function says how many it needs in all.
NoCredit == 0
Credit == balance

ToStart(o) == IF prime = 0 THEN Credit ELSE Larger(need[o] - started, 0)

More(t) ==
  /\ at[t] = "more"
  /\ take' = [take EXCEPT ![t] = ToStart(output[t])]
  /\ started' = started + ToStart(output[t])
  /\ balance' = IF prime = 0 THEN 0 ELSE balance
  /\ Goto(t, "queue")
  /\ UNCHANGED <<outputs, prime, main, finished, rec, shared, items, jobs, probes, nextProbes,
                 tasks, probe, left, fed, output>>

Queue(t) ==
  /\ at[t] = "queue"
  /\ QueueProbes(take[t])
  /\ take' = [take EXCEPT ![t] = 0]
  /\ Goto(t, "close")
  /\ UNCHANGED <<outputs, prime, main, finished, rec, shared, items, jobs, computed, plan,
                 feedTasks, interpolateTasks, probe, left, fed, output>>

Close(t) ==
  /\ at[t] = "close"
  /\ interpolateJobs' = interpolateJobs - 1
  /\ main' = Notify
  /\ output' = [output EXCEPT ![t] = 0]
  /\ Goto(t, "idle")
  /\ UNCHANGED <<outputs, prime, finished, rec, shared, items, feedJobs, probes, plan, tasks,
                 probe, left, fed, take>>
----------------------------------------------------------------------------
\* The main thread: start_first_runs.
StartFirstRuns ==
  /\ main = "start"
  /\ QueueProbes(ThreadCount)
  /\ started' = ThreadCount
  /\ main' = "first"
  /\ UNCHANGED <<outputs, prime, finished, rec, shared, items, jobs, computed, balance,
                 nextProbes, feedTasks, interpolateTasks, at, locals>>

\* The first probe, which must be dense, makes the functions and feeds them;
\* only then is a snapshot published.
FirstProbe ==
  \E p \in BagToSet(computed) :
    LET settled == {o \in outputs : need[o] = 1} IN
    /\ main = "first"
    /\ computed' = computed (-) SetToBag({p})
    /\ balance' = balance + 1
    /\ eaten' = [o \in outputs |-> 1]
    /\ \E D \in SUBSET settled :
         /\ status' = [o \in outputs |-> IF o \in D THEN "DONE" ELSE "RECONSTRUCTING"]
         /\ recDone' = [o \in outputs |-> o \in D]
         /\ recPrime' = [o \in outputs |-> IF o \in settled \ D THEN 1 ELSE 0]
         /\ itemsDone' = Cardinality(D)
         /\ itemsNewPrime' = Cardinality(settled \ D)
         /\ snapshot' = [epoch |-> 0, outputs |-> outputs \ settled]
    /\ requested' = requested + 1
    /\ probeTasks' = probeTasks + 1
    /\ started' = started + 1
    /\ UNCHANGED queued                  \* one probe taken, one queued
    /\ main' = "get"
    /\ UNCHANGED <<outputs, prime, finished, food, busy, need, dirty, jobs, nextProbes,
                   feedTasks, interpolateTasks, at, locals>>

----------------------------------------------------------------------------
\* run_until_done: get_probe and the feed job started for the probe.
GetProbe ==
  \E p \in BagToSet(computed) :
    /\ main = "get"
    /\ computed' = computed (-) SetToBag({p})
    /\ queued' = queued - 1
    /\ feedJobs' = feedJobs + 1
    /\ feedTasks' = feedTasks (+) SetToBag({p})
    /\ main' = "status"
    /\ UNCHANGED <<outputs, prime, finished, rec, shared, items, interpolateJobs, requested, plan,
                   probeTasks, interpolateTasks, at, locals>>

\* What the loop does with the counts, under status_control or after a wait.
Settled == itemsDone + itemsNewPrime = Cardinality(outputs)
AllDone == itemsDone = Cardinality(outputs)

CheckStatus ==
  /\ main = "status"
  /\ finished' = (finished \/ AllDone)
  /\ main' = IF Settled THEN "kill" ELSE "queue"
  /\ UNCHANGED <<outputs, prime, rec, shared, items, jobs, probes, plan, tasks, at, locals>>

\* The head of the loop.
NextRound == IF finished THEN "kill" ELSE "get"

CheckQueue ==
  /\ main = "queue"
  /\ main' = IF queued # 0 THEN NextRound ELSE "drain"
  /\ UNCHANGED <<outputs, prime, finished, rec, shared, items, jobs, probes, plan, tasks, at, locals>>

\* The wait on condition_feed: its test, with feed_control held, and the look
\* at probes_queued after a wake-up.
Drain ==
  /\ main = "drain"
  /\ main' = IF feedJobs > 0 \/ interpolateJobs > 0 THEN "asleep"
             ELSE IF queued # 0 THEN NextRound ELSE "quiet"
  /\ UNCHANGED <<outputs, prime, finished, rec, shared, items, jobs, probes, plan, tasks, at, locals>>

Woken ==
  /\ main = "woken"
  /\ main' = IF queued # 0 THEN NextRound ELSE "drain"
  /\ UNCHANGED <<outputs, prime, finished, rec, shared, items, jobs, probes, plan, tasks, at, locals>>

SpuriousWakeup ==
  /\ main = "asleep" /\ main' = "woken"
  /\ UNCHANGED <<outputs, prime, finished, rec, shared, items, jobs, probes, plan, tasks, at, locals>>

NothingRuns == \A t \in Threads : at[t] = "idle"
NothingQueued == /\ probeTasks = 0 /\ feedTasks = EmptyBag
                 /\ \A o \in outputs : interpolateTasks[o] = 0

\* No probe and no job is left: the functions are settled, or "Nothing left to
\* feed: please report this error" (attempt_to_continue is not modelled).
Quiet ==
  /\ main = "quiet" /\ NothingRuns /\ NothingQueued
  /\ finished' = (finished \/ AllDone)
  /\ main' = IF Settled THEN "kill" ELSE "nothingLeft"
  /\ UNCHANGED <<outputs, prime, rec, shared, items, jobs, probes, plan, tasks, at, locals>>

DropTasks ==
  /\ probeTasks' = 0 /\ feedTasks' = EmptyBag
  /\ interpolateTasks' = [o \in outputs |-> 0]

\* kill_all: the queued tasks are dropped, with those the running ones add
\* before they end.
KillQueued ==
  /\ main = "kill" /\ DropTasks
  /\ main' = "killing"
  /\ UNCHANGED <<outputs, prime, finished, rec, shared, items, jobs, probes, plan, at, locals>>

KillRunning ==
  /\ main = "killing" /\ NothingRuns /\ DropTasks
  /\ main' = IF finished THEN "consume" ELSE "switch"
  /\ UNCHANGED <<outputs, prime, finished, rec, shared, items, jobs, probes, plan, at, locals>>

\* The next prime: reset_new_prime, the new snapshot and the first probes.
SwitchPrime ==
  LET wanted == IF nextProbes = 0 THEN ThreadCount ELSE Smaller(nextProbes, ThreadCount) IN
  /\ main = "switch"
  /\ prime' = prime + 1
  /\ finished' = (prime' >= PrimeLimit)
  /\ itemsNewPrime' = 0
  /\ feedJobs' = 0 /\ interpolateJobs' = 0
  /\ computed' = EmptyBag
  /\ eaten' = [o \in outputs |-> 0] /\ need' \in Needs[outputs][prime']
  /\ dirty' = FALSE
  /\ snapshot' = [epoch |-> prime', outputs |-> {o \in outputs : status[o] = "RECONSTRUCTING"
                                                   /\ ~recDone[o] /\ recPrime[o] = prime'}]
  /\ requested' = wanted /\ queued' = wanted
  /\ probeTasks' = probeTasks + wanted
  /\ started' = wanted /\ balance' = 0 /\ nextProbes' = 0
  /\ main' = "get"
  /\ UNCHANGED <<outputs, status, recPrime, recDone, food, busy, itemsDone,
                 feedTasks, interpolateTasks, at, locals>>

\* consume_results throws on a function that is not done.
Consume ==
  /\ main = "consume"
  /\ main' = IF \A o \in outputs : status[o] = "DONE" THEN "exported" ELSE "unfinished"
  /\ UNCHANGED <<outputs, prime, finished, rec, shared, items, jobs, probes, plan, tasks, at, locals>>

----------------------------------------------------------------------------
\* At a singular point the black box returns nothing.  compute_probe throws when
\* a compact result has the wrong size; feed_job reads past the end of a dense
\* one, which may end the process or pass for a value.
Singular(t) ==
  \/ at[t] = "evaluate" /\ probe[t] # Dense /\ probe[t].outputs # {}
  \/ /\ at[t] = "feed" /\ probe[t] = Dense
     /\ \E o \in left[t] : o \in Active /\ \A p \in left[t] : o <= p

\* Nobody catches what leaves a task of the pool: the process is gone.
Abort(t) ==
  /\ Singular(t)
  /\ main' = "aborted"
  /\ UNCHANGED <<outputs, prime, finished, rec, shared, items, jobs, probes, plan, tasks, at,
                 locals>>

Ended == main \in {"exported", "unfinished", "aborted"} /\ UNCHANGED vars

----------------------------------------------------------------------------
MainStep ==
  \/ StartFirstRuns \/ FirstProbe \/ GetProbe \/ CheckStatus \/ CheckQueue \/ Drain
  \/ Woken \/ Quiet \/ KillQueued \/ KillRunning \/ SwitchPrime \/ Consume

ThreadStep(t) ==
  \/ TakeProbe(t) \/ Select(t) \/ Collect(t) \/ Store(t) \/ Load(t) \/ Evaluate(t)
  \/ TakeFeed(t) \/ Feed(t) \/ FeedEnd(t)
  \/ TakeInterpolate(t) \/ Interpolate(t) \/ MarkDone(t) \/ MarkNext(t) \/ CountNext(t)
  \/ Estimate(t) \/ More(t) \/ Queue(t) \/ Close(t)

\* The process still runs.
Alive == main # "aborted"

Next ==
  \/ MainStep \/ SpuriousWakeup \/ Ended
  \/ \E t \in Threads : Alive /\ (ThreadStep(t) \/ Abort(t))

\* The main thread and the pool's threads are scheduled; nobody is woken for
\* no reason, and no point has to be singular.
Fairness == WF_vars(MainStep) /\ \A t \in Threads : WF_vars(Alive /\ ThreadStep(t))

Spec == Init /\ [][Next]_vars /\ Fairness

----------------------------------------------------------------------------
InFlight == BagToSet(computed) \cup BagToSet(feedTasks)
              \cup {probe[t] : t \in {u \in Threads : at[u] \in {"evaluate", "feed"}}}

\* No probe leaves out a function that still needs its value, and none is of
\* another prime, although the snapshot it was computed from was collected and
\* published while other threads settled functions, and the main thread changed
\* the prime: the "different prime epoch" and "invalid compact probe" exceptions
\* are not reached and no function starves.
ProbesServeAll ==
  \A p \in InFlight : p.epoch \in {-1, prime} /\ Active \subseteq p.outputs

ThreadsIn(places) == {t \in Threads : at[t] \in places}
Interpolating == {"interpolate", "markDone", "markNext", "countNext", "estimate", "more",
                  "queue", "close"}

\* The counters the main thread relies on are exact under every interleaving:
\* those of the jobs are the jobs that are left, so that when both are zero
\* nothing can queue another probe, and a function is counted once, as done or
\* as waiting for the next prime, by the job that settled it, whichever jobs
\* run for it at the same time.
CountersExact ==
  /\ main \notin {"kill", "killing", "switch", "consume", "exported", "unfinished", "aborted"} =>
       /\ feedJobs = SumFunction(feedTasks) + Cardinality(ThreadsIn({"feed"}))
       /\ interpolateJobs =
            SumFunctionOnSet(interpolateTasks, outputs)
            + Cardinality(ThreadsIn(Interpolating))
            + SumFunctionOnSet([t \in Threads |-> Cardinality(probe[t].outputs) - fed[t]],
                               ThreadsIn({"feed"}))
  /\ itemsDone = Cardinality({o \in outputs : status[o] = "DONE"})
  /\ itemsNewPrime + Cardinality(ThreadsIn({"markNext", "countNext"}))
       = Cardinality({o \in outputs : recPrime[o] > prime})

\* The loop never finds itself with nothing to feed and functions left ("Please
\* report this error").
AlwaysSomethingToFeed == main # "nothingLeft"

\* Reconstruction ends, or a singular point ends the process: the main thread is
\* not left waiting for a probe nobody computes or for a notification nobody sends.
ReconstructionEnds == <>(main \in {"exported", "unfinished", "aborted"})
=============================================================================
