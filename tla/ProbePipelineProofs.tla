------------------------- MODULE ProbePipelineProofs -------------------------
(***************************************************************************)
(* The invariants of ProbePipeline for every set of threads, black box,    *)
(* need and limit of primes.                                               *)
(*                                                                         *)
(* PInv gives ProbesServeAll: it says it of the snapshot and of what a     *)
(* thread has collected but not stored, too, although other threads settle *)
(* functions meanwhile: within a prime the active functions only get       *)
(* fewer.  It adds that nothing is in flight where the prime changes, that *)
(* before the first probe is taken nothing but dense probes is, and that a *)
(* function marked done is done.  It needs no counter.                     *)
(*                                                                         *)
(* JInv and FInv give CountersExact.  The job counters need sums over a    *)
(* bag and over functions, whose few facts are proved here; the item       *)
(* counters need that a function is interpolated by one thread at a time   *)
(* and has nothing left to consume once it is settled.                     *)
(*                                                                         *)
(* WInv, on top of these, gives AlwaysSomethingToFeed: it keeps account of *)
(* the probes on their way and of the values each function has consumed.   *)
(***************************************************************************)
EXTENDS ProbePipeline, FiniteSetTheorems, WellFoundedInduction, TLAPS

\* A probe, or a snapshot, that a function under reconstruction can use.
Serves(p) == p.epoch \in {-1, prime} /\ Active \subseteq p.outputs

Shapes ==
  /\ prime \in Nat
  /\ at = [t \in Threads |-> at[t]]
  /\ probe = [t \in Threads |-> probe[t]]
  /\ output = [t \in Threads |-> output[t]]
  /\ status = [o \in outputs |-> status[o]]
  /\ recPrime = [o \in outputs |-> recPrime[o]]
  /\ recDone = [o \in outputs |-> recDone[o]]

SharedServe ==
  /\ Serves(snapshot)
  /\ \A p \in BagToSet(computed) \cup BagToSet(feedTasks) : Serves(p)

StatusTrue ==
  \A o \in outputs : /\ status[o] \in {"RECONSTRUCTING", "DONE"}
                     /\ status[o] = "DONE" => recDone[o]

ThreadServes(t) ==
  /\ Serves(probe[t])
  /\ at[t] \notin {"store", "load", "evaluate", "feed"} => probe[t] = Dense
  /\ at[t] \in Interpolating => output[t] \in outputs
  /\ at[t] = "markDone" => recDone[output[t]]

\* Before the first probe is taken.
Early ==
  main \in {"start", "first"} =>
    /\ prime = 0 /\ snapshot = Dense /\ BagToSet(computed) \subseteq {Dense}
    /\ BagToSet(feedTasks) = {} /\ \A o \in outputs : interpolateTasks[o] = 0
    /\ \A t \in Threads : at[t] \in {"idle", "select", "evaluate"} /\ probe[t] = Dense

\* After kill_all.
AfterKill == {"switch", "consume", "exported", "unfinished"}

Late ==
  main \in AfterKill =>
    /\ probeTasks = 0 /\ BagToSet(feedTasks) = {}
    /\ \A o \in outputs : interpolateTasks[o] = 0
    /\ \A t \in Threads : at[t] = "idle"

PInv ==
  /\ Shapes /\ SharedServe /\ StatusTrue /\ Early /\ Late
  /\ \A t \in Threads : ThreadServes(t)

-----------------------------------------------------------------------------
LEMMA BagPlus == \A B, p : BagToSet(B (+) SetToBag({p})) = BagToSet(B) \cup {p}
BY DEF BagToSet, SetToBag, (+)

LEMMA BagMinus == \A B, p : BagToSet(B (-) SetToBag({p})) \subseteq BagToSet(B)
BY DEF BagToSet, SetToBag, (-)

LEMMA BagNone == BagToSet(EmptyBag) = {}
BY DEF BagToSet, EmptyBag, SetToBag

LEMMA DenseServes == Serves(Dense)
BY DEF Serves, Dense, Active

\* Within a prime the active functions only get fewer.
LEMMA StillServes ==
  ASSUME UNCHANGED <<outputs, prime>>, Active' \subseteq Active
  PROVE  \A p : Serves(p) => p.epoch \in {-1, prime'} /\ Active' \subseteq p.outputs
BY DEF Serves

LEMMA InitServes == Init => PInv
<1> SUFFICES ASSUME Init PROVE PInv
  OBVIOUS
<1>1. Shapes /\ StatusTrue /\ Late
  BY DEF Init, Shapes, StatusTrue, Late, AfterKill
<1>2. SharedServe /\ Early
  BY BagNone, DenseServes DEF Init, SharedServe, Early
<1>3. \A t \in Threads : ThreadServes(t)
  BY DenseServes DEF Init, ThreadServes, Interpolating
<1> QED BY <1>1, <1>2, <1>3 DEF PInv

\* A step of thread f that settles no function wrongly: what is left to show
\* of it is about f and about what it publishes.
LEMMA Others ==
  ASSUME PInv, NEW f \in Threads, UNCHANGED <<outputs, prime>>, Active' \subseteq Active,
         \A o \in outputs : recDone[o] => recDone'[o],
         \A t \in Threads \ {f} : UNCHANGED <<at[t], probe[t], output[t]>>
  PROVE  \A t \in Threads \ {f} : ThreadServes(t)'
<1> SUFFICES ASSUME NEW t \in Threads \ {f} PROVE ThreadServes(t)'
  OBVIOUS
<1>1. ThreadServes(t)
  BY DEF PInv
<1>2. probe'[t].epoch \in {-1, prime'} /\ Active' \subseteq probe'[t].outputs
  BY <1>1, StillServes DEF ThreadServes
<1>3. Dense' = Dense
  BY DEF Dense
<1> QED BY <1>1, <1>2, <1>3 DEF ThreadServes, Serves, Interpolating

\* After kill_all no thread has anything to do.
LEMMA ThreadsStopped ==
  ASSUME PInv, NEW f \in Threads, ThreadStep(f)
  PROVE  main \notin AfterKill
<1> SUFFICES ASSUME main \in AfterKill PROVE FALSE
  OBVIOUS
<1>1. /\ at[f] = "idle" /\ probeTasks = 0 /\ BagToSet(feedTasks) = {}
      /\ \A o \in outputs : interpolateTasks[o] = 0
  BY DEF PInv, Late
<1>2. CASE TakeProbe(f)
  BY <1>1, <1>2 DEF TakeProbe
<1>3. CASE TakeFeed(f)
  BY <1>1, <1>3 DEF TakeFeed
<1>4. CASE TakeInterpolate(f)
  BY <1>1, <1>4 DEF TakeInterpolate
<1>5. CASE Select(f) \/ Collect(f) \/ Store(f) \/ Load(f) \/ Evaluate(f)
  BY <1>1, <1>5 DEF Select, Collect, Store, Load, Evaluate
<1>6. CASE Feed(f) \/ FeedEnd(f) \/ Interpolate(f) \/ MarkDone(f) \/ MarkNext(f)
           \/ CountNext(f) \/ Estimate(f) \/ More(f) \/ Queue(f) \/ Close(f)
  BY <1>1, <1>6 DEF Feed, FeedEnd, Interpolate, MarkDone, MarkNext, CountNext, Estimate,
                    More, Queue, Close
<1> QED BY <1>2, <1>3, <1>4, <1>5, <1>6 DEF ThreadStep

\* A step of f that leaves the functions, the snapshot and the prime alone.
LEMMA Plain ==
  ASSUME PInv, NEW f \in Threads, main \notin AfterKill, main' \in {main, "woken"},
         UNCHANGED <<outputs, prime, status, recPrime, recDone, snapshot>>,
         at' = [at EXCEPT ![f] = at'[f]],
         probe' = [probe EXCEPT ![f] = probe'[f]],
         output' = [output EXCEPT ![f] = output'[f]],
         \A p \in BagToSet(computed') \cup BagToSet(feedTasks') : Serves(p),
         ThreadServes(f)', Early'
  PROVE  PInv'
<1>1. UNCHANGED Active /\ UNCHANGED Dense
  BY DEF Active, Dense
<1>2. Shapes'
  BY DEF PInv, Shapes
<1>3. SharedServe' /\ StatusTrue'
  BY <1>1 DEF PInv, SharedServe, Serves, StatusTrue
<1>4. \A t \in Threads \ {f} : ThreadServes(t)'
  BY <1>1, Others DEF PInv, Shapes
<1>5. Late'
  BY DEF Late, AfterKill
<1> QED BY <1>2, <1>3, <1>4, <1>5 DEF PInv

\* Probe jobs.
LEMMA TakeProbeServes ==
  ASSUME PInv, NEW f \in Threads, TakeProbe(f)
  PROVE  PInv'
<1>1. main \notin AfterKill
  BY ThreadsStopped DEF ThreadStep
<1>2. /\ at' = [at EXCEPT ![f] = at'[f]] /\ at'[f] \in {"idle", "select"} /\ at[f] = "idle"
      /\ UNCHANGED <<outputs, prime, main, status, recPrime, recDone, snapshot, computed,
                     feedTasks, interpolateTasks, probe, output>>
  BY DEF TakeProbe, Goto, Idle, rec, shared, locals, PInv, Shapes
<1>3. ThreadServes(f)'
  BY <1>2 DEF PInv, ThreadServes, Serves, Active, Dense, Interpolating
<1>4. Early'
  BY <1>2 DEF PInv, Early, Dense, Shapes
<1> QED BY <1>1, <1>2, <1>3, <1>4, Plain DEF PInv, Shapes, SharedServe

LEMMA SelectServes ==
  ASSUME PInv, NEW f \in Threads, Select(f)
  PROVE  PInv'
<1>1. main \notin AfterKill
  BY ThreadsStopped DEF ThreadStep
<1>2. /\ at' = [at EXCEPT ![f] = at'[f]] /\ at[f] = "select"
      /\ at'[f] = IF snapshot = Dense THEN "evaluate" ELSE IF dirty THEN "collect" ELSE "load"
      /\ UNCHANGED <<outputs, prime, main, status, recPrime, recDone, snapshot, computed,
                     feedTasks, interpolateTasks, probe, output>>
  BY DEF Select, Goto, rec, probes, tasks, locals, PInv, Shapes
<1>3. ThreadServes(f)'
  BY <1>2 DEF PInv, ThreadServes, Serves, Active, Dense, Interpolating
<1>4. Early'
  BY <1>2 DEF PInv, Early, Dense, Shapes
<1> QED BY <1>1, <1>2, <1>3, <1>4, Plain DEF PInv, Shapes, SharedServe

LEMMA CollectServes ==
  ASSUME PInv, NEW f \in Threads, Collect(f)
  PROVE  PInv'
<1>1. main \notin AfterKill
  BY ThreadsStopped DEF ThreadStep
<1>2. /\ at' = [at EXCEPT ![f] = "store"] /\ at[f] = "collect"
      /\ probe' = [probe EXCEPT ![f] = [epoch |-> prime, outputs |-> Collected]]
      /\ UNCHANGED <<outputs, prime, main, status, recPrime, recDone, snapshot, computed,
                     feedTasks, interpolateTasks, output>>
  BY DEF Collect, Goto, rec, shared, probes, tasks
<1>3. Active \subseteq Collected
  BY DEF Active, Collected, PInv, StatusTrue
<1>4. ThreadServes(f)'
  BY <1>2, <1>3 DEF PInv, Shapes, ThreadServes, Serves, Active, Interpolating
<1>5. Early'
  BY <1>2 DEF PInv, Early
<1> QED BY <1>1, <1>2, <1>4, <1>5, Plain DEF PInv, Shapes, SharedServe

LEMMA LoadServes ==
  ASSUME PInv, NEW f \in Threads, Load(f)
  PROVE  PInv'
<1>1. main \notin AfterKill
  BY ThreadsStopped DEF ThreadStep
<1>2. /\ at' = [at EXCEPT ![f] = "evaluate"] /\ at[f] = "load"
      /\ probe' = [probe EXCEPT ![f] = snapshot]
      /\ UNCHANGED <<outputs, prime, main, status, recPrime, recDone, snapshot, computed,
                     feedTasks, interpolateTasks, output>>
  BY DEF Load, Goto, rec, shared, probes, tasks
<1>3. ThreadServes(f)'
  BY <1>2 DEF PInv, Shapes, SharedServe, ThreadServes, Serves, Active, Interpolating
<1>4. Early'
  BY <1>2 DEF PInv, Early
<1> QED BY <1>1, <1>2, <1>3, <1>4, Plain DEF PInv, Shapes, SharedServe

LEMMA EvaluateServes ==
  ASSUME PInv, NEW f \in Threads, Evaluate(f)
  PROVE  PInv'
<1>1. main \notin AfterKill
  BY ThreadsStopped DEF ThreadStep
<1>2. /\ at' = [at EXCEPT ![f] = "idle"] /\ at[f] = "evaluate"
      /\ probe' = [probe EXCEPT ![f] = Dense]
      /\ computed' = computed (+) SetToBag({probe[f]})
      /\ UNCHANGED <<outputs, prime, main, status, recPrime, recDone, snapshot,
                     feedTasks, interpolateTasks, output>>
  BY DEF Evaluate, Goto, rec, shared, tasks
<1>3. BagToSet(computed') = BagToSet(computed) \cup {probe[f]}
  BY <1>2, BagPlus
<1>4. Serves(probe[f])
  BY DEF PInv, ThreadServes
<1>5. ThreadServes(f)'
  BY <1>2, DenseServes DEF PInv, Shapes, ThreadServes, Serves, Active, Dense, Interpolating
<1>6. Early'
  BY <1>2, <1>3 DEF PInv, Shapes, Early, Dense
<1> QED BY <1>1, <1>2, <1>3, <1>4, <1>5, <1>6, Plain DEF PInv, Shapes, SharedServe

\* publish_active_output_snapshot stores what it collected earlier.
LEMMA StoreServes ==
  ASSUME PInv, NEW f \in Threads, Store(f)
  PROVE  PInv'
<1>1. main \notin AfterKill
  BY ThreadsStopped DEF ThreadStep
<1>2. /\ at' = [at EXCEPT ![f] = "load"] /\ at[f] = "store" /\ snapshot' = probe[f]
      /\ UNCHANGED <<outputs, prime, main, status, recPrime, recDone, computed,
                     feedTasks, interpolateTasks, probe, output>>
  BY DEF Store, Goto, rec, probes, tasks, locals
<1>3. UNCHANGED Active /\ UNCHANGED Dense
  BY <1>2 DEF Active, Dense
<1>4. Serves(probe[f])
  BY DEF PInv, ThreadServes
<1>5. Shapes' /\ SharedServe' /\ StatusTrue'
  BY <1>2, <1>3, <1>4 DEF PInv, Shapes, SharedServe, Serves, StatusTrue
<1>6. Early' /\ Late'
  BY <1>1, <1>2 DEF PInv, Early, Late
<1>7. ThreadServes(f)'
  BY <1>2, <1>3, <1>4 DEF PInv, Shapes, ThreadServes, Serves, Interpolating
<1>8. \A t \in Threads \ {f} : ThreadServes(t)'
  BY <1>2, <1>3, Others DEF PInv, Shapes
<1> QED BY <1>5, <1>6, <1>7, <1>8 DEF PInv
\* Feed jobs.
LEMMA TakeFeedServes ==
  ASSUME PInv, NEW f \in Threads, TakeFeed(f)
  PROVE  PInv'
<1>1. main \notin AfterKill
  BY ThreadsStopped DEF ThreadStep
<1>2. PICK p \in BagToSet(feedTasks) :
        /\ at' = [at EXCEPT ![f] = "feed"] /\ at[f] = "idle"
        /\ probe' = [probe EXCEPT ![f] = p]
        /\ feedTasks' = feedTasks (-) SetToBag({p})
        /\ UNCHANGED <<outputs, prime, main, status, recPrime, recDone, snapshot, computed,
                       interpolateTasks, output>>
  BY DEF TakeFeed, Idle, Goto, rec, shared, probes
<1>3. BagToSet(feedTasks') \subseteq BagToSet(feedTasks)
  BY <1>2, BagMinus
<1>4. ThreadServes(f)'
  BY <1>2 DEF PInv, Shapes, SharedServe, ThreadServes, Serves, Active, Interpolating
<1>5. Early'
  BY <1>2 DEF PInv, Early
<1> QED BY <1>1, <1>2, <1>3, <1>4, <1>5, Plain DEF PInv, Shapes, SharedServe

LEMMA FeedServes ==
  ASSUME PInv, NEW f \in Threads, Feed(f)
  PROVE  PInv'
<1>1. main \notin AfterKill
  BY ThreadsStopped DEF ThreadStep
<1>2. /\ at[f] = "feed"
      /\ UNCHANGED <<outputs, prime, main, status, recPrime, recDone, snapshot, computed,
                     feedTasks, at, probe, output>>
  BY DEF Feed, shared, probes
<1>3. ThreadServes(f)'
  BY <1>2 DEF PInv, ThreadServes, Serves, Active, Dense
<1>4. Early'
  BY <1>2 DEF PInv, Early
<1> QED BY <1>1, <1>2, <1>3, <1>4, Plain DEF PInv, Shapes, SharedServe

LEMMA FeedEndServes ==
  ASSUME PInv, NEW f \in Threads, FeedEnd(f)
  PROVE  PInv'
<1>1. main \notin AfterKill
  BY ThreadsStopped DEF ThreadStep
<1>2. /\ at[f] = "feed" /\ main' \in {main, "woken"}
      /\ at' = [at EXCEPT ![f] = "idle"] /\ probe' = [probe EXCEPT ![f] = Dense]
      /\ UNCHANGED <<outputs, prime, status, recPrime, recDone, snapshot, computed,
                     feedTasks, output>>
  BY DEF FeedEnd, Notify, Goto, rec, shared, probes, tasks
<1>3. ThreadServes(f)'
  BY <1>2, DenseServes DEF PInv, Shapes, ThreadServes, Serves, Active, Dense, Interpolating
<1>4. Early'
  BY <1>2 DEF PInv, Early
<1> QED BY <1>1, <1>2, <1>3, <1>4, Plain DEF PInv, Shapes, SharedServe

\* Interpolation jobs that settle nothing.
LEMMA TakeInterpolateServes ==
  ASSUME PInv, NEW f \in Threads, TakeInterpolate(f)
  PROVE  PInv'
<1>1. main \notin AfterKill
  BY ThreadsStopped DEF ThreadStep
<1>2. PICK o \in outputs :
        /\ at[f] = "idle" /\ interpolateTasks[o] > 0
        /\ at' = [at EXCEPT ![f] = at'[f]] /\ at'[f] \in {"interpolate", "close"}
        /\ output' = [output EXCEPT ![f] = o]
        /\ UNCHANGED <<outputs, prime, main, status, recPrime, recDone, snapshot, computed,
                       feedTasks, probe>>
  BY DEF TakeInterpolate, Idle, Goto, shared, probes, PInv, Shapes
<1>3. main \notin {"start", "first"}
  BY <1>2 DEF PInv, Early
<1>4. ThreadServes(f)'
  BY <1>2 DEF PInv, Shapes, ThreadServes, Serves, Active, Dense
<1>5. Early'
  BY <1>2, <1>3 DEF Early
<1> QED BY <1>1, <1>2, <1>4, <1>5, Plain DEF PInv, Shapes, SharedServe

LEMMA JobServes ==
  ASSUME PInv, NEW f \in Threads,
         MarkNext(f) \/ CountNext(f) \/ Estimate(f) \/ More(f) \/ Queue(f) \/ Close(f)
  PROVE  PInv'
<1>1. main \notin AfterKill
  BY ThreadsStopped DEF ThreadStep
<1>2. /\ at[f] \in Interpolating /\ main' \in {main, "woken"}
      /\ at' = [at EXCEPT ![f] = at'[f]]
      /\ at'[f] \in {"countNext", "estimate", "close", "queue", "idle"}
      /\ UNCHANGED <<outputs, prime, status, recPrime, recDone, snapshot, computed,
                     feedTasks, probe>>
  <2>1. CASE MarkNext(f) \/ CountNext(f) \/ Estimate(f)
    BY <2>1 DEF MarkNext, CountNext, Estimate, Interpolating, Goto, rec, shared, probes, tasks,
                locals, PInv, Shapes
  <2>2. CASE More(f) \/ Queue(f) \/ Close(f)
    BY <2>2 DEF More, Queue, Close, Interpolating, Notify, Goto, rec, shared, probes, tasks,
                PInv, Shapes
  <2> QED BY <2>1, <2>2
<1>3. output' = [output EXCEPT ![f] = output'[f]] /\ (at'[f] # "idle" => output'[f] = output[f])
  BY DEF MarkNext, CountNext, Estimate, More, Queue, Close, Goto, locals, PInv, Shapes
<1>4. main \notin {"start", "first"}
  BY <1>2 DEF PInv, Early, Interpolating
<1>5. ThreadServes(f)'
  BY <1>2, <1>3 DEF PInv, Shapes, ThreadServes, Serves, Active, Dense, Interpolating
<1>6. Early'
  BY <1>2, <1>4 DEF Early
<1> QED BY <1>1, <1>2, <1>3, <1>5, <1>6, Plain DEF PInv, Shapes, SharedServe

\* RatReconst::interpolate may end a function or ask for the next prime: it is
\* active no longer.
LEMMA InterpolateServes ==
  ASSUME PInv, NEW f \in Threads, Interpolate(f)
  PROVE  PInv'
<1> DEFINE o == output[f]
<1>1. main \notin AfterKill
  BY ThreadsStopped DEF ThreadStep
<1>2. /\ at[f] = "interpolate" /\ o \in outputs
      /\ at' = [at EXCEPT ![f] = at'[f]] /\ at'[f] \in {"markDone", "markNext", "more"}
      /\ UNCHANGED <<outputs, prime, main, status, snapshot, computed, feedTasks, probe, output>>
  BY DEF Interpolate, Goto, Interpolating, shared, probes, tasks, locals, PInv, Shapes, ThreadServes
<1>3. \/ /\ recDone' = [recDone EXCEPT ![o] = TRUE] /\ UNCHANGED recPrime
      \/ /\ recPrime' = [recPrime EXCEPT ![o] = prime + 1] /\ UNCHANGED recDone
         /\ at'[f] # "markDone"
      \/ UNCHANGED <<recPrime, recDone>> /\ at'[f] # "markDone"
  BY DEF Interpolate, Goto, PInv, Shapes
<1>4. \A q \in outputs : recDone[q] => recDone'[q]
  BY <1>2, <1>3 DEF PInv, Shapes
<1>5. Active' \subseteq Active
  BY <1>2, <1>3, <1>4 DEF PInv, Shapes, Active
<1>6. Shapes'
  BY <1>2, <1>3 DEF PInv, Shapes
<1>7. SharedServe'
  BY <1>2, <1>5, StillServes DEF PInv, SharedServe, Serves
<1>8. StatusTrue'
  BY <1>2, <1>4 DEF PInv, StatusTrue
<1>9. main \notin {"start", "first"}
  BY <1>2 DEF PInv, Early
<1>10. ThreadServes(f)'
  <2>1. Serves(probe[f]) /\ probe[f] = Dense /\ Dense' = Dense
    BY <1>2 DEF PInv, ThreadServes, Dense
  <2>2. at'[f] = "markDone" => recDone'[o]
    BY <1>2, <1>3 DEF PInv, Shapes
  <2> QED BY <1>2, <1>5, <2>1, <2>2, StillServes DEF ThreadServes, Serves
<1>11. \A t \in Threads \ {f} : ThreadServes(t)'
  BY <1>2, <1>4, <1>5, Others DEF PInv, Shapes
<1> QED BY <1>1, <1>2, <1>6, <1>7, <1>8, <1>9, <1>10, <1>11 DEF PInv, Early, Late

LEMMA MarkDoneServes ==
  ASSUME PInv, NEW f \in Threads, MarkDone(f)
  PROVE  PInv'
<1> DEFINE o == output[f]
<1>1. main \notin AfterKill
  BY ThreadsStopped DEF ThreadStep
<1>2. /\ at[f] = "markDone" /\ o \in outputs /\ recDone[o]
      /\ at' = [at EXCEPT ![f] = "close"]
      /\ status' = status \/ status' = [status EXCEPT ![o] = "DONE"]
      /\ UNCHANGED <<outputs, prime, main, recPrime, recDone, snapshot, computed, feedTasks,
                     probe, output>>
  BY DEF MarkDone, Goto, Interpolating, probes, tasks, locals, PInv, ThreadServes
<1>3. UNCHANGED Active /\ UNCHANGED Dense
  BY <1>2 DEF Active, Dense
<1>4. Shapes' /\ SharedServe' /\ StatusTrue'
  BY <1>2, <1>3 DEF PInv, Shapes, SharedServe, Serves, StatusTrue
<1>5. main \notin {"start", "first"}
  BY <1>2 DEF PInv, Early
<1>6. ThreadServes(f)'
  BY <1>2, <1>3 DEF PInv, Shapes, ThreadServes, Serves, Interpolating
<1>7. \A t \in Threads \ {f} : ThreadServes(t)'
  BY <1>2, <1>3, Others DEF PInv, Shapes
<1> QED BY <1>1, <1>2, <1>4, <1>5, <1>6, <1>7 DEF PInv, Early, Late

LEMMA ThreadStepServes ==
  ASSUME PInv, NEW f \in Threads, ThreadStep(f)
  PROVE  PInv'
BY TakeProbeServes, SelectServes, CollectServes, StoreServes, LoadServes, EvaluateServes,
   TakeFeedServes, FeedServes, FeedEndServes, TakeInterpolateServes, InterpolateServes,
   MarkDoneServes, JobServes DEF ThreadStep
-----------------------------------------------------------------------------
\* A step of the main thread that leaves threads and functions alone and adds
\* no probe.
LEMMA MainPlain ==
  ASSUME PInv, UNCHANGED <<outputs, prime, status, recPrime, recDone, snapshot, at, probe, output>>,
         BagToSet(computed') \cup BagToSet(feedTasks')
           \subseteq BagToSet(computed) \cup BagToSet(feedTasks),
         main' \notin {"start", "first"}, Late'
  PROVE  PInv'
<1>1. UNCHANGED Active /\ UNCHANGED Dense
  BY DEF Active, Dense
<1>2. Shapes' /\ SharedServe' /\ StatusTrue'
  BY <1>1 DEF PInv, Shapes, SharedServe, Serves, StatusTrue
<1>3. \A t \in Threads : ThreadServes(t)'
  BY <1>1 DEF PInv, ThreadServes, Serves, Interpolating
<1>4. Early'
  BY DEF Early
<1> QED BY <1>2, <1>3, <1>4 DEF PInv

LEMMA StartServes ==
  ASSUME PInv, StartFirstRuns
  PROVE  PInv'
<1>1. /\ main = "start" /\ main' = "first"
      /\ UNCHANGED <<outputs, prime, status, recPrime, recDone, snapshot, computed, feedTasks,
                     interpolateTasks, at, probe, output>>
  BY DEF StartFirstRuns, rec, shared, locals
<1>2. UNCHANGED Active /\ UNCHANGED Dense
  BY <1>1 DEF Active, Dense
<1>3. Shapes' /\ SharedServe' /\ StatusTrue'
  BY <1>1, <1>2 DEF PInv, Shapes, SharedServe, Serves, StatusTrue
<1>4. \A t \in Threads : ThreadServes(t)'
  BY <1>1, <1>2 DEF PInv, ThreadServes, Serves, Interpolating
<1>5. Early' /\ Late'
  BY <1>1, <1>2 DEF PInv, Early, Late, AfterKill
<1> QED BY <1>3, <1>4, <1>5 DEF PInv

\* The first snapshot leaves out the functions that one value settled.
LEMMA FirstProbeServes ==
  ASSUME PInv, FirstProbe
  PROVE  PInv'
<1> DEFINE settled == {o \in outputs : need[o] = 1}
<1>1. PICK p \in BagToSet(computed), D \in SUBSET settled :
        /\ main = "first" /\ main' = "get"
        /\ computed' = computed (-) SetToBag({p})
        /\ status' = [o \in outputs |-> IF o \in D THEN "DONE" ELSE "RECONSTRUCTING"]
        /\ recDone' = [o \in outputs |-> o \in D]
        /\ recPrime' = [o \in outputs |-> IF o \in settled \ D THEN 1 ELSE 0]
        /\ snapshot' = [epoch |-> 0, outputs |-> outputs \ settled]
        /\ UNCHANGED <<outputs, prime, feedTasks, interpolateTasks, at, probe, output>>
  BY DEF FirstProbe, locals
<1>2. /\ prime = 0 /\ BagToSet(computed) \subseteq {Dense} /\ BagToSet(feedTasks) = {}
      /\ \A t \in Threads : at[t] \in {"idle", "select", "evaluate"} /\ probe[t] = Dense
  BY <1>1 DEF PInv, Early
<1>3. BagToSet(computed') \subseteq {Dense} /\ BagToSet(feedTasks') = {} /\ Dense' = Dense
  BY <1>1, <1>2, BagMinus DEF Dense
<1>4. Active' = outputs \ settled
  <2>1. ASSUME NEW o \in outputs
        PROVE  /\ recDone'[o] <=> o \in D
               /\ recPrime'[o] = prime' <=> ~(o \in settled \ D)
    <3>1. recDone'[o] <=> o \in D
      BY <1>1, Zenon
    <3>2. prime' = 0
      BY <1>1, <1>2
    <3>3. recPrime'[o] = IF o \in settled \ D THEN 1 ELSE 0
      BY <1>1
    <3> QED BY <3>1, <3>2, <3>3
  <2>2. outputs' = outputs /\ D \subseteq settled
    BY <1>1
  <2> HIDE DEF settled
  <2> QED BY <2>1, <2>2 DEF Active
<1>5. Serves(Dense)' /\ Serves(snapshot)'
  BY <1>1, <1>2, <1>4 DEF Serves, Dense
<1>6. Shapes' /\ StatusTrue'
  BY <1>1 DEF PInv, Shapes, StatusTrue
<1>7. SharedServe'
  BY <1>3, <1>5 DEF SharedServe
<1>8. \A t \in Threads : ThreadServes(t)'
  BY <1>1, <1>2, <1>3, <1>5 DEF ThreadServes, Interpolating
<1>9. Early' /\ Late'
  BY <1>1 DEF Early, Late, AfterKill
<1> QED BY <1>6, <1>7, <1>8, <1>9 DEF PInv

LEMMA GetProbeServes ==
  ASSUME PInv, GetProbe
  PROVE  PInv'
<1>1. PICK p \in BagToSet(computed) :
        /\ main' = "status"
        /\ computed' = computed (-) SetToBag({p}) /\ feedTasks' = feedTasks (+) SetToBag({p})
        /\ UNCHANGED <<outputs, prime, status, recPrime, recDone, snapshot, at, probe, output>>
  BY DEF GetProbe, rec, shared, locals
<1>2. BagToSet(computed') \cup BagToSet(feedTasks')
        \subseteq BagToSet(computed) \cup BagToSet(feedTasks)
  <2>1. BagToSet(computed') \subseteq BagToSet(computed)
    BY <1>1, BagMinus
  <2>2. BagToSet(feedTasks') = BagToSet(feedTasks) \cup {p}
    BY <1>1, BagPlus
  <2> QED BY <2>1, <2>2
<1> QED BY <1>1, <1>2, MainPlain DEF Late, AfterKill

LEMMA WaitingServes ==
  ASSUME PInv,
         CheckStatus \/ CheckQueue \/ Drain \/ Woken \/ SpuriousWakeup \/ Quiet \/ Consume
  PROVE  PInv'
<1>1. /\ UNCHANGED <<outputs, prime, status, recPrime, recDone, snapshot, computed, feedTasks,
                     interpolateTasks, probeTasks, at, probe, output>>
      /\ main' \notin {"start", "first"}
      /\ main' \in AfterKill => main \in AfterKill
  BY DEF CheckStatus, CheckQueue, Drain, Woken, SpuriousWakeup, Quiet, Consume, NextRound,
         AfterKill, rec, shared, probes, tasks, locals
<1>2. Late'
  BY <1>1 DEF PInv, Late
<1> QED BY <1>1, <1>2, MainPlain

LEMMA KillServes ==
  ASSUME PInv, KillQueued \/ KillRunning
  PROVE  PInv'
<1>1. /\ UNCHANGED <<outputs, prime, status, recPrime, recDone, snapshot, computed,
                     at, probe, output>>
      /\ probeTasks' = 0 /\ BagToSet(feedTasks') = {}
      /\ \A o \in outputs : interpolateTasks'[o] = 0
      /\ main' \notin {"start", "first"}
      /\ main' \in AfterKill => NothingRuns
  BY BagNone DEF KillQueued, KillRunning, DropTasks, AfterKill, rec, shared, probes, locals
<1>2. Late'
  BY <1>1 DEF Late, NothingRuns
<1> QED BY <1>1, <1>2, MainPlain

\* Nothing is in flight when the prime changes, and the new snapshot has the
\* functions that go on in it.
LEMMA SwitchServes ==
  ASSUME PInv, SwitchPrime
  PROVE  PInv'
<1>1. /\ main = "switch" /\ main' = "get" /\ prime' = prime + 1
      /\ BagToSet(computed') = {}
      /\ snapshot' = [epoch |-> prime', outputs |-> {o \in outputs : status[o] = "RECONSTRUCTING"
                                                       /\ ~recDone[o] /\ recPrime[o] = prime'}]
      /\ UNCHANGED <<outputs, status, recPrime, recDone, feedTasks, interpolateTasks, at, probe,
                     output>>
  BY BagNone DEF SwitchPrime, locals
<1>2. BagToSet(feedTasks) = {} /\ \A t \in Threads : at[t] = "idle" /\ probe[t] = Dense
  BY <1>1 DEF PInv, Late, AfterKill, ThreadServes
<1>3. Serves(Dense)' /\ Dense' = Dense
  BY <1>1 DEF Serves, Dense, Active
<1>4. Serves(snapshot)'
  BY <1>1 DEF Serves, Active, PInv, StatusTrue
<1>5. Shapes' /\ StatusTrue'
  BY <1>1 DEF PInv, Shapes, StatusTrue
<1>6. SharedServe'
  BY <1>1, <1>2, <1>4 DEF SharedServe
<1>7. \A t \in Threads : ThreadServes(t)'
  BY <1>1, <1>2, <1>3 DEF ThreadServes, Interpolating
<1>8. Early' /\ Late'
  BY <1>1 DEF Early, Late, AfterKill
<1> QED BY <1>5, <1>6, <1>7, <1>8 DEF PInv

LEMMA StepServes == PInv /\ [Next]_vars => PInv'
<1> SUFFICES ASSUME PInv, [Next]_vars PROVE PInv'
  OBVIOUS
<1>1. CASE MainStep
  BY <1>1, StartServes, FirstProbeServes, GetProbeServes, WaitingServes, KillServes,
     SwitchServes DEF MainStep
<1>2. ASSUME NEW t \in Threads, ThreadStep(t) PROVE PInv'
  BY <1>2, ThreadStepServes
<1>3. CASE SpuriousWakeup
  BY <1>3, WaitingServes
<1>4. CASE UNCHANGED vars
  <2>1. /\ UNCHANGED <<outputs, prime, main, status, recPrime, recDone, snapshot, computed>>
        /\ UNCHANGED <<feedTasks, interpolateTasks, probeTasks, at, probe, output>>
    BY <1>4 DEF vars, rec, shared, probes, tasks, locals
  <2>2. UNCHANGED Active /\ UNCHANGED Dense
    BY <2>1 DEF Active, Dense
  <2>3. Shapes' /\ SharedServe' /\ StatusTrue' /\ Early' /\ Late'
    BY <2>1, <2>2 DEF PInv, Shapes, SharedServe, Serves, StatusTrue, Early, Late
  <2>4. \A t \in Threads : ThreadServes(t)'
    BY <2>1, <2>2 DEF PInv, ThreadServes, Serves, Interpolating
  <2> QED BY <2>3, <2>4 DEF PInv
<1>5. ASSUME NEW t \in Threads, Abort(t) PROVE PInv'
  <2>1. /\ UNCHANGED <<outputs, prime, status, recPrime, recDone, snapshot, computed, feedTasks,
                       interpolateTasks, probeTasks, at, probe, output>>
        /\ main' = "aborted"
    BY <1>5 DEF Abort, rec, shared, probes, tasks, locals
  <2>2. Late'
    BY <2>1 DEF Late, AfterKill
  <2> QED BY <2>1, <2>2, MainPlain DEF AfterKill
<1> QED BY <1>1, <1>2, <1>3, <1>4, <1>5 DEF Next, Ended

\* No probe in flight leaves out a function that still needs its value, and
\* none is of another prime, whenever threads collect, publish and load the
\* snapshot (publish_active_output_snapshot, selected_black_box_outputs) and
\* however the main thread changes the prime.
THEOREM ProbesServe == Spec => []ProbesServeAll
<1>1. PInv => ProbesServeAll
  BY DEF PInv, SharedServe, ThreadServes, Serves, ProbesServeAll, InFlight
<1> QED BY <1>1, InitServes, StepServes, PTL DEF Spec
-----------------------------------------------------------------------------
(***************************************************************************)
(* Sums.                                                                   *)
(***************************************************************************)
LEMMA Least ==
  ASSUME NEW T, T \subseteq Nat, T # {}
  PROVE  \E x \in T : \A y \in T : x <= y
<1>1. PICK x \in T : \A y \in T : ~(<<y, x>> \in OpToRel(<, Nat))
  BY NatLessThanWellFounded, WFMin
<1>2. ASSUME NEW y \in T PROVE x <= y
  <2>1. ~(y < x)
    BY <1>1, <1>2 DEF OpToRel
  <2> QED BY <2>1, <1>2
<1> QED BY <1>2

LEMMA SetInduction ==
  ASSUME NEW T, 0 \in T, \A k \in Nat : k \in T => k + 1 \in T
  PROVE  \A k \in Nat : k \in T
<1> DEFINE Exceptions == {k \in Nat : k \notin T}
<1>1. SUFFICES ASSUME Exceptions # {} PROVE FALSE
  OBVIOUS
<1>2. PICK k \in Exceptions : \A l \in Exceptions : k <= l
  BY <1>1, Least
<1>3. k # 0 /\ k - 1 \in Nat /\ k - 1 \in T
  BY <1>2
<1> QED BY <1>2, <1>3

\* What SumFunctionOnSet chooses.
IsSum(s, f, S) ==
  s = [T \in SUBSET S |-> IF T = {} THEN 0
                          ELSE f[CHOOSE x \in T : TRUE] + s[T \ {CHOOSE x \in T : TRUE}]]

LEMMA SumIs ==
  ASSUME NEW f, NEW S
  PROVE  SumFunctionOnSet(f, S) = (CHOOSE s : IsSum(s, f, S))[S]
BY DEF SumFunctionOnSet, FoldFunctionOnSet, MapThenFoldSet, IsSum

\* The equation at one set.
SumAt(s, f, T) ==
  s[T] = IF T = {} THEN 0 ELSE f[CHOOSE x \in T : TRUE] + s[T \ {CHOOSE x \in T : TRUE}]

\* Taking an element out of a finite set leaves one less.
LEMMA OneLess ==
  ASSUME NEW T, IsFiniteSet(T), NEW x \in T, NEW k \in Nat, Cardinality(T) <= k + 1
  PROVE  /\ IsFiniteSet(T \ {x}) /\ Cardinality(T \ {x}) <= k
         /\ Cardinality(T \ {x}) + 1 = Cardinality(T)
<1>1. IsFiniteSet(T \ {x}) /\ Cardinality(T \ {x}) = Cardinality(T) - 1
  BY FS_RemoveElement
<1>2. Cardinality(T) \in Nat /\ Cardinality(T \ {x}) \in Nat
  BY <1>1, FS_CardinalityType
<1> QED BY <1>1, <1>2

LEMMA NoneLeft ==
  ASSUME NEW T, IsFiniteSet(T), Cardinality(T) <= 0
  PROVE  T = {}
BY FS_EmptySet, FS_CardinalityType

LEMMA SumExists ==
  ASSUME NEW f, NEW S, IsFiniteSet(S)
  PROVE  \E s : IsSum(s, f, S)
<1> DEFINE Solves(s, k) == \A T \in SUBSET S : Cardinality(T) <= k => SumAt(s, f, T)
           K == {k \in Nat : \E s : s = [T \in SUBSET S |-> s[T]] /\ Solves(s, k)}
<1>1. \A T \in SUBSET S : IsFiniteSet(T)
  BY FS_Subset
<1>2. 0 \in K
  <2> DEFINE s == [T \in SUBSET S |-> 0]
  <2>1. Solves(s, 0)
    BY <1>1, NoneLeft DEF SumAt
  <2> QED BY <2>1
<1>3. ASSUME NEW k \in Nat, k \in K PROVE k + 1 \in K
  <2>1. PICK s : Solves(s, k)
    BY <1>3
  <2> DEFINE u == [T \in SUBSET S |-> IF T = {} THEN 0
                     ELSE f[CHOOSE x \in T : TRUE] + s[T \ {CHOOSE x \in T : TRUE}]]
  <2>2. \A T \in SUBSET S : Cardinality(T) <= k => u[T] = s[T]
    BY <2>1 DEF SumAt
  <2>3. ASSUME NEW T \in SUBSET S, Cardinality(T) <= k + 1
        PROVE  SumAt(u, f, T)
    <3>1. CASE T = {}
      BY <3>1 DEF SumAt
    <3>2. CASE T # {}
      <4> DEFINE c == CHOOSE x \in T : TRUE
      <4>1. c \in T
        BY <3>2
      <4>2. T \ {c} \in SUBSET S /\ Cardinality(T \ {c}) <= k
        BY <1>1, <2>3, <4>1, OneLess
      <4>3. u[T \ {c}] = s[T \ {c}]
        BY <2>2, <4>2
      <4> QED BY <3>2, <4>3 DEF SumAt
    <3> QED BY <3>1, <3>2
  <2> HIDE DEF u
  <2>4. Solves(u, k + 1)
    BY <2>3
  <2>5. u = [T \in SUBSET S |-> u[T]]
    BY DEF u
  <2>6. \E s2 : s2 = [T \in SUBSET S |-> s2[T]] /\ Solves(s2, k + 1)
    BY <2>4, <2>5
  <2>7. k + 1 \in Nat
    OBVIOUS
  <2> HIDE DEF Solves
  <2> QED BY <2>6, <2>7
<1>4. Cardinality(S) \in K
  <2>1. Cardinality(S) \in Nat
    BY FS_CardinalityType
  <2> HIDE DEF K
  <2> QED BY <2>1, <1>2, <1>3, SetInduction
<1>5. PICK s : s = [T \in SUBSET S |-> s[T]] /\ Solves(s, Cardinality(S))
  BY <1>4
<1>6. \A T \in SUBSET S : SumAt(s, f, T)
  BY <1>5, FS_Subset
<1> DEFINE u == [T \in SUBSET S |-> IF T = {} THEN 0
                   ELSE f[CHOOSE x \in T : TRUE] + s[T \ {CHOOSE x \in T : TRUE}]]
<1>7. \A T \in SUBSET S : s[T] = u[T]
  BY <1>6 DEF SumAt
<1>8. [T \in SUBSET S |-> s[T]] = u
  BY <1>7
<1>9. s = u
  BY <1>5, <1>8
<1> QED BY <1>9 DEF IsSum

Agree(f, g, S) == \A x \in S : f[x] = g[x]
Whole(f, S) == \A x \in S : f[x] \in Int

\* The sum over a set depends on nothing but the values there.
LEMMA SumUnique ==
  ASSUME NEW f, NEW g, NEW U, NEW V, NEW S, S \subseteq U, S \subseteq V, IsFiniteSet(S),
         Agree(f, g, S), NEW s, IsSum(s, f, U), NEW t, IsSum(t, g, V)
  PROVE  s[S] = t[S]
<1> DEFINE K == {k \in Nat : \A T \in SUBSET S : Cardinality(T) <= k => s[T] = t[T]}
<1>1. \A T \in SUBSET S : IsFiniteSet(T) /\ SumAt(s, f, T) /\ SumAt(t, g, T)
  BY FS_Subset DEF IsSum, SumAt
<1>2. 0 \in K
  BY <1>1, NoneLeft DEF SumAt
<1>3. ASSUME NEW k \in Nat, k \in K PROVE k + 1 \in K
  <2>1. ASSUME NEW T \in SUBSET S, Cardinality(T) <= k + 1
        PROVE  s[T] = t[T]
    <3>1. CASE T = {}
      BY <1>1, <3>1 DEF SumAt
    <3>2. CASE T # {}
      <4> DEFINE c == CHOOSE x \in T : TRUE
      <4>1. c \in T
        BY <3>2
      <4>2. T \ {c} \in SUBSET S /\ Cardinality(T \ {c}) <= k
        BY <1>1, <2>1, <4>1, OneLess
      <4>3. s[T \ {c}] = t[T \ {c}]
        BY <1>3, <4>2
      <4>4. f[c] = g[c]
        BY <4>1 DEF Agree
      <4> QED BY <1>1, <3>2, <4>3, <4>4 DEF SumAt
    <3> QED BY <3>1, <3>2
  <2> QED BY <2>1
<1>4. Cardinality(S) \in K
  <2>1. Cardinality(S) \in Nat
    BY FS_CardinalityType
  <2> HIDE DEF K
  <2> QED BY <2>1, <1>2, <1>3, SetInduction
<1> QED BY <1>4, FS_CardinalityType

\* Which element is taken first does not matter.
LEMMA SumTakes ==
  ASSUME NEW f, NEW S, IsFiniteSet(S), \A x \in S : f[x] \in Int, NEW s, IsSum(s, f, S)
  PROVE  \A T \in SUBSET S : /\ s[T] \in Int
                             /\ (\A x \in T : f[x] >= 0) => s[T] >= 0
                             /\ \A x \in T : s[T] = f[x] + s[T \ {x}]
<1> DEFINE Good(T) == /\ s[T] \in Int
                      /\ (\A x \in T : f[x] >= 0) => s[T] >= 0
                      /\ \A x \in T : s[T] = f[x] + s[T \ {x}]
           K == {k \in Nat : \A T \in SUBSET S : Cardinality(T) <= k => Good(T)}
<1>1. \A T \in SUBSET S : IsFiniteSet(T) /\ SumAt(s, f, T)
  BY FS_Subset DEF IsSum, SumAt
<1>6. Good({})
  <2>1. SumAt(s, f, {})
    BY <1>1
  <2>2. s[{}] = 0
    BY <2>1 DEF SumAt
  <2> QED BY <2>2
<1>2. 0 \in K
  BY <1>1, <1>6, NoneLeft
<1>3. ASSUME NEW k \in Nat, k \in K PROVE k + 1 \in K
  <2>1. ASSUME NEW T \in SUBSET S, Cardinality(T) <= k + 1
        PROVE  Good(T)
    <3>1. CASE T = {}
      BY <1>6, <3>1
    <3>2. CASE T # {}
      <4>1. PICK c : c \in T /\ s[T] = f[c] + s[T \ {c}]
        BY <1>1, <3>2 DEF SumAt
      <4>2. \A x \in T : T \ {x} \in SUBSET S /\ Cardinality(T \ {x}) <= k
        BY <1>1, <2>1, OneLess
      <4>3. \A x \in T : Good(T \ {x})
        BY <1>3, <4>2
      <4>4. ASSUME NEW x \in T PROVE s[T] = f[x] + s[T \ {x}]
        <5>1. CASE x = c
          BY <4>1, <5>1
        <5>2. CASE x # c
          <6>1. s[T \ {c}] = f[x] + s[(T \ {c}) \ {x}]
            BY <4>1, <4>3, <5>2
          <6>2. s[T \ {x}] = f[c] + s[(T \ {x}) \ {c}]
            BY <4>1, <4>3, <5>2
          <6>3. (T \ {c}) \ {x} = (T \ {x}) \ {c}
            OBVIOUS
          <6>4. (T \ {c}) \ {x} \in SUBSET S /\ Cardinality((T \ {c}) \ {x}) <= k
            <7>1. IsFiniteSet(T \ {c}) /\ x \in T \ {c} /\ Cardinality(T \ {c}) <= k + 1
              BY <1>1, <4>1, <4>2, <5>2, FS_RemoveElement, FS_CardinalityType
            <7> QED BY <7>1, OneLess
          <6>5. s[(T \ {c}) \ {x}] \in Int
            BY <1>3, <6>4
          <6>6. f[x] \in Int /\ f[c] \in Int
            BY <4>1
          <6>7. PICK r \in Int : r = s[(T \ {c}) \ {x}]
            BY <6>5
          <6>8. s[T \ {c}] = f[x] + r /\ s[T \ {x}] = f[c] + r
            BY <6>1, <6>2, <6>3, <6>7
          <6>9. f[c] + (f[x] + r) = f[x] + (f[c] + r)
            BY <6>6
          <6> QED BY <4>1, <6>8, <6>9
        <5> QED BY <5>1, <5>2
      <4>5. s[T] \in Int /\ ((\A x \in T : f[x] >= 0) => s[T] >= 0)
        <5>1. s[T \ {c}] \in Int /\ f[c] \in Int
              /\ ((\A x \in T \ {c} : f[x] >= 0) => s[T \ {c}] >= 0)
          BY <4>1, <4>3
        <5> QED BY <4>1, <5>1
      <4> QED BY <4>4, <4>5
    <3> QED BY <3>1, <3>2
  <2> QED BY <2>1
<1>4. Cardinality(S) \in K
  <2>1. Cardinality(S) \in Nat
    BY FS_CardinalityType
  <2> HIDE DEF K
  <2> QED BY <2>1, <1>2, <1>3, SetInduction
<1>5. \A T \in SUBSET S : Cardinality(T) <= Cardinality(S)
  BY FS_Subset
<1> QED BY <1>4, <1>5

\* Of a finite set and whole numbers: the sum of a subset, the empty sum, an
\* element taken out, and that only the values count.
LEMMA SumType ==
  ASSUME NEW f, NEW S, IsFiniteSet(S), \A x \in S : f[x] \in Int
  PROVE  /\ SumFunctionOnSet(f, S) \in Int
         /\ (\A x \in S : f[x] >= 0) => SumFunctionOnSet(f, S) >= 0
<1>1. PICK s : IsSum(s, f, S) /\ SumFunctionOnSet(f, S) = s[S]
  BY SumExists, SumIs
<1> QED BY <1>1, SumTakes

LEMMA SumSame ==
  ASSUME NEW f, NEW g, NEW S, IsFiniteSet(S), \A x \in S : f[x] = g[x]
  PROVE  SumFunctionOnSet(f, S) = SumFunctionOnSet(g, S)
<1>1. PICK s : IsSum(s, f, S) /\ SumFunctionOnSet(f, S) = s[S]
  BY SumExists, SumIs
<1>2. PICK t : IsSum(t, g, S) /\ SumFunctionOnSet(g, S) = t[S]
  BY SumExists, SumIs
<1>3. Agree(f, g, S)
  BY DEF Agree
<1>4. s[S] = t[S]
  BY <1>1, <1>2, <1>3, SumUnique
<1> QED BY <1>1, <1>2, <1>4

LEMMA SumNone == \A f : SumFunctionOnSet(f, {}) = 0
<1> SUFFICES ASSUME NEW f PROVE SumFunctionOnSet(f, {}) = 0
  OBVIOUS
<1>1. IsFiniteSet({})
  BY FS_EmptySet
<1>2. PICK s : IsSum(s, f, {}) /\ SumFunctionOnSet(f, {}) = s[{}]
  BY <1>1, SumExists, SumIs
<1>3. SumAt(s, f, {})
  BY <1>2 DEF IsSum, SumAt
<1> QED BY <1>2, <1>3 DEF SumAt

LEMMA SumWithout ==
  ASSUME NEW f, NEW S, IsFiniteSet(S), \A x \in S : f[x] \in Int, NEW x \in S
  PROVE  SumFunctionOnSet(f, S) = f[x] + SumFunctionOnSet(f, S \ {x})
<1>1. PICK s : IsSum(s, f, S) /\ SumFunctionOnSet(f, S) = s[S]
  BY SumExists, SumIs
<1>2. IsFiniteSet(S \ {x})
  BY FS_Subset
<1>3. PICK t : IsSum(t, f, S \ {x}) /\ SumFunctionOnSet(f, S \ {x}) = t[S \ {x}]
  BY <1>2, SumExists, SumIs
<1> DEFINE R == S \ {x}
<1>4. R \subseteq S /\ R \subseteq R /\ IsFiniteSet(R) /\ IsSum(t, f, R)
  BY <1>2, <1>3
<1>7. Agree(f, f, R)
  BY DEF Agree
<1>5. s[S \ {x}] = t[S \ {x}]
  <2>1. s[R] = t[R]
    <3> HIDE DEF R
    <3> QED BY <1>1, <1>4, <1>7, SumUnique
  <2> QED BY <2>1
<1>6. s[S] = f[x] + s[S \ {x}]
  BY <1>1, SumTakes
<1> QED BY <1>1, <1>3, <1>5, <1>6

\* One value changes; one element comes or goes.
LEMMA SumChange ==
  ASSUME NEW f, NEW g, NEW S, IsFiniteSet(S), Whole(f, S), Whole(g, S),
         NEW y \in S, Agree(f, g, S \ {y})
  PROVE  SumFunctionOnSet(g, S) = SumFunctionOnSet(f, S) + (g[y] - f[y])
<1>1. IsFiniteSet(S \ {y})
  BY FS_Subset
<1>2. SumFunctionOnSet(f, S \ {y}) = SumFunctionOnSet(g, S \ {y})
  BY <1>1, SumSame DEF Agree
<1>3. SumFunctionOnSet(f, S \ {y}) \in Int
  BY <1>1, SumType DEF Whole
<1>4. /\ SumFunctionOnSet(f, S) = f[y] + SumFunctionOnSet(f, S \ {y})
      /\ SumFunctionOnSet(g, S) = g[y] + SumFunctionOnSet(g, S \ {y})
  BY SumWithout DEF Whole
<1>5. f[y] \in Int /\ g[y] \in Int
  BY DEF Whole
<1>6. PICK r \in Int : r = SumFunctionOnSet(f, S \ {y})
  BY <1>3
<1>7. SumFunctionOnSet(f, S) = f[y] + r /\ SumFunctionOnSet(g, S) = g[y] + r
  BY <1>2, <1>4, <1>6
<1>8. g[y] + r = (f[y] + r) + (g[y] - f[y])
  BY <1>5
<1> QED BY <1>7, <1>8

\* A sum of natural numbers is zero only if all are.
LEMMA SumZero ==
  ASSUME NEW f, NEW S, IsFiniteSet(S), \A x \in S : f[x] \in Nat,
         SumFunctionOnSet(f, S) = 0
  PROVE  \A x \in S : f[x] = 0
<1> SUFFICES ASSUME NEW x \in S PROVE f[x] = 0
  OBVIOUS
<1>1. IsFiniteSet(S \ {x})
  BY FS_Subset
<1>2. SumFunctionOnSet(f, S \ {x}) \in Int /\ SumFunctionOnSet(f, S \ {x}) >= 0
  BY <1>1, SumType
<1>3. 0 = f[x] + SumFunctionOnSet(f, S \ {x})
  BY SumWithout
<1>4. f[x] \in Nat
  OBVIOUS
<1> QED BY <1>2, <1>3, <1>4

LEMMA SumZeros ==
  ASSUME NEW f, NEW S, IsFiniteSet(S), \A x \in S : f[x] = 0
  PROVE  SumFunctionOnSet(f, S) = 0
<1> DEFINE g == [x \in S |-> 0]
<1>1. PICK s : IsSum(s, f, S) /\ SumFunctionOnSet(f, S) = s[S]
  BY SumExists, SumIs
<1> DEFINE t == [T \in SUBSET S |-> 0]
<1>2. IsSum(t, g, S)
  <2>1. \A T \in SUBSET S : T # {} => /\ g[CHOOSE x \in T : TRUE] = 0
                                       /\ T \ {CHOOSE x \in T : TRUE} \in SUBSET S
    OBVIOUS
  <2>2. \A T \in SUBSET S : T # {} => g[CHOOSE x \in T : TRUE] + t[T \ {CHOOSE x \in T : TRUE}] = 0
    BY <2>1
  <2>3. \A T \in SUBSET S : 0 = IF T = {} THEN 0
                             ELSE g[CHOOSE x \in T : TRUE] + t[T \ {CHOOSE x \in T : TRUE}]
    BY <2>2
  <2> QED BY <2>3 DEF IsSum
<1>3. Agree(f, g, S)
  BY DEF Agree
<1>4. s[S] = t[S]
  <2> HIDE DEF t, g
  <2> QED BY <1>1, <1>2, <1>3, SumUnique
<1> QED BY <1>1, <1>4

LEMMA SumJoins ==
  ASSUME NEW f, NEW g, NEW S, IsFiniteSet(S), NEW y, y \notin S, Agree(f, g, S),
         \A x \in S : f[x] \in Int, g[y] \in Int
  PROVE  SumFunctionOnSet(g, S \cup {y}) = SumFunctionOnSet(f, S) + g[y]
<1> DEFINE R == S \cup {y}
<1>1. IsFiniteSet(R) /\ y \in R /\ R \ {y} = S
  BY FS_AddElement
<1>2. \A x \in R : g[x] \in Int
  BY DEF Agree
<1>3. SumFunctionOnSet(g, R) = g[y] + SumFunctionOnSet(g, R \ {y})
  <2> HIDE DEF R
  <2> QED BY <1>1, <1>2, SumWithout
<1>4. SumFunctionOnSet(f, S) = SumFunctionOnSet(g, S)
  BY SumSame DEF Agree
<1>5. SumFunctionOnSet(f, S) \in Int
  BY SumType
<1>6. g[y] + SumFunctionOnSet(f, S) = SumFunctionOnSet(f, S) + g[y]
  BY <1>5
<1>7. SumFunctionOnSet(g, R) = g[y] + SumFunctionOnSet(g, S)
  BY <1>1, <1>3
<1> QED BY <1>4, <1>6, <1>7

LEMMA SumLeaves ==
  ASSUME NEW f, NEW g, NEW S, IsFiniteSet(S), NEW y \in S, Agree(f, g, S \ {y}),
         Whole(f, S)
  PROVE  SumFunctionOnSet(g, S \ {y}) = SumFunctionOnSet(f, S) - f[y]
<1>1. IsFiniteSet(S \ {y}) /\ \A x \in S \ {y} : f[x] = g[x]
  BY FS_Subset DEF Agree
<1>2. SumFunctionOnSet(f, S \ {y}) = SumFunctionOnSet(g, S \ {y})
  BY <1>1, SumSame
<1>3. SumFunctionOnSet(f, S) = f[y] + SumFunctionOnSet(f, S \ {y})
  BY SumWithout DEF Whole
<1>4. SumFunctionOnSet(f, S \ {y}) \in Int
  BY <1>1, SumType DEF Whole
<1>5. f[y] \in Int
  BY DEF Whole
<1> QED BY <1>2, <1>3, <1>4, <1>5

\* A bag of finitely many probes.
FiniteBag(B) == IsFiniteSet(DOMAIN B) /\ \A p \in DOMAIN B : B[p] \in Nat \ {0}

LEMMA BagAdds ==
  ASSUME NEW B, FiniteBag(B), NEW p
  PROVE  /\ FiniteBag(B (+) SetToBag({p}))
         /\ SumFunction(B (+) SetToBag({p})) = SumFunction(B) + 1
<1> DEFINE C == B (+) SetToBag({p})
<1>1. DOMAIN C = DOMAIN B \cup {p}
  BY DEF (+), SetToBag
<1>2. \A q \in DOMAIN C : C[q] = (IF q \in DOMAIN B THEN B[q] ELSE 0) + (IF q = p THEN 1 ELSE 0)
  BY DEF (+), SetToBag
<1> HIDE DEF C
<1>3. \A q \in DOMAIN C : C[q] \in Nat \ {0}
  BY <1>1, <1>2 DEF FiniteBag
<1>4. FiniteBag(C)
  BY <1>1, <1>3, FS_AddElement DEF FiniteBag
<1>5. SumFunctionOnSet(C, DOMAIN C) = SumFunctionOnSet(B, DOMAIN B) + 1
  <2>1. CASE p \in DOMAIN B
    <3>1. DOMAIN C = DOMAIN B /\ C[p] - B[p] = 1
      BY <1>1, <1>2, <2>1 DEF FiniteBag
    <3>2. Agree(B, C, DOMAIN B \ {p})
      BY <1>1, <1>2 DEF FiniteBag, Agree
    <3>3. Whole(B, DOMAIN B) /\ Whole(C, DOMAIN B)
      BY <1>3, <3>1 DEF FiniteBag, Whole
    <3>4. SumFunctionOnSet(C, DOMAIN B) = SumFunctionOnSet(B, DOMAIN B) + (C[p] - B[p])
      BY <2>1, <3>2, <3>3, SumChange DEF FiniteBag
    <3> QED BY <3>1, <3>4
  <2>2. CASE p \notin DOMAIN B
    <3>1. C[p] = 1 /\ Agree(B, C, DOMAIN B)
      BY <1>1, <1>2, <2>2 DEF FiniteBag, Agree
    <3>2. \A q \in DOMAIN B : B[q] \in Int
      BY DEF FiniteBag
    <3>3. SumFunctionOnSet(C, DOMAIN B \cup {p}) = SumFunctionOnSet(B, DOMAIN B) + C[p]
      BY <2>2, <3>1, <3>2, SumJoins DEF FiniteBag
    <3> QED BY <1>1, <3>1, <3>3
  <2> QED BY <2>1, <2>2
<1> QED BY <1>4, <1>5 DEF SumFunction, C

LEMMA BagTakes ==
  ASSUME NEW B, FiniteBag(B), NEW p \in BagToSet(B)
  PROVE  /\ FiniteBag(B (-) SetToBag({p}))
         /\ SumFunction(B (-) SetToBag({p})) = SumFunction(B) - 1
<1> DEFINE C == B (-) SetToBag({p})
           D == [q \in DOMAIN B |-> IF q = p THEN B[q] - 1 ELSE B[q]]
<1>1. C = [q \in {d \in DOMAIN B : D[d] > 0} |-> D[q]]
  BY DEF (-), SetToBag
<1>2. p \in DOMAIN B
  BY DEF BagToSet
<1>9. \A q \in DOMAIN B : /\ B[q] \in Nat \ {0} /\ D[q] \in Nat
                          /\ D[q] > 0 <=> ~(q = p /\ B[p] = 1)
  BY DEF FiniteBag
<1>10. DOMAIN C = {q \in DOMAIN B : D[q] > 0}
  BY <1>1
<1>3. DOMAIN C = IF B[p] = 1 THEN DOMAIN B \ {p} ELSE DOMAIN B
  <2> HIDE DEF C, D
  <2> QED BY <1>2, <1>9, <1>10
<1>4. \A q \in DOMAIN C : C[q] = IF q = p THEN B[q] - 1 ELSE B[q]
  BY <1>1
<1>5. \A q \in DOMAIN C : C[q] \in Nat \ {0}
  <2>1. \A q \in DOMAIN C : q \in DOMAIN B /\ D[q] > 0 /\ C[q] = D[q]
    BY <1>1
  <2> HIDE DEF C, D
  <2> QED BY <1>9, <2>1
<1> HIDE DEF C, D
<1>6. FiniteBag(C)
  BY <1>3, <1>5, FS_Subset DEF FiniteBag
<1>7. \A q \in DOMAIN B : B[q] \in Int
  BY DEF FiniteBag
<1>8. SumFunctionOnSet(C, DOMAIN C) = SumFunctionOnSet(B, DOMAIN B) - 1
  <2>1. CASE B[p] = 1
    <3>1. Agree(B, C, DOMAIN B \ {p})
      BY <1>3, <1>4, <2>1 DEF Agree
    <3>2. SumFunctionOnSet(C, DOMAIN B \ {p}) = SumFunctionOnSet(B, DOMAIN B) - B[p]
      BY <1>2, <1>7, <3>1, SumLeaves DEF FiniteBag, Whole
    <3> QED BY <1>3, <2>1, <3>2
  <2>2. CASE B[p] # 1
    <3>1. DOMAIN C = DOMAIN B /\ C[p] - B[p] = -1
      BY <1>2, <1>3, <1>4, <1>7, <2>2
    <3>2. Agree(B, C, DOMAIN B \ {p})
      BY <1>4, <3>1 DEF Agree
    <3>3. Whole(B, DOMAIN B) /\ Whole(C, DOMAIN B)
      BY <1>5, <1>7, <3>1 DEF Whole
    <3>4. SumFunctionOnSet(C, DOMAIN B) = SumFunctionOnSet(B, DOMAIN B) + (C[p] - B[p])
      BY <1>2, <3>2, <3>3, SumChange DEF FiniteBag
    <3>5. SumFunctionOnSet(B, DOMAIN B) \in Int
      BY <1>7, SumType DEF FiniteBag
    <3> QED BY <3>1, <3>4, <3>5
  <2> QED BY <2>1, <2>2
<1> QED BY <1>6, <1>8 DEF SumFunction, C
-----------------------------------------------------------------------------
(***************************************************************************)
(* The job counters.  Their invariant is CountersExact's own first part,   *)
(* with the types the sums need: every probe names functions of the black  *)
(* box, and only a feeding thread has fed anything.                        *)
(***************************************************************************)
Running ==
  main \notin {"kill", "killing", "switch", "consume", "exported", "unfinished", "aborted"}

JobTypes ==
  /\ outputs \in DOMAIN Needs
  /\ FiniteBag(feedTasks)
  /\ interpolateTasks \in [outputs -> Nat]
  /\ fed \in [Threads -> Nat]
  /\ snapshot.outputs \subseteq outputs
  /\ \A p \in BagToSet(computed) \cup BagToSet(feedTasks) : p.outputs \subseteq outputs
  /\ \A t \in Threads : /\ probe[t].outputs \subseteq outputs
                        /\ at[t] # "feed" => fed[t] = 0

\* What a feeding thread has counted and not started.
Owed == [t \in Threads |-> Cardinality(probe[t].outputs) - fed[t]]

FeedWork == SumFunction(feedTasks) + Cardinality(ThreadsIn({"feed"}))

InterpolateWork ==
  SumFunctionOnSet(interpolateTasks, outputs) + Cardinality(ThreadsIn(Interpolating))
    + SumFunctionOnSet(Owed, ThreadsIn({"feed"}))

JobsExact == Running => feedJobs = FeedWork /\ interpolateJobs = InterpolateWork

JInv == JobTypes /\ JobsExact

LEMMA OutputsFinite ==
  ASSUME outputs \in DOMAIN Needs
  PROVE  /\ IsFiniteSet(outputs) /\ outputs # {} /\ Cardinality(outputs) \in Nat
         /\ \A S : S \subseteq outputs => IsFiniteSet(S) /\ Cardinality(S) \in Nat
BY PipelineAssumption, FS_Subset, FS_CardinalityType

LEMMA PlacesFinite ==
  \A P : IsFiniteSet(ThreadsIn(P)) /\ Cardinality(ThreadsIn(P)) \in Nat
<1>1. \A P : ThreadsIn(P) \subseteq Threads
  BY DEF ThreadsIn
<1> QED BY <1>1, PipelineAssumption, FS_Subset, FS_CardinalityType

\* What a move of thread f does to the count of those in some places.
LEMMA ThreadMoves ==
  ASSUME NEW f \in Threads, at = [t \in Threads |-> at[t]],
         at' = [at EXCEPT ![f] = at'[f]], NEW P
  PROVE  /\ (at[f] \in P <=> at'[f] \in P) => ThreadsIn(P)' = ThreadsIn(P)
         /\ (at[f] \notin P /\ at'[f] \in P) =>
              /\ f \notin ThreadsIn(P) /\ ThreadsIn(P)' = ThreadsIn(P) \cup {f}
              /\ Cardinality(ThreadsIn(P)') = Cardinality(ThreadsIn(P)) + 1
         /\ (at[f] \in P /\ at'[f] \notin P) =>
              /\ f \in ThreadsIn(P) /\ ThreadsIn(P)' = ThreadsIn(P) \ {f}
              /\ Cardinality(ThreadsIn(P)') = Cardinality(ThreadsIn(P)) - 1
<1>1. \A t \in Threads \ {f} : at'[t] = at[t]
  OBVIOUS
<1>2. CASE at[f] \in P <=> at'[f] \in P
  <2>1. ThreadsIn(P)' = ThreadsIn(P)
    BY <1>1, <1>2 DEF ThreadsIn
  <2> QED BY <1>2, <2>1
<1>3. CASE at[f] \notin P /\ at'[f] \in P
  <2>1. f \notin ThreadsIn(P) /\ ThreadsIn(P)' = ThreadsIn(P) \cup {f}
    BY <1>1, <1>3 DEF ThreadsIn
  <2>2. Cardinality(ThreadsIn(P) \cup {f}) = Cardinality(ThreadsIn(P)) + 1
    BY <2>1, PlacesFinite, FS_AddElement
  <2> QED BY <1>3, <2>1, <2>2
<1>4. CASE at[f] \in P /\ at'[f] \notin P
  <2>1. f \in ThreadsIn(P) /\ ThreadsIn(P)' = ThreadsIn(P) \ {f}
    BY <1>1, <1>4 DEF ThreadsIn
  <2>2. Cardinality(ThreadsIn(P) \ {f}) = Cardinality(ThreadsIn(P)) - 1
    BY <2>1, PlacesFinite, FS_RemoveElement
  <2> QED BY <1>4, <2>1, <2>2
<1> QED BY <1>2, <1>3, <1>4

\* The sums of JobsExact are over whole numbers.
LEMMA OwedTypes ==
  ASSUME JobTypes
  PROVE  /\ \A t \in Threads : Owed[t] \in Int
         /\ FeedWork \in Int /\ InterpolateWork \in Int
         /\ SumFunction(feedTasks) \in Int /\ SumFunctionOnSet(interpolateTasks, outputs) \in Int
         /\ SumFunctionOnSet(Owed, ThreadsIn({"feed"})) \in Int
<1>1. \A t \in Threads : Owed[t] \in Int
  BY OutputsFinite DEF JobTypes, Owed
<1>2. SumFunctionOnSet(Owed, ThreadsIn({"feed"})) \in Int
  BY <1>1, PlacesFinite, SumType DEF ThreadsIn
<1>3. SumFunctionOnSet(interpolateTasks, outputs) \in Int
  BY OutputsFinite, SumType DEF JobTypes
<1>4. SumFunction(feedTasks) \in Int
  BY SumType DEF JobTypes, FiniteBag, SumFunction
<1> QED BY <1>1, <1>2, <1>3, <1>4, PlacesFinite DEF FeedWork, InterpolateWork

\* Nothing is owed more or less where the same threads feed the same.
LEMMA OwedSame ==
  ASSUME ThreadsIn({"feed"})' = ThreadsIn({"feed"}),
         \A t \in ThreadsIn({"feed"}) : probe'[t] = probe[t] /\ fed'[t] = fed[t]
  PROVE  SumFunctionOnSet(Owed', ThreadsIn({"feed"})') = SumFunctionOnSet(Owed, ThreadsIn({"feed"}))
<1> DEFINE S == ThreadsIn({"feed"})
<1>1. \A t \in S : Owed[t] = Owed'[t]
  BY DEF Owed, ThreadsIn
<1>2. IsFiniteSet(S)
  BY PlacesFinite
<1>3. SumFunctionOnSet(Owed, S) = SumFunctionOnSet(Owed', S)
  <2> HIDE DEF S
  <2> QED BY <1>1, <1>2, SumSame
<1> QED BY <1>3

LEMMA InitJobs == Init => JInv
<1> SUFFICES ASSUME Init PROVE JInv
  OBVIOUS
<1>1. \A P : (\A t \in Threads : "idle" \notin P) => ThreadsIn(P) = {}
  BY DEF Init, ThreadsIn
<1>2. FiniteBag(EmptyBag) /\ SumFunction(EmptyBag) = 0
  <2>1. DOMAIN EmptyBag = {}
    BY DEF EmptyBag, SetToBag
  <2> QED BY <2>1, FS_EmptySet, SumNone DEF FiniteBag, SumFunction
<1>3. JobTypes
  BY <1>2, BagNone DEF Init, JobTypes, Dense
<1>4. ThreadsIn({"feed"}) = {} /\ ThreadsIn(Interpolating) = {}
  BY <1>1 DEF Interpolating, Init, ThreadsIn
<1>5. SumFunctionOnSet(interpolateTasks, outputs) = 0
  BY <1>3, OutputsFinite, SumZeros DEF Init, JobTypes
<1>6. FeedWork = 0 /\ InterpolateWork = 0
  <2>1. Cardinality({}) = 0 /\ SumFunctionOnSet(Owed, {}) = 0
    BY SumNone, FS_EmptySet
  <2>2. feedTasks = EmptyBag
    BY DEF Init
  <2>3. FeedWork = 0
    BY <1>2, <1>4, <2>1, <2>2 DEF FeedWork
  <2>4. InterpolateWork = 0
    BY <1>4, <1>5, <2>1 DEF InterpolateWork
  <2> QED BY <2>3, <2>4
<1> QED BY <1>3, <1>6 DEF JInv, JobsExact, Init

\* A step of f that starts and ends no job.
LEMMA JobsPlain ==
  ASSUME PInv, JInv, NEW f \in Threads, main' \in {main, "woken"}, Running' => Running,
         UNCHANGED <<outputs, feedTasks, interpolateTasks, fed, feedJobs, interpolateJobs>>,
         at' = [at EXCEPT ![f] = at'[f]], probe' = [probe EXCEPT ![f] = probe'[f]],
         at[f] # "feed", at'[f] # "feed", at[f] \in Interpolating <=> at'[f] \in Interpolating,
         snapshot'.outputs \subseteq outputs, probe'[f].outputs \subseteq outputs,
         \A p \in BagToSet(computed') : p.outputs \subseteq outputs
  PROVE  JInv'
<1>1. at = [t \in Threads |-> at[t]] /\ probe = [t \in Threads |-> probe[t]]
  BY DEF PInv, Shapes
<1>2. JobTypes'
  BY <1>1 DEF JInv, JobTypes
<1>3. /\ ThreadsIn({"feed"})' = ThreadsIn({"feed"})
      /\ ThreadsIn(Interpolating)' = ThreadsIn(Interpolating)
  BY <1>1, ThreadMoves
<1>4. SumFunctionOnSet(Owed', ThreadsIn({"feed"})') = SumFunctionOnSet(Owed, ThreadsIn({"feed"}))
  BY <1>1, <1>3, OwedSame DEF ThreadsIn
<1>5. FeedWork' = FeedWork /\ InterpolateWork' = InterpolateWork
  BY <1>3, <1>4 DEF FeedWork, InterpolateWork
<1> QED BY <1>2, <1>5 DEF JInv, JobsExact

LEMMA ProbeJobs ==
  ASSUME PInv, JInv, NEW f \in Threads,
         TakeProbe(f) \/ Select(f) \/ Collect(f) \/ Store(f) \/ Load(f) \/ Evaluate(f)
  PROVE  JInv'
<1>1. /\ UNCHANGED <<main, outputs, feedTasks, interpolateTasks, fed, feedJobs, interpolateJobs>>
      /\ at' = [at EXCEPT ![f] = at'[f]]
      /\ at[f] \in {"idle", "select", "collect", "store", "load", "evaluate"}
      /\ at'[f] \in {"idle", "select", "collect", "store", "load", "evaluate"}
  <2>1. CASE TakeProbe(f) \/ Select(f) \/ Collect(f)
    BY <2>1 DEF TakeProbe, Select, Collect, Idle, Goto, jobs, tasks, locals, PInv, Shapes
  <2>2. CASE Store(f) \/ Load(f) \/ Evaluate(f)
    BY <2>2 DEF Store, Load, Evaluate, Goto, jobs, tasks, locals, PInv, Shapes
  <2> QED BY <2>1, <2>2
<1>2. /\ probe' = [probe EXCEPT ![f] = probe'[f]]
      /\ probe'[f] \in {probe[f], [epoch |-> prime, outputs |-> Collected], snapshot, Dense}
      /\ snapshot' \in {snapshot, probe[f]}
      /\ computed' \in {computed, computed (+) SetToBag({probe[f]})}
  BY DEF TakeProbe, Select, Collect, Store, Load, Evaluate, shared, probes, locals, PInv, Shapes
<1>3. \A p \in {probe[f], [epoch |-> prime, outputs |-> Collected], snapshot, Dense} :
        p.outputs \subseteq outputs
  BY DEF JInv, JobTypes, Collected, Dense
<1>4. \A p \in BagToSet(computed') : p.outputs \subseteq outputs
  <2>1. BagToSet(computed') \subseteq BagToSet(computed) \cup {probe[f]}
    <3>1. BagToSet(computed (+) SetToBag({probe[f]})) = BagToSet(computed) \cup {probe[f]}
      BY BagPlus
    <3> QED BY <1>2, <3>1
  <2> QED BY <1>3, <2>1 DEF JInv, JobTypes
<1>5. snapshot'.outputs \subseteq outputs /\ probe'[f].outputs \subseteq outputs
  BY <1>2, <1>3
<1>6. at[f] \in Interpolating <=> at'[f] \in Interpolating
  BY <1>1 DEF Interpolating
<1> QED BY <1>1, <1>2, <1>4, <1>5, <1>6, JobsPlain DEF Running

\* interpolate_job between its beginning and its end.
LEMMA InnerJobs ==
  ASSUME PInv, JInv, NEW f \in Threads,
         \/ Interpolate(f) \/ MarkDone(f) \/ MarkNext(f) \/ CountNext(f) \/ Estimate(f)
         \/ More(f) \/ Queue(f)
  PROVE  JInv'
<1>1. /\ UNCHANGED <<main, outputs, feedTasks, interpolateTasks, fed, feedJobs, interpolateJobs>>
      /\ UNCHANGED <<snapshot, computed, probe>>
      /\ at' = [at EXCEPT ![f] = at'[f]]
      /\ at[f] \in {"interpolate", "markDone", "markNext", "countNext", "estimate", "more", "queue"}
      /\ at'[f] \in {"markDone", "markNext", "countNext", "estimate", "more", "queue", "close"}
  <2>1. CASE Interpolate(f)
    BY <2>1 DEF Interpolate, Goto, shared, jobs, probes, tasks, locals, PInv, Shapes
  <2>2. CASE MarkDone(f) \/ MarkNext(f) \/ CountNext(f)
    BY <2>2 DEF MarkDone, MarkNext, CountNext, Goto, shared, jobs, probes, tasks, locals,
                PInv, Shapes
  <2>3. CASE Estimate(f) \/ More(f) \/ Queue(f)
    BY <2>3 DEF Estimate, More, Queue, Goto, shared, jobs, probes, tasks, locals, PInv, Shapes
  <2> QED BY <2>1, <2>2, <2>3
<1>2. at[f] \in Interpolating /\ at'[f] \in Interpolating /\ at[f] # "feed" /\ at'[f] # "feed"
  BY <1>1 DEF Interpolating
<1>3. probe' = [probe EXCEPT ![f] = probe'[f]] /\ Running' = Running
  BY <1>1 DEF Running, PInv, Shapes
<1>4. /\ snapshot'.outputs \subseteq outputs /\ probe'[f].outputs \subseteq outputs
      /\ \A p \in BagToSet(computed') : p.outputs \subseteq outputs
  BY <1>1 DEF JInv, JobTypes
<1> QED BY <1>1, <1>2, <1>3, <1>4, JobsPlain

\* A feed job begins: interpolate_jobs is raised by all it may start.
LEMMA TakeFeedJobs ==
  ASSUME PInv, JInv, NEW f \in Threads, TakeFeed(f)
  PROVE  JInv'
<1> DEFINE S == ThreadsIn({"feed"})
<1>1. PICK p \in BagToSet(feedTasks) :
        /\ at' = [at EXCEPT ![f] = "feed"] /\ at[f] = "idle"
        /\ probe' = [probe EXCEPT ![f] = p]
        /\ feedTasks' = feedTasks (-) SetToBag({p})
        /\ interpolateJobs' = interpolateJobs + Cardinality(p.outputs)
        /\ UNCHANGED <<main, outputs, snapshot, computed, interpolateTasks, feedJobs, fed>>
  BY DEF TakeFeed, Idle, Goto, Supplied, shared, probes
<1>2. /\ at = [t \in Threads |-> at[t]] /\ probe = [t \in Threads |-> probe[t]]
      /\ at'[f] = "feed" /\ at' = [at EXCEPT ![f] = at'[f]]
      /\ \A t \in Threads \ {f} : at'[t] = at[t] /\ probe'[t] = probe[t]
      /\ probe'[f] = p /\ fed'[f] = 0
  BY <1>1 DEF PInv, Shapes, JInv, JobTypes
<1>3. /\ FiniteBag(feedTasks') /\ SumFunction(feedTasks') = SumFunction(feedTasks) - 1
      /\ BagToSet(feedTasks') \subseteq BagToSet(feedTasks)
  BY <1>1, BagTakes, BagMinus DEF JInv, JobTypes
<1>4. p.outputs \subseteq outputs /\ Cardinality(p.outputs) \in Nat
  BY <1>1, OutputsFinite DEF JInv, JobTypes
<1>5. JobTypes'
  BY <1>1, <1>2, <1>3, <1>4 DEF JInv, JobTypes
<1>6. /\ f \notin S /\ ThreadsIn({"feed"})' = S \cup {f}
      /\ Cardinality(ThreadsIn({"feed"})') = Cardinality(S) + 1
      /\ ThreadsIn(Interpolating)' = ThreadsIn(Interpolating)
  <2>1. at[f] \notin {"feed"} /\ at'[f] \in {"feed"}
    BY <1>1, <1>2
  <2>2. at[f] \notin Interpolating /\ at'[f] \notin Interpolating
    BY <1>1, <1>2 DEF Interpolating
  <2> QED BY <1>2, <2>1, <2>2, ThreadMoves
<1>7. SumFunctionOnSet(Owed', ThreadsIn({"feed"})') = SumFunctionOnSet(Owed, S) + Cardinality(p.outputs)
  <2>1. Owed'[f] = Cardinality(p.outputs)
    BY <1>2, <1>4 DEF Owed
  <2>2. Agree(Owed, Owed', S)
    BY <1>1, <1>2, <1>6 DEF Agree, Owed, ThreadsIn
  <2>3. IsFiniteSet(S) /\ \A t \in S : Owed[t] \in Int
    BY PlacesFinite, OwedTypes DEF JInv, ThreadsIn
  <2>4. SumFunctionOnSet(Owed', S \cup {f}) = SumFunctionOnSet(Owed, S) + Owed'[f]
    <3> HIDE DEF S
    <3> QED BY <1>4, <1>6, <2>1, <2>2, <2>3, SumJoins
  <2> QED BY <1>6, <2>1, <2>4
<1>8. FeedWork' = FeedWork /\ InterpolateWork' = InterpolateWork + Cardinality(p.outputs)
  <2>1. FeedWork' = FeedWork
    BY <1>3, <1>6, OwedTypes, PlacesFinite DEF FeedWork, JInv
  <2>2. InterpolateWork' = InterpolateWork + Cardinality(p.outputs)
    BY <1>1, <1>4, <1>6, <1>7, OwedTypes, PlacesFinite DEF InterpolateWork, JInv
  <2> QED BY <2>1, <2>2
<1> QED BY <1>1, <1>5, <1>8 DEF JInv, JobsExact, Running

\* The jobs of one function change: the sum over the functions follows.
LEMMA TasksChange ==
  ASSUME JobTypes, NEW o \in outputs, NEW k \in Nat,
         interpolateTasks' = [interpolateTasks EXCEPT ![o] = k]
  PROVE  /\ interpolateTasks' \in [outputs -> Nat]
         /\ SumFunctionOnSet(interpolateTasks', outputs)
              = SumFunctionOnSet(interpolateTasks, outputs) + (k - interpolateTasks[o])
<1>1. /\ interpolateTasks' \in [outputs -> Nat] /\ interpolateTasks'[o] = k
      /\ Agree(interpolateTasks, interpolateTasks', outputs \ {o})
      /\ Whole(interpolateTasks, outputs) /\ Whole(interpolateTasks', outputs)
  BY DEF JobTypes, Agree, Whole
<1>2. SumFunctionOnSet(interpolateTasks', outputs)
        = SumFunctionOnSet(interpolateTasks, outputs) + (interpolateTasks'[o] - interpolateTasks[o])
  <2>1. IsFiniteSet(outputs)
    BY OutputsFinite DEF JobTypes
  <2> QED BY <1>1, <2>1, SumChange
<1> QED BY <1>1, <1>2

\* A value is fed: the job counted for it is started, or is owed.
LEMMA FeedJob ==
  ASSUME PInv, JInv, NEW f \in Threads, Feed(f)
  PROVE  JInv'
<1> DEFINE S == ThreadsIn({"feed"})
<1>1. PICK o \in left[f] :
        /\ at[f] = "feed"
        /\ UNCHANGED <<main, outputs, snapshot, computed, feedTasks, feedJobs, interpolateJobs>>
        /\ UNCHANGED <<at, probe>>
        /\ \/ /\ o \in outputs
              /\ interpolateTasks' = [interpolateTasks EXCEPT ![o] = interpolateTasks[o] + 1]
              /\ fed' = [fed EXCEPT ![f] = fed[f] + 1]
           \/ UNCHANGED <<interpolateTasks, fed>>
  <2>1. PICK o \in left[f] : Feed(f)!(o)
    BY DEF Feed
  <2>2. CASE o \in Active /\ ~busy[o]
    BY <2>1, <2>2 DEF Active, shared, jobs, probes
  <2>3. CASE ~(o \in Active /\ ~busy[o])
    <3>1. UNCHANGED <<interpolateTasks, fed>>
      BY <2>1, <2>3 DEF JInv, JobTypes
    <3> QED BY <2>1, <3>1 DEF shared, jobs, probes
  <2> QED BY <2>2, <2>3
<1>2. Running' = Running /\ ThreadsIn({"feed"})' = S /\ ThreadsIn(Interpolating)' = ThreadsIn(Interpolating)
  BY <1>1 DEF Running, ThreadsIn
<1>3. CASE UNCHANGED <<interpolateTasks, fed>>
  <2>1. SumFunctionOnSet(Owed', ThreadsIn({"feed"})') = SumFunctionOnSet(Owed, ThreadsIn({"feed"}))
    BY <1>1, <1>2, <1>3, OwedSame
  <2>2. FeedWork' = FeedWork /\ InterpolateWork' = InterpolateWork
    BY <1>1, <1>2, <1>3, <2>1 DEF FeedWork, InterpolateWork
  <2>3. JobTypes'
    BY <1>1, <1>3 DEF JInv, JobTypes
  <2> QED BY <1>1, <1>2, <2>2, <2>3 DEF JInv, JobsExact
<1>4. CASE /\ o \in outputs
           /\ interpolateTasks' = [interpolateTasks EXCEPT ![o] = interpolateTasks[o] + 1]
           /\ fed' = [fed EXCEPT ![f] = fed[f] + 1]
  <2>1. interpolateTasks[o] \in Nat /\ interpolateTasks[o] + 1 \in Nat
    BY <1>4 DEF JInv, JobTypes
  <2>2. /\ interpolateTasks' \in [outputs -> Nat]
        /\ SumFunctionOnSet(interpolateTasks', outputs)
             = SumFunctionOnSet(interpolateTasks, outputs) + 1
    <3>1. /\ interpolateTasks' \in [outputs -> Nat]
          /\ SumFunctionOnSet(interpolateTasks', outputs)
               = SumFunctionOnSet(interpolateTasks, outputs)
                   + ((interpolateTasks[o] + 1) - interpolateTasks[o])
      BY <1>4, <2>1, TasksChange DEF JInv
    <3>2. (interpolateTasks[o] + 1) - interpolateTasks[o] = 1
      BY <2>1
    <3> QED BY <3>1, <3>2
  <2>3. fed' \in [Threads -> Nat] /\ fed'[f] = fed[f] + 1 /\ \A t \in Threads \ {f} : fed'[t] = fed[t]
    BY <1>4 DEF JInv, JobTypes
  <2>4. JobTypes'
    BY <1>1, <2>2, <2>3 DEF JInv, JobTypes
  <2>5. SumFunctionOnSet(Owed', ThreadsIn({"feed"})') = SumFunctionOnSet(Owed, S) - 1
    <3>1. f \in S /\ IsFiniteSet(S)
      BY <1>1, PlacesFinite DEF ThreadsIn
    <3>2. /\ Agree(Owed, Owed', S \ {f})
          /\ Owed'[f] - Owed[f] = -1
      <4>1. \A t \in Threads : Cardinality(probe[t].outputs) \in Nat /\ fed[t] \in Nat
        BY OutputsFinite DEF JInv, JobTypes
      <4> QED BY <1>1, <2>3, <4>1 DEF Owed, ThreadsIn, Agree
    <3>3. Whole(Owed, S) /\ Whole(Owed', S)
      <4>1. \A t \in Threads : Owed[t] \in Int
        BY OwedTypes DEF JInv
      <4>2. \A t \in Threads : Owed'[t] \in Int
        <5>1. \A t \in Threads : Cardinality(probe[t].outputs) \in Nat
          BY OutputsFinite DEF JInv, JobTypes
        <5> QED BY <1>1, <2>3, <5>1 DEF Owed
      <4> QED BY <4>1, <4>2 DEF ThreadsIn, Whole
    <3>4. SumFunctionOnSet(Owed', S) = SumFunctionOnSet(Owed, S) + (Owed'[f] - Owed[f])
      <4> HIDE DEF S
      <4> QED BY <3>1, <3>2, <3>3, SumChange
    <3>5. SumFunctionOnSet(Owed, S) \in Int
      BY OwedTypes DEF JInv
    <3> QED BY <1>2, <3>2, <3>4, <3>5
  <2>6. FeedWork' = FeedWork /\ InterpolateWork' = InterpolateWork
    <3>1. FeedWork' = FeedWork
      BY <1>1, <1>2 DEF FeedWork
    <3>2. InterpolateWork' = InterpolateWork
      BY <1>1, <1>2, <2>2, <2>5, OwedTypes, PlacesFinite DEF InterpolateWork, JInv
    <3> QED BY <3>1, <3>2
  <2> QED BY <1>1, <1>2, <2>4, <2>6 DEF JInv, JobsExact
<1> QED BY <1>1, <1>3, <1>4

\* A feed job ends: what it still owes is taken back.
LEMMA FeedEndJobs ==
  ASSUME PInv, JInv, NEW f \in Threads, FeedEnd(f)
  PROVE  JInv'
<1> DEFINE S == ThreadsIn({"feed"})
<1>1. /\ at' = [at EXCEPT ![f] = "idle"] /\ at[f] = "feed" /\ main' \in {main, "woken"}
      /\ probe' = [probe EXCEPT ![f] = Dense] /\ fed' = [fed EXCEPT ![f] = 0]
      /\ interpolateJobs' = interpolateJobs - Owed[f] /\ feedJobs' = feedJobs - 1
      /\ UNCHANGED <<outputs, snapshot, computed, feedTasks, interpolateTasks>>
  BY DEF FeedEnd, Notify, Goto, NotStarted, Supplied, Owed, shared, probes, tasks
<1>2. Running' => Running
  BY DEF FeedEnd, Notify, Running
<1>3. /\ at = [t \in Threads |-> at[t]] /\ probe = [t \in Threads |-> probe[t]]
      /\ at'[f] = "idle" /\ at' = [at EXCEPT ![f] = at'[f]]
      /\ \A t \in Threads \ {f} : at'[t] = at[t] /\ probe'[t] = probe[t] /\ fed'[t] = fed[t]
      /\ probe'[f] = Dense /\ fed'[f] = 0 /\ fed' \in [Threads -> Nat]
  BY <1>1 DEF PInv, Shapes, JInv, JobTypes
<1>4. JobTypes'
  BY <1>1, <1>3 DEF JInv, JobTypes, Dense
<1>5. /\ f \in S /\ ThreadsIn({"feed"})' = S \ {f}
      /\ Cardinality(ThreadsIn({"feed"})') = Cardinality(S) - 1
      /\ ThreadsIn(Interpolating)' = ThreadsIn(Interpolating)
  <2>1. at[f] \in {"feed"} /\ at'[f] \notin {"feed"}
    BY <1>1, <1>3
  <2>2. at[f] \notin Interpolating /\ at'[f] \notin Interpolating
    BY <1>1, <1>3 DEF Interpolating
  <2> QED BY <1>3, <2>1, <2>2, ThreadMoves
<1>6. SumFunctionOnSet(Owed', ThreadsIn({"feed"})') = SumFunctionOnSet(Owed, S) - Owed[f]
  <2>1. Agree(Owed, Owed', S \ {f})
    BY <1>3, <1>5 DEF Agree, Owed, ThreadsIn
  <2>2. IsFiniteSet(S)
    BY PlacesFinite
  <2>3. Whole(Owed, S)
    BY OwedTypes DEF JInv, ThreadsIn, Whole
  <2>4. f \in S
    BY <1>5
  <2>5. SumFunctionOnSet(Owed', S \ {f}) = SumFunctionOnSet(Owed, S) - Owed[f]
    <3> HIDE DEF S
    <3> QED BY <2>1, <2>2, <2>3, <2>4, SumLeaves
  <2> QED BY <1>5, <2>5
<1>7. FeedWork' = FeedWork - 1 /\ InterpolateWork' = InterpolateWork - Owed[f]
  <2>1. FeedWork' = FeedWork - 1
    BY <1>1, <1>5, OwedTypes, PlacesFinite DEF FeedWork, JInv
  <2>2. InterpolateWork' = InterpolateWork - Owed[f]
    BY <1>1, <1>5, <1>6, OwedTypes, PlacesFinite DEF InterpolateWork, JInv
  <2> QED BY <2>1, <2>2
<1> QED BY <1>1, <1>2, <1>4, <1>7 DEF JInv, JobsExact

\* An interpolation job begins and ends: it is one of the jobs throughout.
LEMMA TakeInterpolateJobs ==
  ASSUME PInv, JInv, NEW f \in Threads, TakeInterpolate(f)
  PROVE  JInv'
<1>1. PICK o \in outputs :
        /\ at[f] = "idle" /\ interpolateTasks[o] > 0
        /\ at' = [at EXCEPT ![f] = at'[f]] /\ at'[f] \in {"interpolate", "close"}
        /\ interpolateTasks' = [interpolateTasks EXCEPT ![o] = interpolateTasks[o] - 1]
        /\ UNCHANGED <<main, outputs, snapshot, computed, feedTasks, feedJobs, interpolateJobs>>
        /\ UNCHANGED <<probe, fed>>
  BY DEF TakeInterpolate, Idle, Goto, shared, jobs, probes, PInv, Shapes
<1>2. interpolateTasks[o] \in Nat /\ interpolateTasks[o] - 1 \in Nat
  BY <1>1 DEF JInv, JobTypes
<1>3. /\ interpolateTasks' \in [outputs -> Nat]
      /\ SumFunctionOnSet(interpolateTasks', outputs)
           = SumFunctionOnSet(interpolateTasks, outputs) - 1
  <2>1. /\ interpolateTasks' \in [outputs -> Nat]
        /\ SumFunctionOnSet(interpolateTasks', outputs)
             = SumFunctionOnSet(interpolateTasks, outputs)
                 + ((interpolateTasks[o] - 1) - interpolateTasks[o])
    BY <1>1, <1>2, TasksChange DEF JInv
  <2>2. (interpolateTasks[o] - 1) - interpolateTasks[o] = -1
    BY <1>2
  <2> QED BY <2>1, <2>2, OwedTypes DEF JInv
<1>4. /\ ThreadsIn({"feed"})' = ThreadsIn({"feed"})
      /\ Cardinality(ThreadsIn(Interpolating)') = Cardinality(ThreadsIn(Interpolating)) + 1
  <2>1. at[f] \notin {"feed"} /\ at'[f] \notin {"feed"}
    BY <1>1
  <2>2. at[f] \notin Interpolating /\ at'[f] \in Interpolating
    BY <1>1 DEF Interpolating
  <2>3. at = [t \in Threads |-> at[t]]
    BY DEF PInv, Shapes
  <2> QED BY <1>1, <2>1, <2>2, <2>3, ThreadMoves
<1>5. SumFunctionOnSet(Owed', ThreadsIn({"feed"})') = SumFunctionOnSet(Owed, ThreadsIn({"feed"}))
  BY <1>1, <1>4, OwedSame
<1>6. FeedWork' = FeedWork /\ InterpolateWork' = InterpolateWork
  <2>1. FeedWork' = FeedWork
    BY <1>1, <1>4 DEF FeedWork
  <2>2. InterpolateWork' = InterpolateWork
    BY <1>1, <1>3, <1>4, <1>5, OwedTypes, PlacesFinite DEF InterpolateWork, JInv
  <2> QED BY <2>1, <2>2
<1>7. JobTypes'
  BY <1>1, <1>3 DEF JInv, JobTypes, PInv, Shapes
<1> QED BY <1>1, <1>6, <1>7 DEF JInv, JobsExact, Running

LEMMA CloseJobs ==
  ASSUME PInv, JInv, NEW f \in Threads, Close(f)
  PROVE  JInv'
<1>1. /\ at' = [at EXCEPT ![f] = "idle"] /\ at[f] = "close"
      /\ interpolateJobs' = interpolateJobs - 1 /\ (Running' => Running)
      /\ UNCHANGED <<outputs, snapshot, computed, feedTasks, interpolateTasks, feedJobs, probe, fed>>
  BY DEF Close, Notify, Goto, Running, shared, probes, tasks
<1>2. /\ ThreadsIn({"feed"})' = ThreadsIn({"feed"})
      /\ Cardinality(ThreadsIn(Interpolating)') = Cardinality(ThreadsIn(Interpolating)) - 1
  <2>1. at = [t \in Threads |-> at[t]] /\ at'[f] = "idle" /\ at' = [at EXCEPT ![f] = at'[f]]
    BY <1>1 DEF PInv, Shapes
  <2>2. at[f] \notin {"feed"} /\ at'[f] \notin {"feed"}
    BY <1>1, <2>1
  <2>3. at[f] \in Interpolating /\ at'[f] \notin Interpolating
    BY <1>1, <2>1 DEF Interpolating
  <2> QED BY <2>1, <2>2, <2>3, ThreadMoves
<1>3. SumFunctionOnSet(Owed', ThreadsIn({"feed"})') = SumFunctionOnSet(Owed, ThreadsIn({"feed"}))
  BY <1>1, <1>2, OwedSame
<1>4. FeedWork' = FeedWork /\ InterpolateWork' = InterpolateWork - 1
  <2>1. FeedWork' = FeedWork
    BY <1>1, <1>2 DEF FeedWork
  <2>2. InterpolateWork' = InterpolateWork - 1
    BY <1>1, <1>2, <1>3, OwedTypes, PlacesFinite DEF InterpolateWork, JInv
  <2> QED BY <2>1, <2>2
<1>5. JobTypes'
  BY <1>1 DEF JInv, JobTypes, PInv, Shapes
<1> QED BY <1>1, <1>4, <1>5 DEF JInv, JobsExact

LEMMA ThreadStepJobs ==
  ASSUME PInv, JInv, NEW f \in Threads, ThreadStep(f)
  PROVE  JInv'
BY ProbeJobs, InnerJobs, TakeFeedJobs, FeedJob, FeedEndJobs, TakeInterpolateJobs, CloseJobs
   DEF ThreadStep

\* A step of the main thread that starts no job.
LEMMA MainPlainJobs ==
  ASSUME JInv, UNCHANGED <<outputs, at, probe, fed, feedTasks, interpolateTasks>>,
         UNCHANGED <<feedJobs, interpolateJobs>>, Running' => Running,
         snapshot'.outputs \subseteq outputs, BagToSet(computed') \subseteq BagToSet(computed)
  PROVE  JInv'
<1>1. JobTypes'
  BY DEF JInv, JobTypes
<1>2. FeedWork' = FeedWork
  BY DEF FeedWork, ThreadsIn
<1>3. InterpolateWork' = InterpolateWork
  BY DEF InterpolateWork, ThreadsIn, Owed
<1> QED BY <1>1, <1>2, <1>3 DEF JInv, JobsExact

LEMMA WaitingJobs ==
  ASSUME JInv, \/ StartFirstRuns \/ FirstProbe \/ CheckStatus \/ CheckQueue \/ Drain \/ Woken
               \/ SpuriousWakeup \/ Quiet \/ Consume
  PROVE  JInv'
<1>1. CASE StartFirstRuns
  <2>1. /\ UNCHANGED <<outputs, at, probe, fed, feedTasks, interpolateTasks>>
        /\ UNCHANGED <<feedJobs, interpolateJobs, snapshot, computed>> /\ (Running' => Running)
    BY <1>1 DEF StartFirstRuns, shared, jobs, locals, Running
  <2> QED BY <2>1, MainPlainJobs DEF JInv, JobTypes
<1>2. CASE FirstProbe
  <2>1. /\ UNCHANGED <<outputs, at, probe, fed, feedTasks, interpolateTasks>>
        /\ UNCHANGED <<feedJobs, interpolateJobs>> /\ main = "first"
    BY <1>2 DEF FirstProbe, jobs, locals
  <2>2. snapshot'.outputs \subseteq outputs
    BY <1>2 DEF FirstProbe
  <2>3. PICK p : computed' = computed (-) SetToBag({p})
    BY <1>2 DEF FirstProbe
  <2>4. BagToSet(computed') \subseteq BagToSet(computed)
    BY <2>3, BagMinus
  <2>5. Running
    BY <2>1 DEF Running
  <2> QED BY <2>1, <2>2, <2>4, <2>5, MainPlainJobs
<1>3. CASE \/ CheckStatus \/ CheckQueue \/ Drain \/ Woken \/ SpuriousWakeup \/ Quiet \/ Consume
  <2>1. /\ UNCHANGED <<outputs, at, probe, fed, feedTasks, interpolateTasks>>
        /\ UNCHANGED <<feedJobs, interpolateJobs, snapshot, computed>> /\ (Running' => Running)
    BY <1>3 DEF CheckStatus, CheckQueue, Drain, Woken, SpuriousWakeup, Quiet, Consume, shared, jobs,
       probes, tasks, locals, Running
  <2> QED BY <2>1, MainPlainJobs DEF JInv, JobTypes
<1> QED BY <1>1, <1>2, <1>3

LEMMA GetProbeJobs ==
  ASSUME JInv, GetProbe
  PROVE  JInv'
<1>1. PICK p \in BagToSet(computed) :
        /\ main = "get" /\ feedJobs' = feedJobs + 1
        /\ computed' = computed (-) SetToBag({p}) /\ feedTasks' = feedTasks (+) SetToBag({p})
        /\ UNCHANGED <<outputs, at, probe, fed, snapshot, interpolateTasks, interpolateJobs>>
  BY DEF GetProbe, shared, locals
<1>2. /\ FiniteBag(feedTasks') /\ SumFunction(feedTasks') = SumFunction(feedTasks) + 1
      /\ BagToSet(feedTasks') = BagToSet(feedTasks) \cup {p}
      /\ BagToSet(computed') \subseteq BagToSet(computed)
  BY <1>1, BagAdds, BagPlus, BagMinus DEF JInv, JobTypes
<1>3. JobTypes'
  BY <1>1, <1>2 DEF JInv, JobTypes
<1>4. FeedWork' = FeedWork + 1
  <2>1. ThreadsIn({"feed"})' = ThreadsIn({"feed"})
    BY <1>1 DEF ThreadsIn
  <2> QED BY <1>2, <2>1, OwedTypes, PlacesFinite DEF FeedWork, JInv
<1>5. InterpolateWork' = InterpolateWork
  BY <1>1 DEF InterpolateWork, ThreadsIn, Owed
<1> QED BY <1>1, <1>3, <1>4, <1>5 DEF JInv, JobsExact, Running

LEMMA NoTasks ==
  FiniteBag(EmptyBag) /\ SumFunction(EmptyBag) = 0 /\ BagToSet(EmptyBag) = {}
<1>1. DOMAIN EmptyBag = {}
  BY DEF EmptyBag, SetToBag
<1> QED BY <1>1, FS_EmptySet, SumNone, BagNone DEF FiniteBag, SumFunction

LEMMA KillJobs ==
  ASSUME JInv, KillQueued \/ KillRunning
  PROVE  JInv'
<1>1. /\ feedTasks' = EmptyBag /\ interpolateTasks' = [o \in outputs |-> 0]
      /\ UNCHANGED <<outputs, at, probe, fed, snapshot, computed>>
      /\ ~Running'
  BY DEF KillQueued, KillRunning, DropTasks, shared, probes, locals, Running
<1>2. JobTypes'
  BY <1>1, NoTasks DEF JInv, JobTypes
<1> QED BY <1>1, <1>2 DEF JInv, JobsExact

\* The counters are reset when nothing is left to count.
LEMMA SwitchJobs ==
  ASSUME PInv, JInv, SwitchPrime
  PROVE  JInv'
<1>1. /\ main = "switch" /\ feedJobs' = 0 /\ interpolateJobs' = 0 /\ computed' = EmptyBag
      /\ snapshot'.outputs \subseteq outputs
      /\ UNCHANGED <<outputs, at, probe, fed, feedTasks, interpolateTasks>>
  BY DEF SwitchPrime, locals
<1>2. /\ BagToSet(feedTasks) = {} /\ \A o \in outputs : interpolateTasks[o] = 0
      /\ \A t \in Threads : at[t] = "idle"
  BY <1>1 DEF PInv, Late, AfterKill
<1>3. JobTypes'
  BY <1>1, NoTasks DEF JInv, JobTypes
<1>4. ThreadsIn({"feed"})' = {} /\ ThreadsIn(Interpolating)' = {}
  BY <1>1, <1>2 DEF ThreadsIn, Interpolating
<1>5. Cardinality({}) = 0 /\ \A f : SumFunctionOnSet(f, {}) = 0
  BY SumNone, FS_EmptySet
<1>6. SumFunction(feedTasks') = 0
  BY <1>1, <1>2, <1>5 DEF SumFunction, BagToSet
<1>7. SumFunctionOnSet(interpolateTasks, outputs) = 0
  BY <1>2, OutputsFinite, SumZeros DEF JInv, JobTypes
<1>8. FeedWork' = 0
  BY <1>4, <1>5, <1>6 DEF FeedWork
<1>9. InterpolateWork' = 0
  BY <1>1, <1>4, <1>5, <1>7 DEF InterpolateWork
<1> QED BY <1>1, <1>3, <1>8, <1>9 DEF JInv, JobsExact

LEMMA StepJobs == PInv /\ JInv /\ [Next]_vars => JInv'
<1> SUFFICES ASSUME PInv, JInv, [Next]_vars PROVE JInv'
  OBVIOUS
<1>1. CASE MainStep
  BY <1>1, WaitingJobs, GetProbeJobs, KillJobs, SwitchJobs DEF MainStep
<1>2. ASSUME NEW t \in Threads, ThreadStep(t) PROVE JInv'
  BY <1>2, ThreadStepJobs
<1>3. CASE SpuriousWakeup
  BY <1>3, WaitingJobs
<1>4. CASE UNCHANGED vars
  <2>1. /\ UNCHANGED <<outputs, at, probe, fed, feedTasks, interpolateTasks>>
        /\ UNCHANGED <<feedJobs, interpolateJobs, snapshot, computed, main>>
    BY <1>4 DEF vars, shared, jobs, probes, tasks, locals
  <2> QED BY <2>1, MainPlainJobs DEF JInv, JobTypes, Running
<1>5. ASSUME NEW t \in Threads, Abort(t) PROVE JInv'
  <2>1. /\ UNCHANGED <<outputs, at, probe, fed, feedTasks, interpolateTasks>>
        /\ UNCHANGED <<feedJobs, interpolateJobs, snapshot, computed>> /\ ~Running'
    BY <1>5 DEF Abort, shared, jobs, probes, tasks, locals, Running
  <2> QED BY <2>1, MainPlainJobs DEF JInv, JobTypes
<1> QED BY <1>1, <1>2, <1>3, <1>4, <1>5 DEF Next, Ended
-----------------------------------------------------------------------------
(***************************************************************************)
(* The item counters.  A function is counted once because it is settled    *)
(* once: one thread interpolates it at a time, and a settled function is   *)
(* fed no more and has nothing left to consume, so that no later job       *)
(* interpolates it again in this prime.                                    *)
(***************************************************************************)
SettledRests ==
  \A o \in outputs :
    /\ recPrime[o] <= prime + 1
    /\ recDone[o] => recPrime[o] <= prime
    /\ recDone[o] \/ recPrime[o] > prime => food[o] = 0 /\ ~busy[o]

Interpolates(t, o) == at[t] = "interpolate" /\ output[t] = o

BusyOnce ==
  /\ \A o \in outputs : busy[o] <=> \E t \in Threads : Interpolates(t, o)
  /\ \A o \in outputs : \A t, u \in Threads : Interpolates(t, o) /\ Interpolates(u, o) => t = u

DoneMarked ==
  \A o \in outputs : recDone[o] =>
    status[o] = "DONE" \/ \E t \in Threads : at[t] = "markDone" /\ output[t] = o

FunctionTypes ==
  /\ outputs \in DOMAIN Needs
  /\ recPrime \in [outputs -> Nat] /\ recDone \in [outputs -> BOOLEAN]
  /\ food \in [outputs -> Nat] /\ busy \in [outputs -> BOOLEAN]
  /\ main \in {"start", "first"} => \A o \in outputs : food[o] = 0 /\ ~busy[o]

Marked == {o \in outputs : status[o] = "DONE"}
Waiting == {o \in outputs : recPrime[o] > prime}
Marking == {"markNext", "countNext"}

ItemsExact ==
  /\ itemsDone = Cardinality(Marked)
  /\ itemsNewPrime + Cardinality(ThreadsIn(Marking)) = Cardinality(Waiting)
  /\ itemsNewPrime \in Int

FInv == FunctionTypes /\ SettledRests /\ BusyOnce /\ DoneMarked /\ ItemsExact

LEMMA InitItems == Init => FInv
<1> SUFFICES ASSUME Init PROVE FInv
  OBVIOUS
<1>1. FunctionTypes /\ DoneMarked
  BY DEF Init, FunctionTypes, DoneMarked
<1>2. SettledRests /\ BusyOnce
  BY DEF Init, SettledRests, BusyOnce, Interpolates
<1>3. Marked = {} /\ Waiting = {} /\ ThreadsIn(Marking) = {}
  BY DEF Init, Marked, Waiting, Marking, ThreadsIn
<1>4. ItemsExact
  BY <1>3, FS_EmptySet DEF Init, ItemsExact
<1> QED BY <1>1, <1>2, <1>4 DEF FInv

\* A step of f that leaves the functions alone and settles none.
LEMMA ItemsPlain ==
  ASSUME PInv, FInv, NEW f \in Threads,
         UNCHANGED <<outputs, prime, status, recPrime, recDone, food, busy, itemsDone, itemsNewPrime>>,
         main' \in {"start", "first"} => main \in {"start", "first"},
         at' = [at EXCEPT ![f] = at'[f]], output' = [output EXCEPT ![f] = output'[f]],
         at[f] \notin {"interpolate", "markDone", "markNext", "countNext"},
         at'[f] \notin {"interpolate", "markDone", "markNext", "countNext"}
  PROVE  FInv'
<1>1. \A t \in Threads \ {f} : at'[t] = at[t] /\ output'[t] = output[t]
  BY DEF PInv, Shapes
<1>2. \A t \in Threads : \A o \in outputs : Interpolates(t, o)' <=> Interpolates(t, o)
  BY <1>1 DEF Interpolates
<1>3. BusyOnce'
  BY <1>2 DEF FInv, BusyOnce
<1>4. DoneMarked'
  <2>1. \A t \in Threads : at[t] = "markDone" => at'[t] = "markDone" /\ output'[t] = output[t]
    BY <1>1
  <2> QED BY <2>1 DEF FInv, DoneMarked
<1>5. ThreadsIn(Marking)' = ThreadsIn(Marking)
  <2>1. at = [t \in Threads |-> at[t]]
    BY DEF PInv, Shapes
  <2> QED BY <2>1, ThreadMoves DEF Marking
<1>6. ItemsExact'
  BY <1>5 DEF FInv, ItemsExact, Marked, Waiting
<1>7. FunctionTypes' /\ SettledRests'
  BY DEF FInv, FunctionTypes, SettledRests
<1> QED BY <1>3, <1>4, <1>6, <1>7 DEF FInv

LEMMA PlainItems ==
  ASSUME PInv, FInv, NEW f \in Threads,
         \/ TakeProbe(f) \/ Select(f) \/ Collect(f) \/ Store(f) \/ Load(f) \/ Evaluate(f)
         \/ TakeFeed(f) \/ FeedEnd(f) \/ Estimate(f) \/ More(f) \/ Queue(f) \/ Close(f)
  PROVE  FInv'
<1>1. /\ UNCHANGED <<outputs, prime, status, recPrime, recDone, food, busy, itemsDone, itemsNewPrime>>
      /\ main' \in {"start", "first"} => main \in {"start", "first"}
      /\ output' = [output EXCEPT ![f] = output'[f]]
  <2>1. CASE TakeProbe(f) \/ Select(f) \/ Collect(f) \/ Store(f) \/ Load(f) \/ Evaluate(f)
    BY <2>1 DEF TakeProbe, Select, Collect, Store, Load, Evaluate, rec, items, locals, PInv, Shapes
  <2>2. CASE TakeFeed(f) \/ FeedEnd(f)
    BY <2>2 DEF TakeFeed, FeedEnd, Notify, rec, items, PInv, Shapes
  <2>3. CASE Estimate(f) \/ More(f) \/ Queue(f) \/ Close(f)
    BY <2>3 DEF Estimate, More, Queue, Close, Notify, rec, items, locals, PInv, Shapes
  <2> QED BY <2>1, <2>2, <2>3
<1>2. /\ at' = [at EXCEPT ![f] = at'[f]]
      /\ at[f] \notin {"interpolate", "markDone", "markNext", "countNext"}
      /\ at'[f] \notin {"interpolate", "markDone", "markNext", "countNext"}
  <2>1. CASE TakeProbe(f) \/ Select(f) \/ Collect(f) \/ Store(f) \/ Load(f) \/ Evaluate(f)
    BY <2>1 DEF TakeProbe, Select, Collect, Store, Load, Evaluate, Idle, Goto, PInv, Shapes
  <2>2. CASE TakeFeed(f) \/ FeedEnd(f)
    BY <2>2 DEF TakeFeed, FeedEnd, Idle, Goto, PInv, Shapes
  <2>3. CASE Estimate(f) \/ More(f) \/ Queue(f) \/ Close(f)
    BY <2>3 DEF Estimate, More, Queue, Close, Goto, PInv, Shapes
  <2> QED BY <2>1, <2>2, <2>3
<1> QED BY <1>1, <1>2, ItemsPlain

\* A value is fed: only a function that is not settled takes it.
LEMMA FeedItems ==
  ASSUME PInv, FInv, NEW f \in Threads, Feed(f)
  PROVE  FInv'
<1>1. PICK o \in left[f] :
        /\ UNCHANGED <<outputs, prime, main, status, recPrime, recDone, busy, at, output>>
        /\ UNCHANGED <<itemsDone, itemsNewPrime>> /\ at[f] = "feed"
        /\ \/ o \in Active /\ food' = [food EXCEPT ![o] = food[o] + 1]
           \/ UNCHANGED food
  BY DEF Feed, items
<1>2. main \notin {"start", "first"}
  BY <1>1 DEF PInv, Early
<1>3. FunctionTypes'
  BY <1>1, <1>2 DEF FInv, FunctionTypes, Active
<1>4. SettledRests'
  BY <1>1 DEF FInv, FunctionTypes, SettledRests, Active
<1>5. BusyOnce' /\ DoneMarked'
  BY <1>1 DEF FInv, BusyOnce, DoneMarked, Interpolates
<1>6. ItemsExact'
  BY <1>1 DEF FInv, ItemsExact, Marked, Waiting, ThreadsIn
<1> QED BY <1>3, <1>4, <1>5, <1>6 DEF FInv

\* A job that finds something to consume is the only one at it.
LEMMA TakeInterpolateItems ==
  ASSUME PInv, FInv, NEW f \in Threads, TakeInterpolate(f)
  PROVE  FInv'
<1>1. PICK o \in outputs :
        /\ at[f] = "idle" /\ interpolateTasks[o] > 0
        /\ output' = [output EXCEPT ![f] = o]
        /\ busy' = [busy EXCEPT ![o] = busy[o] \/ Proceeds(o)]
        /\ at' = [at EXCEPT ![f] = IF Proceeds(o) THEN "interpolate" ELSE "close"]
        /\ UNCHANGED <<outputs, prime, main, status, recPrime, recDone, food, itemsDone, itemsNewPrime>>
  BY DEF TakeInterpolate, Idle, Goto, items
<1>2. main \notin {"start", "first"}
  BY <1>1 DEF PInv, Early
<1>3. /\ at = [t \in Threads |-> at[t]]
      /\ \A t \in Threads \ {f} : at'[t] = at[t] /\ output'[t] = output[t]
      /\ at'[f] = IF Proceeds(o) THEN "interpolate" ELSE "close"
      /\ output'[f] = o /\ at' = [at EXCEPT ![f] = at'[f]]
  BY <1>1 DEF PInv, Shapes
<1>4. FunctionTypes'
  BY <1>1, <1>2 DEF FInv, FunctionTypes
<1>5. Proceeds(o) => ~busy[o] /\ food[o] # 0
  BY DEF Proceeds
<1>6. /\ \A q \in outputs \ {o} : busy'[q] = busy[q]
      /\ Proceeds(o) => busy'[o]
      /\ ~Proceeds(o) => busy'[o] = busy[o]
  BY <1>1 DEF FInv, FunctionTypes
<1>7. SettledRests'
  <2>1. ASSUME NEW q \in outputs, recDone[q] \/ recPrime[q] > prime
        PROVE  food[q] = 0 /\ ~busy'[q]
    <3>1. food[q] = 0 /\ ~busy[q]
      BY <2>1 DEF FInv, SettledRests
    <3>2. CASE q = o
      BY <1>5, <1>6, <3>1, <3>2
    <3>3. CASE q # o
      BY <1>6, <3>1, <3>3
    <3> QED BY <3>2, <3>3
  <2> QED BY <1>1, <2>1 DEF FInv, SettledRests
<1>8. BusyOnce'
  <2>1. \A q \in outputs : \A t \in Threads \ {f} : Interpolates(t, q)' <=> Interpolates(t, q)
    BY <1>3 DEF Interpolates
  <2>2. \A q \in outputs : ~Interpolates(f, q)
    BY <1>1 DEF Interpolates
  <2>3. \A q \in outputs : Interpolates(f, q)' <=> q = o /\ Proceeds(o)
    BY <1>3 DEF Interpolates
  <2>4. ASSUME NEW q \in outputs
        PROVE  /\ busy'[q] <=> \E t \in Threads : Interpolates(t, q)'
               /\ \A t, u \in Threads : Interpolates(t, q)' /\ Interpolates(u, q)' => t = u
    <3>1. /\ busy[q] <=> \E t \in Threads : Interpolates(t, q)
          /\ \A t, u \in Threads : Interpolates(t, q) /\ Interpolates(u, q) => t = u
      BY DEF FInv, BusyOnce
    <3>2. CASE q = o /\ Proceeds(o)
      BY <1>5, <1>6, <2>1, <2>3, <3>1, <3>2
    <3>3. CASE ~(q = o /\ Proceeds(o))
      <4>1. busy'[q] = busy[q]
        BY <1>6, <3>3
      <4> QED BY <2>1, <2>2, <2>3, <3>1, <3>3, <4>1
    <3> QED BY <3>2, <3>3
  <2> QED BY <1>1, <2>4 DEF BusyOnce
<1>9. DoneMarked'
  <2>1. \A t \in Threads : at[t] = "markDone" => at'[t] = "markDone" /\ output'[t] = output[t]
    BY <1>1, <1>3
  <2> QED BY <1>1, <2>1 DEF FInv, DoneMarked
<1>10. ItemsExact'
  <2>1. ThreadsIn(Marking)' = ThreadsIn(Marking)
    BY <1>1, <1>3, ThreadMoves DEF Marking
  <2> QED BY <1>1, <2>1 DEF FInv, ItemsExact, Marked, Waiting
<1> QED BY <1>4, <1>7, <1>8, <1>9, <1>10 DEF FInv

\* interpolate returns: the function is settled now, and was not before.
LEMMA InterpolateItems ==
  ASSUME PInv, FInv, NEW f \in Threads, Interpolate(f)
  PROVE  FInv'
<1> DEFINE o == output[f]
<1>1. /\ at[f] = "interpolate" /\ o \in outputs /\ Interpolates(f, o)
      /\ at' = [at EXCEPT ![f] = at'[f]] /\ at'[f] \in {"markDone", "markNext", "more"}
      /\ busy' = [busy EXCEPT ![o] = FALSE] /\ food' = [food EXCEPT ![o] = 0]
      /\ UNCHANGED <<outputs, prime, main, status, output, itemsDone, itemsNewPrime>>
  BY DEF Interpolate, Interpolates, Goto, Interpolating, items, locals, PInv, Shapes, ThreadServes
<1>2. ~recDone[o] /\ recPrime[o] <= prime
  <2>1. busy[o]
    BY <1>1 DEF FInv, BusyOnce
  <2> QED BY <1>1, <2>1 DEF FInv, SettledRests, FunctionTypes, PInv, Shapes
<1>3. \/ /\ recDone' = [recDone EXCEPT ![o] = TRUE] /\ UNCHANGED recPrime /\ at'[f] = "markDone"
      \/ /\ recPrime' = [recPrime EXCEPT ![o] = prime + 1] /\ UNCHANGED recDone
         /\ at'[f] = "markNext"
      \/ UNCHANGED <<recPrime, recDone>> /\ at'[f] = "more"
  BY DEF Interpolate, Goto, PInv, Shapes
<1>4. prime \in Nat /\ at = [t \in Threads |-> at[t]] /\ \A t \in Threads \ {f} : at'[t] = at[t]
  BY <1>1 DEF PInv, Shapes
<1>5. main \notin {"start", "first"}
  BY <1>1 DEF PInv, Early
<1>6. FunctionTypes'
  <2>1. recPrime' \in [outputs -> Nat]
    BY <1>3, <1>4 DEF FInv, FunctionTypes
  <2>2. recDone' \in [outputs -> BOOLEAN]
    BY <1>3 DEF FInv, FunctionTypes
  <2>3. food' \in [outputs -> Nat] /\ busy' \in [outputs -> BOOLEAN]
    BY <1>1 DEF FInv, FunctionTypes
  <2> QED BY <1>1, <1>5, <2>1, <2>2, <2>3 DEF FInv, FunctionTypes
<1>7. SettledRests'
  <2>1. food'[o] = 0 /\ ~busy'[o] /\ \A q \in outputs \ {o} : food'[q] = food[q] /\ busy'[q] = busy[q]
    BY <1>1 DEF FInv, FunctionTypes
  <2>2. \A q \in outputs \ {o} : recPrime'[q] = recPrime[q] /\ recDone'[q] = recDone[q]
    BY <1>3 DEF FInv, FunctionTypes
  <2>3. recPrime'[o] <= prime + 1 /\ (recDone'[o] => recPrime'[o] <= prime)
    BY <1>1, <1>2, <1>3, <1>4 DEF FInv, FunctionTypes
  <2>4. ASSUME NEW q \in outputs
        PROVE  /\ recPrime'[q] <= prime + 1
               /\ recDone'[q] => recPrime'[q] <= prime
               /\ recDone'[q] \/ recPrime'[q] > prime => food'[q] = 0 /\ ~busy'[q]
    <3>1. CASE q = o
      BY <2>1, <2>3, <3>1
    <3>2. CASE q # o
      BY <2>1, <2>2, <3>2 DEF FInv, SettledRests
    <3> QED BY <3>1, <3>2
  <2> QED BY <1>1, <2>4 DEF SettledRests
<1>8. BusyOnce'
  <2>1. \A q \in outputs : \A t \in Threads \ {f} : Interpolates(t, q)' <=> Interpolates(t, q)
    BY <1>1, <1>4 DEF Interpolates
  <2>2. \A q \in outputs : /\ ~Interpolates(f, q)'
                           /\ Interpolates(f, q) <=> q = o
    BY <1>1 DEF Interpolates
  <2>3. ~busy'[o] /\ \A q \in outputs \ {o} : busy'[q] = busy[q]
    BY <1>1 DEF FInv, FunctionTypes
  <2>4. ASSUME NEW q \in outputs
        PROVE  /\ busy'[q] <=> \E t \in Threads : Interpolates(t, q)'
               /\ \A t, u \in Threads : Interpolates(t, q)' /\ Interpolates(u, q)' => t = u
    <3>1. /\ busy[q] <=> \E t \in Threads : Interpolates(t, q)
          /\ \A t, u \in Threads : Interpolates(t, q) /\ Interpolates(u, q) => t = u
      BY DEF FInv, BusyOnce
    <3>2. CASE q = o
      BY <1>1, <2>1, <2>2, <2>3, <3>1, <3>2
    <3>3. CASE q # o
      BY <2>1, <2>2, <2>3, <3>1, <3>3
    <3> QED BY <3>2, <3>3
  <2> QED BY <1>1, <2>4 DEF BusyOnce
<1>9. DoneMarked'
  <2>1. \A t \in Threads : at[t] = "markDone" => at'[t] = "markDone"
    BY <1>1, <1>4
  <2>2. \A q \in outputs : recDone'[q] => recDone[q] \/ (q = o /\ at'[f] = "markDone")
    BY <1>1, <1>3 DEF FInv, FunctionTypes
  <2> QED BY <1>1, <2>1, <2>2 DEF FInv, DoneMarked
<1>10. ItemsExact'
  <2>1. at[f] \notin Marking /\ (at'[f] \in Marking <=> at'[f] = "markNext")
    BY <1>1 DEF Marking
  <2>2. Marked' = Marked
    BY <1>1 DEF Marked
  <2>3. CASE at'[f] = "markNext"
    <3>1. o \notin Waiting /\ Waiting' = Waiting \cup {o}
      BY <1>1, <1>2, <1>3, <1>4, <2>3 DEF Waiting, FInv, FunctionTypes
    <3>2. Cardinality(Waiting \cup {o}) = Cardinality(Waiting) + 1 /\ Cardinality(Waiting) \in Nat
      <4>1. IsFiniteSet(Waiting) /\ Cardinality(Waiting) \in Nat
        BY OutputsFinite DEF Waiting, FInv, FunctionTypes
      <4> QED BY <3>1, <4>1, FS_AddElement
    <3>3. Cardinality(ThreadsIn(Marking)') = Cardinality(ThreadsIn(Marking)) + 1
      BY <1>1, <1>4, <2>1, <2>3, ThreadMoves
    <3> QED BY <1>1, <2>2, <3>1, <3>2, <3>3, PlacesFinite DEF FInv, ItemsExact
  <2>4. CASE at'[f] # "markNext"
    <3>1. Waiting' = Waiting
      BY <1>1, <1>3, <2>4 DEF Waiting
    <3>2. ThreadsIn(Marking)' = ThreadsIn(Marking)
      BY <1>1, <1>4, <2>1, <2>4, ThreadMoves
    <3> QED BY <1>1, <2>2, <3>1, <3>2 DEF FInv, ItemsExact
  <2> QED BY <2>3, <2>4
<1> QED BY <1>6, <1>7, <1>8, <1>9, <1>10 DEF FInv

\* The functions as they are: the part of FInv that a step which settles no
\* function leaves alone.
LEMMA MarkItems ==
  ASSUME PInv, FInv, NEW f \in Threads,
         UNCHANGED <<outputs, prime, main, recPrime, recDone, food, busy, output>>,
         at' = [at EXCEPT ![f] = at'[f]],
         at[f] \notin {"interpolate"}, at'[f] \notin {"interpolate"}
  PROVE  FunctionTypes' /\ SettledRests' /\ BusyOnce'
<1>1. \A t \in Threads \ {f} : at'[t] = at[t]
  BY DEF PInv, Shapes
<1>2. \A t \in Threads : \A o \in outputs : Interpolates(t, o)' <=> Interpolates(t, o)
  BY <1>1 DEF Interpolates
<1>3. BusyOnce'
  BY <1>2 DEF FInv, BusyOnce
<1> QED BY <1>3 DEF FInv, FunctionTypes, SettledRests

\* A function is marked done, and counted, by the first job that gets there.
LEMMA MarkDoneItems ==
  ASSUME PInv, FInv, NEW f \in Threads, MarkDone(f)
  PROVE  FInv'
<1> DEFINE o == output[f]
<1>1. /\ at[f] = "markDone" /\ o \in outputs
      /\ at' = [at EXCEPT ![f] = at'[f]] /\ at'[f] = "close"
      /\ UNCHANGED <<outputs, prime, main, recPrime, recDone, food, busy, output, itemsNewPrime>>
  BY DEF MarkDone, Goto, Interpolating, locals, PInv, Shapes, ThreadServes
<1>2. \/ /\ status[o] = "RECONSTRUCTING"
         /\ status' = [status EXCEPT ![o] = "DONE"] /\ itemsDone' = itemsDone + 1
      \/ status[o] = "DONE" /\ UNCHANGED <<status, itemsDone>>
  BY <1>1 DEF MarkDone, PInv, StatusTrue
<1>3. FunctionTypes' /\ SettledRests' /\ BusyOnce'
  BY <1>1, MarkItems
<1>4. /\ at = [t \in Threads |-> at[t]] /\ status = [q \in outputs |-> status[q]]
      /\ \A t \in Threads \ {f} : at'[t] = at[t]
  BY <1>1 DEF PInv, Shapes
<1>5. Marked' = Marked \cup {o} /\ status'[o] = "DONE"
  BY <1>1, <1>2, <1>4 DEF Marked
<1>6. DoneMarked'
  <2>1. ASSUME NEW q \in outputs, recDone[q]
        PROVE  status'[q] = "DONE" \/ \E t \in Threads : at'[t] = "markDone" /\ output[t] = q
    <3>1. status[q] = "DONE" \/ \E t \in Threads : at[t] = "markDone" /\ output[t] = q
      BY <2>1 DEF FInv, DoneMarked
    <3>2. CASE q = o
      BY <1>5, <3>2
    <3>3. CASE q # o
      <4>1. status'[q] = status[q]
        BY <1>2, <1>4, <3>3
      <4> QED BY <1>4, <3>1, <3>3, <4>1
    <3> QED BY <3>2, <3>3
  <2> QED BY <1>1, <2>1 DEF DoneMarked
<1>7. ItemsExact'
  <2>1. ThreadsIn(Marking)' = ThreadsIn(Marking)
    <3>1. at[f] \notin Marking /\ at'[f] \notin Marking
      BY <1>1 DEF Marking
    <3> QED BY <1>1, <1>4, <3>1, ThreadMoves
  <2>2. Waiting' = Waiting
    BY <1>1 DEF Waiting
  <2>3. IsFiniteSet(Marked) /\ Cardinality(Marked) \in Nat
    BY OutputsFinite DEF Marked, FInv, FunctionTypes
  <2>4. itemsDone' = Cardinality(Marked \cup {o})
    <3>1. CASE status[o] = "RECONSTRUCTING"
      <4>1. o \notin Marked
        BY <3>1 DEF Marked
      <4>2. Cardinality(Marked \cup {o}) = Cardinality(Marked) + 1
        BY <2>3, <4>1, FS_AddElement
      <4> QED BY <1>2, <3>1, <4>2 DEF FInv, ItemsExact
    <3>2. CASE status[o] = "DONE"
      <4>1. Marked \cup {o} = Marked
        BY <1>1, <3>2 DEF Marked
      <4> QED BY <1>2, <3>2, <4>1 DEF FInv, ItemsExact
    <3> QED BY <1>2, <3>1, <3>2
  <2> QED BY <1>1, <1>5, <2>1, <2>2, <2>4 DEF FInv, ItemsExact
<1> QED BY <1>3, <1>6, <1>7 DEF FInv

\* A function that waits for the next prime is counted by the thread that
\* settled it, on its way from markNext past countNext.
LEMMA NextItems ==
  ASSUME PInv, FInv, NEW f \in Threads, MarkNext(f) \/ CountNext(f)
  PROVE  FInv'
<1>1. /\ UNCHANGED <<outputs, prime, main, recPrime, recDone, food, busy, output>>
      /\ UNCHANGED <<status, itemsDone>>
      /\ at' = [at EXCEPT ![f] = at'[f]]
      /\ \/ at[f] = "markNext" /\ at'[f] = "countNext" /\ itemsNewPrime' = itemsNewPrime
         \/ at[f] = "countNext" /\ at'[f] = "estimate" /\ itemsNewPrime' = itemsNewPrime + 1
  BY DEF MarkNext, CountNext, Goto, rec, items, locals, PInv, Shapes
<1>2. FunctionTypes' /\ SettledRests' /\ BusyOnce'
  BY <1>1, MarkItems
<1>3. at = [t \in Threads |-> at[t]] /\ \A t \in Threads \ {f} : at'[t] = at[t]
  BY <1>1 DEF PInv, Shapes
<1>4. DoneMarked'
  <2>1. \A t \in Threads : at[t] = "markDone" => at'[t] = "markDone"
    BY <1>1, <1>3
  <2> QED BY <1>1, <2>1 DEF FInv, DoneMarked
<1>5. Marked' = Marked /\ Waiting' = Waiting
  BY <1>1 DEF Marked, Waiting
<1>6. itemsNewPrime' + Cardinality(ThreadsIn(Marking)')
        = itemsNewPrime + Cardinality(ThreadsIn(Marking)) /\ itemsNewPrime' \in Int
  <2>1. CASE at[f] = "markNext" /\ at'[f] = "countNext" /\ itemsNewPrime' = itemsNewPrime
    <3>1. at[f] \in Marking /\ at'[f] \in Marking
      BY <2>1 DEF Marking
    <3>2. ThreadsIn(Marking)' = ThreadsIn(Marking)
      BY <1>1, <1>3, <3>1, ThreadMoves
    <3> QED BY <2>1, <3>2 DEF FInv, ItemsExact
  <2>2. CASE at[f] = "countNext" /\ at'[f] = "estimate" /\ itemsNewPrime' = itemsNewPrime + 1
    <3>1. at[f] \in Marking /\ at'[f] \notin Marking
      BY <2>2 DEF Marking
    <3>2. Cardinality(ThreadsIn(Marking)') = Cardinality(ThreadsIn(Marking)) - 1
      BY <1>1, <1>3, <3>1, ThreadMoves
    <3> QED BY <2>2, <3>2, PlacesFinite DEF FInv, ItemsExact
  <2> QED BY <1>1, <2>1, <2>2
<1>7. ItemsExact'
  BY <1>1, <1>5, <1>6 DEF FInv, ItemsExact
<1> QED BY <1>2, <1>4, <1>7 DEF FInv

LEMMA ThreadStepItems ==
  ASSUME PInv, FInv, NEW f \in Threads, ThreadStep(f)
  PROVE  FInv'
BY PlainItems, FeedItems, TakeInterpolateItems, InterpolateItems, MarkDoneItems, NextItems
   DEF ThreadStep

\* A step of the main thread that leaves the functions alone.
LEMMA MainPlainItems ==
  ASSUME FInv, UNCHANGED <<outputs, prime, status, recPrime, recDone, food, busy, at, output>>,
         UNCHANGED <<itemsDone, itemsNewPrime>>,
         main' \in {"start", "first"} => main \in {"start", "first"}
  PROVE  FInv'
<1>1. FunctionTypes' /\ SettledRests'
  BY DEF FInv, FunctionTypes, SettledRests
<1>2. BusyOnce' /\ DoneMarked'
  BY DEF FInv, BusyOnce, DoneMarked, Interpolates
<1>3. ItemsExact'
  BY DEF FInv, ItemsExact, Marked, Waiting, ThreadsIn
<1> QED BY <1>1, <1>2, <1>3 DEF FInv

LEMMA MainItems ==
  ASSUME FInv,
         \/ StartFirstRuns \/ GetProbe \/ CheckStatus \/ CheckQueue \/ Drain \/ Woken
         \/ SpuriousWakeup \/ Quiet \/ KillQueued \/ KillRunning \/ Consume
  PROVE  FInv'
<1>1. CASE StartFirstRuns \/ GetProbe \/ CheckStatus \/ CheckQueue
  BY <1>1, MainPlainItems DEF StartFirstRuns, GetProbe, CheckStatus, CheckQueue, NextRound,
     rec, items, locals
<1>2. CASE Drain \/ Woken \/ SpuriousWakeup \/ Quiet
  BY <1>2, MainPlainItems DEF Drain, Woken, SpuriousWakeup, Quiet, NextRound, rec, items, locals
<1>3. CASE KillQueued \/ KillRunning \/ Consume
  BY <1>3, MainPlainItems DEF KillQueued, KillRunning, Consume, rec, items, locals
<1> QED BY <1>1, <1>2, <1>3

\* The first probe settles the functions that need no other.
LEMMA FirstProbeItems ==
  ASSUME PInv, FInv, FirstProbe
  PROVE  FInv'
<1> DEFINE settled == {o \in outputs : need[o] = 1}
<1>1. PICK D \in SUBSET settled :
        /\ main = "first" /\ main' = "get"
        /\ status' = [o \in outputs |-> IF o \in D THEN "DONE" ELSE "RECONSTRUCTING"]
        /\ recDone' = [o \in outputs |-> o \in D]
        /\ recPrime' = [o \in outputs |-> IF o \in settled \ D THEN 1 ELSE 0]
        /\ itemsDone' = Cardinality(D) /\ itemsNewPrime' = Cardinality(settled \ D)
        /\ UNCHANGED <<outputs, prime, food, busy, at, output>>
  BY DEF FirstProbe, locals
<1>2. /\ prime = 0 /\ \A t \in Threads : at[t] \in {"idle", "select", "evaluate"}
      /\ \A o \in outputs : food[o] = 0 /\ ~busy[o]
  BY <1>1 DEF PInv, Early, FInv, FunctionTypes
<1>3. /\ \A o \in outputs : recDone'[o] <=> o \in D
      /\ recDone' \in [outputs -> BOOLEAN]
  <2>1. recDone' = [o \in outputs |-> o \in D]
    BY <1>1
  <2>2. \A o \in outputs : recDone'[o] <=> o \in D
    BY <2>1, Zenon
  <2>3. recDone' \in [outputs -> BOOLEAN]
    <3> HIDE DEF settled
    <3> QED BY <2>1, SMT
  <2> QED BY <2>2, <2>3
<1>4. /\ \A o \in outputs : recPrime'[o] = IF o \in settled \ D THEN 1 ELSE 0
      /\ \A o \in outputs : status'[o] = IF o \in D THEN "DONE" ELSE "RECONSTRUCTING"
      /\ recPrime' \in [outputs -> Nat]
  BY <1>1
<1>5. FunctionTypes'
  BY <1>1, <1>3, <1>4 DEF FInv, FunctionTypes
<1>6. SettledRests'
  <2>1. ASSUME NEW o \in outputs
        PROVE  recPrime'[o] <= prime + 1 /\ (recDone'[o] => recPrime'[o] <= prime)
    BY <1>2, <1>3, <1>4
  <2> QED BY <1>1, <1>2, <2>1 DEF SettledRests
<1>7. BusyOnce'
  BY <1>1, <1>2 DEF BusyOnce, Interpolates
<1>8. DoneMarked'
  BY <1>1, <1>3, <1>4 DEF DoneMarked
<1>9. ItemsExact'
  <2>1. Marked' = D /\ D \subseteq outputs
    BY <1>1, <1>4 DEF Marked
  <2>2. Waiting' = settled \ D
    <3>1. ASSUME NEW o \in outputs PROVE recPrime'[o] > prime <=> o \in settled \ D
      BY <1>2, <1>4
    <3> QED BY <1>1, <3>1 DEF Waiting
  <2>3. ThreadsIn(Marking)' = {}
    BY <1>1, <1>2 DEF ThreadsIn, Marking
  <2>4. Cardinality(settled \ D) \in Nat /\ Cardinality({}) = 0
    BY OutputsFinite, FS_EmptySet DEF FInv, FunctionTypes
  <2> HIDE DEF settled
  <2> QED BY <1>1, <2>1, <2>2, <2>3, <2>4 DEF ItemsExact
<1> QED BY <1>5, <1>6, <1>7, <1>8, <1>9 DEF FInv

\* In the next prime no function waits for another.
LEMMA SwitchItems ==
  ASSUME PInv, FInv, SwitchPrime
  PROVE  FInv'
<1>1. /\ main = "switch" /\ main' = "get" /\ prime' = prime + 1 /\ itemsNewPrime' = 0
      /\ UNCHANGED <<outputs, status, recPrime, recDone, food, busy, itemsDone, at, output>>
  BY DEF SwitchPrime, locals
<1>2. (\A t \in Threads : at[t] = "idle") /\ prime \in Nat
  BY <1>1 DEF PInv, Late, AfterKill, Shapes
<1>3. FunctionTypes'
  BY <1>1 DEF FInv, FunctionTypes
<1>4. SettledRests'
  BY <1>1, <1>2 DEF FInv, FunctionTypes, SettledRests
<1>5. BusyOnce' /\ DoneMarked'
  BY <1>1 DEF FInv, BusyOnce, DoneMarked, Interpolates
<1>6. ItemsExact'
  <2>1. Waiting' = {}
    BY <1>1, <1>2 DEF FInv, FunctionTypes, SettledRests, Waiting
  <2>2. Marked' = Marked /\ ThreadsIn(Marking)' = {}
    BY <1>1, <1>2 DEF Marked, ThreadsIn, Marking
  <2> QED BY <1>1, <2>1, <2>2, FS_EmptySet DEF FInv, ItemsExact
<1> QED BY <1>3, <1>4, <1>5, <1>6 DEF FInv

LEMMA StepItems == PInv /\ FInv /\ [Next]_vars => FInv'
<1> SUFFICES ASSUME PInv, FInv, [Next]_vars PROVE FInv'
  OBVIOUS
<1>1. CASE MainStep
  BY <1>1, MainItems, FirstProbeItems, SwitchItems DEF MainStep
<1>2. ASSUME NEW t \in Threads, ThreadStep(t) PROVE FInv'
  BY <1>2, ThreadStepItems
<1>3. CASE SpuriousWakeup
  BY <1>3, MainItems
<1>4. CASE UNCHANGED vars
  BY <1>4, MainPlainItems DEF vars, rec, items, locals
<1>5. ASSUME NEW t \in Threads, Abort(t) PROVE FInv'
  BY <1>5, MainPlainItems DEF Abort, rec, items, locals
<1> QED BY <1>1, <1>2, <1>3, <1>4, <1>5 DEF Next, Ended

\* feed_jobs and interpolate_jobs, each raised and lowered under its own mutex,
\* count the jobs that are left, and items_done and items_new_prime each
\* settled function once, under every interleaving of the jobs (feed_job,
\* interpolate_job, run_until_done).
THEOREM CountersStayExact == Spec => []CountersExact
<1>1. JInv /\ FInv => CountersExact
  BY DEF JInv, JobsExact, Running, FeedWork, InterpolateWork, Owed, FInv, ItemsExact, Marked,
         Waiting, Marking, CountersExact
<1> QED BY <1>1, InitServes, StepServes, InitJobs, StepJobs, InitItems, StepItems, PTL DEF Spec
-----------------------------------------------------------------------------
(***************************************************************************)
(* The loop never finds itself with nothing to feed.  The probes on their  *)
(* way are accounted for: in the first prime they are, with the credit,    *)
(* one more than the threads, and a credit of two leaves every function    *)
(* that goes on with a value that is not consumed yet; later they are, for *)
(* each function that goes on, what was started and is not consumed.       *)
(***************************************************************************)
Progress == Running /\ main \notin {"start", "first"}

\* Probes on their way to a feed job.
Coming == queued + SumFunctionOnSet(take, Threads) + SumFunction(feedTasks)

Feeders(o) == {t \in Threads : at[t] = "feed" /\ o \in left[t]}
Asks(t, o) == at[t] = "more" /\ output[t] = o
Wants(o) == \E t \in Threads : Asks(t, o)

WorkTypes ==
  /\ eaten \in [outputs -> Nat] /\ need \in [outputs -> Nat \ {0}]
  /\ take \in [Threads -> Nat] /\ left = [t \in Threads |-> left[t]]
  /\ \A t \in Threads : at[t] # "queue" => take[t] = 0
  /\ queued \in Int /\ started \in Nat /\ balance \in Nat /\ nextProbes \in Nat

\* No function that is not done is left behind in an earlier prime.
Lagging == \A o \in outputs : recDone[o] \/ recPrime[o] >= prime
AllSettled == \A o \in outputs : recDone[o] \/ recPrime[o] > prime

Stages ==
  /\ main \in {"start", "first"} => balance = 0 /\ queued = IF main = "first" THEN ThreadCount ELSE 0
  /\ ~finished => prime < PrimeLimit
  /\ main \in {"kill", "killing", "switch"} => finished \/ AllSettled
  /\ main = "switch" => ~finished
  /\ main # "nothingLeft"

Quieted ==
  main = "quiet" =>
    /\ queued = 0 /\ BagToSet(feedTasks) = {} /\ SumFunction(feedTasks) = 0
    /\ \A o \in outputs : interpolateTasks[o] = 0
    /\ \A t \in Threads : at[t] \notin Interpolating \cup {"feed"}

Credits ==
  Progress => /\ prime = 0 => Coming + balance = ThreadCount + 1
              /\ prime > 0 => started >= 1

\* What is known of a function that goes on.
Eats(o) ==
  /\ food[o] > 0 => busy[o] \/ interpolateTasks[o] > 0
  /\ eaten[o] < need[o]

Pending(o) == Feeders(o) # {} \/ food[o] > 0 \/ busy[o] \/ Wants(o)

Account(o) ==
  /\ prime = 0 /\ balance >= 2 => Pending(o)
  /\ prime > 0 => /\ eaten[o] + food[o] + Coming + Cardinality(Feeders(o)) = started
                  /\ eaten[o] = 0 \/ started >= need[o] \/ Wants(o)

Accounts == Progress => \A o \in Active : Eats(o) /\ Account(o)

WInv == WorkTypes /\ Lagging /\ Stages /\ Quieted /\ Credits /\ Accounts

LEMMA ComingType ==
  ASSUME JInv, WInv
  PROVE  /\ SumFunctionOnSet(take, Threads) \in Int /\ SumFunction(feedTasks) \in Int
         /\ Coming \in Int
         /\ \A o : IsFiniteSet(Feeders(o)) /\ Cardinality(Feeders(o)) \in Nat
<1>1. SumFunctionOnSet(take, Threads) \in Int
  BY PipelineAssumption, SumType DEF WInv, WorkTypes
<1>2. SumFunction(feedTasks) \in Int
  BY OwedTypes DEF JInv
<1>3. \A o : Feeders(o) \subseteq Threads
  BY DEF Feeders
<1>4. \A o : IsFiniteSet(Feeders(o)) /\ Cardinality(Feeders(o)) \in Nat
  BY <1>3, PipelineAssumption, FS_Subset, FS_CardinalityType
<1> QED BY <1>1, <1>2, <1>4 DEF Coming, WInv, WorkTypes

\* A thread takes over, or hands on, probes to start.
LEMMA TakeChange ==
  ASSUME WInv, NEW f \in Threads, NEW k \in Nat, take' = [take EXCEPT ![f] = k]
  PROVE  /\ take' \in [Threads -> Nat] /\ take'[f] = k
         /\ \A t \in Threads \ {f} : take'[t] = take[t]
         /\ SumFunctionOnSet(take', Threads) = SumFunctionOnSet(take, Threads) + (k - take[f])
<1>1. /\ take' \in [Threads -> Nat] /\ take'[f] = k
      /\ \A t \in Threads \ {f} : take'[t] = take[t]
  BY DEF WInv, WorkTypes
<1>2. Agree(take, take', Threads \ {f}) /\ Whole(take, Threads) /\ Whole(take', Threads)
  BY <1>1 DEF Agree, Whole, WInv, WorkTypes
<1>3. SumFunctionOnSet(take', Threads) = SumFunctionOnSet(take, Threads) + (take'[f] - take[f])
  <2>1. IsFiniteSet(Threads)
    BY PipelineAssumption
  <2> QED BY <1>2, <2>1, SumChange
<1> QED BY <1>1, <1>3

\* Where a thread is in a job, the main thread is past the first probe and has
\* not found the jobs at an end.
LEMMA JobAwake ==
  ASSUME PInv, WInv, NEW f \in Threads,
         \/ at[f] \in Interpolating \cup {"feed"}
         \/ BagToSet(feedTasks) # {}
         \/ \E o \in outputs : interpolateTasks[o] # 0
  PROVE  main \notin {"start", "first", "quiet"}
BY DEF PInv, Early, WInv, Quieted, Interpolating

LEMMA JobStages ==
  ASSUME PInv, WInv, UNCHANGED <<outputs, prime, finished>>, main' \in {main, Notify},
         main \notin {"start", "first", "quiet"},
         \A o \in outputs : /\ recDone[o] => recDone'[o]
                            /\ recPrime'[o] = recPrime[o] \/ recPrime'[o] = prime + 1
  PROVE  Lagging' /\ Stages' /\ Quieted' /\ (Progress' => Progress)
<1>1. prime \in Nat
  BY DEF PInv, Shapes
<1>2. Lagging'
  BY <1>1 DEF WInv, Lagging
<1>3. AllSettled => AllSettled'
  BY <1>1 DEF AllSettled
<1>4. main' = main \/ (main = "asleep" /\ main' = "woken")
  BY DEF Notify
<1>5. Stages' /\ Quieted'
  BY <1>3, <1>4 DEF WInv, Stages, Quieted
<1>6. Progress' => Progress
  BY <1>4 DEF Progress, Running
<1> QED BY <1>2, <1>5, <1>6

\* A step of f that starts no probe and moves no value.
LEMMA WorkPlain ==
  ASSUME PInv, WInv, NEW f \in Threads, Progress' => Progress,
         UNCHANGED <<outputs, prime, recDone, recPrime, food, busy, eaten, need>>,
         UNCHANGED <<started, balance, queued, take, left, feedTasks, interpolateTasks>>,
         nextProbes' \in Nat, output' = [output EXCEPT ![f] = output'[f]],
         at' = [at EXCEPT ![f] = at'[f]], at[f] \notin {"more", "queue"},
         at'[f] \notin {"more", "queue", "feed"}, at[f] = "feed" => left[f] = {}
  PROVE  WorkTypes' /\ Credits' /\ Accounts'
<1>1. \A t \in Threads \ {f} : at'[t] = at[t] /\ output'[t] = output[t]
  BY DEF PInv, Shapes
<1>2. at'[f] \notin {"more", "queue", "feed"} /\ at[f] \notin {"more", "queue"}
  OBVIOUS
<1>3. WorkTypes'
  <2>1. \A t \in Threads : at'[t] # "queue" => take[t] = 0
    BY <1>1, <1>2 DEF WInv, WorkTypes
  <2> QED BY <2>1 DEF WInv, WorkTypes
<1>4. Coming' = Coming /\ Active' = Active
  BY DEF Coming, Active
<1>5. \A o : Feeders(o)' = Feeders(o)
  BY <1>1, <1>2 DEF Feeders
<1>6. \A o : Wants(o)' <=> Wants(o)
  BY <1>1, <1>2 DEF Wants, Asks
<1>7. Credits'
  BY <1>4 DEF WInv, Credits
<1>8. ASSUME NEW o \in Active, Eats(o), Account(o) PROVE Eats(o)' /\ Account(o)'
  BY <1>4, <1>5, <1>6, <1>8 DEF Eats, Account, Pending
<1>9. Accounts'
  BY <1>4, <1>8 DEF WInv, Accounts
<1> QED BY <1>3, <1>7, <1>9

LEMMA ProbeWork ==
  ASSUME PInv, WInv, NEW f \in Threads,
         TakeProbe(f) \/ Select(f) \/ Collect(f) \/ Store(f) \/ Load(f) \/ Evaluate(f)
  PROVE  WInv'
<1>1. /\ UNCHANGED <<outputs, prime, recDone, recPrime, food, busy, eaten, need>>
      /\ UNCHANGED <<started, balance, queued, take, left, feedTasks, interpolateTasks>>
      /\ UNCHANGED <<main, finished, nextProbes, output>>
  <2>1. CASE TakeProbe(f) \/ Select(f) \/ Collect(f)
    BY <2>1 DEF TakeProbe, Select, Collect, rec, probes, plan, tasks, locals
  <2>2. CASE Store(f) \/ Load(f) \/ Evaluate(f)
    BY <2>2 DEF Store, Load, Evaluate, rec, probes, plan, tasks, locals
  <2> QED BY <2>1, <2>2
<1>2. /\ at' = [at EXCEPT ![f] = at'[f]]
      /\ at[f] \in {"idle", "select", "collect", "store", "load", "evaluate"}
      /\ at'[f] \in {"idle", "select", "collect", "store", "load", "evaluate"}
  <2>1. CASE TakeProbe(f) \/ Select(f) \/ Collect(f)
    BY <2>1 DEF TakeProbe, Select, Collect, Idle, Goto, PInv, Shapes
  <2>2. CASE Store(f) \/ Load(f) \/ Evaluate(f)
    BY <2>2 DEF Store, Load, Evaluate, Goto, PInv, Shapes
  <2> QED BY <2>1, <2>2
<1>3. Progress' => Progress
  BY <1>1 DEF Progress, Running
<1>4. output' = [output EXCEPT ![f] = output'[f]] /\ nextProbes' \in Nat
  BY <1>1 DEF PInv, Shapes, WInv, WorkTypes
<1>5. WorkTypes' /\ Credits' /\ Accounts'
  BY <1>1, <1>2, <1>3, <1>4, WorkPlain
<1>6. Lagging' /\ Stages'
  BY <1>1 DEF WInv, Lagging, Stages, AllSettled
<1>7. Quieted'
  <2>1. \A t \in Threads \ {f} : at'[t] = at[t]
    BY <1>2 DEF PInv, Shapes
  <2>2. at'[f] \notin Interpolating \cup {"feed"}
    BY <1>2 DEF Interpolating
  <2> QED BY <1>1, <2>1, <2>2 DEF WInv, Quieted
<1> QED BY <1>5, <1>6, <1>7 DEF WInv

\* The steps of a job that hand on nothing.
LEMMA RestWork ==
  ASSUME PInv, WInv, NEW f \in Threads,
         FeedEnd(f) \/ MarkDone(f) \/ MarkNext(f) \/ CountNext(f) \/ Estimate(f) \/ Close(f)
  PROVE  WInv'
<1>1. /\ UNCHANGED <<outputs, prime, recDone, recPrime, food, busy, eaten, need>>
      /\ UNCHANGED <<started, balance, queued, take, left, feedTasks, interpolateTasks, finished>>
      /\ main' \in {main, Notify}
  <2>1. CASE FeedEnd(f) \/ MarkDone(f) \/ MarkNext(f)
    BY <2>1 DEF FeedEnd, MarkDone, MarkNext, rec, probes, plan, tasks, locals
  <2>2. CASE CountNext(f) \/ Estimate(f) \/ Close(f)
    BY <2>2 DEF CountNext, Estimate, Close, rec, probes, plan, tasks, locals
  <2> QED BY <2>1, <2>2
<1>2. /\ at' = [at EXCEPT ![f] = at'[f]]
      /\ at[f] \in {"feed", "markDone", "markNext", "countNext", "estimate", "close"}
      /\ at[f] = "feed" => left[f] = {}
      /\ at'[f] \in {"idle", "countNext", "estimate", "close"}
      /\ output' = [output EXCEPT ![f] = output'[f]]
  <2>1. CASE FeedEnd(f) \/ MarkDone(f) \/ MarkNext(f)
    BY <2>1 DEF FeedEnd, MarkDone, MarkNext, Goto, locals, PInv, Shapes
  <2>2. CASE CountNext(f) \/ Estimate(f) \/ Close(f)
    BY <2>2 DEF CountNext, Estimate, Close, Goto, locals, PInv, Shapes
  <2> QED BY <2>1, <2>2
<1>3. nextProbes' \in Nat
  <2>1. CASE Estimate(f)
    BY <2>1 DEF Estimate, Larger, WInv, WorkTypes
  <2>2. CASE FeedEnd(f) \/ MarkDone(f) \/ MarkNext(f) \/ CountNext(f) \/ Close(f)
    BY <2>2 DEF FeedEnd, MarkDone, MarkNext, CountNext, Close, plan, WInv, WorkTypes
  <2> QED BY <2>1, <2>2
<1>4. main \notin {"start", "first", "quiet"}
  <2>1. at[f] \in Interpolating \cup {"feed"}
    BY <1>2 DEF Interpolating
  <2> QED BY <2>1, JobAwake
<1>5. Lagging' /\ Stages' /\ Quieted' /\ (Progress' => Progress)
  BY <1>1, <1>4, JobStages
<1>6. WorkTypes' /\ Credits' /\ Accounts'
  BY <1>1, <1>2, <1>3, <1>5, WorkPlain
<1> QED BY <1>5, <1>6 DEF WInv

\* A feed job begins: every function that goes on is one it feeds.
LEMMA TakeFeedWork ==
  ASSUME PInv, JInv, FInv, WInv, NEW f \in Threads, TakeFeed(f)
  PROVE  WInv'
<1>1. PICK p \in BagToSet(feedTasks) :
        /\ at[f] = "idle" /\ at' = [at EXCEPT ![f] = "feed"]
        /\ left' = [left EXCEPT ![f] = p.outputs]
        /\ feedTasks' = feedTasks (-) SetToBag({p})
        /\ balance' = IF prime = 0 THEN balance + 1 ELSE balance
        /\ UNCHANGED <<outputs, prime, main, finished, recDone, recPrime, food, busy, eaten, need>>
        /\ UNCHANGED <<started, queued, take, interpolateTasks, nextProbes, output>>
  BY DEF TakeFeed, Idle, Goto, rec, probes
<1>2. main \notin {"start", "first", "quiet"}
  BY JobAwake
<1>3. Lagging' /\ Stages' /\ Quieted' /\ (Progress' => Progress)
  BY <1>1, <1>2, JobStages
<1>4. /\ SumFunction(feedTasks') = SumFunction(feedTasks) - 1
      /\ Active \subseteq p.outputs /\ Active' = Active
  BY <1>1, BagTakes DEF JInv, JobTypes, PInv, SharedServe, Serves, Active
<1>5. /\ \A t \in Threads \ {f} : at'[t] = at[t] /\ left'[t] = left[t]
      /\ at'[f] = "feed" /\ left'[f] = p.outputs
      /\ left' = [t \in Threads |-> left'[t]]
  BY <1>1 DEF PInv, Shapes, WInv, WorkTypes
<1>6. WorkTypes'
  <2>1. \A t \in Threads : at'[t] # "queue" => take[t] = 0
    BY <1>1, <1>5 DEF WInv, WorkTypes
  <2> QED BY <1>1, <1>5, <2>1 DEF WInv, WorkTypes
<1>7. Coming' = Coming - 1
  BY <1>1, <1>4, ComingType DEF Coming, WInv, WorkTypes
<1>8. Credits'
  BY <1>1, <1>3, <1>7, ComingType DEF WInv, Credits, WorkTypes
<1>9. ASSUME NEW o \in Active, Eats(o), Account(o) PROVE Eats(o)' /\ Account(o)'
  <2>1. Feeders(o)' = Feeders(o) \cup {f} /\ f \notin Feeders(o)
    BY <1>1, <1>4, <1>5 DEF Feeders
  <2>2. Cardinality(Feeders(o)') = Cardinality(Feeders(o)) + 1
    BY <2>1, ComingType, FS_AddElement
  <2>3. Wants(o) => Wants(o)'
    BY <1>1, <1>5 DEF Wants, Asks
  <2>4. Eats(o)'
    BY <1>1, <1>9 DEF Eats
  <2>5. Pending(o)'
    BY <2>1 DEF Pending
  <2>6. ASSUME prime > 0
        PROVE  eaten[o] + food[o] + Coming' + Cardinality(Feeders(o)') = started
    <3>1. eaten[o] + food[o] + Coming + Cardinality(Feeders(o)) = started
      BY <1>9, <2>6 DEF Account
    <3>2. eaten[o] \in Nat /\ food[o] \in Nat
      BY DEF Active, WInv, WorkTypes, FInv, FunctionTypes
    <3> QED BY <1>7, <2>2, <3>1, <3>2, ComingType
  <2> QED BY <1>1, <1>9, <2>3, <2>4, <2>5, <2>6 DEF Account
<1>10. Accounts'
  BY <1>3, <1>4, <1>9 DEF WInv, Accounts
<1> QED BY <1>3, <1>6, <1>8, <1>10 DEF WInv

\* A value is fed: it is inside its function now.
LEMMA FeedValueWork ==
  ASSUME PInv, JInv, FInv, WInv, NEW f \in Threads, Feed(f)
  PROVE  WInv'
<1>1. PICK o \in left[f] :
        /\ at[f] = "feed" /\ left' = [left EXCEPT ![f] = left[f] \ {o}]
        /\ \/ /\ o \in Active /\ food' = [food EXCEPT ![o] = food[o] + 1]
              /\ interpolateTasks' = [interpolateTasks EXCEPT ![o] =
                                        IF busy[o] THEN interpolateTasks[o] ELSE interpolateTasks[o] + 1]
           \/ o \notin Active /\ UNCHANGED <<food, interpolateTasks>>
        /\ UNCHANGED <<outputs, prime, main, finished, recDone, recPrime, busy, eaten, need>>
        /\ UNCHANGED <<started, balance, queued, take, feedTasks, nextProbes, at, output>>
  BY DEF Feed, probes, plan
<1>2. main \notin {"start", "first", "quiet"}
  BY <1>1, JobAwake
<1>3. Lagging' /\ Stages' /\ Quieted' /\ (Progress' => Progress)
  BY <1>1, <1>2, JobStages
<1>4. /\ \A t \in Threads \ {f} : left'[t] = left[t]
      /\ left'[f] = left[f] \ {o} /\ left' = [t \in Threads |-> left'[t]]
  BY <1>1 DEF WInv, WorkTypes
<1>5. WorkTypes'
  BY <1>1, <1>4 DEF WInv, WorkTypes
<1>6. Coming' = Coming /\ Active' = Active /\ Active \subseteq outputs
  BY <1>1 DEF Coming, Active
<1>7. Credits'
  BY <1>1, <1>3, <1>6 DEF WInv, Credits
<1>8. \A q : Wants(q)' <=> Wants(q)
  BY <1>1 DEF Wants, Asks
<1>9. ASSUME NEW q \in Active, Eats(q), Account(q), q # o PROVE Eats(q)' /\ Account(q)'
  <2>1. Feeders(q)' = Feeders(q)
    BY <1>1, <1>4, <1>9 DEF Feeders
  <2>2. food'[q] = food[q] /\ interpolateTasks'[q] = interpolateTasks[q]
    BY <1>1, <1>6, <1>9 DEF FInv, FunctionTypes, JInv, JobTypes
  <2> QED BY <1>1, <1>6, <1>8, <1>9, <2>1, <2>2 DEF Eats, Account, Pending
<1>10. ASSUME o \in Active, Eats(o), Account(o) PROVE Eats(o)' /\ Account(o)'
  <2>1. /\ food'[o] = food[o] + 1 /\ food[o] \in Nat /\ interpolateTasks[o] \in Nat
        /\ busy[o] \/ interpolateTasks'[o] = interpolateTasks[o] + 1
    BY <1>1, <1>6, <1>10 DEF FInv, FunctionTypes, JInv, JobTypes
  <2>2. Eats(o)'
    BY <1>1, <1>10, <2>1 DEF Eats
  <2>3. Feeders(o)' = Feeders(o) \ {f} /\ f \in Feeders(o)
    BY <1>1, <1>4 DEF Feeders
  <2>4. Cardinality(Feeders(o)') = Cardinality(Feeders(o)) - 1
    BY <2>3, ComingType, FS_RemoveElement
  <2>5. Pending(o)'
    BY <2>1 DEF Pending
  <2>6. ASSUME prime > 0
        PROVE  eaten[o] + food'[o] + Coming + Cardinality(Feeders(o)') = started
    <3>1. eaten[o] + food[o] + Coming + Cardinality(Feeders(o)) = started
      BY <1>10, <2>6 DEF Account
    <3>2. eaten[o] \in Nat
      BY <1>6, <1>10 DEF WInv, WorkTypes
    <3> QED BY <2>1, <2>4, <3>1, <3>2, ComingType
  <2> QED BY <1>1, <1>6, <1>8, <1>10, <2>2, <2>5, <2>6 DEF Account
<1>11. Accounts'
  BY <1>3, <1>6, <1>9, <1>10 DEF WInv, Accounts
<1> QED BY <1>3, <1>5, <1>7, <1>11 DEF WInv

\* An interpolation job begins: a function that has something to consume and
\* that nobody is at is taken in hand.
LEMMA TakeInterpolateWork ==
  ASSUME PInv, JInv, FInv, WInv, NEW f \in Threads, TakeInterpolate(f)
  PROVE  WInv'
<1>1. PICK o \in outputs :
        /\ at[f] = "idle" /\ interpolateTasks[o] > 0
        /\ interpolateTasks' = [interpolateTasks EXCEPT ![o] = interpolateTasks[o] - 1]
        /\ output' = [output EXCEPT ![f] = o]
        /\ busy' = [busy EXCEPT ![o] = busy[o] \/ Proceeds(o)]
        /\ at' = [at EXCEPT ![f] = at'[f]] /\ at'[f] \in {"interpolate", "close"}
        /\ UNCHANGED <<outputs, prime, main, finished, recDone, recPrime, food, eaten, need>>
        /\ UNCHANGED <<started, balance, queued, take, feedTasks, nextProbes, left, status>>
  BY DEF TakeInterpolate, Idle, Goto, probes, plan, PInv, Shapes
<1>2. main \notin {"start", "first", "quiet"}
  BY <1>1, JobAwake DEF JInv, JobTypes
<1>3. Lagging' /\ Stages' /\ Quieted' /\ (Progress' => Progress)
  BY <1>1, <1>2, JobStages
<1>4. \A t \in Threads \ {f} : at'[t] = at[t] /\ output'[t] = output[t]
  BY <1>1 DEF PInv, Shapes
<1>5. WorkTypes'
  <2>1. \A t \in Threads : at'[t] # "queue" => take[t] = 0
    BY <1>1, <1>4 DEF WInv, WorkTypes
  <2> QED BY <1>1, <2>1 DEF WInv, WorkTypes
<1>6. Coming' = Coming /\ Active' = Active /\ Active \subseteq outputs
  BY <1>1 DEF Coming, Active
<1>7. Credits'
  BY <1>1, <1>3, <1>6 DEF WInv, Credits
<1>8. \A q : (Wants(q) => Wants(q)') /\ Feeders(q)' = Feeders(q)
  BY <1>1, <1>4 DEF Wants, Asks, Feeders
<1>9. ASSUME NEW q \in Active, Eats(q), Account(q) PROVE Eats(q)' /\ Account(q)'
  <2>1. status[q] = "RECONSTRUCTING"
    BY <1>6, <1>9 DEF PInv, StatusTrue, Active
  <2>2. busy[q] => busy'[q]
    BY <1>1, <1>6, <1>9 DEF FInv, FunctionTypes
  <2>3. CASE q = o
    <3>1. food[q] > 0 => busy'[q]
      BY <1>1, <2>1, <2>3 DEF FInv, FunctionTypes, Proceeds
    <3>2. Eats(q)'
      BY <1>1, <1>9, <3>1 DEF Eats
    <3> QED BY <1>1, <1>6, <1>8, <1>9, <2>2, <3>2 DEF Account, Pending
  <2>4. CASE q # o
    <3>1. interpolateTasks'[q] = interpolateTasks[q]
      BY <1>1, <1>6, <1>9, <2>4 DEF JInv, JobTypes
    <3>2. Eats(q)'
      BY <1>1, <1>9, <2>2, <3>1 DEF Eats
    <3> QED BY <1>1, <1>6, <1>8, <1>9, <2>2, <3>2 DEF Account, Pending
  <2> QED BY <2>3, <2>4
<1>10. Accounts'
  BY <1>3, <1>6, <1>9 DEF WInv, Accounts
<1> QED BY <1>3, <1>5, <1>7, <1>10 DEF WInv

\* interpolate returns: what was fed is consumed.
LEMMA InterpolatedWork ==
  ASSUME PInv, JInv, FInv, WInv, NEW f \in Threads, Interpolate(f)
  PROVE  WInv'
<1> DEFINE o == output[f]
<1>1. /\ at[f] = "interpolate" /\ o \in outputs
      /\ at' = [at EXCEPT ![f] = at'[f]] /\ at'[f] \in {"markDone", "markNext", "more"}
      /\ busy' = [busy EXCEPT ![o] = FALSE] /\ food' = [food EXCEPT ![o] = 0]
      /\ eaten' = [eaten EXCEPT ![o] = Smaller(eaten[o] + food[o], need[o])]
      /\ UNCHANGED <<outputs, prime, main, finished, need, started, balance, queued, take>>
      /\ UNCHANGED <<feedTasks, interpolateTasks, nextProbes, left, output>>
  BY DEF Interpolate, Goto, Interpolating, probes, plan, tasks, locals, PInv, Shapes, ThreadServes
<1>2. \/ recDone' = [recDone EXCEPT ![o] = TRUE] /\ UNCHANGED recPrime
      \/ recPrime' = [recPrime EXCEPT ![o] = prime + 1] /\ UNCHANGED recDone
      \/ ~Settles(o) /\ UNCHANGED <<recPrime, recDone>> /\ at'[f] = "more"
  BY DEF Interpolate, Goto, PInv, Shapes
<1>3. main \notin {"start", "first", "quiet"}
  <2>1. at[f] \in Interpolating \cup {"feed"}
    BY <1>1 DEF Interpolating
  <2> QED BY <2>1, JobAwake
<1>4. /\ \A q \in outputs : /\ recDone[q] => recDone'[q]
                            /\ recPrime'[q] = recPrime[q] \/ recPrime'[q] = prime + 1
      /\ \A q \in outputs \ {o} : recDone'[q] = recDone[q] /\ recPrime'[q] = recPrime[q]
  BY <1>1, <1>2 DEF FInv, FunctionTypes
<1>5. Lagging' /\ Stages' /\ Quieted' /\ (Progress' => Progress)
  BY <1>1, <1>3, <1>4, JobStages
<1>6. \A t \in Threads \ {f} : at'[t] = at[t]
  BY <1>1 DEF PInv, Shapes
<1>7. eaten[o] \in Nat /\ food[o] \in Nat /\ need[o] \in Nat /\ prime \in Nat
  BY <1>1 DEF WInv, WorkTypes, FInv, FunctionTypes, PInv, Shapes
<1>8. WorkTypes'
  <2>1. \A t \in Threads : at'[t] # "queue" => take[t] = 0
    BY <1>1, <1>6 DEF WInv, WorkTypes
  <2>2. Smaller(eaten[o] + food[o], need[o]) \in Nat
    BY <1>7 DEF Smaller
  <2>3. eaten' \in [outputs -> Nat]
    BY <1>1, <2>2 DEF WInv, WorkTypes
  <2> QED BY <1>1, <2>1, <2>3 DEF WInv, WorkTypes
<1>9. Coming' = Coming
  BY <1>1 DEF Coming
<1>10. Credits'
  BY <1>1, <1>5, <1>9 DEF WInv, Credits
<1>11. \A q : Feeders(q)' = Feeders(q)
  BY <1>1, <1>6 DEF Feeders
<1>12. ASSUME NEW q \in Active', q # o
       PROVE  q \in Active /\ (Eats(q) /\ Account(q) => Eats(q)' /\ Account(q)')
  <2>1. q \in outputs /\ q \in Active
    BY <1>1, <1>4, <1>12 DEF Active
  <2>2. busy'[q] = busy[q] /\ food'[q] = food[q] /\ eaten'[q] = eaten[q]
    BY <1>1, <1>12, <2>1 DEF FInv, FunctionTypes, WInv, WorkTypes
  <2>3. Wants(q) => Wants(q)'
    BY <1>1, <1>6 DEF Wants, Asks
  <2>4. Eats(q) => Eats(q)'
    BY <1>1, <2>2 DEF Eats
  <2>5. Account(q) => Account(q)'
    <3>1. Pending(q) => Pending(q)'
      BY <1>11, <2>2, <2>3 DEF Pending
    <3> QED BY <1>1, <1>9, <1>11, <2>2, <2>3, <3>1 DEF Account
  <2> QED BY <2>1, <2>4, <2>5
<1>13. ASSUME NEW q \in Active', q = o
       PROVE  q \in Active /\ (Eats(q) /\ Account(q) => Eats(q)' /\ Account(q)')
  <2>1. ~Settles(q) /\ UNCHANGED <<recPrime, recDone>> /\ at'[f] = "more"
    <3>1. ~recDone'[q] /\ recPrime'[q] = prime
      BY <1>1, <1>13 DEF Active
    <3> QED BY <1>1, <1>2, <1>7, <1>13, <3>1 DEF FInv, FunctionTypes
  <2>2. q \in Active
    BY <1>1, <1>13, <2>1 DEF Active
  <2>3. food'[q] = 0 /\ eaten'[q] = eaten[q] + food[q] /\ eaten'[q] < need[q]
    BY <1>1, <1>7, <1>13, <2>1 DEF FInv, FunctionTypes, WInv, WorkTypes, Smaller, Settles
  <2>4. Wants(q)'
    BY <1>1, <1>13, <2>1 DEF Wants, Asks
  <2>5. Eats(q)' /\ Pending(q)'
    BY <1>1, <2>3, <2>4 DEF Eats, Pending
  <2>6. ASSUME Account(q), prime > 0
        PROVE  eaten'[q] + food'[q] + Coming + Cardinality(Feeders(q)) = started
    <3>1. eaten[q] + food[q] + Coming + Cardinality(Feeders(q)) = started
      BY <2>6 DEF Account
    <3> QED BY <1>7, <1>13, <2>3, <3>1, ComingType
  <2>7. Account(q) => Account(q)'
    BY <1>1, <1>9, <1>11, <2>4, <2>5, <2>6 DEF Account
  <2> QED BY <2>2, <2>5, <2>7
<1>14. Accounts'
  <2>1. ASSUME Progress', NEW q \in Active' PROVE Eats(q)' /\ Account(q)'
    <3>1. q \in Active /\ (Eats(q) /\ Account(q) => Eats(q)' /\ Account(q)')
      BY <1>12, <1>13
    <3> QED BY <1>5, <2>1, <3>1 DEF WInv, Accounts
  <2> QED BY <2>1 DEF Accounts
<1> QED BY <1>5, <1>8, <1>10, <1>14 DEF WInv

\* A function asks for more: what is started is on its way.
LEMMA MoreWork ==
  ASSUME PInv, JInv, FInv, WInv, NEW f \in Threads, More(f)
  PROVE  WInv'
<1> DEFINE o == output[f]
           k == ToStart(o)
<1>1. /\ at[f] = "more" /\ o \in outputs
      /\ at' = [at EXCEPT ![f] = "queue"] /\ take' = [take EXCEPT ![f] = k]
      /\ started' = started + k /\ balance' = IF prime = 0 THEN 0 ELSE balance
      /\ UNCHANGED <<outputs, prime, main, finished, need, queued, food, busy, eaten>>
      /\ UNCHANGED <<feedTasks, interpolateTasks, nextProbes, left, output, recPrime, recDone>>
  BY DEF More, Goto, Interpolating, rec, probes, tasks, PInv, Shapes, ThreadServes
<1>2. main \notin {"start", "first", "quiet"}
  <2>1. at[f] \in Interpolating \cup {"feed"}
    BY <1>1 DEF Interpolating
  <2> QED BY <2>1, JobAwake
<1>3. Lagging' /\ Stages' /\ Quieted' /\ (Progress' => Progress)
  BY <1>1, <1>2, JobStages
<1>4. (\A t \in Threads \ {f} : at'[t] = at[t]) /\ at'[f] = "queue"
  BY <1>1 DEF PInv, Shapes
<1>5. /\ k \in Nat /\ need[o] \in Nat /\ started \in Nat /\ balance \in Nat /\ prime \in Nat
      /\ prime = 0 => k = balance
      /\ prime > 0 => started + k >= need[o]
  BY <1>1 DEF ToStart, Credit, Larger, WInv, WorkTypes, PInv, Shapes
<1> HIDE DEF k
<1>6. /\ take' \in [Threads -> Nat] /\ \A t \in Threads \ {f} : take'[t] = take[t]
      /\ SumFunctionOnSet(take', Threads) = SumFunctionOnSet(take, Threads) + k
  <2>1. take[f] = 0
    BY <1>1 DEF WInv, WorkTypes
  <2>2. /\ take' \in [Threads -> Nat] /\ \A t \in Threads \ {f} : take'[t] = take[t]
        /\ SumFunctionOnSet(take', Threads) = SumFunctionOnSet(take, Threads) + (k - take[f])
    BY <1>1, <1>5, TakeChange
  <2> QED BY <1>5, <2>1, <2>2
<1>7. Coming' = Coming + k
  BY <1>1, <1>5, <1>6, ComingType DEF Coming, WInv, WorkTypes
<1>8. WorkTypes'
  <2>1. \A t \in Threads : at'[t] # "queue" => take'[t] = 0
    BY <1>1, <1>4, <1>6 DEF WInv, WorkTypes
  <2> QED BY <1>1, <1>5, <1>6, <2>1 DEF WInv, WorkTypes
<1>9. Credits'
  <2>1. ASSUME Progress, prime = 0 PROVE Coming' + balance' = ThreadCount + 1
    <3>1. Coming + balance = ThreadCount + 1
      BY <2>1 DEF WInv, Credits
    <3> QED BY <1>1, <1>5, <1>7, <2>1, <3>1, ComingType
  <2>2. ASSUME Progress, prime > 0 PROVE started' >= 1
    BY <1>1, <1>5, <2>2 DEF WInv, Credits
  <2> QED BY <1>1, <1>3, <2>1, <2>2 DEF Credits
<1>10. \A q : Feeders(q)' = Feeders(q)
  BY <1>1, <1>4 DEF Feeders
<1>11. Active' = Active /\ Active \subseteq outputs
  BY <1>1 DEF Active
<1>12. ASSUME NEW q \in Active, Eats(q), Account(q) PROVE Eats(q)' /\ Account(q)'
  <2>1. Eats(q)'
    BY <1>1, <1>12 DEF Eats
  <2>2. CASE prime = 0
    BY <1>1, <2>1, <2>2 DEF Account
  <2>3. CASE prime > 0
    <3>1. eaten[q] + food[q] + Coming + Cardinality(Feeders(q)) = started
      BY <1>12, <2>3 DEF Account
    <3>2. eaten[q] \in Nat /\ food[q] \in Nat /\ need[q] \in Nat
      BY <1>11 DEF WInv, WorkTypes, FInv, FunctionTypes
    <3>3. eaten[q] + food[q] + Coming' + Cardinality(Feeders(q)) = started'
      BY <1>1, <1>5, <1>7, <3>1, <3>2, ComingType
    <3>4. eaten[q] = 0 \/ started' >= need[q] \/ Wants(q)'
      <4>1. CASE q = o
        BY <1>1, <1>5, <2>3, <4>1
      <4>2. CASE q # o
        <5>1. Wants(q) => Wants(q)'
          BY <1>1, <1>4, <4>2 DEF Wants, Asks
        <5> QED BY <1>1, <1>5, <1>12, <2>3, <3>2, <5>1 DEF Account
      <4> QED BY <4>1, <4>2
    <3> QED BY <1>1, <1>10, <2>1, <2>3, <3>3, <3>4 DEF Account
  <2> QED BY <1>5, <2>2, <2>3
<1>13. Accounts'
  BY <1>3, <1>11, <1>12 DEF WInv, Accounts
<1> QED BY <1>3, <1>8, <1>9, <1>13 DEF WInv

\* The probes are queued.
LEMMA QueueWork ==
  ASSUME PInv, JInv, WInv, NEW f \in Threads, Queue(f)
  PROVE  WInv'
<1>1. /\ at[f] = "queue" /\ at' = [at EXCEPT ![f] = "close"]
      /\ take' = [take EXCEPT ![f] = 0] /\ queued' = queued + take[f]
      /\ UNCHANGED <<outputs, prime, main, finished, need, food, busy, eaten, started, balance>>
      /\ UNCHANGED <<feedTasks, interpolateTasks, nextProbes, left, output, recPrime, recDone>>
  BY DEF Queue, QueueProbes, Goto, rec, plan
<1>2. main \notin {"start", "first", "quiet"}
  <2>1. at[f] \in Interpolating \cup {"feed"}
    BY <1>1 DEF Interpolating
  <2> QED BY <2>1, JobAwake
<1>3. Lagging' /\ Stages' /\ Quieted' /\ (Progress' => Progress)
  BY <1>1, <1>2, JobStages
<1>4. (\A t \in Threads \ {f} : at'[t] = at[t]) /\ at'[f] = "close"
  BY <1>1 DEF PInv, Shapes
<1>5. take[f] \in Nat /\ queued \in Int
  BY DEF WInv, WorkTypes
<1>6. /\ take' \in [Threads -> Nat] /\ \A t \in Threads \ {f} : take'[t] = take[t]
      /\ take'[f] = 0
      /\ SumFunctionOnSet(take', Threads) = SumFunctionOnSet(take, Threads) + (0 - take[f])
  BY <1>1, TakeChange
<1>7. Coming' = Coming
  BY <1>1, <1>5, <1>6, ComingType DEF Coming
<1>8. WorkTypes'
  <2>1. \A t \in Threads : at'[t] # "queue" => take'[t] = 0
    BY <1>1, <1>4, <1>6 DEF WInv, WorkTypes
  <2> QED BY <1>1, <1>5, <1>6, <2>1 DEF WInv, WorkTypes
<1>9. Credits'
  BY <1>1, <1>3, <1>7 DEF WInv, Credits
<1>10. Active' = Active /\ \A q : Feeders(q)' = Feeders(q)
  BY <1>1, <1>4 DEF Feeders, Active
<1>11. \A q : Wants(q) => Wants(q)'
  BY <1>1, <1>4 DEF Wants, Asks
<1>12. ASSUME NEW q \in Active, Eats(q), Account(q) PROVE Eats(q)' /\ Account(q)'
  <2>1. Eats(q)'
    BY <1>1, <1>12 DEF Eats
  <2>2. Pending(q) => Pending(q)'
    BY <1>1, <1>10, <1>11 DEF Pending
  <2> QED BY <1>1, <1>7, <1>10, <1>11, <1>12, <2>1, <2>2 DEF Account
<1>13. Accounts'
  BY <1>3, <1>10, <1>12 DEF WInv, Accounts
<1> QED BY <1>3, <1>8, <1>9, <1>13 DEF WInv

LEMMA ThreadStepWork ==
  ASSUME PInv, JInv, FInv, WInv, NEW f \in Threads, ThreadStep(f)
  PROVE  WInv'
BY ProbeWork, RestWork, TakeFeedWork, FeedValueWork, TakeInterpolateWork, InterpolatedWork,
   MoreWork, QueueWork DEF ThreadStep

LEMMA InitWork == Init => WInv
<1> SUFFICES ASSUME Init PROVE WInv
  OBVIOUS
<1>1. /\ outputs \in DOMAIN Needs /\ 0 \in 0 .. PrimeLimit /\ PrimeLimit > 0
      /\ need \in Needs[outputs][0]
  BY PipelineAssumption DEF Init
<1>2. need \in [outputs -> Nat \ {0}]
  BY <1>1, PipelineAssumption
<1>3. WorkTypes
  BY <1>2 DEF Init, WorkTypes
<1>4. Lagging /\ Stages
  BY <1>1 DEF Init, Lagging, Stages
<1>5. Quieted /\ Credits /\ Accounts
  BY DEF Init, Quieted, Credits, Accounts, Progress
<1> QED BY <1>3, <1>4, <1>5 DEF WInv

\* What the counters say when the main thread reads them.
LEMMA SettledMeans ==
  ASSUME PInv, FInv, Settled
  PROVE  AllSettled
<1>1. /\ IsFiniteSet(Marked) /\ IsFiniteSet(Waiting) /\ IsFiniteSet(outputs)
      /\ IsFiniteSet(Marked \cup Waiting) /\ Marked \cup Waiting \in SUBSET outputs
      /\ Cardinality(outputs) \in Nat
      /\ Cardinality(Marked) \in Nat /\ Cardinality(Waiting) \in Nat
      /\ Cardinality(Marked \cup Waiting) \in Nat
  BY OutputsFinite DEF Marked, Waiting, FInv, FunctionTypes
<1>2. Marked \cap Waiting = {}
  <2>1. \A o \in outputs : status[o] = "DONE" => ~(recPrime[o] > prime)
    BY DEF PInv, Shapes, StatusTrue, FInv, FunctionTypes, SettledRests
  <2> QED BY <2>1 DEF Marked, Waiting
<1>3. Cardinality(Marked \cup Waiting) = Cardinality(Marked) + Cardinality(Waiting)
  <2>1. Cardinality(Marked \cup Waiting)
          = Cardinality(Marked) + Cardinality(Waiting) - Cardinality(Marked \cap Waiting)
    BY <1>1, FS_Union
  <2>2. Cardinality(Marked \cap Waiting) = 0
    BY <1>2, FS_EmptySet
  <2> QED BY <1>1, <2>1, <2>2
<1>4. Cardinality(Marked \cup Waiting) >= Cardinality(outputs)
  BY <1>1, <1>3, PlacesFinite DEF Settled, FInv, ItemsExact
<1>5. Marked \cup Waiting = outputs
  <2>1. Cardinality(Marked \cup Waiting) <= Cardinality(outputs)
    BY <1>1, FS_Subset
  <2>2. Cardinality(Marked \cup Waiting) = Cardinality(outputs)
    BY <1>1, <1>4, <2>1
  <2> QED BY <1>1, <2>2, FS_Subset
<1> QED BY <1>5 DEF Marked, Waiting, AllSettled, PInv, StatusTrue

\* Where nothing is left to run, every function is settled and counted.
LEMMA QuietSettles ==
  ASSUME PInv, JInv, FInv, WInv, main = "quiet", NothingRuns
  PROVE  Settled
<1>1. /\ queued = 0 /\ SumFunction(feedTasks) = 0 /\ \A o \in outputs : interpolateTasks[o] = 0
      /\ \A t \in Threads : at[t] = "idle" /\ take[t] = 0
  BY DEF WInv, Quieted, WorkTypes, NothingRuns
<1>2. Coming = 0
  <2>1. SumFunctionOnSet(take, Threads) = 0
    BY <1>1, PipelineAssumption, SumZeros
  <2> QED BY <1>1, <2>1 DEF Coming
<1>3. Progress
  BY DEF Progress, Running
<1>4. \A o : Feeders(o) = {} /\ ~Wants(o)
  BY <1>1 DEF Feeders, Wants, Asks
<1>5. ASSUME NEW o \in Active PROVE FALSE
  <2>1. Eats(o) /\ Account(o) /\ o \in outputs
    BY <1>3, <1>5 DEF WInv, Accounts, Active
  <2>2. ~busy[o]
    BY <1>1, <2>1 DEF FInv, BusyOnce, Interpolates
  <2>3. food[o] = 0 /\ eaten[o] < need[o] /\ eaten[o] \in Nat /\ need[o] \in Nat
    BY <1>1, <2>1, <2>2 DEF Eats, FInv, FunctionTypes, WInv, WorkTypes
  <2>4. ~Pending(o)
    BY <1>4, <2>2, <2>3 DEF Pending
  <2>5. prime \in Nat /\ balance \in Nat /\ started \in Nat
    BY DEF PInv, Shapes, WInv, WorkTypes
  <2>6. CASE prime = 0
    <3>1. ThreadCount \in Nat /\ ThreadCount # 0
      BY PipelineAssumption, FS_CardinalityType, FS_EmptySet DEF ThreadCount
    <3>2. Coming + balance = ThreadCount + 1
      BY <1>3, <2>6 DEF WInv, Credits
    <3>3. balance >= 2
      BY <1>2, <2>5, <3>1, <3>2
    <3> QED BY <2>1, <2>4, <2>6, <3>3 DEF Account
  <2>7. CASE prime > 0
    <3>1. started >= 1
      BY <1>3, <2>7 DEF WInv, Credits
    <3>2. eaten[o] + food[o] + Coming + Cardinality(Feeders(o)) = started
      BY <2>1, <2>7 DEF Account
    <3>3. Cardinality(Feeders(o)) = 0
      BY <1>4, FS_EmptySet
    <3>4. eaten[o] = started
      BY <1>2, <2>3, <2>5, <3>2, <3>3
    <3>5. eaten[o] = 0 \/ started >= need[o]
      BY <1>4, <2>1, <2>7 DEF Account
    <3> QED BY <2>3, <2>5, <3>1, <3>4, <3>5
  <2> QED BY <2>5, <2>6, <2>7
<1>6. Marked \cup Waiting = outputs
  <2>1. ASSUME NEW o \in outputs PROVE status[o] = "DONE" \/ recPrime[o] > prime
    <3>1. recDone[o] => status[o] = "DONE"
      BY <1>1 DEF FInv, DoneMarked
    <3>2. recPrime[o] \in Nat /\ prime \in Nat
      BY DEF FInv, FunctionTypes, PInv, Shapes
    <3>3. recDone[o] \/ recPrime[o] # prime
      BY <1>5 DEF Active
    <3> QED BY <3>1, <3>2, <3>3 DEF WInv, Lagging
  <2> QED BY <2>1 DEF Marked, Waiting
<1>7. Marked \cap Waiting = {}
  <2>1. \A o \in outputs : status[o] = "DONE" => ~(recPrime[o] > prime)
    BY DEF PInv, Shapes, StatusTrue, FInv, FunctionTypes, SettledRests
  <2> QED BY <2>1 DEF Marked, Waiting
<1>8. /\ IsFiniteSet(Marked) /\ IsFiniteSet(Waiting)
      /\ Cardinality(Marked) \in Nat /\ Cardinality(Waiting) \in Nat
  BY OutputsFinite DEF Marked, Waiting, FInv, FunctionTypes
<1>9. Cardinality(outputs) = Cardinality(Marked) + Cardinality(Waiting)
  BY <1>6, <1>7, <1>8, FS_Union, FS_EmptySet
<1>10. Cardinality(ThreadsIn(Marking)) = 0
  <2>1. ThreadsIn(Marking) = {}
    BY <1>1 DEF ThreadsIn, Marking
  <2> QED BY <2>1, FS_EmptySet
<1> QED BY <1>8, <1>9, <1>10 DEF Settled, FInv, ItemsExact

\* A step of the main thread that leaves the probes and the functions alone.
LEMMA WorkStays ==
  ASSUME WInv, Progress' => Progress,
         UNCHANGED <<outputs, prime, recDone, recPrime, food, busy, eaten, need>>,
         UNCHANGED <<started, balance, queued, nextProbes, feedTasks, interpolateTasks>>,
         UNCHANGED <<take, left, at, output>>
  PROVE  WorkTypes' /\ Lagging' /\ Credits' /\ Accounts' /\ (AllSettled => AllSettled')
<1>1. WorkTypes' /\ Lagging' /\ (AllSettled => AllSettled')
  BY DEF WInv, WorkTypes, Lagging, AllSettled
<1>2. Coming' = Coming /\ Active' = Active
  BY DEF Coming, Active
<1>3. Credits'
  BY <1>2 DEF WInv, Credits
<1>4. \A o : Feeders(o)' = Feeders(o) /\ (Wants(o)' <=> Wants(o))
  BY DEF Feeders, Wants, Asks
<1>5. ASSUME NEW o \in Active, Eats(o), Account(o) PROVE Eats(o)' /\ Account(o)'
  BY <1>2, <1>4, <1>5 DEF Eats, Account, Pending
<1>6. Accounts'
  BY <1>2, <1>5 DEF WInv, Accounts
<1> QED BY <1>1, <1>3, <1>6

\* feed_jobs and interpolate_jobs are zero: nothing is left that could queue a
\* probe.
LEMMA DrainQuiets ==
  ASSUME PInv, JInv, main = "drain", ~(feedJobs > 0), ~(interpolateJobs > 0)
  PROVE  /\ BagToSet(feedTasks) = {} /\ SumFunction(feedTasks) = 0
         /\ \A o \in outputs : interpolateTasks[o] = 0
         /\ \A t \in Threads : at[t] \notin Interpolating \cup {"feed"}
<1>1. feedJobs = FeedWork /\ interpolateJobs = InterpolateWork
  BY DEF JInv, JobsExact, Running
<1>2. /\ IsFiniteSet(DOMAIN feedTasks) /\ \A p \in DOMAIN feedTasks : feedTasks[p] \in Nat \ {0}
      /\ IsFiniteSet(outputs) /\ \A o \in outputs : interpolateTasks[o] \in Nat
  BY OutputsFinite DEF JInv, JobTypes, FiniteBag
<1>3. SumFunction(feedTasks) \in Int /\ SumFunction(feedTasks) >= 0
  BY <1>2, SumType DEF SumFunction
<1>4. SumFunctionOnSet(interpolateTasks, outputs) \in Int
      /\ SumFunctionOnSet(interpolateTasks, outputs) >= 0
  BY <1>2, SumType
<1>5. SumFunction(feedTasks) = 0 /\ Cardinality(ThreadsIn({"feed"})) = 0
  BY <1>1, <1>3, PlacesFinite DEF FeedWork
<1>6. ThreadsIn({"feed"}) = {}
  BY <1>5, PlacesFinite, FS_EmptySet
<1>7. SumFunctionOnSet(Owed, ThreadsIn({"feed"})) = 0
  BY <1>6, SumNone
<1>8. /\ SumFunctionOnSet(interpolateTasks, outputs) = 0
      /\ Cardinality(ThreadsIn(Interpolating)) = 0
  BY <1>1, <1>4, <1>7, PlacesFinite DEF InterpolateWork
<1>9. ThreadsIn(Interpolating) = {}
  BY <1>8, PlacesFinite, FS_EmptySet
<1>10. BagToSet(feedTasks) = {}
  <2>1. SumFunctionOnSet(feedTasks, DOMAIN feedTasks) = 0
    BY <1>5 DEF SumFunction
  <2>2. \A p \in DOMAIN feedTasks : feedTasks[p] = 0
    BY <1>2, <2>1, SumZero
  <2> QED BY <1>2, <2>2 DEF BagToSet
<1>11. \A o \in outputs : interpolateTasks[o] = 0
  BY <1>2, <1>8, SumZero
<1> QED BY <1>5, <1>6, <1>9, <1>10, <1>11 DEF ThreadsIn

LEMMA WaitingWork ==
  ASSUME PInv, JInv, FInv, WInv,
         CheckStatus \/ CheckQueue \/ Drain \/ Woken \/ SpuriousWakeup \/ Quiet \/ Consume
  PROVE  WInv'
<1>1. /\ UNCHANGED <<outputs, prime, recDone, recPrime, food, busy, eaten, need>>
      /\ UNCHANGED <<started, balance, queued, nextProbes, feedTasks, interpolateTasks>>
      /\ UNCHANGED <<take, left, at, output>>
  <2>1. CASE CheckStatus \/ CheckQueue \/ Drain \/ Woken
    BY <2>1 DEF CheckStatus, CheckQueue, Drain, Woken, rec, probes, plan, tasks, locals
  <2>2. CASE SpuriousWakeup \/ Quiet \/ Consume
    BY <2>2 DEF SpuriousWakeup, Quiet, Consume, rec, probes, plan, tasks, locals
  <2> QED BY <2>1, <2>2
<1>2. /\ Progress' => Progress
      /\ main' \notin {"start", "first", "switch", "killing"}
  <2>1. CASE CheckStatus \/ CheckQueue \/ Drain \/ Woken
    BY <2>1 DEF CheckStatus, CheckQueue, Drain, Woken, NextRound, Progress, Running
  <2>2. CASE SpuriousWakeup \/ Quiet \/ Consume
    BY <2>2 DEF SpuriousWakeup, Quiet, Consume, Progress, Running
  <2> QED BY <2>1, <2>2
<1>3. ~finished' => ~finished
  <2>1. UNCHANGED finished \/ finished' = (finished \/ AllDone)
    BY DEF CheckStatus, CheckQueue, Drain, Woken, SpuriousWakeup, Quiet, Consume
  <2> QED BY <2>1, Zenon
<1>4. main' = "kill" => finished' \/ AllSettled
  <2>1. CASE CheckStatus \/ Quiet
    BY <2>1, SettledMeans DEF CheckStatus, Quiet
  <2>2. CASE CheckQueue \/ Drain \/ Woken \/ SpuriousWakeup \/ Consume
    BY <2>2 DEF CheckQueue, Drain, Woken, SpuriousWakeup, Consume, NextRound
  <2> QED BY <2>1, <2>2
<1>5. main' # "nothingLeft"
  <2>1. CASE Quiet
    BY <2>1, QuietSettles DEF Quiet
  <2>2. CASE CheckStatus \/ CheckQueue \/ Drain \/ Woken \/ SpuriousWakeup \/ Consume
    BY <2>2 DEF CheckStatus, CheckQueue, Drain, Woken, SpuriousWakeup, Consume, NextRound
  <2> QED BY <2>1, <2>2
<1>6. /\ WorkTypes' /\ Lagging' /\ Credits' /\ Accounts' /\ (AllSettled => AllSettled')
  BY <1>1, <1>2, WorkStays
<1>7. Stages'
  BY <1>1, <1>2, <1>4, <1>5, <1>6, <1>3 DEF WInv, Stages
<1>8. Quieted'
  <2>1. CASE Drain
    <3>1. main' = "quiet" => /\ main = "drain" /\ ~(feedJobs > 0) /\ ~(interpolateJobs > 0)
                             /\ queued = 0
      BY <2>1 DEF Drain, NextRound
    <3> QED BY <1>1, <3>1, DrainQuiets DEF Quieted
  <2>2. CASE CheckStatus \/ CheckQueue \/ Woken \/ SpuriousWakeup \/ Quiet \/ Consume
    BY <2>2 DEF CheckStatus, CheckQueue, Woken, SpuriousWakeup, Quiet, Consume, NextRound, Quieted
  <2> QED BY <2>1, <2>2
<1> QED BY <1>6, <1>7, <1>8 DEF WInv

LEMMA KillWork ==
  ASSUME WInv, KillQueued \/ KillRunning
  PROVE  WInv'
<1>1. /\ UNCHANGED <<outputs, prime, finished, recDone, recPrime, eaten, need, started, balance>>
      /\ UNCHANGED <<queued, nextProbes, take, left, at>>
      /\ \/ main = "kill" /\ main' = "killing"
         \/ main = "killing" /\ main' = IF finished THEN "consume" ELSE "switch"
  BY DEF KillQueued, KillRunning, rec, probes, plan, locals
<1>2. WorkTypes' /\ Lagging' /\ Stages'
  BY <1>1 DEF WInv, WorkTypes, Lagging, Stages, AllSettled
<1>3. Quieted' /\ Credits' /\ Accounts'
  BY <1>1 DEF Quieted, Credits, Accounts, Progress, Running
<1> QED BY <1>2, <1>3 DEF WInv

LEMMA StartWork ==
  ASSUME WInv, StartFirstRuns
  PROVE  WInv'
<1>1. /\ UNCHANGED <<outputs, prime, finished, recDone, recPrime, eaten, need, balance>>
      /\ UNCHANGED <<nextProbes, take, left, at>>
      /\ main = "start" /\ main' = "first"
      /\ started' = ThreadCount /\ queued' = queued + ThreadCount
  BY DEF StartFirstRuns, QueueProbes, rec, locals
<1>2. ThreadCount \in Nat
  BY PipelineAssumption, FS_CardinalityType DEF ThreadCount
<1>3. WorkTypes' /\ Lagging' /\ Stages'
  <2>1. WorkTypes'
    BY <1>1, <1>2 DEF WInv, WorkTypes
  <2>2. ThreadCount' = ThreadCount
    BY DEF ThreadCount
  <2>3. queued = 0 /\ balance = 0
    BY <1>1 DEF WInv, Stages
  <2> QED BY <1>1, <1>2, <2>1, <2>2, <2>3 DEF WInv, Lagging, Stages
<1>4. Quieted' /\ Credits' /\ Accounts'
  BY <1>1 DEF Quieted, Credits, Accounts, Progress
<1> QED BY <1>3, <1>4 DEF WInv

\* No thread is in a job, and no feed job is queued.
LEMMA NothingComing ==
  ASSUME WInv, BagToSet(feedTasks) = {},
         \A t \in Threads : at[t] \in {"idle", "select", "evaluate"}
  PROVE  /\ SumFunctionOnSet(take, Threads) = 0 /\ SumFunction(feedTasks) = 0
         /\ \A o : Feeders(o) = {} /\ ~Wants(o)
<1>1. \A t \in Threads : take[t] = 0
  BY DEF WInv, WorkTypes
<1>2. SumFunctionOnSet(take, Threads) = 0
  BY <1>1, PipelineAssumption, SumZeros
<1>3. SumFunction(feedTasks) = 0
  <2>1. \A f : SumFunctionOnSet(f, {}) = 0
    BY SumNone
  <2> QED BY <2>1 DEF SumFunction, BagToSet
<1>4. \A o : Feeders(o) = {} /\ ~Wants(o)
  BY DEF Feeders, Wants, Asks
<1> QED BY <1>2, <1>3, <1>4

\* The first probe: one more is on its way than the threads, and one credit.
LEMMA FirstProbeWork ==
  ASSUME PInv, FInv, WInv, FirstProbe
  PROVE  WInv'
<1> DEFINE settled == {o \in outputs : need[o] = 1}
<1>1. PICK D \in SUBSET settled :
        /\ main = "first" /\ main' = "get" /\ balance' = balance + 1
        /\ eaten' = [o \in outputs |-> 1] /\ started' = started + 1
        /\ recDone' = [o \in outputs |-> o \in D]
        /\ recPrime' = [o \in outputs |-> IF o \in settled \ D THEN 1 ELSE 0]
        /\ UNCHANGED <<outputs, prime, finished, food, busy, need, queued, nextProbes>>
        /\ UNCHANGED <<feedTasks, at, take, left>>
  BY DEF FirstProbe, locals
<1>2. /\ prime = 0 /\ BagToSet(feedTasks) = {}
      /\ \A t \in Threads : at[t] \in {"idle", "select", "evaluate"}
      /\ \A o \in outputs : food[o] = 0 /\ ~busy[o]
      /\ balance = 0 /\ queued = ThreadCount
  BY <1>1 DEF PInv, Early, FInv, FunctionTypes, WInv, Stages
<1>3. WorkTypes'
  BY <1>1 DEF WInv, WorkTypes
<1>4. /\ \A o \in outputs : recDone'[o] <=> o \in D
      /\ \A o \in outputs : recPrime'[o] = IF o \in settled \ D THEN 1 ELSE 0
  <2>1. recDone' = [o \in outputs |-> o \in D]
    BY <1>1
  <2>2. \A o \in outputs : recDone'[o] <=> o \in D
    BY <2>1, Zenon
  <2> QED BY <1>1, <2>2
<1>5. Lagging'
  BY <1>1, <1>2, <1>4 DEF Lagging
<1>6. Stages' /\ Quieted'
  BY <1>1 DEF WInv, Stages, Quieted
<1>7. ThreadCount \in Nat
  BY PipelineAssumption, FS_CardinalityType DEF ThreadCount
<1>8. Credits'
  <2>1. Coming' = Coming /\ ThreadCount' = ThreadCount
    BY <1>1 DEF Coming, ThreadCount
  <2>2. Coming = ThreadCount
    BY <1>2, <1>7, NothingComing DEF Coming
  <2> QED BY <1>1, <1>2, <1>7, <2>1, <2>2 DEF Credits
<1>9. ASSUME NEW o \in Active' PROVE Eats(o)' /\ Account(o)'
  <2>1. o \in outputs /\ o \notin settled
    <3>1. o \in outputs /\ ~recDone'[o] /\ recPrime'[o] = 0
      BY <1>1, <1>2, <1>9 DEF Active
    <3> HIDE DEF settled
    <3> QED BY <1>4, <3>1
  <2>2. need[o] \in Nat \ {0} /\ need[o] # 1 /\ eaten'[o] = 1 /\ food'[o] = 0
    BY <1>1, <1>2, <2>1 DEF WInv, WorkTypes
  <2>3. Eats(o)'
    BY <1>1, <2>2 DEF Eats
  <2> QED BY <1>1, <1>2, <2>3 DEF Account
<1> QED BY <1>3, <1>5, <1>6, <1>8, <1>9 DEF WInv, Accounts

LEMMA GetProbeWork ==
  ASSUME JInv, WInv, GetProbe
  PROVE  WInv'
<1>1. PICK p \in BagToSet(computed) :
        /\ main = "get" /\ main' = "status" /\ queued' = queued - 1
        /\ feedTasks' = feedTasks (+) SetToBag({p})
        /\ UNCHANGED <<outputs, prime, finished, recDone, recPrime, food, busy, eaten, need>>
        /\ UNCHANGED <<started, balance, nextProbes, interpolateTasks, take, left, at, output>>
  BY DEF GetProbe, rec, plan, locals
<1>2. SumFunction(feedTasks') = SumFunction(feedTasks) + 1
  BY <1>1, BagAdds DEF JInv, JobTypes
<1>3. Coming' = Coming /\ Active' = Active
  BY <1>1, <1>2, ComingType DEF Coming, Active, WInv, WorkTypes
<1>4. WorkTypes' /\ Lagging' /\ Stages' /\ Quieted'
  BY <1>1 DEF WInv, WorkTypes, Lagging, Stages, Quieted
<1>5. Progress
  BY <1>1 DEF Progress, Running
<1>6. Credits'
  BY <1>1, <1>3, <1>5 DEF WInv, Credits
<1>7. \A o : Feeders(o)' = Feeders(o) /\ (Wants(o)' <=> Wants(o))
  BY <1>1 DEF Feeders, Wants, Asks
<1>8. ASSUME NEW o \in Active, Eats(o), Account(o) PROVE Eats(o)' /\ Account(o)'
  BY <1>1, <1>3, <1>7, <1>8 DEF Eats, Account, Pending
<1> QED BY <1>3, <1>4, <1>5, <1>6, <1>8 DEF WInv, Accounts

\* The next prime begins with at least one probe and nothing consumed.
LEMMA SwitchWork ==
  ASSUME PInv, FInv, WInv, SwitchPrime
  PROVE  WInv'
<1>1. PICK wanted :
        /\ wanted = IF nextProbes = 0 THEN ThreadCount ELSE Smaller(nextProbes, ThreadCount)
        /\ main = "switch" /\ main' = "get" /\ prime' = prime + 1
        /\ finished' = (prime' >= PrimeLimit)
        /\ eaten' = [o \in outputs |-> 0] /\ need' \in Needs[outputs][prime']
        /\ queued' = wanted /\ started' = wanted /\ balance' = 0 /\ nextProbes' = 0
        /\ UNCHANGED <<outputs, recPrime, recDone, food, busy, feedTasks, at, take, left>>
  BY DEF SwitchPrime, locals
<1>2. /\ prime \in Nat /\ BagToSet(feedTasks) = {} /\ \A t \in Threads : at[t] = "idle"
      /\ ~finished /\ AllSettled /\ prime < PrimeLimit /\ PrimeLimit \in Nat
  BY <1>1, PipelineAssumption DEF PInv, Late, AfterKill, Shapes, WInv, Stages
<1>3. wanted \in Nat /\ wanted >= 1
  <2>1. ThreadCount \in Nat /\ ThreadCount # 0
    BY PipelineAssumption, FS_CardinalityType, FS_EmptySet DEF ThreadCount
  <2>2. nextProbes \in Nat
    BY DEF WInv, WorkTypes
  <2> QED BY <1>1, <2>1, <2>2 DEF Smaller
<1>4. need' \in [outputs -> Nat \ {0}]
  <2>1. prime' \in 0 .. PrimeLimit /\ outputs \in DOMAIN Needs
    BY <1>1, <1>2 DEF FInv, FunctionTypes
  <2> QED BY <1>1, <2>1, PipelineAssumption
<1>5. WorkTypes'
  BY <1>1, <1>3, <1>4 DEF WInv, WorkTypes
<1>6. Lagging'
  BY <1>1, <1>2 DEF AllSettled, Lagging, FInv, FunctionTypes
<1>7. Stages' /\ Quieted'
  <2>1. finished' = (prime' >= PrimeLimit)
    BY <1>1
  <2>2. ~finished' => ~(prime' >= PrimeLimit)
    BY <2>1, Zenon
  <2>3. prime' \in Nat
    BY <1>1, <1>2
  <2> QED BY <1>1, <1>2, <2>2, <2>3 DEF Stages, Quieted
<1>8. /\ SumFunctionOnSet(take, Threads) = 0 /\ SumFunction(feedTasks) = 0
      /\ \A o : Feeders(o) = {}
  BY <1>2, NothingComing
<1>9. Coming' = wanted
  BY <1>1, <1>3, <1>8 DEF Coming
<1>10. Credits'
  BY <1>1, <1>2, <1>3 DEF Credits
<1>11. ASSUME NEW o \in Active' PROVE Eats(o)' /\ Account(o)'
  <2>1. o \in outputs /\ recPrime[o] > prime
    BY <1>1, <1>2, <1>11 DEF Active
  <2>2. food'[o] = 0 /\ eaten'[o] = 0 /\ need'[o] \in Nat \ {0}
    BY <1>1, <1>4, <2>1 DEF FInv, SettledRests
  <2>3. Eats(o)'
    BY <2>2 DEF Eats
  <2>4. Feeders(o)' = {} /\ Cardinality({}) = 0
    BY <1>1, <1>8, FS_EmptySet DEF Feeders
  <2>5. eaten'[o] + food'[o] + Coming' + Cardinality(Feeders(o)') = started'
    BY <1>1, <1>3, <1>9, <2>2, <2>4
  <2>6. prime' > 0
    BY <1>1, <1>2
  <2> QED BY <2>2, <2>3, <2>5, <2>6 DEF Account
<1> QED BY <1>5, <1>6, <1>7, <1>10, <1>11 DEF WInv, Accounts

LEMMA StepWork == PInv /\ JInv /\ FInv /\ WInv /\ [Next]_vars => WInv'
<1> SUFFICES ASSUME PInv, JInv, FInv, WInv, [Next]_vars PROVE WInv'
  OBVIOUS
<1>1. CASE MainStep
  BY <1>1, StartWork, FirstProbeWork, GetProbeWork, WaitingWork, KillWork, SwitchWork
     DEF MainStep
<1>2. ASSUME NEW t \in Threads, ThreadStep(t) PROVE WInv'
  BY <1>2, ThreadStepWork
<1>3. CASE SpuriousWakeup
  BY <1>3, WaitingWork
<1>4. CASE UNCHANGED vars
  <2>1. /\ UNCHANGED <<outputs, prime, recDone, recPrime, food, busy, eaten, need>>
        /\ UNCHANGED <<started, balance, queued, nextProbes, feedTasks, interpolateTasks>>
        /\ UNCHANGED <<take, left, at, output, main, finished>>
    BY <1>4 DEF vars, rec, probes, plan, tasks, locals
  <2>2. Progress' => Progress
    BY <2>1 DEF Progress, Running
  <2>3. WorkTypes' /\ Lagging' /\ Credits' /\ Accounts' /\ (AllSettled => AllSettled')
    BY <2>1, <2>2, WorkStays
  <2>4. Stages' /\ Quieted'
    BY <2>1, <2>3 DEF WInv, Stages, Quieted, ThreadCount
  <2> QED BY <2>3, <2>4 DEF WInv
<1>5. ASSUME NEW t \in Threads, Abort(t) PROVE WInv'
  <2>1. /\ UNCHANGED <<outputs, prime, recDone, recPrime, food, busy, eaten, need>>
        /\ UNCHANGED <<started, balance, queued, nextProbes, feedTasks, interpolateTasks>>
        /\ UNCHANGED <<take, left, at, output, finished>> /\ main' = "aborted"
    BY <1>5 DEF Abort, rec, probes, plan, tasks, locals
  <2>2. ~Progress'
    BY <2>1 DEF Progress, Running
  <2>3. WorkTypes' /\ Lagging' /\ Credits' /\ Accounts' /\ (AllSettled => AllSettled')
    BY <2>1, <2>2, WorkStays
  <2>4. Stages' /\ Quieted'
    BY <2>1, <2>3 DEF WInv, Stages, Quieted, ThreadCount
  <2> QED BY <2>3, <2>4 DEF WInv
<1> QED BY <1>1, <1>2, <1>3, <1>4, <1>5 DEF Next, Ended

\* run_until_done never throws "Nothing left to feed": when it finds no probe
\* queued and no job left, every function is done or waits for the next prime
\* (the credit of interpolate_job, its probes_needed, and the two waits of the
\* main thread).
THEOREM NeverNothingLeft == Spec => []AlwaysSomethingToFeed
<1>1. WInv => AlwaysSomethingToFeed
  BY DEF WInv, Stages, AlwaysSomethingToFeed
<1> QED BY <1>1, InitServes, StepServes, InitJobs, StepJobs, InitItems, StepItems, InitWork,
           StepWork, PTL DEF Spec
=============================================================================
