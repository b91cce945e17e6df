# FeynmanReducer: TLA+ models, checks and proofs

FeynmanReducer reduces Feynman integrals to master integrals. It reads a YAML
configuration, finds the symmetries of the sectors and a basis of masters
(counting solutions with the external program Singular), plans an elimination
kernel for the integration-by-parts system over a finite field, validates it,
and lets FireFly reconstruct the coefficients as rational functions from many
evaluations of that kernel on several threads. The results go to files.

The repository has no test suite, so what this directory adds is aimed at what
tests would hardly reach anyway: threads, retries, crashes between two system
calls, two processes on both ends of a pipe, and the numerics of a recorded
elimination that is replayed at points it was not recorded at.

Paths below are relative to `src/src/` of the repository.

## 1. The system

| Part | State it keeps | Operations | Works with | Hard behaviour | What makes it correct |
|---|---|---|---|---|---|
| Worker pool `core/ParallelForExecutor.hpp` | batch fields, epoch, counters under a mutex, an atomic index | constructor, `run`, worker loop, destructor | planner, master finder, basis search | unlocked reads of the batch, lost wake-ups, exceptions on several threads | every index once, no reads of a changing batch, the first exception is rethrown, every call returns |
| Replay variants `reduction/ReplaySelector.cpp`, `BlackBoxFeynman.cpp` | published variant, bounded cache, weak chain of master structures | lookup, build, publish, evict, prime change, reconfigure, trim | called from FireFly's threads; owner between probes | lock-free lookups beside locked builders, stale programs, byte accounting | the answer does not depend on the cache; programs are of the current prime and kernel |
| FireFly loop, overlay `Reconstructor.hpp` | status by output, queues, job counters, output snapshot | queue, compute, feed, interpolate, prime change | thread pool, `RatReconst`, black box | several mutexes, counters handed from job to job, snapshot of active outputs | nothing starves, nothing crosses primes, always ends |
| Kernel preparation `reduction/BlackBoxFeynman.cpp` | candidate kernel, samples, support | anchors, reference validation, output selection, replay validation | planner, numerical kernel | nested retries, global prime | a rejected structure stays rejected; the support is what was seen |
| Numerical kernel `reduction/BlockReplayBuilder.cpp`, `BlockTriangular.cpp`, `EliminationTape.hpp`, `ReplayFinalizer.cpp`, `CompiledReplay.hpp`, `ReplayExecutor.cpp` | blocks, tapes, thread-local words | order blocks, record, prune, run in two orientations | preparation, variants | reused workspaces, accidental zeros, transposed order | answers solve the system |
| Kernel planning `reduction/SparseMarkowitz.hpp`, `CompactPlanner.cpp`, `MasterIndependence.hpp`, `ProvisionalCheckpoint.hpp` | sparse rows, incidence, choice queues, provisional checkpoint | choose pivots, eliminate in batches, audit the basis, select a support, reuse a checkpoint | worker pool, preparation | lazily refreshed queues, ordered commit, checkpoints that outlive a request | counters exact, closed exactly when solvable, reuse exactly within the span |
| Planning and reference `reduction/KernelPlanner.cpp`, `KernelPublication.cpp`, `ReferencePlanBuilder.cpp`, `TopLpTargets.cpp` | seed layers, planned kernel, references | expand until a plan closes, project targets, publish, evaluate the reference | compact planner, preparation | loop with several exits, a plan that closes at one point by accident | the kernel gives the reduction at every point, or is refused |
| Equations and seeds `reduction/EquationGenerator.cpp`, `ProjectedSeedExpansion.cpp` | none between calls | generate, deduplicate, expand | planning, global selection | budgets of expansion | relations hold; symmetric seeds give one relation |
| Reduction orchestration `reduction/FeynmanReducer.cpp` | stages of a run | prepare, select, reconstruct, import | the parts above | the order of the stages | composition of the parts |
| Scale and constant reconstruction, result import, check of d-separation | none between calls | sampling loops, conversions | kernel | singular points | algebra |
| Basis search `basis/DSeparatingBasisSearch.cpp`, `FactorSaturation.cpp`, `UnivariateSeparation.cpp` | frontier of bases, those seen, chains of swaps, budgets of two stages, cached probes | sample, interpolate, screen, validate, swap, take out factors, publish | planned kernels, worker pool | poles that agree at few points, swaps that bring back what is gone, one budget for two stages, two orders of one basis | the published basis is one, and separates `d` in what is validated |
| Fixed-basis oracle and its reduction `basis/NativeFixedBasisOracle.cpp`, `DSeparatingReduction.cpp` | selections of outputs | row batches, trim | kernel | batches split on failure | the trim is validated after it |
| Master finder `masters/` | attempts by sector and prime, candidates | batches of Singular runs, up to three rounds, net counts, quotient bases | worker pool, Singular | a process that fails takes its batch along; retries with other batches | what is accepted was found alike at two primes |
| Global basis selection `masters/detail/GlobalBasisSelector.cpp` | seeds, relations, an anchor's tape | select at two primes, close, check, expand | equations, finder, compact planner | a selection that holds at one point only | the basis is independent and expresses all candidates |
| Singular subprocess `masters/detail/SingularProcess.cpp` | pipes, child | make pipes, fork, feed, collect, reap | Singular, descriptor table shared by threads | both pipes full, leaked descriptors, errors half way | all output, nothing left open, every call ends |
| Files of a run `app/FireflyLogArchive.cpp`, `core/AtomicFile.hpp`, `app/main.cpp` | `firefly.log`, its backup, archive, outputs | protect, archive, restore, publish | FireFly | failing system calls, crashes, retry in a destructor | no log lost, no half-written file |
| Run log `app/RunLog.cpp` | log files, lock directories | reserve, open, release | other runs | check then act between processes | a name has one owner |
| Symmetry `topology/SectorUtils.cpp`, `symmetry/`, `reduction/SymmetryCanonicalizer.cpp` | none between calls | zero sectors, orbits, classes, canonical powers | all of planning | composition of maps between sectors | symmetric integrals meet in one |
| Topology layout, YAML compiler, core values, output writers, run timing, validation tool | none that outlives a call | conversions | - | none | algebra and wording |

They interact by calls, with three exceptions. FireFly's pool threads call the
black box (the replay variants) at any time while the main thread waits for
them. The concurrent calls of the Singular subprocess share one descriptor
table. And separate runs of the program meet in the file system.

The list of hazards, each at the line where it bites and with the properties
that watch it, is in `PROJECT.json`; those without a property say why.

## 2. Modules

Each module is one component. `*Proofs` modules extend the component's module
and hold theorems only, `OutsideProofs` those of four small components and
`BlockReplayProofs` the second half of `BlockTapeProofs`; `MC*` modules give the
constants values for TLC.

| Module | Models | Checked by | Proved in |
|---|---|---|---|
| `ParallelFor` | what a parallel for promises (abstract) | `worker_pool` | - |
| `ParallelForExecutor` | the pool that implements it | `worker_pool` | `ParallelForExecutorProofs` |
| `ReplayVariants` | variants, cache, structures, retry | `replay_variants` | `ReplayVariantsProofs` |
| `ProbePipeline` | FireFly's reconstruction loop | `probe_pipeline` | `ProbePipelineProofs` |
| `KernelPreparation` | planning anchors and validation | `kernel_preparation` | `KernelPreparationProofs` |
| `BlockOrder`, `EliminationTape`, `BlockReplay` | the numerical kernel | `block_replay` | `BlockTapeProofs`, `BlockReplayProofs` |
| `FieldArithmetic` | the field of the planning point | `block_replay`, `compact_planner`, `master_discovery` | - |
| `SparseMarkowitz` | the planning elimination | `compact_planner` | `CompactPlannerProofs` |
| `SparseEchelon`, `MasterIndependence`, `ProvisionalCheckpoint` | elimination in fixed order, audit of the basis, checkpoint | `compact_planner` | - |
| `CompactPlanner` | planning, reuse, local reselection, fallback | `compact_planner` | `CompactPlannerProofs` |
| `SectorSymmetry` | zero sectors, classes of sectors, canonical powers | `master_discovery` | - |
| `EquationGenerator`, `SeedExpansion`, `ProjectedTargets` | relations, seeds and their expansion, projected targets and normalisation | `master_discovery` | - |
| `SectorCounts` | batches and rounds of sector counts | `master_discovery` | `OutsideProofs` |
| `QuotientBasis`, `MasterFinder` | quotient bases by sector, probes, comparison, candidates | `master_discovery` | - |
| `GlobalSelection` | selection of the global basis | `master_discovery` | - |
| `KernelPlanner` | planning attempts, publication, reference | `master_discovery` | - |
| `RationalFunctions` | rational functions of `d` over a prime field, factors and valuations | `master_discovery` | - |
| `BasisProbes`, `FactorSaturation` | what the search learns from samples, scored swaps; chains that take out factors | `master_discovery` | - |
| `BasisSearch` | stages, budgets, publication and validation of the search | `master_discovery` | - |
| `MasterDiscovery` | the composition of all from `SectorSymmetry` on | `master_discovery` | - |
| `SingularProcess` | concurrent Singular calls | `singular_process` | `OutsideProofs` |
| `RunFiles` | files of consecutive runs | `run_files` | `OutsideProofs` |
| `RunLog` | choice of the log name | `run_log`, `run_log_unique` | `OutsideProofs` |

`BlockReplay` extends `BlockOrder` (ranges into ordered blocks) and
`EliminationTape` (recording, pruning and applying a tape). `CompactPlanner`
extends `SparseMarkowitz`, whose actions are steps of a plan, and the operators of
`MasterIndependence` and `ProvisionalCheckpoint`, which both use `SparseEchelon`.
`MasterDiscovery` extends `BasisSearch`, which instantiates `FactorSaturation` (over
`BasisProbes` and `RationalFunctions`) and extends `KernelPlanner`, which extends `GlobalSelection` and
`ProjectedTargets`; `GlobalSelection` extends `MasterFinder` (over `SectorCounts` and
`QuotientBasis`) and `SeedExpansion`; below all of them are `EquationGenerator` and
`SectorSymmetry`. Eliminations at a point are `SparseEchelon`, the tape of the selection
is `EliminationTape`, each instantiated at the prime of the point. `ParallelForExecutor`
instantiates `ParallelFor` with its history variables as the refinement mapping.

### ParallelForExecutor

A section under `mutex_` is one action; `fetch_add`, the bound test, the task
itself, the `catch` block and the notifications outside the mutex are separate
actions. A waiting thread tests its predicate, sleeps and tests again, woken or
spuriously. The constructor may spawn any set of the workers. `Start`/`Notify`/
`Claim`/`Test`/`TaskReturns`/`TaskThrows`/`Caught`/`Await`/`Finish`/`Collect` follow
`run`, `run_available_tasks` and `worker_loop`; `InlineStart` to `InlineReturn` the
path without threads; `Stop` and `Join` the destructor. Exceptions are the index
that threw. The history variables record what a caller can observe; they are what
`ParallelFor` (begin, complete or throw an index, return with or without an
exception) is mapped to.

### ReplayVariants

A program is the set of outputs it computes, the kernel and prime it was made for,
its size and the master structure it shares. `LookupStep` is the lookup without
the lock, `Build` the section under `replay_variant_mutex` (second look, building,
eviction, publication), `Execute` and `Return` the grouped evaluation with its exact
retry. Owner's actions between probes: `PrimeChanged` (which re-encodes weights and
re-measures the cache, or drops it), `ConfigureTargetReplay`, `ConfigureMasterReplay`,
`RetainOutputs`. The size of a program is any member of a set given by its outputs,
since re-encoded programs change size. Weak pointers are modelled by what is alive:
held by an evaluator, published, or cached.

### ProbePipeline

Threads' positions are program points between two critical sections of
`Reconstructor.hpp`; each section under a mutex is one action. The thread pool and
`RatReconst` are external: queued tasks run in any order, `feed` stores a value and
says whether to interpolate, `interpolate` consumes what is there unless another
thread is at it, and a function needs any number of values that `Needs` allows,
known to nobody beforehand. A probe carries the prime and the snapshot of outputs it
was evaluated for; probes that carry the same are interchangeable, so the queues
are bags. Any point but the first may be singular (`Singular`): the black box then
returns nothing, and `compute_probe` throws "compact selected black-box result has
wrong size", while a dense probe, of the first round of probes, is queued as it is and
`feed_job` reads past its end, which may end the process or pass for a value. No task of
the pool is guarded, so that the exception ends the process (`Abort`; nothing runs
after it, and the counters of the dead process are not looked at). Left out: factor and
shift scans, saved states, precomputed probes, MPI, bunches, several orders of probes,
and a first probe at a singular point, from which `start_first_runs` makes no function:
the loop ends at once and `FeynmanReducer.cpp:227-230` rejects the missing results.

### KernelPreparation

One call of `prepare_impl`: `StartAnchor`, `Plan`, `Reference` at points of two
primes with the reserve points of the code, `SecondPrime`, `Finalize`, `Replay`,
`Accept`, and every exit that throws. What planning and the numerics answer is a
free choice but deterministic: an outcome for one structure at one point is kept in
`facts` and found again by the next anchor. That determinism is what the code's
comment at `BlackBoxFeynman.cpp:659` counts on.

### BlockOrder, EliminationTape, BlockReplay

`BlockOrder` is the component search and the ordering by dependencies with its
tie-breaks, written with an explicit stack as a bounded fold. `EliminationTape`
records the pivots and row operations of one block, prunes them to what the
outputs need and applies them forwards and transposed. `BlockReplay` builds the
replay of a selected square from the last block to the first, finalizes it in
target or master orientation and executes it at a point. Slots are keyed by row
and column instead of numbered; coefficients are values at a point, so that the
expressions and loaders that compute them are abstracted. A word of a workspace
that the kernel does not clear holds `Leftover`, what an earlier call left there.
A candidate point is any change of up to `Changes` coefficients of the anchor.

### SparseMarkowitz, SparseEchelon, MasterIndependence, ProvisionalCheckpoint, CompactPlanner

`SparseMarkowitz` is `sparse_markowitz_elimination`, one action per round of its
loops: `PivotBasisColumn` for the prefix, then `StartGroup`, `RefreshDue`,
`DiscardMatching`, `DiscardFallback`, `RefreshRest`, `ChoosePivot` and `DrainGroup` for
each group. Rows are functions from columns to nonzero values. Score versions, dirty
marks, incidence lists and the nonzero counters are kept as the code keeps them,
so that they may differ from the matrix. `Pivot` eliminates the rows of a pivot
either one after the other or leaves them to `EliminateRow`, one thread and one
row at a time in any order, and `CommitRows`. Left out: the position and version of
an incidence record, a shortcut whose result the code verifies; the overflow checks
of 32-bit ids; the default order of groups.

`SparseEchelon` is `sparse_gaussian_elimination` with its back substitution, written
as folds. `MasterIndependence` completes an elimination that has stopped early and
tests the basis with covectors. `ProvisionalCheckpoint` keeps the operations, the
pivots and the upper triangle, and solves new right-hand sides from them.

`CompactPlanner` goes through `plan_compact_kernel`: the projected plan with two
combinations of the targets, the audit, the refusals, the selection and its second
elimination, the plan in full (`Conclude`). `Reuse`, `Reselect` and `FallBack` are
`plan_from_source` for a later request with another basis and other targets. Columns
are functions from the rows of their terms to values at the point; a value may be
zero, which matters for the envelope of `Reselect`. A relation's group is never zero,
which is how the model writes the code's mark for a basis column (the largest 32-bit
number there).

### SectorSymmetry, EquationGenerator, SeedExpansion, ProjectedTargets

Pure operators, evaluated inside the composition. A family is a sequence of terms: the
powers of the variables, and the weights of the kinematic parameters in the
coefficient. `NonzeroSectors` is the rank test on exponents, `SymmetryClasses` puts
sectors in buckets by the certificates of their polynomials and chains the map between
two orbits with the transporter inside an orbit, `Canonicalize` picks the one power vector
for all symmetric ones. nauty and bliss are external: two polynomials have one
certificate iff a permutation of variables maps one to the other, and their generators
are all symmetries. `EquationGenerator` has the three families of relations with their
seeds' domains, and the value of a relation's coefficients at a point;
`SeedExpansion` removes relations that are proportional as symbols and adds dots
around rows that stayed open, within a budget for each group. `ProjectedTargets` turns
numerators and shifts of the dimension into derivatives of a power of G, as jets. Left
out: auxiliary slots for numerators, orbits of single monomials, hashes, and overflow
checks.

### SectorCounts, QuotientBasis, MasterFinder

`SectorCounts` is `count_sectors`: `StartRound` makes the batches, `CountBatch` is one
process that gives all answers or fails as a whole, `EndRound` settles sectors whose
primes agree and keeps those at odds for the next round, at most three; `NetCounts`
subtracts what lies below. `MasterFinder` runs the probes of the sectors in batches, any of
which may fail (`FailProbes`), compares critical and regulated counts, and assembles
candidates: a final basis, or candidates for the selection. `QuotientBasis` is what the
scripts ask of Singular. Its library is external: a finite ideal is the set of its
points, which the model computes by trying all of them; a normal form is the values at the
points. What an ideal that is not finite decomposes into is an input.

### GlobalSelection, KernelPlanner, MasterDiscovery

`GlobalSelection` selects candidates at two primes, closes the selection together with the
border of integrals one dot away, checks it exactly at the anchor, replays the recorded
tape at three more points and expands seeds around open rows until it holds or the budget
is spent. `KernelPlanner` is `plan_kernel`: seeds in layers, the indexed system, `PlanSystem`
(the answer of `CompactPlanner` by one elimination), `Activate` and `AddDots` for rows
that stay open, `Publish` (the square system of the pivots), and `Validate`, the residual of
all rows at every validation point, which sends a refused plan back to a new anchor.
`MasterDiscovery` puts them after one another, from the analysis of the sectors to the
published kernel and its values; what a stage leaves behind is the only link.

### RationalFunctions, BasisProbes, FactorSaturation, BasisSearch

The search looks for a basis in which the denominators of the coordinates are products
of a polynomial in `d` and one in the kinematics. `PrepareSearch` plans a kernel for the
pool of candidates and the targets with `KernelPlanner`, so that what the planner answers
for them is compared with the same known coordinates that the search samples.
`RationalFunctions` is the arithmetic; a polynomial is factored by trying its roots and
quadratic divisors. `BasisProbes` is `TrialBasisChecker`: `Diagnose` climbs the ladder of
samples, target by target, sees poles that differ between points as soon as they are
known, and lets the second prime confirm the first; `SwapPairs`, `ScoredSwaps` and `Shortlist` are
`propose_pivots`. Interpolation is abstracted to what it returns: the function itself, as
soon as its degrees fit into the samples that are not held out, which differs between the
continued fraction, the linear system and given degrees. Samples at which a
coordinate has a pole, at which a pivot is zero, or that the oracle does not answer are
missing, as in the code.

`FactorSaturation` is `saturate_ranked` and `sequential`: swaps that take one factor out of
all candidates, with the factors that a swap would bring back as its risk, the bases
that were visited, and the checks the program makes of its own steps, each of which
ends the chain as `logic_error`. In `BasisSearch`, `TestState` is one round of the beam
(rank, screening, strict validation, expansion), `ScanFactors`, `TryFactor` and
`ValidateChain` are one round of a chain, `EndChain` goes to the next prime, `FallBack`
begins the second stage with what is left of the budget. `PublishSolution` puts the basis
and the support into canonical order, `PrepareValidation` and `ValidateBasis` plan a kernel
for the published basis and validate what is requested. Left out: the cache of rows and
its threads, which changes how often the kernel is called and nothing else, statistics,
progress and the heartbeat.

### SingularProcess

Calls run on threads of one process. `MakePipe`, `MarkRead` and `MarkWrite` are the
separate system calls that make a pipe and set close-on-exec; `Fork` copies every
open end into the child and `Exec` closes those that are marked, so that an end of
another call's unfinished pipe may survive in the child (`leaked`). `Poll`,
`ServeInput` and `ServeOutput` are the loop, `Reap` the end, `Throw` an error at any
stage with the unwinding of the destructors. The child is external: it reads a chunk
of the script, writes what it produces, blocked while the pipe is full, and may
crash or fail to exec.

### RunFiles and RunLog

One action per system call that changes a file. In `RunFiles` any of them may fail,
`Crash` may come between any two, and `NextRun` starts with what is left; `finish`
is called by `main` and again by the destructor. Moves between file systems are
copies to a temporary sibling, a replacement and a removal. In `RunLog` several runs
of the same second look for a free name, reserve it by creating a directory, open
the log and remove the directory, or crash.

## 3. Runs

| Run | Instance | Shows |
|---|---|---|
| `worker_pool` | two workers beside the caller, batches of at most 3 indices, 2 batches, then destruction | `NoRaceOnBatch`, refinement of `ParallelFor`, `CallsReturn` |
| `replay_variants` | 2 evaluators, 4 outputs on 2 targets and 3 masters, a cache of 2 programs and 3 units, 2 primes, one point with a singular algebra and a singular normalization | `RunsCurrentProgram`, `AnswersExact`, `CacheExact`, `StructuresFormChain` |
| `probe_pipeline` | 2 pool threads, 2 primes; 2 functions of at most 2 values each, or 1 function that needs 4 values, more than the first probes bring | `ProbesServeAll`, `CountersExact`, `AlwaysSomethingToFeed`, `ReconstructionEnds` |
| `kernel_preparation` | 3 anchors, 2 structures, 2 outputs, a point and a reserve point for each of 2 primes | `NoSecondChance`, `SupportIsWhatWasSeen`, `LoadersFollowPrime`, `CallEnds` |
| `block_replay` | every square of 3 rows that holds its first diagonal coordinate, three anchors, four groupings, two requests, field of 3 elements | `RecordingJustified`, `OutputsSolve`, `MatchesReference` |
| `compact_planner` | 4 rows in 2 groups, 1 basis column and 3 relations or 2 and 2, 1 or 3 targets, all orders of complexity, with and without the audit, field of 3 elements; then one later request | `NoPivotOverlooked`, `ThreadsAgree`, `PlansExact`, `ReuseExact`, `ClosedAnswersHold` |
| `master_discovery` | 10 worlds over bubbles (two equal masses, one mass, on shell, at threshold) and a sunrise, every outcome of processes and batches, 17 requests with known answers, 12 searches from six initial bases | `SymmetricIntegralsMeet`, `LocalBasesExact`, `CountsJustified`, `BasisJustified`, `GlobalBasisClosed`, `KernelReducesExactly`, `SelectionJustified`, `SearchSound` |
| `singular_process` | 2 calls, scripts of 0, 1 or 3 chunks, answers of 0 or 2 chunks or a message, pipes of one chunk | `OutputComplete`, `NothingLeftBehind`, `CallEnds` |
| `run_files` | 3 runs, on one or two file systems, with or without files to start with | `PreRunLogKept`, `OwnLogKept`, `DestinationsWhole`, `SuccessComplete` |
| `run_log` | 3 runs, 2 names | `ReservationsExclusive`, `EveryRunEnds` |
| `run_log_unique` | 2 runs, 2 names | the first violation of section 6 |
| `stale_pivot` | 6 rows, 5 relations in two groups, queues compacted beyond 2 entries | the second violation of section 6 |

`ParallelForExecutor`, `KernelPreparation`, `RunFiles` and `RunLog` have a `TypeOK`
(`SingularProcess` a `ProcessTypeOK`) that is proved (section 4), `SectorCounts` its types inside the proof's
invariant. Runs whose constants are a few names check the component's module itself, with
the configuration of its name; the others have an MC module. Every property of a passing run is violated by at least one plausible bug, listed under `mutants` in
`PROJECT.json`: a dropped test, a missing reset, a swapped order.

Why the bounds are enough to be interesting:

- *worker pool*: two pool threads are the fewest for which one is late to leave a
  batch while the other starts the next; two batches for a stale epoch; three
  indices so that every thread can be in a task.
- *replay variants*: some groups of a request are larger than it, some equal it,
  some are the whole kernel; master structures can be nested, equal or
  incomparable; two programs fit the budget, a third evicts one, and one never
  fits. One prime change reaches every use of a stale program, since nothing
  distinguishes the second change from the first.
- *probe pipeline*: two functions so that one is settled while the other waits, two
  primes so that one may finish early and the other in the next, two threads so
  that two interpolations of one function overlap. A single function that needs four
  values is the one that lives on the credits for new probes alone.
- *kernel preparation*: a third anchor may meet the structure that the first was
  rejected for after the second was rejected for another reason.
- *block replay*: three rows are the fewest with blocks of different sizes, a
  coupling that skips a block and an elimination with fill-in; in the field of three
  elements coefficients cancel by accident, in recording and at other points.
  Singular squares, which the planner does not select, are among the inputs: they
  must be refused.
- *compact planner*: with four rows a pivot can leave three rows to several
  threads, a group can be left with rows that another group clears, and a request can
  touch fewer rows than there are. Queues are refreshed after two pivots (one in
  descending order) and compacted beyond two entries, where the code has 8 to 32 and
  1024, so that stale choices and compaction occur at this size. The third target has
  weight zero in both combinations of the projected plan (modulo three), which is how
  the projection comes to miss it. Bases that are dependent, that coincide with
  relations or vanish at the point are among the inputs: the audit must tell.
- *master discovery*: the families are the smallest with each of the difficulties: two
  symmetric sectors, one sector of two variables with two masters or one, a symmetry
  inside a sector (bubble), sectors that are symmetric through a chain of maps (sunrise,
  whose sectors of two variables meet in one class and whose top sector has seven
  points in three or four orbits), an ideal without isolated points (on shell, threshold), and
  points at which the family is special although it is not (a probe at
  threshold, a selection whose kinematics are at threshold in one field only). Counts may
  be wrong at one prime or at both. Primes are 5 to 13 for the probes, for which critical
  points are rational and can be enumerated, and 31 and 37 for planning. Two attempts of the
  code's sixteen; two threads for two batches; a sector of two variables gets a process of
  its own. Requests cover dots, numerators, dimension shifts both ways, a
  combination, a given basis, an equivalent basis and bases that are too small; answers
  were derived by hand from the known recurrences and are compared at all four points.
- *searches*: coordinates of the bubble and the sunrise with up to two dots in their masters, as
  functions of `d` at five values of the mass ratio, for the two primes. The initial bases
  are the masters (which separate), bases with one integral of two dots (whose poles
  mix), and for the sunrise two of them at once, so that the beam goes through several
  bases. Two training points, or one, at which no pole moves: then only strict validation
  at the held-out point tells. Screening has one target; one search finds a basis
  that separates its target and not what is requested, which validation refuses. Lost
  samples at one prime end a search as a sampling failure or send it to the other prime's
  chain. Budgets of one to five bases are exhausted or just enough. Each successful chain
  takes a single swap. Up to 12 or 16 samples, which the largest degrees (three)
  need with one held out; a beam and a shortlist of two. The planner's anchor is `d` = 12 in
  these worlds and 5 in others, where some reductions are singular.
- *singular process*: a script of three chunks and answers of two are both longer
  than a pipe of one, so that both sides can wait for each other. The pairs of
  script lengths are (1,1) and (0,3).
- *run files*: three runs, so that the second finds what a crash left and the third
  what the recovery of the second left.

`CHECK_DEADLOCK` is off for `singular_process` and `master_discovery`: all calls end,
and nothing is left to do. The other models say explicitly when they have ended.

### Fairness

- *Worker pool*: weak fairness for the caller and for each worker, the scheduling of
  threads by the operating system. Spurious wake-ups are allowed, never needed.
- *Probe pipeline*: weak fairness for the main thread and for each pool thread, as long
  as the process runs; no point has to be singular.
- *Singular process*: weak fairness for each call's own steps and for its child's
  work. The code has no timeout, so the second is an assumption on Singular:
  it gets on with its script. Errors and crashes are not forced.
- *Run log*: weak fairness for each run's steps; a crash is not forced.
- *Kernel preparation*: weak fairness for the only thread.
- *Run files, replay variants, block replay, compact planner, master discovery*: none; they
  have no liveness property.

## 4. Theorems

All theorems hold for every value of the constants that satisfies the module's
assumptions, on which there are no bounds; nothing is assumed besides those.

| Module | Theorem | Argument |
|---|---|---|
| `ParallelForExecutorProofs` | `TypeCorrect`, `ExecutesOnce`, `BatchFieldsUnshared`, `Refines` | One inductive invariant. `unfinished_workers_` is the number of workers that have not finished the current epoch, so when it is zero no thread is inside `run_available_tasks`; an index below `next_` is claimed by one thread or has run; after a store that ends the batch `next_` is at least the count. The refinement maps each step to a step of `ParallelFor` or a stutter. |
| `ReplayVariantsProofs` | `AnswersAreExact` | Needs little: a probe runs a program for its key, the key contains the request, what is singular grows with the outputs, and a failed group is tried again with the request itself. Nothing about the cache, so caching cannot change an answer. |
| `ReplayVariantsProofs` | `ProgramsAreCurrent`, `CacheIsExact`, `StructuresAreOneChain` | One invariant: everything published, cached, shared or held is of the current kernel and prime, a probe holds a program exactly while it runs it, and only kernels kept by masters share structures, which never use the cache. What eviction keeps and what a prime change takes over are recursive over the entries; the lemmas about them (`TotalsAre`, `SumOfPart`, `KeptFits`, `TakenFits`, `TakeOverMade`) are by induction. The library's induction theorems cannot be used, as they are about a predicate; `SetInduction` states induction of a set, from the well-foundedness of the naturals. |
| `ProbePipelineProofs` | `ProbesServe` | Within a prime the functions that need values only get fewer, so a snapshot serves from the moment it is collected, whenever it is stored and loaded; the prime changes only after `kill_all`, when nothing is in flight; before the first probe there are dense probes only. No counter is used, so the theorem does not depend on them. |
| `ProbePipelineProofs` | `CountersStayExact` | The job counters: `feed_jobs` is the feed tasks and feeding threads, `interpolate_jobs` the interpolation tasks, the threads at one, and what each feeding thread has counted and not started, a sum over a bag and two over functions. `SumFunctionOnSet` folds in an order that is a choice; the lemmas `SumUnique`, `SumWithout`, `SumChange`, `SumJoins`, `SumLeaves`, `BagAdds`, `BagTakes` show, by induction on the size of the set (`SetInduction`), that it does not matter. The item counters: a function is `busy` exactly while one thread interpolates it, a settled function holds nothing to consume, so no job interpolates it again; the two places between marking a function and counting it are counted too. |
| `ProbePipelineProofs` | `NeverNothingLeft` | `Credits` and `Accounts` keep account of the probes on their way (queued, about to be queued, or in a feed task). In the first prime they and the credit are one more than the threads, so that when nothing is on its way the credit is at least two, and a credit of two means that each function that goes on has a value nobody has consumed: a feed job reaches all of them (`ProbesServe`). Later, for each function that goes on, what it consumed, holds and awaits is what was started, which is at least one and, once it has asked, at least what it needs. With the counters at zero nothing awaits, so no function goes on and `Settled` holds. The three earlier invariants are all used. |
| `CompactPlannerProofs` | `PlannerTypeCorrect` | The types of the loaded system, of the elimination, its queues and its batch, by a lemma for each action and, for the folds over rows and columns, `FoldExists` and `FoldChain`, by induction on the length (`SetInduction`). |
| `CompactPlannerProofs` | `ThreadsAlwaysAgree` | A row of a pivot is eliminated in two halves: the merge, which reads the pivot row and touches one row of the matrix and its own task, and the commit of its counts, which reads the task only. While a batch runs, the matrix is the one before with the finished rows merged, whatever the order (`Merged`, `TasksApart`): the tasks are of different rows, none of which is the pivot's. The commits come in the order of the tasks, so row by row (`InOrderAsSerially`) the state is that of one thread that merges and commits each row before the next. |
| `CompactPlannerProofs` | `PivotsNeverOverlooked` | As long as no row is a pivot twice (section 6), which every step back to the start of the elimination then satisfies too (`PivotMapped`). `Counts` says that the counters of the rows that are left are those of the matrix; within a pivot it holds but for the pivot's column, whose rows are those still to come (`Midway`, row by row in `RowEliminated` and `AllRowsEliminated`; a pivot handed to threads holds it of the state before them, and `ThreadsAlwaysAgree` supplies the end). `Marks` says that what changes the choices of a column marks it, and is transitive; with it queues that follow the matrix (`Follows`) go on to follow it, refreshing scores what is marked as a new version (`RefreshFollows`), and no mark is lost (`Noticed`). A group is left with empty queues and nothing marked: then its columns have no best choice, and as better-than is a total order (`BetterOrders`, `MinimalElement`), no row at all (`ChoiceExists`, `NothingLeft`). |
| `CompactPlannerProofs` | `ClosedAnswersAreRight` | What a closed answer selects has been eliminated once more, with all targets, by `sparse_gaussian_elimination`. By induction over the columns that elimination is in echelon form up to a column (`EchelonAt`): rows that were no pivot begin behind the column, each pivot row begins at its column, and what solves the rows solves those of the start (`PivotSolves`), what vanishes on those of the start vanishes on the rows (`PivotAnnihilates`); the arithmetic is congruence modulo `Prime`, with sums of any length (`TotalCongruent`). Without a residual the back substitution is a solution (`EchelonSolved`), so the targets are combinations of the selection; when all basis columns are pivots nothing but zero on them vanishes (`EchelonIndependent`), so the basis is independent. It remains that the selection names relations of the request, each once, although the first elimination may use a row twice (section 6): each *column* is a pivot once (`ColumnsOnce`, an invariant of the elimination: a pivot's column was active and ends so, and a choice in hand is of an active column), which a checkpoint keeps. `AnswersRight` carries it through the planner: the system that is eliminated is that of the request, the request is the whole one or has some of its rows, and an answer on some rows is one for all, since basis, targets and selected relations are zero on the others (`LocalAnswers`). The theorem says nothing of an answer that is not closed. |
| `BlockReplayProofs` | `AnswersMatchReference` | Pruning and transposing lose nothing. `BlockTapeProofs` is about tapes, for sums of any length modulo `Prime`: a group of operations and its transpose are adjoint, so are a tape and its transpose (`TapeAdjoint`) and the couplings of blocks (`CouplingsAdjoint`); pruning keeps every operation that touches a wanted place, so a pruned tape answers alike on what is wanted (`TapeAgrees`). `BlockReplayProofs` is about the plan. The search for components ends and its components are the ranges, each once (`VisitSound`: order of the numbers along stack and frames, what was discovered is on the stack or in one component, edges followed or open, every component left is closed), so the blocks cover the square and are disjoint (`LayoutIs`). The recording of a block stays in the block and names every column that may be filled (`RecordBlockFits`, `BuiltServes`), whatever zeros the anchor happened to show. Then the reference, forward and back over the blocks, is paired with a transposed pass from the first block to the last: one block's step preserves the pairing of its vector with the words of the recording (`ReferenceStep`) and agrees with the pruned kernel wherever that is alive (`MasterStep`). Carried through all blocks (`MasterRuns`), the unit vector of a master reads the answer off the solution at one end and off the right-hand side at the other. A kernel for targets agrees with the reference place by place. Since a lemma cannot take an operator, the steps of the folds are named (`StepOf` and its kin). |
| `KernelPreparationProofs` | `TypeCorrect`, `RejectionIsFinal`, `SupportIsSeen`, `LoadersFollow` | Every rejection leaves a refutation in `facts` or `replayFacts`, both of which only grow; an accepted structure has answered at the same points, so it cannot be a refuted one. |
| `OutsideProofs` | `CountsAreJustified` | A settled sector was counted alike at both primes of its last attempt, nothing is counted again that had settled or failed, and a sector is given up late. The property says too little about a round that runs: the invariant adds that earlier attempts of a pending sector were all at odds, that a sector outside the round has ended in one of the two ways, and that a batch that is gone has left its counts. Stated of `CountSpec`, the counter on its own with any sectors and any answers; the run checks the same formula inside the composition. |
| `OutsideProofs` | `ProcessTypeCorrect`, `OutputIsComplete`, `CallsCleanUp` | An invariant of each call by itself (its pipes as far as they are made, the child's ends, the parent's ends, the counts of each pipe), and a lemma that a step of one call leaves the invariant of another intact, although leaked ends are shared. The end of file is seen only when the pipe is drained and no writer is left. |
| `OutsideProofs` | `EarlierLogIsKept`, `OwnLogIsKept`, `DestinationsAreWhole`, `SuccessIsComplete` | The invariant says, for each place of `main`, where the earlier log and the run's own log are. |
| `OutsideProofs` | `LogTypeCorrect`, `ReservationsAreExclusive` | Inductive as it stands: a run that holds a name has its directory, and `create_directory` succeeds for one. |

Assumptions on constants: sets of threads, runs and outputs are finite where they
are counted, bounds are naturals (positive where the code's are), the caller is not a
worker, points and requests are over the kernel's outputs, the rows of a request for
planning are finitely many numbers, its values at the point are elements of the field and
its groups are not zero (`SourcesAssumption`), the squares to replay are matrices over the
field with a basis column at least (`SystemsAssumption`), right-hand sides are of the
field (`ValuesAssumption`), and modulo `Prime` every element but zero has
a reciprocal (`PrimeAssumption`, which is what a prime is needed for). TLC evaluates each of
them on every run.

Only model-checked:

- liveness: `CallsReturn`, `ReconstructionEnds`, `EveryRunEnds` and the two `CallEnds`
  (the prover has no rules for fairness);
- that the recording itself solves the system (`OutputsSolve`) and that it fails only where
  the structure or the anchor is singular (`RecordingJustified`).
  `AnswersMatchReference` reduces the first to the unpruned recording, for every kernel made
  of it; what that computes is an elimination by blocks, for which the linear algebra proved
  of the planner's elimination (rows, not blocks) would have to be done again. Where blocks
  are singular by themselves, the second is about determinants;
- that the planner closes when it can (`PlansExact`, `ReuseExact`).
  `ClosedAnswersAreRight` is one direction, that a closed answer is right. The other, that
  what can be expressed is found, and that a basis is refused only when it is dependent,
  needs the row space through `SparseMarkowitz`'s elimination, where it holds only as long
  as no row is a pivot twice;
- the composition `MasterDiscovery` (but for its counts): symmetries, relations,
  eliminations and rational functions are computed by folds and recursive operators over
  data.

## 5. What is external

- FireFly's thread pool: runs queued tasks in any order; after `kill_all` nothing is
  queued and nothing runs; an exception that leaves a task ends the process.
- `RatReconst`: see `ProbePipeline`.
- nauty and bliss: see `SectorSymmetry`. FLINT: arithmetic of polynomials.
- Singular: reads its standard input, writes what it has to, ends after the script or
  at end of file.
- The kernel's pipes, `fork`, `exec`, `poll` and `waitpid`, and the file system's
  `rename`, `create_directory`, copy and remove, each atomic or failing without effect,
  except the copy, which may leave part of a file.

## 6. Findings

1. **Two runs can log to the same file** (`app/RunLog.cpp:48`, run `run_log_unique`).
   `reserve_log_path` tests whether the log exists, then reserves the name, and does
   not test again. Run B tests, run A reserves, opens its log and removes the
   reservation, run B reserves the same name and truncates A's log. The function's own
   error message speaks of a unique path. `ReservationsExclusive`, which holds and is
   proved, is what the lock directory does provide. A second test after the
   reservation would close the gap.
2. **A row can become a pivot twice** (`reduction/SparseMarkowitz.hpp:744`, run
   `stale_pivot`). `discard_stale(matching_choices)` leaves a choice of column A on top
   that is current and live. `discard_stale(fallback_choices)`, called next, may pop a
   stale choice of the same column A and score A again. That raises A's version and, when
   the matching queue is over its limit, `compact_queue` erases the choice that had just
   been checked, now of an old version. The new top may belong to another column and be
   current while its row has been used since, which nobody looks at: `apply_pivot` scales
   the used row again, takes it off the counts again, and `row_map` names it twice and
   another row never; or it throws "Markowitz pivot disappeared". The comment at lines
   677-678 counts on `discard_stale` for such entries. The run uses queues that are
   compacted beyond two entries (1024 in the program), for which six rows suffice; with a
   limit that is not reached the same system is eliminated correctly. Settling the
   matching queue once more after line 744 would close the gap. A checkpoint of such an
   elimination ends the planning that uses it ("checkpoint row map is not a permutation",
   `ProvisionalCheckpoint.hpp:82`). `NoPivotOverlooked` is therefore stated for as long
   as no row is a pivot twice.

Noted while modelling, without a run: the comment at `app/FireflyLogArchive.cpp:78-80` says
that if the retry in the destructor fails too, the current log, the backup and the old
destination are preserved; the log is moved over the destination (line 62) before the
backup is restored, so when only the second fails the old destination is gone. No log of
this run or of the user is lost (`OwnLogIsKept`, `EarlierLogIsKept`).

Likewise the verification of restored scales
(`reduction/ScaleReconstruction.cpp:182`) allows 16 attempts for two regular points,
yet ends the run at the first point where the kernel itself is singular.

## 7. Not modelled, and the plan

- **Reduction orchestration** (`FeynmanReducer`, `RequestedOutputBlackBox`): a sequence
  of the modelled parts (prepare, select, reconstruct, import) in one thread.
- **Fixed-basis oracle and the reduction with it** (`NativeFixedBasisOracle`,
  `DSeparatingReduction`): batches of rows that are split on failure decide how much of a
  point is cached; the reuse of the search's oracle for the reduction, with its trim, is
  an optimisation of what `BasisSearch` models with two kernels.
- **Check of the separation of `d`, preferred bases**: the first compares the reconstructed
  denominators once more, the second completes a preferred basis with one reduction.
- **Algorithms of interpolation** (`UnivariateSeparation`): modelled by what they return.
  That a wrong function is not taken for the right one rests on held-out samples and on
  the size of the field, which no small field has.
- **Scale and constant reconstruction**: numerical loops whose properties are statements
  about rational functions over a large field, which a small field falsifies (points
  collide).
- **FireFly result import, core values, output writers, YAML compiler, topology and
  layout**: conversion, parsing and formatting without state that outlives a call. The
  order and the atomicity of what the writers publish are in `RunFiles`.
- **`DifferentialEquations.cpp`**: the derivatives that the planner adds to its targets
  are rows like any other in `KernelPlanner`.
- **Run timing, validation tool**: reporting by one thread, and a separate program.

What comes next: chains of several swaps, which need families with more masters in a
sector; the oracle's row batches; the reduction as a whole over the promises of
`KernelPreparation`, `ReplayVariants` and `ProbePipeline` (what is reconstructed is what
was prepared, at the prime it was prepared for); and that `ParallelFor`'s promise suffices
for the planner's ordered commit.

## 8. Running it

From this directory, `tlc -config RunLog.cfg RunLog` runs a check and
`tlapm OutsideProofs.tla` a proof; the module of each configuration is in
`PROJECT.json`. The longest check is `probe_pipeline`, about three minutes on two
workers, then `singular_process` with two; the longest proof,
`CompactPlannerProofs`, takes about fifteen minutes.
