------------------------------ MODULE BasisSearch ------------------------------
(***************************************************************************)
(* The search for a basis in which the denominators of the coordinates     *)
(* separate d from the kinematics (basis/DSeparatingBasisSearch.cpp), and  *)
(* what the reduction does with it (FeynmanReducer.cpp): the candidates    *)
(* and the targets are reduced to the initial basis once; a first stage    *)
(* follows single swaps that repair the poles it sees, best first, a       *)
(* second one takes out factors in chains (FactorSaturation.tla); the      *)
(* basis that is found is validated again with the integrals requested, on *)
(* a kernel of its own.                                                    *)
(*                                                                         *)
(* An integral of the search is its powers, a candidate its place in the   *)
(* pool.  The two kernels are planned by KernelPlanner.tla.                *)
(***************************************************************************)
EXTENDS KernelPlanner

CONSTANT Searches
  \* the searches in a family, by its name: the basis to begin with, the integrals that
  \* are requested, the settings, the samples that the oracle cannot answer, and the
  \* coordinates of integrals in that basis

Probe == INSTANCE FactorSaturation

VARIABLES
  search,   \* what the search does
  oracle,   \* the dataset of the probes, with the pool and the settings
  trials,   \* frontier and seen
  tally,    \* the report of the stage
  chain,    \* a run of `sequential`
  stages,   \* the reports of the stages that have ended
  solution  \* the basis that has been validated, with what was found out of it

searchVars == <<search, oracle, trials, tally, chain, stages, solution>>

NoSearch ==
  /\ search = "idle"
  /\ oracle = <<>>
  /\ trials = <<>>
  /\ tally = <<>>
  /\ chain = <<>>
  /\ stages = <<>>
  /\ solution = <<>>

-----------------------------------------------------------------------------
(* Candidates and targets *)

DotMonomials(n, dots) == UNION {MonomialsOf(n, d) : d \in 0 .. dots}

\* find_sector_monomial_orbit_representatives: the first monomial of each orbit.
OrbitFirsts(fam, sector, monomials) ==
  {m \in monomials :
     ~\E g \in Isomorphisms(fam, sector, sector) : Preferred(MovedMonomial(sector, g, m), m)}

\* BasisIntegralPool::build
PoolOf(fam, basis, dots) ==
  LET added(s) == {IntegralOf(fam, s, m) :
                     m \in OrbitFirsts(fam, s, DotMonomials(Cardinality(s), dots))}
  IN  InOrder(Range(basis) \union UNION {added(SectorOf(i)) : i \in Range(basis)}, IntegralBefore)

\* build_d_separating_search_targets: both dots of an integral are on one propagator.
SearchTargets(fam) ==
  SelectSeq(PoolOf(fam, <<Corner(fam, Variables(fam))>>, 2),
            LAMBDA i : Excess(i) = 2 /\ 2 \in Range(i))

MoreDots(a, b) ==
  \/ Excess(a) > Excess(b)
  \/ Excess(a) = Excess(b) /\ IntegralBefore(a, b)

\* automatic_screening_targets: the one with the most dots of each sector, then others.
ScreeningTargets(targets, limit) ==
  LET sectors == InOrder({SectorOf(i) : i \in Range(targets)}, LAMBDA s, t : Mask(s) < Mask(t))
      first(s) == CHOOSE i \in Range(targets) : /\ SectorOf(i) = s
                                                /\ ~\E j \in Range(targets) : SectorOf(j) = s /\ MoreDots(j, i)
      firsts == [k \in DOMAIN sectors |-> first(sectors[k])]
      all == firsts \o InOrder(Range(targets) \ Range(firsts), MoreDots)
  IN  SubSeq(all, 1, Min({limit, Len(all)}))

Powers(integrals) == [i \in DOMAIN integrals |-> PowersOf(integrals[i])]

\* NativeBasisProbeDataset, with the basis, the pool and the targets of a search.
OracleOf(s, basis, pool, targets, coordinates) ==
  s.settings @@ [basis |-> basis, pool |-> pool, targets |-> targets, rows |-> coordinates,
                 screening |-> ScreeningTargets(targets, s.settings.limit),
                 sectors |-> [c \in DOMAIN pool |-> SectorOf(pool[c])],
                 dots |-> [c \in DOMAIN pool |-> Excess(pool[c])],
                 requested |-> Powers(s.requested), elsewhere |-> s.elsewhere]

\* prepare_d_separating_basis_search: what the search reduces is not what is requested.
SearchOracle(s, basis) ==
  OracleOf(s, basis, PoolOf(family, basis, s.settings.candidateDots), SearchTargets(family), s.rows)

\* oracle_rows
OracleRows(o) == o.pool \o SelectSeq(o.targets, LAMBDA i : i \notin Range(o.pool))

Candidate(o, integral) == CHOOSE c \in DOMAIN o.pool : o.pool[c] = integral
InitialCandidates(o) == [i \in DOMAIN o.basis |-> Candidate(o, o.basis[i])]

\* What is known of the answer: the coordinates at the points of the planner.
KnownAt(o, q) ==
  LET value(a) == Probe!ValueOf(a, planning[q].d, planning[q].prime)
      row(i) == o.rows[<<q[1] + 1, o.elsewhere[q]>>][i]
  IN  [t \in DOMAIN OracleRows(o) |->
         [b \in DOMAIN o.basis |-> <<value(row(OracleRows(o)[t])[b][1]), value(row(OracleRows(o)[t])[b][2])>>]]

\* The kernel of a fixed basis.
KernelJob(o, sources) ==
  [basis |-> [i \in DOMAIN o.basis |-> IntegralWith(o.basis[i])],
   targets |-> [i \in DOMAIN OracleRows(o) |-> IntegralWith(OracleRows(o)[i])],
   requests |-> <<>>, outcome |-> "planned", sources |-> sources,
   answers |-> Tabled([q \in DOMAIN planning |-> KnownAt(o, q)])]

InitialBasis(s) == IF s.basis # <<>> THEN Powers(s.basis) ELSE masters

PrepareSearch ==
  /\ selector = "selected"
  /\ planner = "idle"
  /\ search = "idle"
  /\ \E s \in Searches[family.name] : \E o \in {SearchOracle(s, InitialBasis(s))} :
       /\ oracle' = o
       /\ Begin(KernelJob(o, candidates.sources))
  /\ search' = "prepare"
  /\ UNCHANGED <<trials, tally, chain, stages, solution>>

-----------------------------------------------------------------------------
(* Stages *)

IsStaged(o) == o.strategy = "SingleSlotThenScored"

Trial(selected, path, score) == [selected |-> selected, path |-> path, score |-> score]

NoScore == <<0, 0, 0, 0, 0, 0>>

NewTally(strategy, budget) ==
  [strategy |-> strategy, budget |-> budget, tested |-> 0, rank |-> 0, moving |-> 0,
   sampling |-> 0, failures |-> 0]

\* run_search_stage, which begins anew with the initial basis.
StartStage(strategy, budget) ==
  LET initial == InitialCandidates(oracle)
      single == strategy = "SingleSlot"
  IN  /\ tally' = NewTally(strategy, budget)
      /\ trials' = [frontier |-> IF single THEN {Trial(initial, <<>>, NoScore)} ELSE {},
                    seen |-> {Range(initial)}]
      /\ chain' = IF single THEN <<>> ELSE Probe!NewChain(oracle, 1, initial, budget)
      /\ search' = IF single THEN "beam" ELSE "chains"

StartSearch ==
  /\ search = "prepare"
  /\ planner = "planned"
  /\ StartStage(IF IsStaged(oracle) THEN "SingleSlot" ELSE oracle.strategy,
                IF IsStaged(oracle) THEN Min({oracle.maximumStates, oracle.simpleStates})
                ELSE oracle.maximumStates)
  /\ UNCHANGED <<oracle, stages, solution, planVars>>

\* What a few points show of rank and samples does not say that nothing can be found.
StatusOf(counts, found, exhausted) ==
  CASE found                   -> "Passed"
    [] ~found /\ exhausted     -> "SearchBudgetExhausted"
    [] ~found /\ ~exhausted ->
         IF \/ counts.tested # 0 /\ counts.sampling = counts.tested
            \/ /\ IsStaged(oracle) /\ counts.moving = 0
               /\ counts.sampling # 0 \/ counts.rank # 0 \/ counts.failures # 0
           THEN "SamplingFailure" ELSE "NotFound"

Report(counts, found, exhausted) ==
  [strategy |-> counts.strategy, status |-> StatusOf(counts, found, exhausted),
   budget |-> counts.budget, used |-> counts.tested]

EndStage(counts, found, exhausted) ==
  /\ stages' = Append(stages, Report(counts, found, exhausted))
  /\ search' = "ended"
  /\ trials' = <<>>
  /\ chain' = <<>>

-----------------------------------------------------------------------------
(* SingleSlot *)

TrialKey(t) ==
  t.score \o <<Len(t.path), MapThenSumSet(LAMBDA c : oracle.dots[c], Range(t.selected))>>
    \o Ascending(Range(t.selected))

\* state_less
SortedTrials(frontier) == Probe!SortedBy(frontier, TrialKey)

\* Mutant: what passes screening is not validated at the other points.
ScreenedOnly(t) ==
  IF ~Probe!RankComplete(oracle, t.path) THEN {Probe!Verdict("rank", {}, {})}
  ELSE Probe!Diagnose(oracle, t.path, oracle.screening, FALSE)

\* Rank, then screening, and only what passes is validated strictly.
VerdictsOf(t) ==
  IF ~Probe!RankComplete(oracle, t.path) THEN {Probe!Verdict("rank", {}, {})}
  ELSE UNION {IF v.result # "passed" THEN {v} ELSE Probe!Diagnose(oracle, t.path, oracle.targets, TRUE) :
                v \in Probe!Diagnose(oracle, t.path, oracle.screening, FALSE)}

Child(t, x) ==
  Trial([t.selected EXCEPT ![x.swap.slot] = x.swap.candidate], Append(t.path, x.swap), x.score)

\* Children that are new, as many as the beam is wide.
Accept(all, child) ==
  IF all.accepted = oracle.width \/ Range(child.selected) \in all.seen THEN all
  ELSE [frontier |-> all.frontier \union {child}, seen |-> all.seen \union {Range(child.selected)},
        accepted |-> all.accepted + 1]

Children(t, scored, rest) ==
  FoldLeft(Accept, [frontier |-> rest, seen |-> trials.seen, accepted |-> 0],
           [i \in DOMAIN Probe!Shortlist(oracle, scored) |-> Child(t, Probe!Shortlist(oracle, scored)[i])])

Narrowed(frontier) ==
  LET sorted == SortedTrials(frontier)
  IN  Range(SubSeq(sorted, 1, Min({Len(sorted), oracle.width})))

\* A solution in slots, in which the search has it.
Found(selected, path, outputs) == [selected |-> selected, path |-> path, support |-> outputs]

\* The pairs of a basis whose poles move, and the bases that they lead to.
ExpandState(t, witnesses, rest) ==
  LET pairs == Probe!SwapPairs(oracle, t.selected, witnesses)
  IN  \E scored \in {Probe!ScoredSwaps(oracle, t.path, pairs, witnesses)} :
        /\ \E all \in {Children(t, scored, rest)} :
             trials' = [frontier |-> Narrowed(all.frontier), seen |-> all.seen]
        /\ tally' = [tally EXCEPT !.tested = @ + 1, !.moving = @ + 1,
                                  !.failures = @ + Cardinality(pairs) - Cardinality(scored)]

Rejected(result) ==
  [tally EXCEPT !.tested = @ + 1,
                !.rank = @ + IF result = "rank" THEN 1 ELSE 0,
                !.sampling = @ + IF result = "sampling" THEN 1 ELSE 0]

TestState ==
  /\ search = "beam"
  /\ trials.frontier # {}
  /\ tally.tested < tally.budget
  /\ \E t \in {Head(SortedTrials(trials.frontier))} : \E v \in VerdictsOf(t) :
       LET rest == trials.frontier \ {t}
       IN  CASE v.result = "passed" ->
                  /\ tally' = [tally EXCEPT !.tested = @ + 1]
                  /\ solution' = Found(t.selected, t.path, v.support)
                  /\ EndStage(tally', TRUE, FALSE)
             [] v.result \in {"rank", "sampling"} ->
                  /\ tally' = Rejected(v.result)
                  /\ trials' = [trials EXCEPT !.frontier = rest]
                  /\ UNCHANGED <<search, chain, stages, solution>>
             [] v.result = "moving" ->
                  /\ ExpandState(t, v.witnesses, rest)
                  /\ UNCHANGED <<search, chain, stages, solution>>
  /\ UNCHANGED <<oracle, planVars>>

\* Nothing is left to test, or no state is left of the budget.
EndBeam ==
  /\ search = "beam"
  /\ trials.frontier = {} \/ tally.tested >= tally.budget
  /\ EndStage(tally, FALSE, trials.frontier # {})
  /\ UNCHANGED <<oracle, tally, solution, planVars>>

-----------------------------------------------------------------------------
(* SequentialFactorsScored *)

ScanFactors ==
  /\ search = "chains"
  /\ chain.status = "scan"
  /\ \E c \in {Probe!Scanned(oracle, chain)} : chain' = c
  /\ UNCHANGED <<search, oracle, trials, tally, stages, solution, planVars>>

TryFactor ==
  /\ search = "chains"
  /\ chain.status = "factor"
  /\ \E c \in {Probe!FactorRound(oracle, chain)} : chain' = c
  /\ UNCHANGED <<search, oracle, trials, tally, stages, solution, planVars>>

\* A pole that the anchor did not show says something of the anchor only.
ValidateChain ==
  /\ search = "chains"
  /\ chain.status = "validate"
  /\ \E v \in IF Probe!RankComplete(oracle, chain.steps)
                THEN Probe!Diagnose(oracle, chain.steps, oracle.targets, TRUE)
                ELSE {Probe!Verdict("rank", {}, {})} :
       /\ chain' = [chain EXCEPT !.status = CASE v.result = "passed"   -> "passed"
                                              [] v.result = "rank"     -> "rank_sample_failure"
                                              [] v.result = "moving"   -> "anchor_inconclusive"
                                              [] v.result = "sampling" -> "sampling_failure"]
       /\ solution' = IF v.result = "passed" THEN Found(chain.selected, chain.steps, v.support)
                      ELSE solution
  /\ UNCHANGED <<search, oracle, trials, tally, stages, planVars>>

\* A chain that is over; each prime has one, if there is a budget for it.  (An error of
\* logic leaves the search, and the program.)
EndChain ==
  /\ search = "chains"
  /\ chain.status \notin {"scan", "factor", "validate", "logic_error"}
  /\ tally' = [tally EXCEPT !.tested = @ + chain.used]
  /\ IF chain.status \in {"passed", "budget_exhausted"} \/ chain.prime = Len(oracle.primes)
       THEN EndStage(tally', chain.status = "passed", chain.status = "budget_exhausted")
       ELSE /\ chain' = Probe!NewChain(oracle, chain.prime + 1, InitialCandidates(oracle),
                                       tally.budget - tally'.tested)
            /\ UNCHANGED <<search, stages, trials>>
  /\ UNCHANGED <<oracle, solution, planVars>>

-----------------------------------------------------------------------------
(* The end of a stage *)

TotalUsed == FoldLeft(LAMBDA n, s : n + s.used, 0, stages)
LastStatus == Last(stages).status

\* Only a first stage without a basis has a second one, with what is left of the budget.
FallsBack ==
  /\ IsStaged(oracle)
  /\ Len(stages) = 1
  /\ LastStatus \in {"NotFound", "SearchBudgetExhausted"}

FallBack ==
  /\ search = "ended"
  /\ FallsBack
  /\ TotalUsed < oracle.maximumStates
  /\ StartStage("SequentialFactorsScored", oracle.maximumStates - TotalUsed)
  /\ UNCHANGED <<oracle, stages, solution, planVars>>

Refuse ==
  /\ search = "ended"
  /\ LastStatus # "Passed"
  /\ FallsBack => TotalUsed >= oracle.maximumStates
  /\ search' = "refused"
  /\ UNCHANGED <<oracle, trials, tally, chain, stages, solution, planVars>>

-----------------------------------------------------------------------------
(* The selected basis *)

\* selected_integrals, and the slot of each.
SelectedBasis == InOrder({oracle.pool[c] : c \in Range(solution.selected)}, IntegralBefore)
SlotOf(integral) ==
  CHOOSE j \in DOMAIN solution.selected : oracle.pool[solution.selected[j]] = integral

\* canonical_to_slot, and the support in the order in which the basis is published.
PublishedSupport(slots) ==
  {<<f[1], CHOOSE b \in DOMAIN slots : slots[b] = f[2]>> : f \in solution.support}

PublishSolution ==
  /\ search = "ended"
  /\ LastStatus = "Passed"
  /\ \E slots \in {[b \in DOMAIN SelectedBasis |-> SlotOf(SelectedBasis[b])]} :
       solution' = solution @@ [basis |-> SelectedBasis, slots |-> slots,
                                output |-> PublishedSupport(slots)]
  /\ search' = "found"
  /\ UNCHANGED <<oracle, trials, tally, chain, stages, planVars>>

-----------------------------------------------------------------------------
(* prepare_d_separating_fixed_basis_validation *)

\* The rows of an oracle for the selected basis, as the swaps lead to them.
PublishedRow(q, integral) ==
  LET published(row) == [b \in DOMAIN solution.slots |-> row[solution.slots[b]]]
      along(tape) == Probe!Along(oracle.rows[q][integral], tape, oracle.primes[q[1]])
  IN  published(along(CHOOSE t \in Probe!Tapes(oracle, q, solution.path) : TRUE))

PublishedRows ==
  Tabled([q \in DOMAIN oracle.rows |->
            Tabled([i \in DOMAIN oracle.rows[q] |-> Tabled(PublishedRow(q, i))])])

ValidationOracle == [oracle EXCEPT !.basis = solution.basis, !.pool = solution.basis,
                                   !.targets = oracle.requested,
                                   !.screening = ScreeningTargets(oracle.requested, oracle.limit),
                                   !.rows = PublishedRows]

PrepareValidation ==
  /\ search = "found"
  /\ oracle.requested # <<>>
  /\ search' = "validate"
  /\ \E o \in {ValidationOracle} : oracle' = o /\ Begin(KernelJob(o, job.sources))
  /\ UNCHANGED <<trials, tally, chain, stages, solution>>

\* Nothing is validated again if no integrals are requested, only derivatives or names.
SkipValidation ==
  /\ search = "found"
  /\ oracle.requested = <<>>
  /\ search' = "prepared"
  /\ UNCHANGED <<oracle, trials, tally, chain, stages, solution, planVars>>

\* One state, without swaps; FeynmanReducer throws unless it passes.
ValidateBasis ==
  /\ search = "validate"
  /\ planner = "planned"
  /\ \E v \in VerdictsOf(Trial(InitialCandidates(oracle), <<>>, NoScore)) :
       search' = IF v.result = "passed" THEN "prepared" ELSE "refused"
  /\ UNCHANGED <<oracle, trials, tally, chain, stages, solution, planVars>>
=============================================================================
