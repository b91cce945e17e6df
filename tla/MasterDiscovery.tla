---------------------------- MODULE MasterDiscovery ----------------------------
(***************************************************************************)
(* find_master_integrals (masters/MasterFinder.cpp) and the planning of a  *)
(* reduction (BlackBoxFeynman::prepare): from a family to its masters, and *)
(* to the system that reduces integrals to them.  The analysis of the      *)
(* sectors, the finder with its two Singular stages, the global selection  *)
(* and the planner follow each other; what a stage leaves behind is the    *)
(* finder's candidates, the basis, or the kernel.                          *)
(***************************************************************************)
EXTENDS BasisSearch

CONSTANT Worlds
  \* a family, the points of its probes, what Singular may print of its sectors when
  \* it counts them, the points of the selection, and the masters the family has

VARIABLES
  printed,  \* the dimensions Singular may print, by sector
  truth     \* the number of masters of the family

worldVars == <<printed, truth>>
vars == <<worldVars, countVars, finderVars, selectVars, planVars, searchVars>>

Idle ==
  /\ envelope = {}
  /\ expansions = <<>>
  /\ relations = <<>>
  /\ rows = <<>>
  /\ chosen = <<>>
  /\ support = <<>>
  /\ open = {}
  /\ masters = <<>>
  /\ selector = "idle"
  /\ job = NoJob
  /\ plan = NoPlan
  /\ attempt = 0
  /\ kernel = NoKernel
  /\ samples = <<>>
  /\ planner = "idle"
  /\ NoSearch

Init ==
  /\ \E w \in Worlds :
       /\ family = w.family
       /\ points = w.points
       /\ printed = w.printed
       /\ planning = w.planning
       /\ truth = w.truth
  /\ CountInit
  /\ results = <<>>
  /\ running = {}
  /\ critical = <<>>
  /\ comparisons = <<>>
  /\ candidates = [mode |-> "None", sources |-> {}, integrals |-> <<>>]
  /\ finder = "analyze"
  /\ Idle

\* The configuration that the finder gets: nonzero sectors and symmetries.
Analyze ==
  /\ finder = "analyze"
  /\ \E valid \in {NonzeroSectors(family)} :
     \E known \in {family @@ [valid |-> valid]} :
     \E classes \in {SymmetryClasses(known)} :
       family' = known @@ [classes |-> classes,
                           generators |-> Generators(known, Variables(known))]
  /\ finder' = "probe"
  /\ UNCHANGED <<points, results, running, critical, comparisons, candidates>>

BeginOwnCount == BeginCount([s \in family.valid |-> printed[s]])

FinderNext ==
  /\ UNCHANGED <<worldVars, selectVars, planVars, searchVars>>
  /\ \/ UNCHANGED countVars /\ (\/ Analyze
                                \/ StartProbes
                                \/ \E batch \in running : RunProbes(batch)
                                \/ FailProbes
                                \/ JoinProbes
                                \/ Assemble)
     \/ BeginOwnCount
     \/ CountStep
     \/ Compare

\* The finder returns, and with it what it has counted is gone.
Returned ==
  /\ finder = "found"
  /\ selector = "idle"
  /\ inventory' = {}
  /\ answers' = <<>>
  /\ attempts' = <<>>
  /\ dimension' = <<>>
  /\ pending' = {}
  /\ batches' = {}
  /\ round' = 0
  /\ counter' = "idle"
  /\ results' = <<>>
  /\ critical' = <<>>
  /\ comparisons' = <<>>
  /\ IF candidates.mode = "FinalBasis"
       THEN selector' = "selected" /\ masters' = candidates.integrals
       ELSE selector' = "called" /\ UNCHANGED masters
  /\ UNCHANGED <<worldVars, family, points, running, candidates, finder, planning, envelope,
                 expansions, relations, rows, chosen, support, open, planVars, searchVars>>

SelectorNext ==
  /\ SelectionNext
  /\ UNCHANGED <<worldVars, countVars, finderVars, planVars, searchVars>>

ReductionNext ==
  /\ UNCHANGED <<worldVars, countVars, family, points, results, running, critical, comparisons, finder>>
  /\ UNCHANGED searchVars
  /\ \/ search = "idle" /\ BeginPlanning
     \/ UNCHANGED candidates /\ (\/ StartAttempt
                                 \/ GenerateSystem
                                 \/ PlanSystem
                                 \/ Activate
                                 \/ AddDots
                                 \/ Publish
                                 \/ Validate)

SearchNext ==
  /\ UNCHANGED <<worldVars, countVars, family, points, results, running, critical, comparisons, finder>>
  /\ \/ PrepareSearch
     \/ PrepareValidation
     \/ UNCHANGED <<candidates, selectVars>> /\ (\/ StartSearch
                                                \/ TestState
                                                \/ EndBeam
                                                \/ ScanFactors
                                                \/ TryFactor
                                                \/ ValidateChain
                                                \/ EndChain
                                                \/ FallBack
                                                \/ Refuse
                                                \/ PublishSolution
                                                \/ SkipValidation
                                                \/ ValidateBasis)

Next == FinderNext \/ Returned \/ SelectorNext \/ ReductionNext \/ SearchNext

Spec == Init /\ [][Next]_vars

-----------------------------------------------------------------------------
(* Symmetry and relations. *)

Analyzed == finder = "probe"

SmallPowers == {0} \X [1 .. family.variables -> {-1, 0, 1}]
SmallSeeds ==
  {s \in {<<p[1]>> \o p[2] : p \in SmallPowers} : IsValidSector(family, SectorOf(s))}

ImagesOf(powers) ==
  {<<m, Applied(powers, m)>> :
     m \in UNION {Isomorphisms(family, SectorOf(powers), T) : T \in family.valid}}

SomePoint == planning[Anchor]
NablaAt(powers, k) == ColumnAt(family, Nabla(family, k, powers), SomePoint)

\* Integrals of sectors whose polynomials differ by the names of the variables only are
\* one integral after canonicalisation, through whatever orbits and buckets their
\* sectors came into a class, and so are the relations from seeds that correspond.
SymmetricIntegralsMeet ==
  Analyzed =>
    \A a \in SmallSeeds : \A image \in ImagesOf(a) :
      /\ Canonicalize(family, image[2]) = Canonicalize(family, a)
      /\ \A v \in SectorOf(a) : NablaAt(a, v) = NablaAt(image[2], image[1][v])

-----------------------------------------------------------------------------
(* Bases of sectors. *)

PointsOf(s, p) == CriticalPoints(family, s, points[p])
IsFinite(s, p) == CriticalIdeal(family, s, points[p]).finite

\* The image of a critical point under a symmetry of its sector.
MovedPoint(sector, g, x) ==
  LET active == Ascending(sector)
  IN  [i \in DOMAIN x |-> x[CHOOSE j \in DOMAIN x : g[active[j]] = active[i]]]

PointOrbits(s, p) ==
  {{x} \union {MovedPoint(s, g, x) : g \in SectorGenerators(family, s)} : x \in PointsOf(s, p)}

\* A probe of isolated critical points finds a basis (degrees up to the number of
\* points suffice), as many monomials as points, and with symmetries one monomial for
\* each orbit of points, of those that the basis holds.
LocalBasesExact ==
  Analyzed =>
    \A s \in Representatives(family), p \in Probes : IsFinite(s, p) =>
      \E r \in ResultOf(<<s, p>>) :
        /\ r.dimension = Cardinality(PointsOf(s, p))
        /\ \A b \in r.symmetry :
             /\ Len(b) = Cardinality(PointOrbits(s, p))
             /\ Range(b) \subseteq Range(r.monomials)

-----------------------------------------------------------------------------
(* Masters. *)

\* Without a selection the critical points of all sectors below a sector add up to the
\* number that both primes of its count gave, the critical probes found equally many,
\* and the basis has an integral for each orbit of points.
BasisJustified ==
  (finder = "found" /\ selector = "idle" /\ candidates.mode = "FinalBasis") =>
    /\ \A s \in family.valid, p \in Probes :
         /\ HasRun(s)
         /\ Latest(s)[p] = MapThenSumSet(
              LAMBDA c : Cardinality(PointsOf(RepresentativeOf(family, c), p)),
              {c \in family.valid : c \subseteq s})
    /\ Len(candidates.integrals) =
         MapThenSumSet(LAMBDA s : Cardinality(PointOrbits(s, 0)), Representatives(family))

\* An elimination of everything at once: relations, basis, what it must express.
ClosedAt(point) ==
  LET integrals == masters \o InOrder(Range(candidates.integrals) \union Border(masters), LexBefore)
      columns == RelationColumns \o [i \in DOMAIN integrals |-> {Plain(integrals[i], 1)}]
      all == RowsOf(family, Range(columns))
      pivots == Range(PivotColumns(MatrixAt(family, all, columns, point), columns, point.prime))
      first == Len(RelationColumns)
  IN  {c \in pivots : c > first} = first + 1 .. first + Len(masters)

\* The basis of a selection is independent of the relations, together with them
\* expresses the candidates and their neighbours at all four points, and has as many
\* integrals as the family has masters.
GlobalBasisClosed ==
  (selector = "selected" /\ candidates.mode = "GlobalSelection") =>
    /\ \A q \in DOMAIN planning : ClosedAt(planning[q])
    /\ Len(masters) = truth

-----------------------------------------------------------------------------
(* Reduction. *)

\* What a point gives: nothing if its system is singular, else the known coefficients.
ReducesAt(q) ==
  \A reference \in samples[q] :
    \A t \in DOMAIN reference.value : \A b \in DOMAIN reference.value[t] :
      (reference.value[t][b] * job.answers[q][t][b][2] - job.answers[q][t][b][1])
        % planning[q].prime = 0

\* A basis that can express the request is planned within the budget of seeds, and the
\* system that was selected at one point gives the known coefficients at all points,
\* however special that point was; of symmetric masters, and of too few, no plan is made.
KernelReducesExactly ==
  /\ planner \in {"failed", "equivalent basis", "planned"} => planner = job.outcome
  /\ planner = "planned" =>
       /\ samples[<<0, attempt>>] # {}
       /\ \A q \in DOMAIN planning : ReducesAt(q)
-----------------------------------------------------------------------------
(* The selected basis. *)

IsOdd(permutation) ==
  Cardinality({x \in (DOMAIN permutation) \X (DOMAIN permutation) :
                 x[1] < x[2] /\ permutation[x[1]] > permutation[x[2]]}) % 2 = 1

\* Of a matrix of functions of d.
Determinant(matrix, p) ==
  LET permutations == {f \in [DOMAIN matrix -> DOMAIN matrix] : Range(f) = DOMAIN matrix}
      product(f) == FoldLeft(LAMBDA x, i : Probe!Multiply(x, matrix[i][f[i]], p), Probe!Unit,
                             [i \in DOMAIN matrix |-> i])
      signed(f) == IF IsOdd(f) THEN Probe!Subtract(Probe!Zero, product(f), p) ELSE product(f)
  IN  FoldSet(LAMBDA f, sum : Probe!Subtract(sum, signed(f), p), Probe!Zero, permutations)

RowsAt(q, integrals) == [i \in DOMAIN integrals |-> oracle.rows[q][integrals[i]]]

\* The coordinate of an integral, by Cramer's rule.
CoordinateOf(q, basis, integral, b) ==
  LET p == oracle.primes[q[1]]
  IN  Probe!Over(Determinant([RowsAt(q, basis) EXCEPT ![b] = oracle.rows[q][integral]], p),
                 Determinant(RowsAt(q, basis), p), p)

IsBasisAt(q, basis) == Determinant(RowsAt(q, basis), oracle.primes[q[1]]) # Probe!Zero

\* What depends on d in a denominator is the same at all points, those of the planner
\* included, of which the search knows nothing.
IsSeparated(basis, integral) ==
  \A prime \in DOMAIN oracle.primes : \A b \in DOMAIN basis :
    LET denominators == {Probe!Denominator(CoordinateOf(q, basis, integral, b)) :
                           q \in {r \in DOMAIN oracle.rows : r[1] = prime}}
    IN  Cardinality(denominators \ {Probe!One}) <= 1

\* A basis that is published separates d from the kinematics in all targets of the
\* search, whatever few points the search has tested and on whatever path of swaps it has
\* come there; its support has exactly the coordinates that are not zero, in the order
\* of the published basis.  If integrals are requested, the same holds for them before
\* the reduction begins.
SelectionJustified ==
  /\ search = "found" =>
       /\ \A q \in DOMAIN oracle.rows : IsBasisAt(q, solution.basis)
       /\ \A t \in Range(oracle.targets) : IsSeparated(solution.basis, t)
       /\ solution.output =
            {x \in Range(oracle.targets) \X (DOMAIN solution.basis) :
               \E q \in DOMAIN oracle.rows :
                 CoordinateOf(q, solution.basis, x[1], x[2]) # Probe!Zero}
  /\ search = "prepared" =>
       \A i \in Range(oracle.requested) : IsSeparated(solution.basis, i)

Integrals(selected) == [j \in DOMAIN selected |-> oracle.pool[selected[j]]]

\* The swaps lead from the first basis to the selected one, each within a sector.
IsPath(path, selected) ==
  /\ selected = FoldLeft(Probe!After, InitialCandidates(oracle), path)
  /\ \A j \in DOMAIN selected : oracle.sectors[selected[j]] = SectorOf(oracle.basis[j])

\* What is tried is always a basis at the points where swaps were chosen: no pivot was
\* zero, nor an integral taken twice.  A chain never ends by the checks that the program
\* makes of its own swaps: an integral without a pole stays so, and one more loses it.
\* All stages together stay within the budget, which is said to be exhausted only if it is.
SearchSound ==
  /\ trials # <<>> => \A t \in trials.frontier :
       IsPath(t.path, t.selected) /\ \A k \in Probe!TrainingPoints(oracle) : IsBasisAt(<<1, k>>, Integrals(t.selected))
  /\ chain # <<>> =>
       /\ chain.status # "logic_error"
       /\ IsPath(chain.steps, chain.selected)
       /\ IsBasisAt(Probe!AnchorOfChain(chain), Integrals(chain.selected))
  /\ \A i \in DOMAIN stages :
       /\ stages[i].used <= stages[i].budget
       /\ stages[i].status = "SearchBudgetExhausted" => stages[i].used = stages[i].budget
  /\ stages # <<>> => TotalUsed <= oracle.maximumStates
=============================================================================
