----------------------------- MODULE KernelPlanner -----------------------------
(***************************************************************************)
(* BlackBoxFeynman::plan_kernel (reduction/KernelPlanner.cpp) and the      *)
(* publication of its plan (KernelPublication.cpp, ReferencePlanBuilder.cpp): *)
(* from requested integrals and a basis to the square system whose         *)
(* solution is the reduction.  Seeds come in layers by their power of G if *)
(* the integrals are projected; rows that stay open first activate seeds   *)
(* in layers that have none and then get more dots, up to a budget.        *)
(*                                                                         *)
(* The seeds, relations and rows are those variables of GlobalSelection,   *)
(* which has returned.  plan_compact_kernel is CompactPlanner.tla and its  *)
(* answer here that of one elimination; the blocks and tapes in which the  *)
(* program solves the system are BlockReplay.tla.                          *)
(***************************************************************************)
EXTENDS GlobalSelection, ProjectedTargets

CONSTANT Jobs
  \* what is asked of a family, by its name: a basis (<<>> for the masters that were
  \* found), integrals, and requests (<<>>, or weights by integral); and what is known
  \* of the answer

VARIABLES
  job,     \* the request in work
  plan,    \* top_lp_target_plan: the columns of basis and integrals
  attempt, \* anchor_attempt
  kernel,  \* the published system: its columns, and its rows
  samples, \* validation_samples: the references by point
  planner  \* what planning does

planVars == <<job, plan, attempt, kernel, samples, planner>>

\* Bound: two attempts of kProbeAttemptLimit, each at a point of its own.
AttemptLimit == 2
PlanningPoint == planning[<<0, attempt>>]

NoPlan == [projected |-> FALSE, basis |-> <<>>, targets |-> <<>>, maximum |-> 0]
NoKernel == [columns |-> <<>>, rows |-> <<>>]
NoJob == [basis |-> <<>>, targets |-> <<>>, requests |-> <<>>, outcome |-> "", answers |-> <<>>,
          sources |-> {}]

-----------------------------------------------------------------------------
(* Basis and seeds *)

\* check_basis_representatives leaves integrals with numerators to other checks.
Representative(integral) == Canonicalize(family, PowersOf(integral))

HasEquivalent(basis) ==
  \E i, j \in DOMAIN basis :
    /\ i # j
    /\ ~\E k \in {i, j} : \E v \in DOMAIN basis[k].indices : basis[k].indices[v] < 0
    /\ Representative(basis[i]) = Representative(basis[j])

PlannedPowers == {c.powers : c \in UNION (Range(plan.basis) \union Range(plan.targets))}

\* build_ansatz_seed_layers: a row has relations from its own layer and the one before.
LayerCount == IF plan.projected THEN Max({2, plan.maximum}) ELSE 1

LayerTerms(shift) == {a \in PlannedPowers : GShift(a) \in {shift, shift + 1}}

LayerAnchors(shift) ==
  (IF shift = 0 THEN {Corner(family, s) : s \in job.sources} ELSE {})
    \union
  (IF plan.projected THEN LayerTerms(shift)
   ELSE {PowersOf(i) : i \in Range(job.basis) \union Range(job.targets)})

FirstSeeds ==
  UNION {InitialDomain(family, LayerAnchors(g), g) : g \in 0 .. LayerCount - 1}

\* The basis of a job, which the selection may have found, and its relation sources.
Resolved(j) ==
  [j EXCEPT !.basis = IF @ # <<>> THEN @ ELSE [i \in DOMAIN masters |-> IntegralWith(masters[i])]]
    @@ [sources |-> candidates.sources]

\* The plan of a job, from its first attempt on.
Begin(j) ==
  /\ job' = j
  /\ plan' = TargetPlan(family, j.basis, j.targets)
  /\ planner' = "start"
  /\ kernel' = NoKernel
  /\ samples' = <<>>
  /\ envelope' = {}
  /\ expansions' = <<>>
  /\ relations' = <<>>
  /\ rows' = <<>>
  /\ chosen' = <<>>
  /\ support' = <<>>
  /\ open' = {}
  /\ candidates' = [mode |-> "None", sources |-> {}, integrals |-> <<>>]
  /\ masters' = <<>>
  /\ attempt' = 0
  /\ UNCHANGED <<planning, selector>>

BeginPlanning ==
  /\ selector = "selected"
  /\ planner = "idle"
  /\ \E j \in {Resolved(k) : k \in Jobs[family.name]} : Begin(j)

\* plan_kernel, which each attempt calls anew.
StartAttempt ==
  /\ planner = "start"
  /\ IF HasEquivalent(job.basis) THEN planner' = "equivalent basis" /\ UNCHANGED envelope
     ELSE planner' = "generate" /\ envelope' = FirstSeeds
  /\ expansions' = <<>>
  /\ UNCHANGED <<job, plan, attempt, kernel, samples, planning, relations, rows, chosen, support,
                 open, masters, selector>>

-----------------------------------------------------------------------------
(* The indexed system *)

GenerateSystem ==
  /\ planner = "generate"
  /\ \E grid \in {CanonicalizeGrid(family, envelope)} :
       /\ envelope' = Range(grid)
       /\ relations' = KeptRelations(family, grid)
  /\ \E columns \in {Range(plan.basis) \union Range(plan.targets)
                       \union {relations'[i].terms : i \in DOMAIN relations'}} :
       rows' = RowsOf(family, columns)
  /\ planner' = IF {} \in Range(plan.basis) THEN "failed" ELSE "plan"
  /\ UNCHANGED <<job, plan, attempt, kernel, samples, planning, expansions, chosen, support, open, masters, selector>>

\* The group of a row, and of a relation: the deepest of its rows, and its seed's sector.
PlanGroup(powers) == IF plan.projected THEN GroupOf(powers) ELSE <<0, SectorOf(powers)>>

RelationGroup(relation) ==
  <<IF plan.projected THEN Max({GShift(t.powers) : t \in relation.terms}) ELSE 0,
    SectorOf(relation.seed)>>

\* Relations by group, those of a group as they were generated.
GroupedOrder ==
  SortSeq([i \in DOMAIN relations |-> i],
          LAMBDA a, b : \/ GroupBefore(RelationGroup(relations[a]), RelationGroup(relations[b]))
                        \/ RelationGroup(relations[a]) = RelationGroup(relations[b]) /\ a < b)

ColumnValue(column, point) ==
  IF plan.projected THEN ProjectedColumnAt(family, column, point) ELSE ColumnAt(family, column, point)

Ratio(fraction, prime) == (fraction.numerator * Linear(prime)!Reciprocal(fraction.denominator % prime)) % prime

Inverted(fraction, prime) ==
  (fraction.denominator * Linear(prime)!Reciprocal(fraction.numerator % prime)) % prime

TargetFactor(t, point) == Ratio(LpFraction(family, job.targets[t], point), point.prime)

\* A combination of integrals is one right-hand side, with their normalisation.
Combination(request, values, factors, prime) ==
  [row \in UNION {DOMAIN values[t] : t \in DOMAIN request} |->
     MapThenSumSet(LAMBDA t : (request[t] * factors[t]) * values[t][row],
                   {t \in DOMAIN request : row \in DOMAIN values[t]}) % prime]

RightHandSides(values, factors, prime) ==
  IF job.requests = <<>> THEN values
  ELSE [i \in DOMAIN job.requests |-> Combination(job.requests[i], values, factors, prime)]

TargetFactors(point) == [t \in DOMAIN job.targets |-> TargetFactor(t, point)]

Requested(point) ==
  RightHandSides(Tabled([t \in DOMAIN plan.targets |-> ColumnValue(plan.targets[t], point)]),
                 Tabled(TargetFactors(point)), point.prime)

\* The columns of the basis and of relations in an order, by row.
SystemAt(order, point) ==
  ByRow(rows, [b \in DOMAIN plan.basis |-> ColumnValue(plan.basis[b], point)]
                \o [i \in DOMAIN order |-> ColumnAt(family, relations[order[i]].terms, point)])

ByRequest(values) ==
  Tabled([r \in DOMAIN rows |->
    Tabled([t \in DOMAIN values |-> IF rows[r] \in DOMAIN values[t] THEN values[t][rows[r]] ELSE 0])])

RequestedByRow(point) == ByRequest(Tabled(Requested(point)))

\* Basis columns are of the group of a row of theirs.
SystemGroups(order) ==
  [b \in DOMAIN plan.basis |->
     PlanGroup(Canonicalize(family, (CHOOSE t \in plan.basis[b] : TRUE).powers))]
  \o [i \in DOMAIN order |-> RelationGroup(relations[order[i]])]

EliminatedSystem(order, point) ==
  Linear(point.prime)!GaussianElimination(
    SystemAt(order, point), RequestedByRow(point), Len(plan.basis),
    [r \in DOMAIN rows |-> PlanGroup(rows[r])], SystemGroups(order))

Spanning(g) == SubSeq(g.columns, 1, Len(plan.basis)) = [b \in DOMAIN plan.basis |-> b]

\* The relations with a part in the solution, as they stand in the order.
InSolution(g, order, prime) ==
  LET solution == Linear(prime)!BackSubstitution(g.matrix, g.rhs, g.columns, g.rowMap)
      n == Len(plan.basis)
      live == {i \in DOMAIN g.columns : g.columns[i] > n /\ ~Linear(prime)!IsZero(solution[i])}
      at == Ascending({g.columns[i] - n : i \in live})
  IN  [j \in DOMAIN at |-> order[at[j]]]

\* plan_compact_kernel: the rows that stay open, or the system of what is needed.
PlanSystem ==
  /\ planner = "plan"
  /\ \E g \in {EliminatedSystem(GroupedOrder, PlanningPoint)} :
     \E left \in {OpenRows(g, PlanningPoint.prime)} :
       /\ open' = {GroupOf(rows[r]) : r \in left}
       /\ support' = IF left # {} THEN <<>>
                     ELSE InSolution(g, GroupedOrder, PlanningPoint.prime)
       /\ planner' = IF ~Spanning(g) THEN "failed" ELSE IF left # {} THEN "grow" ELSE "publish"
  /\ UNCHANGED <<job, plan, attempt, kernel, samples, planning, envelope, expansions, relations, rows, chosen,
                 masters, selector>>

-----------------------------------------------------------------------------
(* More seeds *)

MaximumShift == Max({1, plan.maximum})
SeedGroups == {GroupOf(s) : s \in envelope}

\* A row of a layer is reached from the layer before, which may be empty.
LayersToActivate(groups) ==
  groups \union {<<k[1] - 1, k[2]>> : k \in {g \in groups : g[1] > 1 /\ g[1] - 1 <= MaximumShift}}

\* Seeds of the layer before in a sector and below, and what columns inherit to it.
ActivationAnchors(group) ==
  {s \in envelope : GShift(s) = group[1] - 1 /\ SectorOf(s) \subseteq group[2]}
    \union
  {s \in Range(CanonicalizeGrid(family, InitialDomain(family, LayerTerms(group[1]), group[1]))) :
     SectorOf(s) = group[2]}

\* activate_projected_seed_groups: no group that has seeds gets more.
ActivatedPoints ==
  LET missing == {g \in LayersToActivate(open) : g[1] \in 1 .. MaximumShift} \ SeedGroups
  IN  {p \in {Canonicalize(family, q) :
                q \in UNION {InitialDomain(family, ActivationAnchors(g), g[1]) : g \in missing}} :
         GroupOf(p) \notin SeedGroups}

DeepestSeed == Max({LayerCount - 1} \union {GShift(s) : s \in envelope})

\* Both layers that reach a row get more dots.
GroupsToExpand ==
  {<<Min({k[1], DeepestSeed}), k[2]>> : k \in open}
    \union
  (IF plan.projected
     THEN {<<k[1] - 1, k[2]>> : k \in {g \in open : g[1] # 0 /\ g[1] - 1 <= DeepestSeed}} ELSE {})

Activate ==
  /\ planner = "grow"
  /\ plan.projected
  /\ ActivatedPoints # {}
  /\ envelope' = envelope \union ActivatedPoints
  /\ planner' = "generate"
  /\ UNCHANGED <<job, plan, attempt, kernel, samples, planning, expansions, relations, rows, chosen, support, open,
                 masters, selector>>

\* AnsatzClosureError if the budget of a group is used up, or there are no new seeds.
AddDots ==
  /\ planner = "grow"
  /\ plan.projected => ActivatedPoints = {}
  /\ \E e \in {Expansion(family, envelope, GroupsToExpand, expansions)} :
       IF Exhausted(expansions, GroupsToExpand) \/ e.points = {}
         THEN planner' = "failed" /\ UNCHANGED <<envelope, expansions>>
         ELSE /\ envelope' = envelope \union e.points
              /\ expansions' = e.counts
              /\ planner' = "generate"
  /\ UNCHANGED <<job, plan, attempt, kernel, samples, planning, relations, rows, chosen, support, open, masters, selector>>

-----------------------------------------------------------------------------
(* The kernel *)

\* publish_kernel_plan: the pivots of the selected system, eliminated again.
Publish ==
  /\ planner = "publish"
  /\ \E g \in {EliminatedSystem(support, PlanningPoint)} :
       kernel' = [columns |-> g.columns, rows |-> SubSeq(g.rowMap, 1, Len(g.columns))]
  /\ planner' = "validate"
  /\ UNCHANGED <<job, plan, attempt, samples, planning, envelope, expansions, relations, rows, chosen, support, open,
                 masters, selector>>

\* The square system of the reference plan at a point, by its own rows and columns.
SquareAt(matrix) ==
  Tabled([i \in DOMAIN kernel.rows |->
            [j \in {k \in DOMAIN kernel.columns :
                      kernel.columns[k] \in DOMAIN matrix[kernel.rows[i]]} |->
               matrix[kernel.rows[i]][kernel.columns[j]]]])

\* The solution by column and request; nothing if the system is singular.
SolutionsAt(matrix, rhs, prime) ==
  LET none == [j \in DOMAIN kernel.columns |-> 1]
      g == Linear(prime)!GaussianElimination(
             SquareAt(matrix), [i \in DOMAIN kernel.rows |-> rhs[kernel.rows[i]]],
             Len(kernel.columns), none, none)
  IN  IF Len(g.columns) < Len(kernel.columns) THEN {}
      ELSE {Linear(prime)!BackSubstitution(g.matrix, g.rhs, g.columns, g.rowMap)}

\* The closure residual: the solution must satisfy all rows, not only those solved.
Residue(solution, matrix, rhs, r, t, prime) ==
  (MapThenSumSet(LAMBDA j : IF kernel.columns[j] \in DOMAIN matrix[r]
                              THEN matrix[r][kernel.columns[j]] * solution[j][t] ELSE 0,
                 DOMAIN kernel.columns) - rhs[r][t]) % prime

SampleOf(solution, matrix, rhs, factors, inverses, prime) ==
  [closed |-> \A r \in DOMAIN rows, t \in DOMAIN rhs[1] :
                Residue(solution, matrix, rhs, r, t, prime) = 0,
   value |-> [t \in DOMAIN rhs[1] |-> [b \in DOMAIN job.basis |->
                (((solution[b][t] * factors[t]) % prime) * inverses[b]) % prime]]]

SamplesOf(matrix, rhs, factors, inverses, prime) ==
  {SampleOf(solution, matrix, rhs, factors, inverses, prime) :
     solution \in SolutionsAt(matrix, rhs, prime)}

\* evaluate_reference: its outcomes at a point, by request and master; combinations
\* have their normalisation already.
ReferenceAt(point) ==
  SamplesOf(Tabled(SystemAt(support, point)), RequestedByRow(point),
           Tabled(IF job.requests = <<>> THEN TargetFactors(point)
                  ELSE [i \in DOMAIN job.requests |-> 1]),
           Tabled([b \in DOMAIN job.basis |->
                     Inverted(LpFraction(family, job.basis[b], point), point.prime)]),
           point.prime)

\* Mutant: a kernel is taken as it was planned.
AnyKernel(references) == TRUE

\* evaluate_reference throws on a residual.
WithoutResidual(references) == \A q \in DOMAIN references : \A r \in references[q] : r.closed

\* prepare_impl: a residual at a validation point of either prime refuses the anchor;
\* the next one plans from the first seeds again.
Validate ==
  /\ planner = "validate"
  /\ samples' = [q \in DOMAIN planning |-> ReferenceAt(planning[q])]
  /\ IF WithoutResidual(samples')
       THEN planner' = "planned" /\ UNCHANGED <<attempt, kernel>>
       ELSE /\ planner' = IF attempt + 1 < AttemptLimit THEN "start" ELSE "failed"
            /\ attempt' = attempt + 1
            /\ kernel' = NoKernel
  /\ UNCHANGED <<job, plan, planning, envelope, expansions, relations, rows, chosen, support, open,
                 masters, selector>>

PlannerNext ==
  BeginPlanning \/ StartAttempt \/ GenerateSystem \/ PlanSystem \/ Activate \/ AddDots \/ Publish \/ Validate
=============================================================================
