---------------------------- MODULE GlobalSelection ----------------------------
(***************************************************************************)
(* select_global_master_basis (masters/detail/GlobalBasisSelector.cpp):    *)
(* which candidates the relations leave independent, and whether the       *)
(* relations express all candidates, and those with one more dot, by what  *)
(* is left.  Two primes must select the same; the rest is checked at four  *)
(* points, the first three of them on combinations of the targets, and as  *)
(* long as rows stay open the seeds around them are expanded.              *)
(*                                                                         *)
(* plan_compact_kernel, which closes the combinations at the first point,  *)
(* is CompactPlanner.tla; here its answer is that of one elimination.      *)
(***************************************************************************)
EXTENDS MasterFinder, SeedExpansion

VARIABLES
  planning,   \* the points of planning_field_value, by prime and point index
  envelope,   \* the seeds
  expansions, \* expansion_counts
  relations,  \* symbolic.relations
  rows,       \* the canonical powers of all columns, in an order
  chosen,     \* accepted.selected_candidates
  support,    \* anchor.ansatz_order: the relations that the closure uses
  open,       \* residual_groups
  masters,    \* the basis
  selector    \* what the selection does

selectVars ==
  <<planning, envelope, expansions, relations, rows, chosen, support, open, masters, selector>>

Tape(prime) == INSTANCE EliminationTape WITH Prime <- prime

Anchor == <<0, 0>>
ReplayPoints == <<<<1, 0>>, <<0, 1>>, <<1, 1>>>>

-----------------------------------------------------------------------------
(* Columns *)

CandidateColumns == [i \in DOMAIN candidates.integrals |->
                       IntegralColumn(family, candidates.integrals[i])]
RelationColumns == [i \in DOMAIN relations |-> relations[i].terms]

BasisOf(selected) == [i \in DOMAIN selected |-> candidates.integrals[selected[i]]]

\* Mutant: the basis is closed under the candidates alone.
NoBorder(basis) == {}

\* selected_basis_border: one more dot on the variables of a master.
Border(basis) ==
  UNION {{Raised(p, v) : v \in SectorOf(p)} : p \in Range(basis)}

BorderColumns(basis) ==
  LET powers == InOrder(Border(basis), LexBefore)
  IN  [i \in DOMAIN powers |-> {Plain(powers[i], 1)}]

Targets(selected) == CandidateColumns \o BorderColumns(BasisOf(selected))

\* Two combinations of the targets, whose terms get weights.
Weighted(columns, weights) ==
  UNION {{[t EXCEPT !.int = @ * weights[i], !.minusHalfD = @ * weights[i]] @@ [target |-> i] :
            t \in columns[i]} : i \in DOMAIN columns}

Projections(columns) ==
  <<Weighted(columns, [i \in DOMAIN columns |-> i]),
    Weighted(columns, [i \in DOMAIN columns |-> i * (i + 1)])>>

-----------------------------------------------------------------------------
(* Generation and selection *)

\* The seeds for candidates and for the corners of the sectors that need relations.
FirstEnvelope ==
  InitialDomain(family, Range(candidates.integrals)
                          \union {Corner(family, s) : s \in candidates.sources}, 0)

StartSelection ==
  /\ selector = "called"
  /\ IF candidates.integrals = <<>> THEN selector' = "selected" /\ UNCHANGED envelope
     ELSE IF \E i \in DOMAIN CandidateColumns : CandidateColumns[i] = {}
       THEN selector' = "failed" /\ UNCHANGED envelope
       ELSE selector' = "generate" /\ envelope' = FirstEnvelope
  /\ UNCHANGED <<planning, expansions, relations, rows, chosen, support, open, masters>>

Generate ==
  /\ selector = "generate"
  /\ \E grid \in {CanonicalizeGrid(family, envelope)} :
       /\ envelope' = Range(grid)
       /\ relations' = KeptRelations(family, grid)
  /\ \E columns \in {Range(CandidateColumns) \union {relations'[i].terms : i \in DOMAIN relations'}} :
       rows' = RowsOf(family, columns)
  /\ selector' = "select"
  /\ UNCHANGED <<planning, expansions, chosen, support, open, masters>>

\* select_at_probe: the candidates that are pivots, behind all relations.
SelectedAt(point) ==
  LET columns == RelationColumns \o CandidateColumns
      pivots == PivotColumns(MatrixAt(family, rows, columns, point), columns, point.prime)
      first == Len(RelationColumns)
  IN  [i \in 1 .. Len(SelectSeq(pivots, LAMBDA c : c > first)) |->
         SelectSeq(pivots, LAMBDA c : c > first)[i] - first]

Select ==
  /\ selector = "select"
  /\ \E first \in {SelectedAt(planning[Anchor])}, second \in {SelectedAt(planning[<<1, 0>>])} :
       IF first # second THEN selector' = "failed" /\ UNCHANGED <<chosen, rows>>
       ELSE /\ chosen' = first
            /\ rows' = RowsOf(family, Range(RelationColumns) \union Range(Targets(first)))
            /\ selector' = "close"
  /\ UNCHANGED <<planning, envelope, expansions, relations, support, open, masters>>

-----------------------------------------------------------------------------
(* Closure *)

Sources(order) ==
  [i \in DOMAIN chosen |-> CandidateColumns[chosen[i]]]
    \o [i \in DOMAIN order |-> relations[order[i]].terms]

AllOrder == [i \in DOMAIN relations |-> i]

\* The groups of rows, which are all without a shift of G.
GroupsOf(openRows) == {<<0, SectorOf(rows[r])>> : r \in openRows}

\* The columns of a system as rows of values, and those of its right-hand sides.
ValuesByRow(columns, point) == MatrixAt(family, rows, columns, point)
RhsByRow(columns, point) ==
  LET matrix == MatrixAt(family, rows, columns, point)
  IN  [r \in DOMAIN matrix |->
         [t \in DOMAIN columns |-> IF t \in DOMAIN matrix[r] THEN matrix[r][t] ELSE 0]]

\* plan_compact_kernel: an elimination of the basis and an order of relations.
Eliminated(order, point) ==
  Linear(point.prime)!GaussianElimination(
    ValuesByRow(Sources(order), point), RhsByRow(Projections(Targets(chosen)), point),
    Len(chosen), [r \in DOMAIN rows |-> SectorOf(rows[r])],
    [c \in 1 .. Len(chosen) + Len(order) |->
       IF c <= Len(chosen) THEN SectorOf(candidates.integrals[chosen[c]])
       ELSE SectorOf(relations[order[c - Len(chosen)]].seed)])

OpenRows(g, prime) == {r \in DOMAIN rows \ g.used : ~Linear(prime)!IsZero(g.rhs[r])}

\* The relations whose part of a solution is not zero.
LiveRelations(g, prime) ==
  LET solution == Linear(prime)!BackSubstitution(g.matrix, g.rhs, g.columns, g.rowMap)
      n == Len(chosen)
      live == {i \in DOMAIN g.columns : g.columns[i] > n /\ ~Linear(prime)!IsZero(solution[i])}
  IN  [j \in 1 .. Cardinality(live) |-> g.columns[Ascending(live)[j]] - n]

Close ==
  /\ selector = "close"
  /\ \E g \in {Eliminated(AllOrder, planning[Anchor])} :
     \E left \in {OpenRows(g, planning[Anchor].prime)} :
       /\ open' = GroupsOf(left)
       /\ support' = IF left # {} THEN <<>> ELSE LiveRelations(g, planning[Anchor].prime)
  /\ selector' = IF open' = {} THEN "verify" ELSE "expand"
  /\ UNCHANGED <<planning, envelope, expansions, relations, rows, chosen, masters>>

\* verify_exact_closure: each target on its own, at the first point.
OpenTargets(order, point) ==
  LET columns == Sources(order) \o Targets(chosen)
      pivots == PivotColumns(ValuesByRow(columns, point), columns, point.prime)
      first == Len(Sources(order))
  IN  {c - first : c \in {p \in Range(pivots) : p > first}}

RowNumber(powers) == CHOOSE r \in DOMAIN rows : rows[r] = powers
RowsOfTarget(t) ==
  {RowNumber(Canonicalize(family, term.powers)) : term \in Targets(chosen)[t]}

Verify ==
  /\ selector = "verify"
  /\ \E left \in {OpenTargets(support, planning[Anchor])} :
       open' = GroupsOf(UNION {RowsOfTarget(t) : t \in left})
  /\ selector' = IF open' = {} THEN "replay" ELSE "expand"
  /\ UNCHANGED <<planning, envelope, expansions, relations, rows, chosen, support, masters>>

\* The square system of the pivot rows, and a tape for it recorded at the first point.
PivotRows(g) == SubSeq(g.rowMap, 1, Len(Sources(support)))

SquareRows(pivots, matrix) ==
  [i \in DOMAIN pivots |->
     [c \in DOMAIN matrix[pivots[i]] |->
        [slot |-> <<i, c, 0>>, value |-> matrix[pivots[i]][c]]]]

RecordedAt(point, pivots) ==
  Tape(point.prime)!RecordSparseTape(SquareRows(pivots, ValuesByRow(Sources(support), point)),
                                     (DOMAIN pivots) \X {1, 2})

\* Coefficients that vanished when the tape was recorded have no slot to load.
Loaded(recorded, square) ==
  LET slots == UNION {UNION {{o[1], o[2]} : o \in g.matrix} \union {g.slot} :
                        g \in ToSet(recorded.tape)}
      value(i, c) == IF c \in DOMAIN square[i] THEN square[i][c].value ELSE 0
  IN  [s \in slots |-> IF s[3] = 0 THEN value(s[1], s[2]) ELSE 0]

\* The solution of the square system, by column and projection.
Solved(recorded, factors, rhs, pivots, prime) ==
  LET words == [w \in (DOMAIN pivots) \X {1, 2} |-> rhs[pivots[w[1]]][w[2]]]
      result == Tape(prime)!ApplyTape(words, recorded.tape, factors)
  IN  [c \in DOMAIN pivots |-> [t \in 1 .. 2 |-> result[<<recorded.at[c], t>>]]]

\* Rows on which the solution misses the targets.
MissedRows(solution, matrix, rhs, prime) ==
  {r \in DOMAIN rows : \E t \in 1 .. 2 :
     MapThenSumSet(LAMBDA c : matrix[r][c] * solution[c][t], DOMAIN matrix[r]) % prime
       # rhs[r][t]}

\* replay_closure: nothing if a pivot is zero, else the rows that stay open.
ReplayAt(recorded, pivots, point) ==
  LET matrix == ValuesByRow(Sources(support), point)
      rhs == RhsByRow(Projections(Targets(chosen)), point)
      run == Tape(point.prime)!Factors(recorded.tape, Loaded(recorded, SquareRows(pivots, matrix)))
  IN  IF ~run.ok THEN {}
      ELSE {MissedRows(Solved(recorded, run.factors, rhs, pivots, point.prime),
                       matrix, rhs, point.prime)}

Replay ==
  /\ selector = "replay"
  /\ \E pivots \in {PivotRows(Eliminated(support, planning[Anchor]))} :
     \E recorded \in {RecordedAt(planning[Anchor], pivots)} :
     \E replays \in {[i \in DOMAIN ReplayPoints |->
                        ReplayAt(recorded, pivots, planning[ReplayPoints[i]])]} :
       IF \E i \in DOMAIN replays : replays[i] = {}
         THEN selector' = "failed" /\ UNCHANGED <<open, masters>>
         ELSE /\ open' = GroupsOf(UNION {UNION replays[i] : i \in DOMAIN replays})
              /\ masters' = IF open' = {} THEN BasisOf(chosen) ELSE masters
              /\ selector' = IF open' = {} THEN "selected" ELSE "expand"
  /\ UNCHANGED <<planning, envelope, expansions, relations, rows, chosen, support>>

\* Without new seeds, or with none left to a group, there is no basis.
Expand ==
  /\ selector = "expand"
  /\ \E e \in {Expansion(family, envelope, open, expansions)} :
       IF Exhausted(expansions, open) \/ e.groups = {} \/ e.points = {}
         THEN selector' = "failed" /\ UNCHANGED <<envelope, expansions>>
         ELSE /\ envelope' = envelope \union e.points
              /\ expansions' = e.counts
              /\ selector' = "generate"
  /\ UNCHANGED <<planning, relations, rows, chosen, support, open, masters>>

SelectionNext ==
  StartSelection \/ Generate \/ Select \/ Close \/ Verify \/ Replay \/ Expand
=============================================================================
