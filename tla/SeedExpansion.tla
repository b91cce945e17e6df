----------------------------- MODULE SeedExpansion -----------------------------
(***************************************************************************)
(* From seeds to the relations that an elimination gets, and from what it  *)
(* leaves open to more seeds: the filters and the deduplication that       *)
(* GlobalBasisSelector.cpp and KernelPlanner.cpp share, and                *)
(* reduction/ProjectedSeedExpansion.cpp.  A group of seeds is a shift of G *)
(* and a sector.                                                           *)
(***************************************************************************)
EXTENDS EquationGenerator

RowSector(family, powers) == SectorOf(Canonicalize(family, powers))

\* column_stays_in_seed_sector: no term of another sector of as many variables.
StaysInSeedSector(family, column) ==
  LET sector == SectorOf(column.seed)
  IN  \A t \in column.terms :
        \/ Cardinality(RowSector(family, t.powers)) < Cardinality(sector)
        \/ RowSector(family, t.powers) = sector

-----------------------------------------------------------------------------
(* symbolic_signature: what a relation says, whatever the point. *)

Weights(family, t) == IF t.term = 0 THEN <<1>> ELSE family.terms[t.term].weights

\* The weight of each row with each parameter, with and without -d/2.
SymbolicWeights(family, terms) ==
  LET rowOf == Tabled([t \in terms |-> Canonicalize(family, t.powers)])
      part(t, half) == IF half THEN t.minusHalfD ELSE t.int
      weight(key) ==
        MapThenSumSet(LAMBDA t : part(t, key[2]) * Weights(family, t)[key[3]],
                      {t \in terms : rowOf[t] = key[1] /\ key[3] \in DOMAIN Weights(family, t)})
      keys == UNION {{rowOf[t]} \X BOOLEAN \X DOMAIN Weights(family, t) : t \in terms}
  IN  Tabled([key \in {k \in keys : weight(k) # 0} |-> weight(key)])

\* Primitive signatures are equal iff the weights are proportional.
SameSignature(a, b) ==
  /\ DOMAIN a = DOMAIN b
  /\ LET key == CHOOSE k \in DOMAIN a : TRUE
     IN  \A k \in DOMAIN a : a[k] * b[key] = a[key] * b[k]

\* deduplicate_relations: the first of each kind; what says nothing is dropped.
KeptRelations(family, grid) ==
  LET columns == SelectSeq(AnsatzColumns(family, grid),
                           LAMBDA column : StaysInSeedSector(family, column))
      signed == [i \in DOMAIN columns |->
                   columns[i] @@ [signature |-> SymbolicWeights(family, columns[i].terms)]]
  IN  FoldLeft(LAMBDA kept, column :
                 IF \/ DOMAIN column.signature = {}
                    \/ \E i \in DOMAIN kept : SameSignature(column.signature, kept[i].signature)
                   THEN kept ELSE Append(kept, column),
               <<>>, signed)

-----------------------------------------------------------------------------
(* Indexed systems: rows are canonical powers in the order of their sectors. *)

RowBefore(a, b) ==
  \/ SectorBefore(SectorOf(a), SectorOf(b))
  \/ SectorOf(a) = SectorOf(b) /\ LexBefore(a, b)

RowsOf(family, columns) ==
  InOrder(UNION {{Canonicalize(family, t.powers) : t \in terms} : terms \in columns}, RowBefore)

\* Columns, given by their values, as a matrix by row number.
ByRow(rows, values) ==
  LET entry(r, c) == IF rows[r] \in DOMAIN values[c] THEN values[c][rows[r]] ELSE 0
  IN  Tabled([r \in DOMAIN rows |->
                Tabled([c \in {k \in DOMAIN values : entry(r, k) # 0} |-> entry(r, c)])])

MatrixAt(family, rows, columns, point) ==
  ByRow(rows, Tabled([c \in DOMAIN columns |-> ColumnAt(family, columns[c], point)]))

\* Elimination without right-hand sides: its pivots are the independent columns.
PivotColumns(matrix, columns, prime) ==
  Linear(prime)!GaussianElimination(
    matrix, [r \in DOMAIN matrix |-> <<>>], Len(columns), [r \in DOMAIN matrix |-> 1],
    [c \in DOMAIN columns |-> 1]).columns

-----------------------------------------------------------------------------
(* expand_projected_seed_groups *)

\* maximum_projected_group_expansions
MaximumExpansions == 4

GShift(powers) == -powers[1]
GroupOf(powers) == <<GShift(powers), SectorOf(powers)>>

\* ProjectedSeedGroupLess
GroupBefore(g, h) == g[1] < h[1] \/ (g[1] = h[1] /\ SectorBefore(g[2], h[2]))

Dotted(seed) == {Raised(seed, v) : v \in SectorOf(seed)}

\* One more dot on the seeds of a group, less the seeds that exist.
Frontier(family, envelope, group) ==
  {Canonicalize(family, p) : p \in UNION {Dotted(s) : s \in {e \in envelope : GroupOf(e) = group}}}
  \ envelope

Expanded(counts, group) == IF group \in DOMAIN counts THEN counts[group] ELSE 0

Exhausted(counts, groups) == \E g \in groups : Expanded(counts, g) >= MaximumExpansions

\* Groups without new seeds are not counted.
Expansion(family, envelope, groups, counts) ==
  LET grown == {g \in groups : Frontier(family, envelope, g) # {}}
  IN  [points |-> UNION {Frontier(family, envelope, g) : g \in grown},
       groups |-> grown,
       counts |-> [g \in DOMAIN counts \union grown |->
                     Expanded(counts, g) + (IF g \in grown THEN 1 ELSE 0)]]
=============================================================================
