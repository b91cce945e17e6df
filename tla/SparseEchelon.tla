---------------------------- MODULE SparseEchelon ----------------------------
(***************************************************************************)
(* Sparse elimination with columns in a fixed order and back substitution  *)
(* (sparse_gaussian_elimination and back_substitute_sparse_echelon of      *)
(* EliminationTape.hpp), which planning uses for the rest of a system and  *)
(* for the support it has selected.  Rows hold their nonzero entries by    *)
(* column, as in SparseMarkowitz; columns are numbered in their order.     *)
(***************************************************************************)
EXTENDS FieldArithmetic

IsZero(values) == \A t \in DOMAIN values : values[t] = 0

\* matrix and rhs by row; rowMap and columns are the pivots.
EchelonStart(matrix, rhs) ==
  [matrix |-> matrix, rhs |-> rhs, used |-> {}, rowMap |-> <<>>, columns |-> <<>>,
   stopped |-> FALSE]

Residual(s) == {r \in DOMAIN s.matrix \ s.used : ~IsZero(s.rhs[r])}

\* The sparsest of some rows, the first among those.
Sparsest(s, rows) ==
  CHOOSE r \in rows : \A q \in rows :
    \/ Cardinality(DOMAIN s.matrix[r]) < Cardinality(DOMAIN s.matrix[q])
    \/ Cardinality(DOMAIN s.matrix[r]) = Cardinality(DOMAIN s.matrix[q]) /\ r <= q

Available(s, c) == {r \in DOMAIN s.matrix \ s.used : c \in DOMAIN s.matrix[r]}

\* Rows of the column's own group first; without groups all are of one.
PivotFor(s, c, rowGroup, group) ==
  LET own == {r \in Available(s, c) : rowGroup[r] = group}
  IN  Sparsest(s, IF own # {} THEN own ELSE Available(s, c))

\* The pivot row divided by its pivot, from column c on.
FromColumn(row, c, factor) ==
  [k \in DOMAIN row |-> IF k >= c THEN (row[k] * factor) % Prime ELSE row[k]]

Divided(s, c, p, inverse) ==
  [s EXCEPT !.used = @ \union {p}, !.rowMap = Append(@, p), !.columns = Append(@, c),
            !.matrix[p] = FromColumn(@, c, inverse),
            !.rhs[p] = [t \in DOMAIN @ |-> (@[t] * inverse) % Prime]]

\* sparse_eliminate_row
RowWithout(s, c, p, r) ==
  LET coefficient(q, k) == IF k \in DOMAIN s.matrix[q] THEN s.matrix[q][k] ELSE 0
      value(k) == IF k < c THEN coefficient(r, k)
                  ELSE SubtractMultiply(coefficient(r, k), s.matrix[r][c], coefficient(p, k))
  IN  [k \in {j \in DOMAIN s.matrix[r] \union DOMAIN s.matrix[p] : j # c /\ value(j) # 0}
         |-> value(k)]

Below(s, c, p, rows) ==
  [s EXCEPT
     !.matrix = [r \in DOMAIN @ |-> IF r \in rows THEN RowWithout(s, c, p, r) ELSE @[r]],
     !.rhs = [r \in DOMAIN @ |->
                IF r \in rows
                  THEN [t \in DOMAIN @[r] |->
                          SubtractMultiply(@[r][t], s.matrix[r][c], @[p][t])]
                  ELSE @[r]]]

Pivoted(s, c, p) ==
  Below(Divided(s, c, p, Reciprocal(s.matrix[p][c])), c, p, Available(s, c) \ {p})

\* Once the basis is through, the end of the right-hand sides stops it.
EndedAt(s, c, basis) == [s EXCEPT !.stopped = c >= basis /\ Residual(s) = {}]

EchelonColumn(s, c, basis, rowGroup, group) ==
  CASE s.stopped -> s
    [] ~s.stopped /\ Available(s, c) = {} -> EndedAt(s, c, basis)
    [] OTHER -> EndedAt(Pivoted(s, c, PivotFor(s, c, rowGroup, group)), c, basis)

\* sparse_gaussian_elimination: columnGroup gives the number of columns, too.
WithUnusedRows(s) == [s EXCEPT !.rowMap = @ \o Ascending(DOMAIN s.matrix \ s.used)]

GaussianElimination(matrix, rhs, basis, rowGroup, columnGroup) ==
  WithUnusedRows(
    FoldLeft(LAMBDA s, c : EchelonColumn(s, c, basis, rowGroup, columnGroup[c]),
             EchelonStart(matrix, rhs), [c \in DOMAIN columnGroup |-> c]))

\* A row's solution from those of the pivots behind it.
Substituted(solution, row, value, columns, i, t) ==
  FoldLeft(LAMBDA v, j : IF columns[j] \in DOMAIN row
                           THEN SubtractMultiply(v, row[columns[j]], solution[j][t]) ELSE v,
           value, [k \in 1 .. Len(columns) - i |-> i + k])

\* back_substitute_sparse_echelon: the solution by pivot and right-hand side.
BackSubstitution(matrix, rhs, columns, rowMap) ==
  LET row(i) == matrix[rowMap[i]]
  IN  FoldLeft(LAMBDA solution, i :
                 [solution EXCEPT ![i] =
                    [t \in DOMAIN rhs[rowMap[i]] |->
                       Substituted(solution, row(i), rhs[rowMap[i]][t], columns, i, t)]],
               [i \in DOMAIN columns |-> <<>>], Reverse([i \in DOMAIN columns |-> i]))
=============================================================================
