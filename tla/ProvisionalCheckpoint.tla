------------------------ MODULE ProvisionalCheckpoint ------------------------
(***************************************************************************)
(* What planning keeps of an elimination, so that other right-hand sides   *)
(* can be solved in its pivots later (ProvisionalCheckpoint.hpp), and the  *)
(* support of targets over another basis that is read off such a solution  *)
(* (reuse_provisional_support of CompactPlanner.cpp).  A system is the     *)
(* record that SparseMarkowitz eliminates.                                 *)
(***************************************************************************)
EXTENDS SparseEchelon

\* capture: upper holds, by pivot, the coefficients of the pivots after it.
Captured(s, basisColumns, relationColumns, checked) ==
  [checked |-> checked, basisColumns |-> basisColumns, relationColumns |-> relationColumns,
   operations |-> s.operations, rowMap |-> s.rowMap, columns |-> s.columns,
   upper |-> [i \in DOMAIN s.columns |->
                LET row == s.matrix[s.rowMap[i]]
                IN  [j \in {k \in DOMAIN s.columns : k > i /\ s.columns[k] \in DOMAIN row}
                       |-> row[s.columns[j]]]]]

\* The recorded operations on other right-hand sides.
Replayed(rhs, operations) ==
  FoldLeft(LAMBDA b, o :
             [b EXCEPT ![o.destination] =
                IF o.destination = o.source THEN [t \in DOMAIN @ |-> (@[t] * o.factor) % Prime]
                ELSE [t \in DOMAIN @ |-> SubtractMultiply(@[t], o.factor, b[o.source][t])]],
           rhs, operations)

\* The pivots span a right-hand side when nothing is left in the other rows.
Spanned(checkpoint, rhs) ==
  \A i \in Len(checkpoint.columns) + 1 .. Len(checkpoint.rowMap) :
    IsZero(rhs[checkpoint.rowMap[i]])

UpperSolved(checkpoint, rhs) ==
  FoldLeft(LAMBDA solution, i :
             [solution EXCEPT ![i] =
                FoldLeft(LAMBDA v, j : [t \in DOMAIN v |->
                           SubtractMultiply(v[t], checkpoint.upper[i][j], solution[j][t])],
                         rhs[checkpoint.rowMap[i]], Ascending(DOMAIN checkpoint.upper[i]))],
           [i \in DOMAIN checkpoint.upper |-> <<>>],
           Reverse([i \in DOMAIN checkpoint.upper |-> i]))

\* solve: at most one solution, by pivot and right-hand side.
Solve(checkpoint, rhs) ==
  LET left == Replayed(rhs, checkpoint.operations)
  IN  IF Spanned(checkpoint, left) THEN {UpperSolved(checkpoint, left)} ELSE {}

-----------------------------------------------------------------------------
(* Reuse: the first n right-hand sides are the new basis, the others the     *)
(* targets.  The new basis in terms of the old one is inverted first.        *)

\* Step k of the inversion, none when the new basis is dependent.
Exchanged(rows, k, p) == [rows EXCEPT ![k] = rows[p], ![p] = rows[k]]

ClearedBy(rows, k) ==
  LET inverse == Reciprocal(rows[k][k])
      pivot == [t \in DOMAIN rows[k] |-> IF t >= k THEN (rows[k][t] * inverse) % Prime
                                         ELSE rows[k][t]]
  IN  [i \in DOMAIN rows |->
         IF i = k THEN pivot
         ELSE [t \in DOMAIN rows[i] |->
                 IF t >= k THEN SubtractMultiply(rows[i][t], rows[i][k], pivot[t])
                 ELSE rows[i][t]]]

InversionStep(states, k) ==
  UNION {LET pivots == {p \in DOMAIN rows : p >= k /\ rows[p][k] # 0}
             first == CHOOSE p \in pivots : \A q \in pivots : p <= q
         IN  IF pivots = {} THEN {} ELSE {ClearedBy(Exchanged(rows, k, first), k)}
         : rows \in states}

Inversion(solution, n) ==
  FoldLeft(InversionStep, {[k \in 1 .. n |-> solution[k]]}, [k \in 1 .. n |-> k])

RelationPart(solution, change, n, i, t) ==
  FoldLeft(LAMBDA v, k : SubtractMultiply(v, solution[i][k], change[k][t]),
           solution[i][t], [k \in 1 .. n |-> k])

\* The relations that some target needs, in the order of their pivots.
LiveRelations(checkpoint, solution, change, n) ==
  LET live == {i \in n + 1 .. Len(checkpoint.columns) :
                 \E t \in n + 1 .. Len(solution[i]) :
                   RelationPart(solution, change, n, i, t) # 0}
  IN  [j \in 1 .. Cardinality(live) |-> checkpoint.columns[Ascending(live)[j]] - n]

\* reuse_provisional_support: at most one support.
ReusedSupport(checkpoint, rhs, n) ==
  UNION {{LiveRelations(checkpoint, solution, change, n) : change \in Inversion(solution, n)}
         : solution \in Solve(checkpoint, rhs)}
=============================================================================
