-------------------------- MODULE MasterIndependence --------------------------
(***************************************************************************)
(* audit_master_independence (MasterIndependence.hpp): whether the basis   *)
(* columns are independent of each other and of all relations, from an     *)
(* elimination that may have stopped early.  A system is the record that   *)
(* SparseMarkowitz eliminates, its columns are 1 .. columnCount.           *)
(***************************************************************************)
EXTENDS SparseEchelon

\* complete_residual: rows that were no pivot are eliminated on their own.
ResidualRows(s) ==
  SelectSeq(SubSeq(s.rowMap, Len(s.columns) + 1, Len(s.rowMap)),
            LAMBDA r : DOMAIN s.matrix[r] # {})

\* Rows are numbered as they come, which decides between rows of equal length.
Ungrouped(S) == [i \in S |-> 0]

ResidualEchelon(rows, s, columnCount) ==
  GaussianElimination([i \in DOMAIN rows |-> s.matrix[rows[i]]], [i \in DOMAIN rows |-> <<>>],
                      columnCount, Ungrouped(DOMAIN rows), Ungrouped(1 .. columnCount))

WithResidual(s, rows, echelon) ==
  [matrix |-> [r \in DOMAIN s.matrix |->
                 IF r \in ToSet(rows)
                   THEN echelon.matrix[CHOOSE i \in DOMAIN rows : rows[i] = r]
                   ELSE s.matrix[r]],
   columns |-> s.columns \o echelon.columns,
   rowMap |-> SubSeq(s.rowMap, 1, Len(s.columns))
                \o [i \in DOMAIN echelon.columns |-> rows[echelon.rowMap[i]]]]

\* Mutant: the elimination is taken as it stopped.
NotCompleted(s, columnCount) == s

Completed(s, columnCount) ==
  WithResidual(s, ResidualRows(s), ResidualEchelon(ResidualRows(s), s, columnCount))

\* A covector that is one on a master, propagated through the pivots so that it
\* vanishes on each of them.
Propagated(s, columnCount, master) ==
  FoldLeft(LAMBDA w, i :
             [c \in DOMAIN w |->
                IF c = s.columns[i] THEN 0
                ELSE IF c \in DOMAIN s.matrix[s.rowMap[i]]
                  THEN SubtractMultiply(w[c], w[s.columns[i]], s.matrix[s.rowMap[i]][c])
                ELSE w[c]],
           [c \in 1 .. columnCount |-> IF c = master THEN 1 ELSE 0],
           [i \in DOMAIN s.columns |-> i])

\* check_master_directions: the masters that depend on others; the first is reported.
DependentMasters(s, columnCount, basis) ==
  {m \in 1 .. basis :
     \/ m \notin ToSet(s.columns)
     \/ \E c \in basis + 1 .. columnCount :
          c \notin ToSet(s.columns) /\ Propagated(s, columnCount, m)[c] # 0}

\* An open elimination leaves no pivots: the audit would be at odds with it.
Judgement(s, completed, columnCount, basis) ==
  CASE Len(completed.columns) # Len(s.columns) /\ s.residual # 0 -> "inconsistent"
    [] DependentMasters(completed, columnCount, basis) = {}      -> "passed"
    [] OTHER                                                     -> "dependent"

AuditVerdict(s, columnCount, basis) ==
  IF basis = 0 THEN "passed" ELSE Judgement(s, Completed(s, columnCount), columnCount, basis)
=============================================================================
