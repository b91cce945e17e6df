--------------------------- MODULE EliminationTape ---------------------------
(***************************************************************************)
(* The elimination of one execution block, recorded as a tape and replayed *)
(* (EliminationTape.hpp, CompiledReplay.cpp/.hpp).  A tape is a sequence   *)
(* of groups, as compile_tape lays it out: a group divides one row by its  *)
(* pivot ("scale") or subtracts a multiple of one row from another         *)
(* ("eliminate").  The operations of a group write different words and     *)
(* read none of them, so each group holds them as sets: `matrix` pairs of  *)
(* slots, `rhs` the columns of the right-hand side.                        *)
(*                                                                         *)
(* A slot is a row, a column and the pivot column at which fill-in created *)
(* it, 0 for a coefficient that is loaded; the code numbers them.  The     *)
(* field is the integers modulo a small prime.                             *)
(***************************************************************************)
EXTENDS FieldArithmetic

-----------------------------------------------------------------------------
(* Recording.  s.rows maps a row to its nonzero coefficients by column, *)
(* s.at a column to its pivot row and s.logical back; s.live is the support *)
(* of the right-hand side, s.cancelled whether a coefficient was dropped.  *)

Started(rows, live) ==
  [rows |-> rows, live |-> live, tape |-> <<>>, ok |-> TRUE, cancelled |-> FALSE,
   at |-> [i \in DOMAIN rows |-> i], logical |-> [i \in DOMAIN rows |-> i]]

LiveColumns(s, row) == {a[2] : a \in {b \in s.live : b[1] = row}}

Candidates(s, column) ==
  {r \in DOMAIN s.rows : s.logical[r] >= column /\ column \in DOMAIN s.rows[r]}

\* The sparsest candidate, the first in position among those.
PivotRow(s, column) ==
  LET size(r) == Cardinality(DOMAIN s.rows[r])
  IN  CHOOSE r \in Candidates(s, column) : \A q \in Candidates(s, column) :
        \/ size(r) < size(q)
        \/ size(r) = size(q) /\ s.logical[r] <= s.logical[q]

TakePivot(s, column, pivot) ==
  LET row == s.rows[pivot]
      after == {k \in DOMAIN row : k > column}
      inverse == Reciprocal(row[column].value)
      scaled == [k \in DOMAIN row |->
                   IF k \in after THEN [row[k] EXCEPT !.value = (@ * inverse) % Prime]
                   ELSE row[k]]
      group == [kind |-> "scale", dst |-> pivot, src |-> pivot, slot |-> row[column].slot,
                matrix |-> {<<row[k].slot, row[k].slot>> : k \in after},
                rhs |-> LiveColumns(s, pivot)]
  IN  [s EXCEPT !.rows[pivot] = scaled,
                !.at = [@ EXCEPT ![s.logical[pivot]] = s.at[column], ![column] = pivot],
                !.logical = [@ EXCEPT ![s.at[column]] = s.logical[pivot], ![pivot] = column],
                !.tape = Append(@, group)]

\* Subtract the pivot row from `row` below it.  Fill-in takes a new slot; a
\* coefficient that cancels leaves the row, though its slot is still written.
EliminateRow(s, column, pivot, row) ==
  LET target == s.rows[row]
      source == [k \in {j \in DOMAIN s.rows[pivot] : j > column} |-> s.rows[pivot][k]]
      old == DOMAIN target \ {column}
      slot(k) == IF k \in old THEN target[k].slot ELSE <<row, k, column>>
      value(k) == SubtractMultiply(IF k \in old THEN target[k].value ELSE 0,
                                   target[column].value,
                                   IF k \in DOMAIN source THEN source[k].value ELSE 0)
      kept == {k \in old \union DOMAIN source : value(k) # 0}
      group == [kind |-> "eliminate", dst |-> row, src |-> pivot,
                slot |-> target[column].slot,
                matrix |-> {<<slot(k), source[k].slot>> : k \in DOMAIN source},
                rhs |-> LiveColumns(s, pivot)]
  IN  [s EXCEPT !.rows[row] = [k \in kept |-> [slot |-> slot(k), value |-> value(k)]],
                !.tape = Append(@, group),
                !.live = @ \union ({row} \X LiveColumns(s, pivot)),
                !.cancelled = @ \/ kept # old \union DOMAIN source]

RecordColumn(s, column) ==
  IF ~s.ok \/ Candidates(s, column) = {} THEN [s EXCEPT !.ok = FALSE]
  ELSE LET pivot == PivotRow(s, column)
           taken == TakePivot(s, column, pivot)
           below == {r \in Candidates(taken, column) : taken.logical[r] > column}
       IN  FoldLeft(LAMBDA t, r : EliminateRow(t, column, pivot, r), taken, Ascending(below))

\* Back substitution touches the right-hand side only.
RecordBack(s, column) ==
  LET pivot == s.at[column]
      above == {r \in DOMAIN s.rows : s.logical[r] < column /\ column \in DOMAIN s.rows[r]}
      group(r) == [kind |-> "eliminate", dst |-> r, src |-> pivot,
                   slot |-> s.rows[r][column].slot, matrix |-> {},
                   rhs |-> LiveColumns(s, pivot)]
  IN  [s EXCEPT !.tape = @ \o [i \in 1 .. Cardinality(above) |-> group(Ascending(above)[i])],
                !.live = @ \union (above \X LiveColumns(s, pivot))]

Echelon(s, columns) == FoldLeft(RecordColumn, s, columns)
BackSubstituted(s, columns) ==
  IF s.ok THEN FoldLeft(RecordBack, s, Reverse(columns)) ELSE s

RecordSparseTape(rows, live) ==
  LET columns == Ascending(DOMAIN rows)
  IN  BackSubstituted(Echelon(Started(rows, live), columns), columns)

-----------------------------------------------------------------------------
(* Pruning: a tape is read backwards and an operation kept when something *)
(* later reads what it writes. *)

\* prune_and_compact_tape for the words `required` of the right-hand side.
PruneTape(tape, required) ==
  LET prune(s, g) ==
        LET rhs == {t \in g.rhs : <<g.dst, t>> \in s.rhs}
            matrix == {o \in g.matrix : o[1] \in s.slots}
        IN  IF rhs = {} /\ matrix = {} THEN s
            ELSE [tape |-> <<[g EXCEPT !.rhs = rhs, !.matrix = matrix]>> \o s.tape,
                  rhs |-> s.rhs \union ({g.src} \X rhs),
                  slots |-> s.slots \union {o[2] : o \in matrix} \union {g.slot}]
  IN  FoldLeft(prune, [tape |-> <<>>, rhs |-> required, slots |-> {}], Reverse(tape))

\* prune_matrix_factor_tape: here a group is required when it acts on some column
\* (g.rhs); one without is kept when a later factor needs its matrix operations.
PruneFactors(tape) ==
  LET prune(s, g) ==
        LET matrix == {o \in g.matrix : o[1] \in s.slots}
        IN  IF g.rhs = {} /\ matrix = {} THEN s
            ELSE [tape |-> <<[g EXCEPT !.matrix = matrix]>> \o s.tape,
                  slots |-> s.slots \union {o[2] : o \in matrix} \union {g.slot}]
  IN  FoldLeft(prune, [tape |-> <<>>, slots |-> {}], Reverse(tape))

-----------------------------------------------------------------------------
(* Replay.  The factors depend on the matrix alone: execute_tape_raw applies *)
(* each to the right-hand side at once, execute_matrix_tape_capture keeps    *)
(* them for the transposed pass.                                             *)

Updated(words, writes, value(_)) ==
  [w \in DOMAIN words |-> IF w \in writes THEN value(w) ELSE words[w]]

RunGroup(s, g) ==
  IF ~s.ok \/ (g.kind = "scale" /\ s.matrix[g.slot] = 0) THEN [s EXCEPT !.ok = FALSE]
  ELSE LET factor == IF g.kind = "scale" THEN Reciprocal(s.matrix[g.slot])
                     ELSE s.matrix[g.slot]
           source(w) == (CHOOSE o \in g.matrix : o[1] = w)[2]
           value(w) == IF g.kind = "scale" THEN (s.matrix[w] * factor) % Prime
                       ELSE SubtractMultiply(s.matrix[w], factor, s.matrix[source(w)])
       IN  [s EXCEPT !.matrix = Updated(@, {o[1] : o \in g.matrix}, value),
                     !.factors = Append(@, factor)]

\* The factors of a tape, `ok` unless a pivot is zero.
Factors(tape, matrix) ==
  FoldLeft(RunGroup, [ok |-> TRUE, matrix |-> matrix, factors |-> <<>>], tape)

\* One group on the right-hand side, and its transpose on the dual one.
ApplyGroup(rhs, g, factor) ==
  Updated(rhs, {g.dst} \X g.rhs,
          LAMBDA w : IF g.kind = "scale" THEN (rhs[w] * factor) % Prime
                     ELSE SubtractMultiply(rhs[w], factor, rhs[<<g.src, w[2]>>]))

ApplyTransposed(dual, g, factor) ==
  Updated(dual, {g.src} \X g.rhs,
          LAMBDA w : IF g.kind = "scale" THEN (dual[w] * factor) % Prime
                     ELSE SubtractMultiply(dual[w], factor, dual[<<g.dst, w[2]>>]))

ApplyTape(rhs, tape, factors) ==
  FoldLeft(LAMBDA r, i : ApplyGroup(r, tape[i], factors[i]), rhs, [i \in DOMAIN tape |-> i])

\* Mutant: the groups in the order recorded.
TransposedInRecordedOrder(dual, tape, factors) ==
  FoldLeft(LAMBDA d, i : ApplyTransposed(d, tape[i], factors[i]), dual, [i \in DOMAIN tape |-> i])

ApplyTapeTransposed(dual, tape, factors) ==
  FoldLeft(LAMBDA d, i : ApplyTransposed(d, tape[i], factors[i]), dual,
           Reverse([i \in DOMAIN tape |-> i]))
=============================================================================
