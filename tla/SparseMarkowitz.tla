--------------------------- MODULE SparseMarkowitz ---------------------------
(***************************************************************************)
(* linalg::sparse_markowitz_elimination (SparseMarkowitz.hpp): the sparse  *)
(* elimination that plans a kernel.  The basis columns are pivoted first,  *)
(* in their order; the other columns group by group, always the pivot with *)
(* the best Markowitz score that the queues know.  Scores are recomputed   *)
(* in batches, so the queues may be behind the matrix: columns that have   *)
(* changed are marked, and what is popped is checked against the matrix.   *)
(*                                                                         *)
(* Rows hold their nonzero entries by column.  The rows of one pivot may   *)
(* be eliminated by several threads, each on a row of its own, before the  *)
(* counters and marks are brought up to date in order.  The sizes that     *)
(* decide for it are beyond any instance, so it is a free choice for two   *)
(* rows and more.  Positions and versions of rows, which only shorten      *)
(* lookups that are checked, and statistics are left out.                  *)
(***************************************************************************)
EXTENDS FieldArithmetic

CONSTANTS
  Interval,      \* bound: pivots between refreshes (8, 16 or 32)
  ShortInterval, \* bound: the same, when complex columns come first (8)
  QueueLimit,    \* bound: entries of a queue that is compacted (1024)
  QueueFactor    \* bound: the same, by active column of the group (4)

VARIABLES
  system,    \* the input: matrix and rhs by row, basis (the columns 1 .. basis come
             \* first), rowGroup, columnGroup, groups (their order), priority and
             \* complexity of columns, order (complexity_order)
  elim,      \* the system under elimination and what is counted about it
  queue,     \* the choices of the group, score_versions, pivots_since_refresh
  batch,     \* the pivot whose rows are eliminated by several threads
  step,      \* where the elimination is
  turn       \* the next basis column, or the number of the group

Rows == DOMAIN system.matrix
Columns == DOMAIN system.columnGroup

-----------------------------------------------------------------------------
(* The system under elimination. *)

Nonzeros(values) == Cardinality({t \in DOMAIN values : values[t] # 0})

Started(matrix, rhs, columns) ==
  [matrix |-> matrix,
   rhs |-> rhs,
   rhsNonzeros |-> [r \in DOMAIN matrix |-> Nonzeros(rhs[r])],
   residual |-> Cardinality({r \in DOMAIN matrix : Nonzeros(rhs[r]) # 0}),
   incidence |-> [c \in columns |-> Ascending({r \in DOMAIN matrix : c \in DOMAIN matrix[r]})],
   rowNonzeros |-> [r \in DOMAIN matrix |-> Cardinality(DOMAIN matrix[r])],
   columnNonzeros |->
     [c \in columns |-> Cardinality({r \in DOMAIN matrix : c \in DOMAIN matrix[r]})],
   active |-> columns,
   used |-> {},
   rowMap |-> <<>>,
   columns |-> <<>>,      \* solution_cols
   group |-> 0,           \* current_group, 0 for none
   dirty |-> {},          \* dirty_columns
   dirtyList |-> {},
   operations |-> <<>>]

Live(s, c, r) == r \notin s.used /\ c \in DOMAIN s.matrix[r]

\* for_each_live_column_row: the rows recorded for a column that still have an
\* entry there, each once; the record shrinks to them.
LiveRows(s, c) ==
  LET record == s.incidence[c]
      kept == Ascending({i \in DOMAIN record :
                           /\ Live(s, c, record[i])
                           /\ \A j \in 1 .. i - 1 : record[j] # record[i]})
  IN  [k \in DOMAIN kept |-> record[kept[k]]]

Scanned(s, c) == [s EXCEPT !.incidence[c] = LiveRows(s, c)]

\* mark_dirty for each of a set of columns.  The list may name a column twice; what
\* reads it looks at the mark.
MarkDirty(s, changed) ==
  LET marked == {c \in changed \intersect s.active :
                   system.columnGroup[c] = s.group /\ c \notin s.dirty}
  IN  [s EXCEPT !.dirty = @ \union marked, !.dirtyList = @ \union marked]

-----------------------------------------------------------------------------
(* Scores. *)

Candidate(s, c, r) ==
  [column |-> c, row |-> r,
   markowitz |-> (s.rowNonzeros[r] - 1) * (s.columnNonzeros[c] - 1),
   columnNonzeros |-> s.columnNonzeros[c], rowNonzeros |-> s.rowNonzeros[r]]

Complexity(c) ==
  CASE system.order = "Ignore"     -> 0
    [] system.order = "Ascending"  -> system.complexity[c]
    [] system.order = "Descending" -> -system.complexity[c]

Score(k) ==
  <<Complexity(k.column), k.markowitz, k.columnNonzeros, k.rowNonzeros,
    system.priority[k.column], k.column, k.row>>

Better(a, b) ==
  \E i \in 1 .. 7 : /\ Score(a)[i] < Score(b)[i]
                    /\ \A j \in 1 .. i - 1 : Score(a)[j] = Score(b)[j]

\* The best of some choices, as a set of at most one.
Best(choices) == {k \in choices : \A l \in choices : l = k \/ Better(k, l)}

\* choices_for_column
Candidates(s, c) ==
  {Candidate(s, c, r) : r \in {q \in ToSet(LiveRows(s, c)) : s.rowNonzeros[q] # 0}}

\* The best choice of a column for a queue: any row, or rows of its own group.
BestChoice(s, kind, c) ==
  Best({k \in Candidates(s, c) :
          kind = "matching" => system.rowGroup[k.row] = system.columnGroup[c]})

-----------------------------------------------------------------------------
(* Pivots. *)

Entry(row, c) == IF c \in DOMAIN row THEN row[c] ELSE 0

\* apply_pivot before the rows are eliminated: the pivot row is scaled and leaves
\* the counts.
Scaled(row, columns, factor) ==
  [k \in DOMAIN row |-> IF k \in columns THEN (row[k] * factor) % Prime ELSE row[k]]

Normalized(s, choice) ==
  LET r == choice.row
      touched == DOMAIN s.matrix[r] \intersect s.active
      inverse == Reciprocal(s.matrix[r][choice.column])
  IN  MarkDirty(
        [s EXCEPT
           !.residual = IF s.rhsNonzeros[r] # 0 THEN @ - 1 ELSE @,
           !.used = @ \union {r},
           !.rowMap = Append(@, r),
           !.columns = Append(@, choice.column),
           !.operations = Append(@, [destination |-> r, source |-> r, factor |-> inverse]),
           !.matrix[r] = Scaled(@, s.active, inverse),
           !.rhs[r] = Scaled(@, DOMAIN @, inverse),
           !.columnNonzeros = [k \in DOMAIN @ |-> IF k \in touched THEN @[k] - 1 ELSE @[k]],
           !.rowNonzeros[r] = 0],
        touched)

\* RowEliminationTask: fresh and removed are its changes.
Task(s, choice, r) ==
  [row |-> r, factor |-> s.matrix[r][choice.column], fresh |-> {}, removed |-> {},
   rhsNonzeros |-> s.rhsNonzeros[r]]

Tasks(s, choice) ==
  LET rows == LiveRows(s, choice.column)
  IN  [i \in DOMAIN rows |-> Task(s, choice, rows[i])]

\* sparse_eliminate_active_row: columns that are done leave the row.
MergedRow(s, choice, task) ==
  LET source == s.matrix[choice.row]
      target == s.matrix[task.row]
      value(k) == SubtractMultiply(Entry(target, k), task.factor, Entry(source, k))
  IN  [k \in {j \in s.active \ {choice.column} : value(j) # 0} |-> value(k)]

MergedRhs(s, choice, task) ==
  [t \in DOMAIN s.rhs[task.row] |->
     SubtractMultiply(s.rhs[task.row][t], task.factor, s.rhs[choice.row][t])]

\* What one thread does with one row, and what it notes in its task.
Eliminated(s, choice, task) ==
  [s EXCEPT !.matrix[task.row] = MergedRow(s, choice, task),
            !.rhs[task.row] = MergedRhs(s, choice, task)]

Noted(s, choice, task) ==
  LET before == DOMAIN s.matrix[task.row] \ {choice.column}
      after == DOMAIN MergedRow(s, choice, task)
      old == s.rhs[task.row]
      new == MergedRhs(s, choice, task)
  IN  [task EXCEPT !.fresh = after \ before,
                   !.removed = (before \intersect s.active) \ after,
                   !.rhsNonzeros = @ + Cardinality({t \in DOMAIN old : old[t] = 0 /\ new[t] # 0})
                                     - Cardinality({t \in DOMAIN old : old[t] # 0 /\ new[t] = 0})]

\* Mutant: scores of columns whose entry only changed its value stay.
ChangedColumns(s, task) == task.fresh \union task.removed

\* New, removed and retained columns: the length of the row is part of their scores.
AffectedColumns(s, task) == task.fresh \union task.removed \union DOMAIN s.matrix[task.row]

ResidualChange(old, new) ==
  CASE old = 0 /\ new # 0 -> 1 [] old # 0 /\ new = 0 -> -1 [] OTHER -> 0

Counted(s, task) ==
  [c \in DOMAIN s.columnNonzeros |->
     CASE c \in task.fresh   -> s.columnNonzeros[c] + 1
       [] c \in task.removed -> s.columnNonzeros[c] - 1
       [] OTHER              -> s.columnNonzeros[c]]

\* The metadata of one row that was eliminated.
Committed(s, choice, task) ==
  MarkDirty(
    [s EXCEPT
       !.operations = Append(@, [destination |-> task.row, source |-> choice.row,
                                 factor |-> task.factor]),
       !.incidence = [c \in DOMAIN @ |-> IF c \in task.fresh THEN Append(@[c], task.row)
                                         ELSE @[c]],
       !.columnNonzeros = Counted(s, task),
       !.rowNonzeros[task.row] = Cardinality(DOMAIN s.matrix[task.row]),
       !.rhsNonzeros[task.row] = task.rhsNonzeros,
       !.residual = @ + ResidualChange(s.rhsNonzeros[task.row], task.rhsNonzeros)],
    AffectedColumns(s, task))

\* eliminate_serial_row, for each row in turn
Serially(s, choice) ==
  FoldLeft(LAMBDA t, task : Committed(Eliminated(t, choice, task), choice,
                                      Noted(t, choice, task)),
           s, Tasks(s, choice))

\* The column is done: it is never looked at again.
Finished(s, c) ==
  [s EXCEPT !.active = @ \ {c}, !.columnNonzeros[c] = 0, !.incidence[c] = <<>>]

-----------------------------------------------------------------------------
(* Choice queues.  An entry is a choice with the version of its column. *)

NoQueue(columns) ==
  [matching |-> {}, fallback |-> {}, version |-> [c \in columns |-> 0],
   activeColumns |-> 0, since |-> 0]

Top(entries) ==
  CHOOSE e \in entries : \A f \in entries : ~Better(f.pivot, e.pivot)

OfColumn(s, c) == c \in s.active /\ system.columnGroup[c] = s.group

Current(s, q, e) == e.pivot.column \in s.active /\ q.version[e.pivot.column] = e.version
Stands(s, e) == Live(s, e.pivot.column, e.pivot.row)

Larger(a, b) == IF a > b THEN a ELSE b

\* compact_queue: entries of the current version stay, even if their pivot is gone.
Compacted(s, q, entries) ==
  IF Cardinality(entries) <= Larger(QueueLimit, QueueFactor * q.activeColumns) THEN entries
  ELSE {e \in entries : Current(s, q, e)}

\* refresh_batch for some columns: they are scored again, as a new version.
Rescored(s, requested) ==
  [s EXCEPT !.dirty = @ \ requested,
            !.incidence = [c \in DOMAIN @ |-> IF c \in requested /\ OfColumn(s, c)
                                                THEN LiveRows(s, c) ELSE @[c]]]

NewEntries(s, q, kind, columns) ==
  UNION {{[pivot |-> k, version |-> q.version[c]] : k \in BestChoice(s, kind, c)} : c \in columns}

Requeued(s, q, columns) ==
  [q EXCEPT
     !.matching = Compacted(s, q, @ \union NewEntries(s, q, "matching", columns)),
     !.fallback = Compacted(s, q, @ \union NewEntries(s, q, "fallback", columns))]

Versioned(q, columns) ==
  [q EXCEPT !.version = [c \in DOMAIN @ |-> IF c \in columns THEN @[c] + 1 ELSE @[c]]]

Refresh(s, q, requested) ==
  LET columns == {c \in requested : OfColumn(s, c)}
  IN  /\ elim' = Rescored(s, requested)
      /\ queue' = Requeued(s, Versioned(q, columns), columns)

-----------------------------------------------------------------------------
(* The elimination. *)

NoBatch == [tasks |-> <<>>]

Load(input) ==
  /\ system' = input
  /\ elim' = Started(input.matrix, input.rhs, DOMAIN input.columnGroup)
  /\ queue' = NoQueue(DOMAIN input.columnGroup)
  /\ batch' = NoBatch
  /\ step' = "basis"
  /\ turn' = 1

\* Where the elimination goes on after a pivot.
Resumed == IF elim.group = 0 THEN "basis" ELSE "matching"

\* What apply_pivot checks: without it planning ends with an exception.
PivotThere(s, choice) ==
  /\ choice.column \in DOMAIN s.matrix[choice.row]
  /\ \A c \in DOMAIN s.matrix[choice.row] \intersect s.active : s.columnNonzeros[c] > 0

\* apply_pivot
Pivot(s, choice) ==
  LET n == Scanned(Normalized(s, choice), choice.column)
      tasks == Tasks(n, choice)
  IN  /\ PivotThere(s, choice)
      /\ \/ /\ elim' = Finished(Serially(n, choice), choice.column)
            /\ step' = Resumed
            /\ UNCHANGED batch
         \/ /\ Len(tasks) > 1
            /\ elim' = n
            /\ batch' = [tasks |-> tasks, choice |-> choice, done |-> <<>>, before |-> n]
            /\ step' = "rows"

\* A thread eliminates a row that no other thread has taken.
EliminateRow(i) ==
  /\ step = "rows"
  /\ i \in DOMAIN batch.tasks \ ToSet(batch.done)
  /\ elim' = Eliminated(elim, batch.choice, batch.tasks[i])
  /\ batch' = [batch EXCEPT !.tasks[i] = Noted(elim, batch.choice, @), !.done = Append(@, i)]
  /\ UNCHANGED <<system, queue, step, turn>>

\* Mutant: in the order in which the threads were done.
InOrderOfCompletion(b) == [i \in DOMAIN b.done |-> b.tasks[b.done[i]]]

InOrder(b) == b.tasks

\* When all are done, the metadata follow in order.
CommitRows ==
  /\ step = "rows"
  /\ Len(batch.done) = Len(batch.tasks)
  /\ elim' = Finished(FoldLeft(LAMBDA t, task : Committed(t, batch.choice, task),
                               elim, InOrder(batch)),
                      batch.choice.column)
  /\ batch' = NoBatch
  /\ step' = Resumed
  /\ UNCHANGED <<system, queue, turn>>

\* Basis columns: the best row of the matching group, else of any.
Dismissed(s, c) == [s EXCEPT !.active = @ \ {c}, !.incidence[c] = <<>>]

PivotBasisColumn ==
  /\ step = "basis"
  /\ turn <= system.basis
  /\ LET s == Scanned(elim, turn)
         matching == BestChoice(s, "matching", turn)
         choices == IF matching # {} THEN matching ELSE BestChoice(s, "fallback", turn)
     IN  \/ /\ choices = {}
            /\ elim' = Dismissed(s, turn)
            /\ UNCHANGED <<batch, step>>
         \/ \E choice \in choices : Pivot(s, choice)
  /\ turn' = turn + 1
  /\ UNCHANGED <<system, queue>>

LeaveBasis ==
  /\ step = "basis"
  /\ turn > system.basis
  /\ step' = "group"
  /\ turn' = 1
  /\ UNCHANGED <<system, elim, queue, batch>>

\* The next group: its active columns are scored.
StartGroup ==
  /\ step = "group"
  /\ turn <= Len(system.groups)
  /\ LET s == [elim EXCEPT !.group = system.groups[turn], !.dirtyList = {}]
         columns == {c \in Columns : OfColumn(s, c) /\ c > system.basis}
     IN  Refresh(s, [queue EXCEPT !.matching = {}, !.fallback = {}, !.since = 0,
                                  !.activeColumns = Cardinality(columns)],
                 columns)
  /\ step' = "matching"
  /\ UNCHANGED <<system, batch, turn>>

\* Nothing is left of the right-hand sides.
SolvedEarly ==
  /\ step = "matching"
  /\ elim.residual = 0
  /\ step' = "finish"
  /\ UNCHANGED <<system, elim, queue, batch, turn>>

RefreshInterval == IF system.order = "Descending" THEN ShortInterval ELSE Interval

Undecided == step = "matching" /\ elim.residual # 0

RefreshMarked == Refresh([elim EXCEPT !.dirtyList = {}], [queue EXCEPT !.since = 0],
                         elim.dirtyList \intersect elim.dirty)

RefreshDue ==
  /\ Undecided
  /\ queue.since >= RefreshInterval
  /\ RefreshMarked
  /\ UNCHANGED <<system, batch, step, turn>>

\* discard_stale stops at a choice that can be taken.
Settled(kind) ==
  queue[kind] # {} => /\ Current(elim, queue, Top(queue[kind]))
                      /\ Stands(elim, Top(queue[kind]))

\* A choice of an older version is dropped; one of the current version whose pivot
\* is gone has its column scored again.
Discard(kind) ==
  LET top == Top(queue[kind])
      popped == [queue EXCEPT ![kind] = @ \ {top}]
  IN  /\ ~Settled(kind)
      /\ \/ /\ Current(elim, queue, top)
            /\ Refresh(elim, popped, {top.pivot.column})
         \/ /\ ~Current(elim, queue, top)
            /\ queue' = popped
            /\ UNCHANGED elim

DiscardMatching ==
  /\ Undecided
  /\ queue.since < RefreshInterval
  /\ Discard("matching")
  /\ UNCHANGED <<system, batch, step, turn>>

\* The fallback queue comes second: what is refreshed now may age the other's top.
MatchingSettled == Undecided /\ queue.since < RefreshInterval /\ Settled("matching")

DiscardFallback ==
  /\ step = "fallback" \/ MatchingSettled
  /\ Discard("fallback")
  /\ step' = "fallback"
  /\ UNCHANGED <<system, batch, turn>>

BothSettled == (step = "fallback" \/ MatchingSettled) /\ Settled("fallback")
NoChoice == queue.matching = {} /\ queue.fallback = {}

AllScored(s) == s.dirtyList = {}

RefreshRest ==
  /\ BothSettled
  /\ NoChoice
  /\ ~AllScored(elim)
  /\ RefreshMarked
  /\ step' = "matching"
  /\ UNCHANGED <<system, batch, turn>>

\* No column of the group can be a pivot: all become inactive.  A row that counted
\* less entries than it has would end planning with an exception.
DrainGroup ==
  /\ BothSettled
  /\ NoChoice
  /\ AllScored(elim)
  /\ LET columns == {c \in Columns : OfColumn(elim, c) /\ c > system.basis}
         live(r) == {c \in columns : r \in ToSet(LiveRows(elim, c))}
     IN  /\ \A r \in Rows : Cardinality(live(r)) <= elim.rowNonzeros[r]
         /\ elim' = [elim EXCEPT
              !.rowNonzeros = [r \in DOMAIN @ |-> @[r] - Cardinality(live(r))],
              !.active = @ \ columns,
              !.columnNonzeros = [c \in DOMAIN @ |-> IF c \in columns THEN 0 ELSE @[c]],
              !.incidence = [c \in DOMAIN @ |-> IF c \in columns THEN <<>> ELSE @[c]]]
  /\ step' = "group"
  /\ turn' = turn + 1
  /\ UNCHANGED <<system, queue, batch>>

ChoosePivot ==
  /\ BothSettled
  /\ ~NoChoice
  /\ LET entries == IF queue.matching # {} THEN queue.matching ELSE queue.fallback
     IN  Pivot(elim, Top(entries).pivot)
  /\ queue' = [queue EXCEPT !.activeColumns = @ - 1, !.since = @ + 1]
  /\ UNCHANGED <<system, turn>>

\* Rows that were no pivot come last.
Finish ==
  /\ \/ step = "finish"
     \/ step = "group" /\ turn > Len(system.groups)
  /\ elim' = [elim EXCEPT !.rowMap = @ \o Ascending(Rows \ elim.used)]
  /\ step' = "done"
  /\ UNCHANGED <<system, queue, batch, turn>>

Eliminate ==
  \/ PivotBasisColumn \/ LeaveBasis \/ StartGroup
  \/ SolvedEarly \/ RefreshDue \/ DiscardMatching \/ DiscardFallback
  \/ RefreshRest \/ DrainGroup \/ ChoosePivot
  \/ \E i \in DOMAIN batch.tasks : EliminateRow(i)
  \/ CommitRows \/ Finish

-----------------------------------------------------------------------------
(* Properties. *)

UnusedRows == Rows \ elim.used

\* Outside a batch the counters that choices and the end are decided by are those of
\* the rows that are left, no such row has an entry in a column that is done, and
\* every entry can be found by its column.
CountersFollow ==
  /\ elim.residual = Cardinality({r \in UnusedRows : Nonzeros(elim.rhs[r]) # 0})
  /\ \A r \in UnusedRows :
       /\ DOMAIN elim.matrix[r] \subseteq elim.active
       /\ elim.rowNonzeros[r] = Cardinality(DOMAIN elim.matrix[r])
       /\ elim.rhsNonzeros[r] = Nonzeros(elim.rhs[r])
  /\ \A c \in elim.active :
       LET rows == {r \in UnusedRows : c \in DOMAIN elim.matrix[r]}
       IN  /\ elim.columnNonzeros[c] = Cardinality(rows)
           /\ rows \subseteq ToSet(elim.incidence[c])

\* The queues are behind the matrix only where columns are marked: an active column
\* of the group without a mark has, as its current version, exactly the choices that
\* scoring it now would give.
QueuesFollow ==
  \A c \in {k \in elim.active \ elim.dirty : OfColumn(elim, k) /\ k > system.basis} :
    \A kind \in {"matching", "fallback"} :
      {e.pivot : e \in {f \in queue[kind] : f.pivot.column = c /\ Current(elim, queue, f)}}
        = BestChoice(elim, kind, c)

\* No row is a pivot twice: "current-version entries must survive" a compaction, so that
\* a pivot that is gone is noticed.  It does not hold: see the README.
RowsPivotOnce == IsInjective(elim.rowMap)

\* Until then incremental counters and lazily refreshed queues say what the matrix says:
\* no pivot is overlooked, no count of apply_pivot underflows, and a group that is left
\* has no pivot any more.
NoPivotOverlooked ==
  RowsPivotOnce =>
    /\ step \in {"basis", "group", "matching", "fallback", "finish"} => CountersFollow
    /\ step \in {"matching", "fallback"} => QueuesFollow

\* However the threads take turns, the rows, the counters, the marks and the recorded
\* operations end as those of one thread that takes the rows in order.
ThreadsAgree ==
  [][step = "rows" /\ step' # "rows" =>
       elim' = Finished(Serially(batch.before, batch.choice), batch.choice.column)]_elim
=============================================================================
