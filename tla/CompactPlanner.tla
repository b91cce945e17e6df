---------------------------- MODULE CompactPlanner ----------------------------
(***************************************************************************)
(* plan_compact_kernel and reselect_compact_support (CompactPlanner.cpp):  *)
(* which relations a kernel needs to express its targets by its basis.  A  *)
(* plan eliminates all relations (SparseMarkowitz), audits the basis,      *)
(* keeps a checkpoint, selects the relations that the solution uses and    *)
(* eliminates these again.  With more than two targets it first tries two  *)
(* random combinations of them.  A later request with another basis and    *)
(* other targets may be answered from the checkpoint, and its support be   *)
(* selected again among the relations on the rows it touches.              *)
(*                                                                         *)
(* Relations, basis and targets are columns: functions from the rows of    *)
(* their terms to values at the point, which may be zero.                  *)
(***************************************************************************)
EXTENDS SparseMarkowitz, ProvisionalCheckpoint, MasterIndependence

CONSTANTS
  Sources,      \* requests: basis, initialBasis, targets, relations (terms, group,
                \* rank, dots), rowGroup by row, groups, order, check and capture
  LaterTargets, \* sequences of targets that may be asked for later
  LaterBases    \* sequences of columns that may be the basis then

IsSequence(s) == Len(s) \in Nat /\ DOMAIN s = 1 .. Len(s)

SourceNames ==
  {"basis", "initialBasis", "targets", "relations", "rowGroup", "groups", "order", "check",
   "capture"}

\* The values at the point are elements of the field.
IsColumn(c) == c = [r \in DOMAIN c |-> c[r]] /\ \A r \in DOMAIN c : c[r] \in Field
AreColumns(s) == IsSequence(s) /\ \A i \in DOMAIN s : IsColumn(s[i])

\* Rows are numbered and there are finitely many; group 0 stands for none.
SourceTyped(src) ==
  /\ DOMAIN src = SourceNames
  /\ IsFiniteSet(DOMAIN src.rowGroup) /\ DOMAIN src.rowGroup \subseteq Int
  /\ AreColumns(src.basis) /\ AreColumns(src.targets)
  /\ IsSequence(src.relations) /\ IsSequence(src.groups)
  /\ \A i \in DOMAIN src.relations :
       src.relations[i].dots \in Int /\ IsColumn(src.relations[i].terms)
  /\ \A k \in DOMAIN src.groups : src.groups[k] # 0
  /\ src.order \in {"Ignore", "Ascending", "Descending"}

ASSUME SourcesAssumption ==
  /\ \A src \in Sources : SourceTyped(src)
  /\ \A columns \in LaterBases \union LaterTargets : AreColumns(columns)

\* In a field of Prime elements every element but zero has a reciprocal.
ASSUME PrimeAssumption ==
  /\ Prime \in Nat /\ Prime > 1
  /\ \A a \in Field \ {0} : \E b \in Field : (a * b) % Prime = 1

VARIABLES
  source,       \* the request that is planned
  whole,        \* the request whose support is selected again
  eligible,     \* the relations of `whole` that `source` has
  projected,    \* project_target_support
  checkpoint,   \* selection.checkpoint, at most one
  answer,       \* the selection that is returned, or the exception
  phase         \* what the planner does

elimVars == <<system, elim, queue, batch, step, turn>>
vars == <<elimVars, source, whole, eligible, projected, checkpoint, answer, phase>>

-----------------------------------------------------------------------------
(* Systems at the point: the columns of the basis, then relations in an order. *)

Basis(src) == Len(src.basis)
Terms(src, order, c) ==
  IF c <= Basis(src) THEN src.basis[c] ELSE src.relations[order[c - Basis(src)]].terms
ColumnsOf(src, order) == 1 .. Basis(src) + Len(order)

ProbeMatrix(src, order) ==
  [r \in DOMAIN src.rowGroup |->
     [c \in {k \in ColumnsOf(src, order) : Entry(Terms(src, order, k), r) # 0} |->
        Terms(src, order, c)[r]]]

Combined(columns, r, weight) ==
  FoldLeft(LAMBDA v, t : (v + weight[t] * Entry(columns[t], r)) % Prime,
           0, [t \in DOMAIN columns |-> t])

\* Two combinations of the targets, or each on its own.
TargetValues(src, r, project) ==
  IF project
    THEN <<Combined(src.targets, r, [t \in DOMAIN src.targets |-> t]),
           Combined(src.targets, r, [t \in DOMAIN src.targets |-> t * (t + 1)])>>
    ELSE [t \in DOMAIN src.targets |-> Entry(src.targets[t], r)]

ProbeRhs(src, project) == [r \in DOMAIN src.rowGroup |-> TargetValues(src, r, project)]

First(S) == CHOOSE a \in S : \A b \in S : a <= b

\* A basis column is of the group of its first term.
ColumnGroups(src, order) ==
  [c \in ColumnsOf(src, order) |->
     IF c <= Basis(src) THEN src.rowGroup[First(DOMAIN src.basis[c])]
     ELSE src.relations[order[c - Basis(src)]].group]

AllRelations(src) == [i \in DOMAIN src.relations |-> i]

RankAmong(src, i) ==
  Cardinality({j \in DOMAIN src.relations : src.relations[j].rank <= src.relations[i].rank})

MarkowitzInput(src, project) ==
  LET n == Basis(src)
      columns == ColumnsOf(src, AllRelations(src))
      groups == ColumnGroups(src, AllRelations(src))
      kept == Ascending({i \in DOMAIN src.groups :
                           \E c \in columns : c > n /\ groups[c] = src.groups[i]})
  IN  [matrix |-> ProbeMatrix(src, AllRelations(src)),
       rhs |-> ProbeRhs(src, project),
       basis |-> n,
       rowGroup |-> src.rowGroup,
       columnGroup |-> groups,
       groups |-> [k \in DOMAIN kept |-> src.groups[kept[k]]],
       priority |-> [c \in columns |-> IF c <= n THEN c ELSE n + RankAmong(src, c - n)],
       complexity |-> [c \in columns |-> IF c <= n THEN 0 ELSE src.relations[c - n].dots],
       order |-> src.order]

-----------------------------------------------------------------------------
(* From an elimination to a selection. *)

FullRank(columns, n) ==
  Len(columns) >= n /\ \A k \in 1 .. n : columns[k] = k

\* Relations whose part of some solution is not zero, in the order of their pivots.
LiveSupport(s, n) ==
  LET solution == BackSubstitution(s.matrix, s.rhs, s.columns, s.rowMap)
      live == {i \in n + 1 .. Len(s.columns) : ~IsZero(solution[i])}
  IN  [j \in 1 .. Cardinality(live) |-> s.columns[Ascending(live)[j]] - n]

Answer(kind) ==
  [kind |-> kind, order |-> <<>>, columns |-> <<>>, rowMap |-> <<>>, residualRows |-> {},
   reused |-> FALSE]

\* An elimination that did not close tells the rows for which relations are missing.
OpenAnswer(s) ==
  [Answer("open") EXCEPT !.residualRows = {r \in DOMAIN s.rhs \ s.used : ~IsZero(s.rhs[r])}]

\* Mutant: the selected system is eliminated with what it was planned for.
CompactAsPlanned(src, order) ==
  GaussianElimination(ProbeMatrix(src, order), ProbeRhs(src, projected), Basis(src),
                      src.rowGroup, ColumnGroups(src, order))

\* The selected system, eliminated with all targets.
Compact(src, order) ==
  GaussianElimination(ProbeMatrix(src, order), ProbeRhs(src, FALSE), Basis(src),
                      src.rowGroup, ColumnGroups(src, order))

Judged(src, order, g, lenient, reused) ==
  CASE Residual(g) # {} /\ lenient     -> Answer("open")
    [] Residual(g) # {} /\ ~lenient    -> Answer("closure lost")
    [] Residual(g) = {} /\ ~FullRank(g.columns, Basis(src)) -> Answer("not full rank")
    [] OTHER -> [Answer("closed") EXCEPT !.order = order, !.columns = g.columns,
                                         !.rowMap = g.rowMap, !.reused = reused]

Selected(src, order, lenient, reused) ==
  Judged(src, order, Compact(src, order), lenient, reused)

-----------------------------------------------------------------------------
(* Planning *)

Init ==
  /\ source \in Sources
  /\ whole = source
  /\ eligible = AllRelations(source)
  /\ projected = (Len(source.targets) > 2)
  /\ checkpoint = {}
  /\ answer = Answer("none")
  /\ phase = "plan"
  /\ system = MarkowitzInput(source, projected)
  /\ elim = Started(system.matrix, system.rhs, DOMAIN system.columnGroup)
  /\ queue = NoQueue(DOMAIN system.columnGroup)
  /\ batch = NoBatch
  /\ step = "basis"
  /\ turn = 1

EliminateStep ==
  /\ phase \in {"plan", "local"}
  /\ Eliminate
  /\ UNCHANGED <<source, whole, eligible, projected, checkpoint, answer, phase>>

\* A local answer in terms of the whole request.
Republished(result) ==
  [result EXCEPT
     !.reused = TRUE,
     !.order = [i \in DOMAIN @ |-> eligible[@[i]]],
     !.rowMap = IF result.kind # "closed" THEN @
                ELSE @ \o Ascending(DOMAIN whole.rowGroup \ DOMAIN source.rowGroup)]

Return(result) ==
  /\ answer' = IF phase = "local" THEN Republished(result) ELSE result
  /\ phase' = IF phase = "local" THEN "reselected" ELSE "planned"
  /\ UNCHANGED <<projected, elimVars>>

\* An open answer of the projected plan makes way for the full plan.
PlanInFull ==
  /\ projected' = FALSE
  /\ Load(MarkowitzInput(source, FALSE))
  /\ UNCHANGED <<checkpoint, answer, phase>>

Audit ==
  IF source.check THEN AuditVerdict(elim, Cardinality(Columns), system.basis) ELSE "passed"

\* The exceptions, which no plan in full follows.
Refusals(verdict) ==
  CASE verdict # "passed" -> {verdict}
    [] verdict = "passed" /\ elim.residual = 0 /\ ~FullRank(elim.columns, system.basis) ->
         {"not full rank"}
    [] OTHER -> {}

\* What is selected when the elimination has closed.
Selection ==
  IF elim.residual # 0 THEN OpenAnswer(elim)
  ELSE Selected(source, LiveSupport(elim, system.basis), projected, FALSE)

Keep ==
  checkpoint' =
    IF source.capture /\ elim.residual = 0
      THEN {Captured(elim, system.basis, Len(source.relations), source.check)}
      ELSE checkpoint

EliminationDone == phase \in {"plan", "local"} /\ step = "done"

\* The rest of plan_compact_kernel_impl, once all relations are eliminated.
Conclude ==
  /\ EliminationDone
  /\ \E refusals \in {Refusals(Audit)} :
       \/ \E kind \in refusals : Return(Answer(kind)) /\ UNCHANGED checkpoint
       \/ /\ refusals = {}
          /\ \E result \in {Selection} :
               \/ projected /\ result.kind = "open" /\ PlanInFull
               \/ ~(projected /\ result.kind = "open") /\ Return(result) /\ Keep
  /\ UNCHANGED <<source, whole, eligible>>

-----------------------------------------------------------------------------
(* A later request, answered from the checkpoint. *)

ReuseRhs(src, project) ==
  [r \in DOMAIN src.rowGroup |->
     [k \in DOMAIN src.basis |-> Entry(src.basis[k], r)] \o TargetValues(src, r, project)]

\* Mutant: a checkpoint whose basis was never audited is good for a request that asks
\* for it.
AnyCheckpoint(src, c) == TRUE

Admitted(src, c) == src.check => c.checked

\* plan_compact_kernel_impl with a checkpoint: open when it does not apply.
ReusePlan(src, c, project) ==
  LET supports == IF Admitted(src, c) THEN ReusedSupport(c, ReuseRhs(src, project), Basis(src))
                  ELSE {}
  IN  IF supports = {} THEN Answer("open")
      ELSE Selected(src, CHOOSE order \in supports : TRUE, TRUE, TRUE)

Reused(src, c) ==
  LET first == ReusePlan(src, c, TRUE)
  IN  IF Len(src.targets) > 2 /\ first.kind # "open" THEN first ELSE ReusePlan(src, c, FALSE)

\* Bound: one later request.
Reuse ==
  /\ phase = "planned"
  /\ answer.kind = "closed"
  /\ \E c \in checkpoint, basis \in LaterBases, targets \in LaterTargets, check \in BOOLEAN :
       /\ Len(basis) = c.basisColumns
       /\ source' = [source EXCEPT !.basis = basis, !.targets = targets, !.check = check,
                                   !.capture = FALSE]
       /\ answer' = Reused(source', c)
  /\ whole' = source'
  /\ phase' = "reused"
  /\ UNCHANGED <<elimVars, eligible, projected, checkpoint>>

-----------------------------------------------------------------------------
(* reselect_compact_support: the support is selected again among all relations *)
(* that stay on the rows of the request and its support.                       *)

Envelope(src, order) ==
  {r \in DOMAIN src.rowGroup :
     \/ \E k \in DOMAIN src.basis : r \in DOMAIN src.basis[k]
     \/ \E t \in DOMAIN src.targets : r \in DOMAIN src.targets[t]
     \/ \E i \in ToSet(order) : r \in DOMAIN src.relations[i].terms}

\* Terms that vanish at the point count, too.
WithinRows(src, rows) == {i \in DOMAIN src.relations : DOMAIN src.relations[i].terms \subseteq rows}

LocalSource(src, rows, ids) ==
  [src EXCEPT !.relations = [j \in DOMAIN ids |-> src.relations[ids[j]]],
              !.rowGroup = [r \in rows |-> src.rowGroup[r]],
              !.check = FALSE, !.capture = FALSE]

Reselect ==
  /\ phase = "reused"
  /\ answer.kind = "closed"
  /\ LET rows == Envelope(source, answer.order)
         ids == WithinRows(source, rows)
     IN  /\ ids # ToSet(answer.order)
         /\ eligible' = Ascending(ids)
         /\ source' = LocalSource(source, rows, eligible')
  /\ projected' = (Len(source.targets) > 2)
  /\ Load(MarkowitzInput(source', projected'))
  /\ phase' = "local"
  /\ UNCHANGED <<whole, checkpoint, answer>>

\* plan_from_source: the checkpoint did not serve, all relations are planned.
FallBack ==
  /\ phase \in {"reused", "reselected"}
  /\ answer.kind = "open"
  /\ source' = whole
  /\ eligible' = AllRelations(whole)
  /\ projected' = (Len(whole.targets) > 2)
  /\ Load(MarkowitzInput(whole, projected'))
  /\ checkpoint' = {}
  /\ phase' = "plan"
  /\ UNCHANGED <<whole, answer>>

\* The caller goes on with what it has.
Rest ==
  /\ phase \in {"planned", "reused", "reselected"}
  /\ UNCHANGED vars

Next ==
  \/ EliminateStep \/ Conclude \/ Reuse \/ Reselect \/ FallBack \/ Rest

Spec == Init /\ [][Next]_vars

-----------------------------------------------------------------------------
(* Properties. *)

\* Whether a sum of multiples of some columns, a sequence, is a given column.
Sum(columns, factors, r) ==
  FoldLeft(LAMBDA v, i : (v + factors[i] * Entry(columns[i], r)) % Prime,
           0, [i \in DOMAIN columns |-> i])

InSpan(column, columns, rows) ==
  \E factors \in [DOMAIN columns -> Field] :
    \A r \in rows : Sum(columns, factors, r) = Entry(column, r)

AllInSpan(wanted, columns, rows) == \A t \in DOMAIN wanted : InSpan(wanted[t], columns, rows)

\* Whether no combination of the basis with a factor that is not zero is one of relations.
Independent(basis, relations, rows) ==
  \A factors \in [DOMAIN (basis \o relations) -> Field] :
    (\A r \in rows : Sum(basis \o relations, factors, r) = 0)
      => \A k \in DOMAIN basis : factors[k] = 0

TermsOf(src, ids) == [i \in DOMAIN ids |-> src.relations[ids[i]].terms]
RowsOf(src) == DOMAIN src.rowGroup

\* A plan of all relations is closed exactly when they express all targets by the
\* basis, and an open one names rows; an audited basis is refused exactly when it is
\* dependent, also on relations, and any other only when it is; what is selected is
\* enough: the check for lost closure that ends planning never does.
PlansExact ==
  phase = "planned" =>
    LET all == TermsOf(source, AllRelations(source))
        audited == Independent(source.basis, all, RowsOf(source))
        solvable == AllInSpan(source.targets, source.basis \o all, RowsOf(source))
    IN  /\ answer.kind \in {"closed", "open", "dependent", "not full rank"}
        /\ (answer.kind = "dependent") = (source.check /\ ~audited)
        /\ answer.kind = "open" => ~solvable /\ answer.residualRows # {}
        /\ answer.kind = "not full rank" => ~Independent(source.basis, <<>>, RowsOf(source))
        /\ answer.kind = "closed" => solvable /\ Independent(source.basis, <<>>, RowsOf(source))

\* A checkpoint answers exactly the requests whose targets and basis lie in the span
\* of its pivots, with a basis that can replace the old one; and a basis that had to be
\* audited is independent of all relations although only the old one was compared.
CheckpointExact ==
  phase = "reused" =>
    \A c \in checkpoint :
      LET n == Basis(source)
          all == TermsOf(source, AllRelations(source))
          pivots == TermsOf(source, [i \in 1 .. Len(c.columns) - n |-> c.columns[n + i] - n])
          frame == source.initialBasis \o pivots
          serves == /\ AllInSpan(source.basis \o source.targets, frame, RowsOf(source))
                    /\ Independent(source.basis, pivots, RowsOf(source))
      IN  /\ answer.kind = IF serves /\ (source.check => c.checked) THEN "closed" ELSE "open"
          /\ answer.kind = "closed" /\ source.check =>
               Independent(source.basis, all, RowsOf(source))

\* Selecting again among the relations of fewer rows still closes.
ReselectionCloses == phase = "reselected" => answer.kind = "closed" /\ answer.reused

\* What a plan leaves serves later requests as far as it reaches: its checkpoint answers what
\* it can answer and nothing else, and its closed answer has rows and relations among which
\* selecting again closes, however few they are.
ReuseExact == CheckpointExact /\ ReselectionCloses

\* Whether a selection names relations of a request, each once, that express its targets
\* by its basis, which is independent, and names all its rows once.
Expresses(src, selection) ==
  /\ IsInjective(selection.order) /\ ToSet(selection.order) \subseteq DOMAIN src.relations
  /\ IsInjective(selection.rowMap) /\ ToSet(selection.rowMap) = RowsOf(src)
  /\ Independent(src.basis, <<>>, RowsOf(src))
  /\ AllInSpan(src.targets, src.basis \o TermsOf(src, selection.order), RowsOf(src))

\* However it was come by, from combinations of the targets, from a checkpoint, among the
\* relations of some rows, or by an elimination with a pivot that was gone, a closed answer
\* is right: what was selected is eliminated again with all targets.
ClosedAnswersHold == answer.kind = "closed" => Expresses(whole, answer)
=============================================================================
