----------------------------- MODULE BlockReplay -----------------------------
(***************************************************************************)
(* The numerical kernel: how a selected square system becomes a program    *)
(* that answers requests, and how the program is run.  build_block_replay  *)
(* (BlockReplayBuilder.cpp) splits the square into blocks and records the  *)
(* elimination of each at the planning anchor, from the last block to the  *)
(* first.  finalize_replay (ReplayFinalizer.cpp) prunes the recording to   *)
(* what the outputs need, in one of two orientations.  execute_replay      *)
(* (ReplayExecutor.cpp) repeats it at another point:                       *)
(*                                                                         *)
(*   target   eliminates the right-hand side, from the last block to the   *)
(*            first, and reads the outputs off the solution;               *)
(*   master   applies the same row operations transposed to one unit       *)
(*            vector per master, from the first block to the last, and     *)
(*            contracts the result with the right-hand side.               *)
(*                                                                         *)
(* Rows and columns are positions 1 .. Dim of the square.  One call runs   *)
(* from beginning to end on one thread, so each is one action.             *)
(***************************************************************************)
EXTENDS BlockOrder, EliminationTape

CONSTANTS
  Dim,          \* square_dim
  Requests,     \* the columns of the right-hand side (requests_)
  Systems,      \* the squares the planner may select (see IsSystem)
  OutputSets,   \* the sets of outputs that may be reconstructed
  Changes,      \* bound: coefficients a point changes, against the anchor
  RhsValues,    \* the values a coordinate of the right-hand side takes
  Leftover      \* what a word of a thread's workspace holds from earlier calls

Positions == 1 .. Dim

\* A selected square: the number of basis columns, the group of every other
\* position, the coordinates of the matrix with their values at the anchor,
\* and the coordinates of the right-hand side.
IsSystem(s) ==
  /\ s.basis \in Positions
  /\ s.group \in [(s.basis + 1) .. Dim -> Nat]
  /\ DOMAIN s.matrix \subseteq Positions \X Positions
  /\ s.matrix \in [DOMAIN s.matrix -> Field]
  /\ s.rhs \subseteq Positions \X Requests

ASSUME SystemsAssumption == Dim \in Nat /\ \A s \in Systems : IsSystem(s)
ASSUME ValuesAssumption == RhsValues \subseteq Field /\ Leftover \in Field

\* In a field of Prime elements every element but zero has a reciprocal.
ASSUME PrimeAssumption ==
  /\ Prime \in Nat /\ Prime > 1
  /\ \A a \in Field \ {0} : \E b \in Field : (a * b) % Prime = 1

VARIABLES
  phase,     \* "selected", "refused", "pending", "ready" or "answered"
  system,    \* the square selected
  plan,      \* the blocks and their recordings (pending_block_replay)
  kernel,    \* the program for the outputs (replay_blocks)
  point,     \* the values of the last evaluation
  answer     \* what it returned, NoAnswer for an empty result

vars == <<phase, system, plan, kernel, point, answer>>

Nothing == [none |-> TRUE]
NoAnswer == <<>>

-----------------------------------------------------------------------------
(* The blocks. *)

\* The initial ranges: the basis columns, then a range for each run of
\* positions of one group.
Starts(s) ==
  {1} \union {p \in Positions : p = s.basis + 1}
      \union {p \in Positions : p > s.basis + 1 /\ s.group[p] # s.group[p - 1]}

RangeOf(s, position) == Cardinality({p \in Starts(s) : p <= position})

\* The dependencies of the ranges.  The basis range is made to wait for none,
\* so that it stays first.
Dependencies(s) ==
  {<<RangeOf(s, c[1]), RangeOf(s, c[2])>> : c \in DOMAIN s.matrix}
    \union ({1} \X (2 .. Cardinality(Starts(s))))

\* The positions of every block, in their order.
PositionsIn(s, order) ==
  [b \in DOMAIN order |-> {p \in Positions : RangeOf(s, p) \in order[b]}]

BlockSets(s) == PositionsIn(s, OrderByDependencies(Cardinality(Starts(s)), Dependencies(s)))

\* Within a block rows stand in the order of selection, columns by group, but
\* in the first block, which holds the basis, as they were.
RowOrder(sets) == FoldLeft(LAMBDA rows, S : rows \o Ascending(S), <<>>, sets)

\* Positions by group, within a group as they were.
ByGroup(s, S) ==
  LET before(p, q) == s.group[p] < s.group[q] \/ (s.group[p] = s.group[q] /\ p < q)
  IN  [i \in 1 .. Cardinality(S) |->
         CHOOSE q \in S : Cardinality({p \in S : before(p, q)}) = i - 1]

ColumnOrder(s, sets) ==
  LET append(columns, b) == columns \o (IF b = 1 THEN Ascending(sets[1]) ELSE ByGroup(s, sets[b]))
  IN  FoldLeft(append, <<>>, [b \in DOMAIN sets |-> b])

\* The square in its new order: at coordinate <<i, j>> the coefficient of the
\* row and column placed there.
Arranged(s, sets) ==
  LET rows == RowOrder(sets)
      columns == ColumnOrder(s, sets)
      size(b) == Cardinality(sets[b])
      first(b) == 1 + FoldLeft(LAMBDA n, c : n + size(c), 0, [c \in 1 .. b - 1 |-> c])
  IN  [matrix |-> [c \in {d \in Positions \X Positions :
                            <<rows[d[1]], columns[d[2]]>> \in DOMAIN s.matrix} |->
                     s.matrix[<<rows[c[1]], columns[c[2]]>>]],
       rhs |-> {e \in Positions \X Requests : <<rows[e[1]], e[2]>> \in s.rhs},
       rows |-> rows,
       columns |-> columns,
       blocks |-> [b \in DOMAIN sets |-> first(b) .. first(b) + size(b) - 1]]

Layout(s) == Arranged(s, BlockSets(s))

BlockOf(layout, position) == CHOOSE b \in DOMAIN layout.blocks : position \in layout.blocks[b]

\* The coordinates that couple `block` to an earlier one (program.couplings).
Couplings(layout, block) ==
  {c \in DOMAIN layout.matrix : c[2] \in layout.blocks[block]
                                /\ BlockOf(layout, c[1]) < block}

BasisIdentity(s, layout, block) == block = 1 /\ Cardinality(layout.blocks[1]) = s.basis

-----------------------------------------------------------------------------
(* build_block_replay. *)

Diagonal(layout, block) ==
  [r \in layout.blocks[block] |->
     [k \in {j \in layout.blocks[block] : <<r, j>> \in DOMAIN layout.matrix} |->
        [slot |-> <<r, k, 0>>, value |-> layout.matrix[<<r, k>>]]]]

IsIdentity(rows) ==
  \A r \in DOMAIN rows : DOMAIN rows[r] = {r} /\ rows[r][r].value = 1

Refused == [Started(<<>>, {}) EXCEPT !.ok = FALSE]

\* The recording of one block, for the support the blocks after it left.
RecordBlock(s, layout, block, live) ==
  LET rows == Diagonal(layout, block)
  IN  IF \E r \in DOMAIN rows : \E k \in DOMAIN rows[r] : rows[r][k].value = 0 THEN Refused
      ELSE IF BasisIdentity(s, layout, block)
        THEN IF IsIdentity(rows) THEN Started(rows, live) ELSE Refused
        ELSE RecordSparseTape(rows, live)

\* A coupling carries the support of the row that holds the solution of its
\* column (source_row) to its destination.
Carried(couplings, at, live) ==
  {<<p[1][1], p[2][2]>> : p \in {q \in couplings \X live : at[q[1][2]] = q[2][1]}}

\* The plan p with the recording r of a block in front of those after it.
WithBlock(p, block, r) ==
  LET at == Over(r.at, p.at)
  IN  [p EXCEPT !.ok = @ /\ r.ok, !.exact = @ /\ ~r.cancelled, !.at = at,
                !.tapes = <<r.tape>> \o @,
                !.live = IF r.ok
                           THEN r.live \union Carried(Couplings(p.layout, block), at, r.live)
                           ELSE @]

RecordBlocks(s, layout) ==
  LET record(p, block) == WithBlock(p, block, RecordBlock(s, layout, block, p.live))
  IN  FoldLeft(record,
               [ok |-> TRUE, exact |-> TRUE, layout |-> layout, live |-> layout.rhs,
                at |-> <<>>, tapes |-> <<>>],
               Reverse([b \in DOMAIN layout.blocks |-> b]))

BuildReplay(s) == RecordBlocks(s, Layout(s))

\* The row that holds the solution of a column of the square
\* (solution_row_by_column).
SolutionRow(p, column) ==
  p.at[CHOOSE i \in Positions : p.layout.columns[i] = column]

BlockNumbers(p) == [b \in DOMAIN p.layout.blocks |-> b]

-----------------------------------------------------------------------------
(* finalize_replay.  An output is a pair of a request and a basis column. *)

\* Target orientation, block after block: a word of the right-hand side is alive
\* when an output, or a coupling into a word alive, needs it.
TargetKernel(p, outputs) ==
  LET required(k, block) ==
        IF block = 1 THEN {<<SolutionRow(p, o[2]), o[1]>> : o \in outputs}
        ELSE {<<p.at[d[1][2]], d[2]>> : d \in
                {e \in Couplings(p.layout, block) \X Requests : <<e[1][1], e[2]>> \in k.alive}}
      prune(k, block) ==
        LET pruned == PruneTape(p.tapes[block], required(k, block))
        IN  [k EXCEPT !.tapes = Append(@, pruned.tape), !.alive = @ \union pruned.rhs]
      final == FoldLeft(prune, [tapes |-> <<>>, alive |-> {}], BlockNumbers(p))
  IN  [orientation |-> "target", outputs |-> outputs, tapes |-> final.tapes,
       alive |-> final.alive,
       columns |-> [c \in DOMAIN p.layout.matrix |->
                      {t \in Requests : <<c[1], t>> \in final.alive}]]

\* The columns a row operation of the transposed pass acts on: those in `words`
\* at the row it reads.
At(words, row) == {w[2] : w \in {v \in words : v[1] = row}}

\* What the seeds reach, and on which columns each operation acts.
Forward(p, seeds) ==
  LET couple(f, block) ==
        LET cs == Couplings(p.layout, block)
        IN  [f EXCEPT !.columns = Over([c \in cs |-> At(f.reach, c[1])], @),
                      !.reach = @ \union UNION {{p.at[c[2]]} \X At(f.reach, c[1]) : c \in cs}]
      operate(f, g) ==
        [f EXCEPT !.tape = <<[g EXCEPT !.rhs = At(f.reach, g.dst)]>> \o @,
                  !.reach = @ \union ({g.src} \X At(f.reach, g.dst))]
      pass(f, block) ==
        LET after == FoldLeft(operate, [couple(f, block) EXCEPT !.tape = <<>>],
                              Reverse(p.tapes[block]))
        IN  [after EXCEPT !.tapes = Append(@, after.tape)]
  IN  FoldLeft(pass, [reach |-> seeds, columns |-> <<>>, tape |-> <<>>, tapes |-> <<>>],
               BlockNumbers(p))

\* Read backwards: an operation stays for the columns something later reads.
Backward(p, forward, sinks) ==
  LET operate(k, g) ==
        LET rhs == g.rhs \intersect At(k.alive, g.src)
        IN  [k EXCEPT !.tape = Append(@, [g EXCEPT !.rhs = rhs]),
                      !.alive = @ \union ({g.dst} \X rhs)]
      couple(k, block) ==
        LET cs == Couplings(p.layout, block)
            kept(c) == forward.columns[c] \intersect At(k.alive, p.at[c[2]])
        IN  [k EXCEPT !.columns = Over([c \in cs |-> kept(c)], @),
                      !.alive = @ \union UNION {{c[1]} \X kept(c) : c \in cs}]
      pass(k, block) ==
        LET operated == FoldLeft(operate, [k EXCEPT !.tape = <<>>], forward.tapes[block])
        IN  [couple(operated, block) EXCEPT
               !.tapes = <<PruneFactors(operated.tape).tape>> \o @]
  IN  FoldLeft(pass, [alive |-> sinks, columns |-> <<>>, tape |-> <<>>, tapes |-> <<>>],
               Reverse(BlockNumbers(p)))

MasterKernel(p, outputs) ==
  LET seeds == {<<SolutionRow(p, o[2]), o[2]>> : o \in outputs}
      forward == Forward(p, seeds)
      sinks(o) == {<<e[1], o[2]>> : e \in {d \in p.layout.rhs : d[2] = o[1]}}
                    \intersect forward.reach
      backward == Backward(p, forward, UNION {sinks(o) : o \in outputs})
  IN  [orientation |-> "master", outputs |-> outputs, tapes |-> backward.tapes,
       alive |-> backward.alive, columns |-> backward.columns,
       seeds |-> seeds \intersect backward.alive,
       contractions |-> [o \in outputs |-> sinks(o)]]

-----------------------------------------------------------------------------
(* execute_replay for the values v of a point. *)

\* Mutant: the words of a block's matrix are as the last call left them.
StaleWords(words) == [w \in words |-> Leftover]

\* The words of a block's matrix: cleared, then loaded.
Cleared(words) == [w \in words |-> 0]

Loaded(tape, matrix) ==
  LET pairs == UNION {g.matrix : g \in ToSet(tape)}
      slots == {g.slot : g \in ToSet(tape)} \union {o[1] : o \in pairs} \union {o[2] : o \in pairs}
      cleared == Cleared(slots)
  IN  [w \in slots |-> IF w[3] = 0 THEN matrix[<<w[1], w[2]>>] ELSE cleared[w]]

\* A coupling subtracts the solution of its column from its destination, or,
\* transposed, its destination from that solution.
Couple(p, k, matrix, words, c) ==
  Updated(words, {c[1]} \X k.columns[c],
          LAMBDA w : SubtractMultiply(words[w], matrix[c], words[<<p.at[c[2]], w[2]>>]))

CoupleTransposed(p, k, matrix, words, c) ==
  Updated(words, {p.at[c[2]]} \X k.columns[c],
          LAMBDA w : SubtractMultiply(words[w], matrix[c], words[<<c[1], w[2]>>]))

TargetReplay(p, k, v) ==
  LET start == [w \in k.alive |-> IF w \in p.layout.rhs THEN v.rhs[w] ELSE 0]
      run(s, block) ==
        LET f == Factors(k.tapes[block], Loaded(k.tapes[block], v.matrix))
        IN  IF ~s.ok \/ ~f.ok THEN [s EXCEPT !.ok = FALSE]
            ELSE [s EXCEPT !.words =
                    FoldSet(LAMBDA c, words : Couple(p, k, v.matrix, words, c),
                            ApplyTape(@, k.tapes[block], f.factors),
                            Couplings(p.layout, block))]
      final == FoldLeft(run, [ok |-> TRUE, words |-> start], Reverse(BlockNumbers(p)))
  IN  IF final.ok
        THEN [o \in k.outputs |-> final.words[<<SolutionRow(p, o[2]), o[1]>>]]
        ELSE NoAnswer

MasterReplay(p, k, v) ==
  LET start == [w \in k.alive |-> IF w \in k.seeds THEN 1 ELSE 0]
      run(s, block) ==
        LET f == Factors(k.tapes[block], Loaded(k.tapes[block], v.matrix))
        IN  IF ~s.ok \/ ~f.ok THEN [s EXCEPT !.ok = FALSE]
            ELSE [s EXCEPT !.words =
                    ApplyTapeTransposed(
                      FoldSet(LAMBDA c, words : CoupleTransposed(p, k, v.matrix, words, c),
                              @, Couplings(p.layout, block)),
                      k.tapes[block], f.factors)]
      final == FoldLeft(run, [ok |-> TRUE, words |-> start], BlockNumbers(p))
      contract(o) ==
        FoldSet(LAMBDA w, sum : (sum + v.rhs[<<w[1], o[1]>>] * final.words[w]) % Prime,
                0, k.contractions[o])
  IN  IF final.ok THEN [o \in k.outputs |-> contract(o)] ELSE NoAnswer

Execute(p, k, v) ==
  IF k.orientation = "master" THEN MasterReplay(p, k, v) ELSE TargetReplay(p, k, v)

\* evaluate_reference, which validation compares with: the recording itself on
\* every word.
AllOutputs(s) == Requests \X (1 .. s.basis)
ReferenceKernel(s, p) ==
  [orientation |-> "target", outputs |-> AllOutputs(s), tapes |-> p.tapes,
   alive |-> Positions \X Requests,
   columns |-> [c \in DOMAIN p.layout.matrix |-> Requests]]

-----------------------------------------------------------------------------
(* The process. *)

Init ==
  /\ phase = "selected"
  /\ system \in Systems
  /\ plan = Nothing /\ kernel = Nothing /\ point = Nothing
  /\ answer = NoAnswer

Build ==
  /\ phase = "selected"
  /\ LET built == BuildReplay(system)
     IN  IF built.ok
           THEN phase' = "pending" /\ plan' = built
           ELSE phase' = "refused" /\ plan' = Nothing
  /\ UNCHANGED <<system, kernel, point, answer>>

\* The orientation is a preference of the caller or the cheaper estimate; master
\* orientation needs an output.
Finalize ==
  /\ phase = "pending"
  /\ \E outputs \in OutputSets :
       /\ outputs \subseteq AllOutputs(system)
       /\ \/ kernel' = TargetKernel(plan, outputs)
          \/ outputs # {} /\ kernel' = MasterKernel(plan, outputs)
  /\ phase' = "ready"
  /\ UNCHANGED <<system, plan, point, answer>>

\* The coordinates of an identity block are the constant one.
Fixed(s, p) ==
  IF BasisIdentity(s, p.layout, 1) THEN {<<i, i>> : i \in p.layout.blocks[1]} ELSE {}

Matrices(s, p) ==
  {Over(f, p.layout.matrix) : f \in
     UNION {[C -> Field] : C \in
       {D \in SUBSET (DOMAIN p.layout.matrix \ Fixed(s, p)) : Cardinality(D) <= Changes}}}

Evaluate ==
  /\ phase = "ready"
  /\ \E matrix \in Matrices(system, plan), rhs \in [plan.layout.rhs -> RhsValues] :
       /\ point' = [matrix |-> matrix, rhs |-> rhs]
       /\ answer' = Execute(plan, kernel, point')
  /\ phase' = "answered"
  /\ UNCHANGED <<system, plan, kernel>>

\* The caller takes the result and may ask again.
Take ==
  /\ phase = "answered"
  /\ phase' = "ready" /\ point' = Nothing /\ answer' = NoAnswer
  /\ UNCHANGED <<system, plan, kernel>>

Done == phase = "refused" /\ UNCHANGED vars

Next == Build \/ Finalize \/ Evaluate \/ Take \/ Done

Spec == Init /\ [][Next]_vars

-----------------------------------------------------------------------------
(* Properties. *)

Built == phase \in {"pending", "ready", "answered"}

\* The solutions of the square, in its own order, for the matrix and one request.
Row(matrix, x, i) ==
  FoldSet(LAMBDA c, sum : (sum + matrix[c] * x[c[2]]) % Prime, 0,
          {c \in DOMAIN matrix : c[1] = i})

Solutions(matrix, b) ==
  {x \in [Positions -> Field] : \A i \in Positions : Row(matrix, x, i) = b[i]}

Regular(matrix) == Cardinality(Solutions(matrix, [i \in Positions |-> 0])) = 1

\* No coefficient leads to an earlier block.  Blocks are no larger than that asks for:
\* two ranges share one exactly when each depends on the other.  The basis is in the first.
IsBlockTriangular(layout) ==
  LET ranges == 1 .. Cardinality(Starts(system))
      closure == FoldLeft(LAMBDA R, k : R \union {<<d[1][1], d[2][2]>> : d \in
                              {e \in R \X R : e[1][2] = e[2][1]}},
                          Dependencies(system) \union {<<r, r>> : r \in ranges}, <<1, 2, 3>>)
      row(p) == CHOOSE i \in Positions : layout.rows[i] = p
  IN  /\ \A c \in DOMAIN layout.matrix : BlockOf(layout, c[1]) <= BlockOf(layout, c[2])
      /\ \A p, q \in Positions :
           BlockOf(layout, row(p)) = BlockOf(layout, row(q)) <=>
             {<<RangeOf(system, p), RangeOf(system, q)>>,
              <<RangeOf(system, q), RangeOf(system, p)>>} \subseteq closure
      /\ \A p \in 1 .. system.basis : BlockOf(layout, row(p)) = 1

\* The recording succeeds exactly on a square that is regular at the anchor, has no
\* vanishing coefficient within a block and a unit basis block, and a plan that it leaves
\* has the finest blocks that can be solved one after the other (BlockReplayBuilder.cpp
\* 343-372).
RecordingJustified ==
  /\ Built => IsBlockTriangular(plan.layout)
  /\ phase \in {"refused", "pending"} =>
       LET layout == Layout(system)
       IN  phase = "pending" <=>
             /\ Regular(layout.matrix)
             /\ \A c \in DOMAIN layout.matrix :
                  BlockOf(layout, c[1]) = BlockOf(layout, c[2]) => layout.matrix[c] # 0
             /\ BasisIdentity(system, layout, 1) => IsIdentity(Diagonal(layout, 1))

\* What the kernel answers at a point is the solution of the system there, in
\* either orientation, if no coefficient cancelled by accident while recording;
\* at the anchor it does answer.
OutputsSolve ==
  phase = "answered" =>
    /\ point.matrix = plan.layout.matrix => answer # NoAnswer
    /\ answer # NoAnswer /\ plan.exact /\ Regular(point.matrix) =>
         \A o \in kernel.outputs :
           LET b == [i \in Positions |->
                       IF <<i, o[1]>> \in plan.layout.rhs THEN point.rhs[<<i, o[1]>>] ELSE 0]
               x == CHOOSE y \in Solutions(point.matrix, b) : TRUE
           IN  answer[o] = x[CHOOSE i \in Positions : plan.layout.columns[i] = o[2]]

\* Pruning and transposing lose nothing: where the recording itself has an answer
\* the kernel has the same one (the comparison of prepare_impl).
MatchesReference ==
  phase = "answered" =>
    LET reference == Execute(plan, ReferenceKernel(system, plan), point)
    IN  reference # NoAnswer => answer = [o \in kernel.outputs |-> reference[o]]
=============================================================================
