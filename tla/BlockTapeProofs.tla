---------------------------- MODULE BlockTapeProofs ----------------------------
(***************************************************************************)
(* Lemmas about the operators of BlockReplay, for systems of any size over *)
(* any field: folds step by step, arithmetic modulo the prime, what running*)
(* a tape does, and that pruning a tape keeps what is required of it       *)
(* (PruneKeeps).  They end in the two halves of what BlockReplayProofs     *)
(* states: a target kernel answers what the recording answers              *)
(* (TargetMatches), and the transposed tape is the adjoint of the tape     *)
(* (TapeAdjoint, CouplingsAdjoint), also when it is pruned (TapeAgrees).   *)
(***************************************************************************)
EXTENDS BlockReplay, FiniteSetTheorems, WellFoundedInduction, SequenceTheorems, TLAPS

-----------------------------------------------------------------------------
(* Sets, sequences, folds step by step, and arithmetic modulo the prime. *)

(***************************************************************************)
(* Sets and sequences.                                                     *)
(***************************************************************************)
LEMMA Least ==
  ASSUME NEW T, T \subseteq Nat, T # {}
  PROVE  \E x \in T : \A y \in T : x <= y
<1>1. PICK x \in T : \A y \in T : ~(<<y, x>> \in OpToRel(<, Nat))
  BY NatLessThanWellFounded, WFMin
<1>2. ASSUME NEW y \in T PROVE x <= y
  <2>1. ~(y < x)
    BY <1>1, <1>2 DEF OpToRel
  <2> QED BY <2>1, <1>2
<1> QED BY <1>2

\* Induction, of a set instead of a predicate.
LEMMA SetInduction ==
  ASSUME NEW T, 0 \in T, \A k \in Nat : k \in T => k + 1 \in T
  PROVE  \A k \in Nat : k \in T
<1> DEFINE Exceptions == {k \in Nat : k \notin T}
<1>1. SUFFICES ASSUME Exceptions # {} PROVE FALSE
  OBVIOUS
<1>2. PICK k \in Exceptions : \A l \in Exceptions : k <= l
  BY <1>1, Least
<1>3. k # 0 /\ k - 1 \in Nat /\ k - 1 \in T
  BY <1>2
<1> QED BY <1>2, <1>3

\* Length, domain and elements of a sequence.
LEMMA SequenceIs ==
  ASSUME NEW S, NEW s \in Seq(S)
  PROVE  /\ Len(s) \in Nat /\ DOMAIN s = 1 .. Len(s)
         /\ \A i \in DOMAIN s : s[i] \in S
OBVIOUS

\* How many elements of a set are below an element.
Smaller(S, x) == Cardinality({y \in S : y < x})

\* What is smaller than an element is fewer than what is smaller than a later one.
LEMMA SmallerRises ==
  ASSUME NEW S, S \subseteq Int, IsFiniteSet(S), NEW x \in S
  PROVE  /\ Smaller(S, x) \in Nat /\ Smaller(S, x) < Cardinality(S)
         /\ \A y \in S : x < y => Smaller(S, x) < Smaller(S, y)
<1>1. ASSUME NEW U, NEW V, IsFiniteSet(V), U \subseteq V, NEW z, z \in V, z \notin U
      PROVE  /\ Cardinality(U) \in Nat /\ Cardinality(V) \in Nat
             /\ Cardinality(U) < Cardinality(V)
  <2>1. IsFiniteSet(U) /\ Cardinality(U) <= Cardinality(V) /\ Cardinality(U) # Cardinality(V)
    BY <1>1, FS_Subset
  <2>2. Cardinality(U) \in Nat /\ Cardinality(V) \in Nat
    BY <1>1, <2>1, FS_CardinalityType
  <2> QED BY <2>1, <2>2
<1>2. Smaller(S, x) \in Nat /\ Smaller(S, x) < Cardinality(S)
  <2> DEFINE U == {y \in S : y < x}
  <2>1. U \subseteq S /\ x \notin U
    OBVIOUS
  <2> HIDE DEF U
  <2>2. Cardinality(U) \in Nat /\ Cardinality(U) < Cardinality(S)
    BY <2>1, <1>1
  <2> QED BY <2>2 DEF Smaller, U
<1>3. ASSUME NEW y \in S, x < y PROVE Smaller(S, x) < Smaller(S, y)
  <2> DEFINE U == {z \in S : z < x}
             V == {z \in S : z < y}
  <2>0. x \in Int /\ y \in Int /\ \A z \in S : z \in Int
    OBVIOUS
  <2>4. \A z \in S : z < x => z < y
    BY <1>3, <2>0
  <2>5. ~(x < x)
    BY <2>0
  <2>1. U \subseteq V /\ x \in V /\ x \notin U
    BY <1>3, <2>4, <2>5
  <2>2. IsFiniteSet(V)
    BY FS_Subset
  <2> HIDE DEF U, V
  <2>3. Cardinality(U) < Cardinality(V)
    BY <2>1, <2>2, <1>1
  <2> QED BY <2>3 DEF Smaller, U, V
<1> QED BY <1>2, <1>3

\* The elements of a set of numbers, each once.
LEMMA AscendingIs ==
  ASSUME NEW S, S \subseteq Int, IsFiniteSet(S)
  PROVE  /\ Ascending(S) \in Seq(S)
         /\ DOMAIN Ascending(S) = 1 .. Cardinality(S)
         /\ \A x \in S : \E i \in DOMAIN Ascending(S) : Ascending(S)[i] = x
         /\ \A i, j \in DOMAIN Ascending(S) : Ascending(S)[i] = Ascending(S)[j] => i = j
<1> DEFINE n == Cardinality(S)
           place == [x \in S |-> Smaller(S, x) + 1]
<1>1. n \in Nat
  BY FS_CardinalityType
<1>0. /\ \A x \in S : x \in Int /\ Smaller(S, x) \in Nat /\ Smaller(S, x) < n
      /\ \A x, y \in S : x < y => Smaller(S, x) < Smaller(S, y)
  BY SmallerRises
<1> HIDE DEF n
<1>2. IsFiniteSet(1 .. n) /\ Cardinality(1 .. n) = n
  BY <1>1, FS_Interval
<1>3. place \in [S -> 1 .. n]
  BY <1>1, <1>0
<1>4. ASSUME NEW x \in S, NEW y \in S, place[x] = place[y] PROVE x = y
  <2>1. Smaller(S, x) = Smaller(S, y)
    BY <1>4, <1>0
  <2>2. ~(x < y) /\ ~(y < x)
    BY <2>1, <1>0
  <2> QED BY <2>2
<1>5. place \in Injection(S, 1 .. n)
  BY <1>3, <1>4 DEF Injection, IsInjective
<1>6. place \in Surjection(S, 1 .. n)
  <2>1. Cardinality(S) = Cardinality(1 .. n)
    BY <1>2 DEF n
  <2> HIDE DEF place
  <2> QED BY <2>1, <1>2, <1>5, FS_Injection
<1>7. \A i \in 1 .. n : \E x \in S : place[x] = i
  <2> HIDE DEF place
  <2> QED BY <1>6 DEF Surjection
<1>8. \A i \in 1 .. n : \E x \in S : Smaller(S, x) = i - 1
  BY <1>7, <1>0
<1>9. DOMAIN Ascending(S) = 1 .. n
  BY DEF Ascending, n
<1>10. ASSUME NEW i \in 1 .. n
       PROVE  Ascending(S)[i] \in S /\ Smaller(S, Ascending(S)[i]) = i - 1
  <2>1. Ascending(S)[i] = CHOOSE x \in S : Cardinality({y \in S : y < x}) = i - 1
    BY <1>9 DEF Ascending
  <2>2. \E x \in S : Cardinality({y \in S : y < x}) = i - 1
    BY <1>8 DEF Smaller
  <2> QED BY <2>1, <2>2 DEF Smaller
<1>11. Ascending(S) \in Seq(S)
  <2>1. Ascending(S) = [i \in 1 .. n |-> Ascending(S)[i]]
    <3> DEFINE e(i) == CHOOSE x \in S : Cardinality({y \in S : y < x}) = i - 1
    <3>1. Ascending(S) = [i \in 1 .. n |-> e(i)]
      BY DEF Ascending, n
    <3> HIDE DEF e
    <3> QED BY <3>1
  <2>2. Ascending(S) \in [1 .. n -> S]
    BY <2>1, <1>10
  <2> QED BY <2>2, <1>1
<1>12. ASSUME NEW x \in S PROVE \E i \in 1 .. n : Ascending(S)[i] = x
  <2> DEFINE i == Smaller(S, x) + 1
  <2>1. i \in 1 .. n
    BY <1>0, <1>1
  <2>2. PICK y \in S : y = Ascending(S)[i] /\ Smaller(S, y) = i - 1
    BY <2>1, <1>10
  <2>3. Smaller(S, y) = Smaller(S, x) /\ Smaller(S, x) \in Nat
    BY <2>2, <1>0
  <2>4. ~(x < y) /\ ~(y < x) /\ x \in Int /\ y \in Int
    BY <2>3, <1>0
  <2>5. x = y
    BY <2>4
  <2> QED BY <2>1, <2>2, <2>5
<1>13. \A i, j \in 1 .. n : Ascending(S)[i] = Ascending(S)[j] => i = j
  BY <1>10
<1> QED BY <1>9, <1>11, <1>12, <1>13 DEF n
-----------------------------------------------------------------------------
(***************************************************************************)
(* The steps of the model's folds, by name.                                *)
(***************************************************************************)
Placed(blocks, c) == Append(blocks, NextBlock(c.edges, c.components \ ToSet(blocks)))

\* The step of PruneTape.
PruneGroup(s, g) ==
  LET rhs == {t \in g.rhs : <<g.dst, t>> \in s.rhs}
      matrix == {o \in g.matrix : o[1] \in s.slots}
  IN  IF rhs = {} /\ matrix = {} THEN s
      ELSE [tape |-> <<[g EXCEPT !.rhs = rhs, !.matrix = matrix]>> \o s.tape,
            rhs |-> s.rhs \union ({g.src} \X rhs),
            slots |-> s.slots \union {o[2] : o \in matrix} \union {g.slot}]

\* The step of PruneFactors.
PruneFactor(s, g) ==
  LET matrix == {o \in g.matrix : o[1] \in s.slots}
  IN  IF g.rhs = {} /\ matrix = {} THEN s
      ELSE [tape |-> <<[g EXCEPT !.matrix = matrix]>> \o s.tape,
            slots |-> s.slots \union {o[2] : o \in matrix} \union {g.slot}]

\* c.plan, c.kernel and c.point are what is replayed, c.outputs what is finalized.
Required(c, k, block) ==
  IF block = 1 THEN {<<SolutionRow(c.plan, o[2]), o[1]>> : o \in c.outputs}
  ELSE {<<c.plan.at[d[1][2]], d[2]>> : d \in
          {e \in Couplings(c.plan.layout, block) \X Requests : <<e[1][1], e[2]>> \in k.alive}}

\* The step of TargetKernel.
TargetPruned(k, c, block) ==
  LET pruned == PruneTape(c.plan.tapes[block], Required(c, k, block))
  IN  [k EXCEPT !.tapes = Append(@, pruned.tape), !.alive = @ \union pruned.rhs]

\* The steps of Forward: a group, the couplings of a block, a block.
ForwardGroup(f, g) ==
  [f EXCEPT !.tape = <<[g EXCEPT !.rhs = At(f.reach, g.dst)]>> \o @,
            !.reach = @ \union ({g.src} \X At(f.reach, g.dst))]

ForwardCoupled(f, c, block) ==
  LET cs == Couplings(c.plan.layout, block)
  IN  [f EXCEPT !.columns = Over([x \in cs |-> At(f.reach, x[1])], @),
                !.reach = @ \union UNION {{c.plan.at[x[2]]} \X At(f.reach, x[1]) : x \in cs}]

ForwardBlock(f, c, block) ==
  LET after == FoldLeft(ForwardGroup, [ForwardCoupled(f, c, block) EXCEPT !.tape = <<>>],
                        Reverse(c.plan.tapes[block]))
  IN  [after EXCEPT !.tapes = Append(@, after.tape)]

\* The steps of Backward.
BackwardGroup(k, g) ==
  LET rhs == g.rhs \intersect At(k.alive, g.src)
  IN  [k EXCEPT !.tape = Append(@, [g EXCEPT !.rhs = rhs]),
                !.alive = @ \union ({g.dst} \X rhs)]

BackwardCoupled(k, c, block) ==
  LET cs == Couplings(c.plan.layout, block)
      kept(x) == c.forward.columns[x] \intersect At(k.alive, c.plan.at[x[2]])
  IN  [k EXCEPT !.columns = Over([x \in cs |-> kept(x)], @),
                !.alive = @ \union UNION {{x[1]} \X kept(x) : x \in cs}]

BackwardBlock(k, c, block) ==
  LET operated == FoldLeft(BackwardGroup, [k EXCEPT !.tape = <<>>], c.forward.tapes[block])
  IN  [BackwardCoupled(operated, c, block) EXCEPT
         !.tapes = <<PruneFactors(operated.tape).tape>> \o @]

\* The step of TargetReplay.
TargetBlock(s, c, block) ==
  LET f == Factors(c.kernel.tapes[block], Loaded(c.kernel.tapes[block], c.point.matrix))
  IN  IF ~s.ok \/ ~f.ok THEN [s EXCEPT !.ok = FALSE]
      ELSE [s EXCEPT !.words =
              FoldSet(LAMBDA x, words : Couple(c.plan, c.kernel, c.point.matrix, words, x),
                      ApplyTape(@, c.kernel.tapes[block], f.factors),
                      Couplings(c.plan.layout, block))]

\* The step of MasterReplay.
MasterBlock(s, c, block) ==
  LET f == Factors(c.kernel.tapes[block], Loaded(c.kernel.tapes[block], c.point.matrix))
  IN  IF ~s.ok \/ ~f.ok THEN [s EXCEPT !.ok = FALSE]
      ELSE [s EXCEPT !.words =
              ApplyTapeTransposed(
                FoldSet(LAMBDA x, words :
                          CoupleTransposed(c.plan, c.kernel, c.point.matrix, words, x),
                        @, Couplings(c.plan.layout, block)),
                c.kernel.tapes[block], f.factors)]

\* All steps the folds of the model take.  A lemma about folds cannot take an operator
\* as a parameter, so the step is named by a string.
StepOf(t, c, x, how) ==
  IF how = "plus" THEN t + c[x]
  ELSE IF how = "count" THEN t + Cardinality(c[x])
  ELSE IF how = "visit" THEN VisitStep(c.n, c.edges, t)
  ELSE IF how = "place" THEN Placed(t, c)
  ELSE IF how = "rows" THEN t \o Ascending(x)
  ELSE IF how = "columns" THEN t \o (IF x = 1 THEN Ascending(c.sets[1]) ELSE ByGroup(c.system, c.sets[x]))
  ELSE IF how = "pivot" THEN RecordColumn(t, x)
  ELSE IF how = "row" THEN EliminateRow(t, c.column, c.pivot, x)
  ELSE IF how = "back" THEN RecordBack(t, x)
  ELSE IF how = "record" THEN WithBlock(t, x, RecordBlock(c.system, c.layout, x, t.live))
  ELSE IF how = "prune" THEN PruneGroup(t, x)
  ELSE IF how = "factor" THEN PruneFactor(t, x)
  ELSE IF how = "run" THEN RunGroup(t, x)
  ELSE IF how = "apply" THEN ApplyGroup(t, c.tape[x], c.factors[x])
  ELSE IF how = "transposed" THEN ApplyTransposed(t, c.tape[x], c.factors[x])
  ELSE IF how = "target" THEN TargetPruned(t, c, x)
  ELSE IF how = "forward" THEN ForwardGroup(t, x)
  ELSE IF how = "forwards" THEN ForwardBlock(t, c, x)
  ELSE IF how = "backward" THEN BackwardGroup(t, x)
  ELSE IF how = "backwards" THEN BackwardBlock(t, c, x)
  ELSE IF how = "replay" THEN TargetBlock(t, c, x)
  ELSE IF how = "dual" THEN MasterBlock(t, c, x)
  ELSE IF how = "couple" THEN Couple(c.plan, c.kernel, c.point.matrix, t, x)
  ELSE IF how = "transpose" THEN CoupleTransposed(c.plan, c.kernel, c.point.matrix, t, x)
  ELSE (t + c.point.rhs[<<x[1], c.output[1]>>] * c.words[x]) % Prime

\* StepOf, one branch at a time.
LEMMA StepPlus ==
  ASSUME NEW t, NEW c, NEW x
  PROVE  StepOf(t, c, x, "plus") = t + c[x]
BY DEF StepOf

LEMMA StepCount ==
  ASSUME NEW t, NEW c, NEW x
  PROVE  StepOf(t, c, x, "count") = t + Cardinality(c[x])
BY DEF StepOf

LEMMA StepVisit ==
  ASSUME NEW t, NEW c, NEW x
  PROVE  StepOf(t, c, x, "visit") = VisitStep(c.n, c.edges, t)
BY DEF StepOf

LEMMA StepPlace ==
  ASSUME NEW t, NEW c, NEW x
  PROVE  StepOf(t, c, x, "place") = Placed(t, c)
BY DEF StepOf

LEMMA StepRows ==
  ASSUME NEW t, NEW c, NEW x
  PROVE  StepOf(t, c, x, "rows") = t \o Ascending(x)
BY DEF StepOf

LEMMA StepColumns ==
  ASSUME NEW t, NEW c, NEW x
  PROVE  StepOf(t, c, x, "columns") = t \o (IF x = 1 THEN Ascending(c.sets[1]) ELSE ByGroup(c.system, c.sets[x]))
BY DEF StepOf

LEMMA StepPivot ==
  ASSUME NEW t, NEW c, NEW x
  PROVE  StepOf(t, c, x, "pivot") = RecordColumn(t, x)
BY DEF StepOf

LEMMA StepRow ==
  ASSUME NEW t, NEW c, NEW x
  PROVE  StepOf(t, c, x, "row") = EliminateRow(t, c.column, c.pivot, x)
BY DEF StepOf

LEMMA StepBack ==
  ASSUME NEW t, NEW c, NEW x
  PROVE  StepOf(t, c, x, "back") = RecordBack(t, x)
BY DEF StepOf

LEMMA StepRecord ==
  ASSUME NEW t, NEW c, NEW x
  PROVE  StepOf(t, c, x, "record") = WithBlock(t, x, RecordBlock(c.system, c.layout, x, t.live))
BY DEF StepOf

LEMMA StepPrune ==
  ASSUME NEW t, NEW c, NEW x
  PROVE  StepOf(t, c, x, "prune") = PruneGroup(t, x)
BY DEF StepOf

LEMMA StepFactor ==
  ASSUME NEW t, NEW c, NEW x
  PROVE  StepOf(t, c, x, "factor") = PruneFactor(t, x)
BY DEF StepOf

LEMMA StepRun ==
  ASSUME NEW t, NEW c, NEW x
  PROVE  StepOf(t, c, x, "run") = RunGroup(t, x)
BY DEF StepOf

LEMMA StepApply ==
  ASSUME NEW t, NEW c, NEW x
  PROVE  StepOf(t, c, x, "apply") = ApplyGroup(t, c.tape[x], c.factors[x])
BY DEF StepOf

LEMMA StepTransposed ==
  ASSUME NEW t, NEW c, NEW x
  PROVE  StepOf(t, c, x, "transposed") = ApplyTransposed(t, c.tape[x], c.factors[x])
BY DEF StepOf

LEMMA StepTarget ==
  ASSUME NEW t, NEW c, NEW x
  PROVE  StepOf(t, c, x, "target") = TargetPruned(t, c, x)
BY DEF StepOf

LEMMA StepForward ==
  ASSUME NEW t, NEW c, NEW x
  PROVE  StepOf(t, c, x, "forward") = ForwardGroup(t, x)
BY DEF StepOf

LEMMA StepForwards ==
  ASSUME NEW t, NEW c, NEW x
  PROVE  StepOf(t, c, x, "forwards") = ForwardBlock(t, c, x)
BY DEF StepOf

LEMMA StepBackward ==
  ASSUME NEW t, NEW c, NEW x
  PROVE  StepOf(t, c, x, "backward") = BackwardGroup(t, x)
BY DEF StepOf

LEMMA StepBackwards ==
  ASSUME NEW t, NEW c, NEW x
  PROVE  StepOf(t, c, x, "backwards") = BackwardBlock(t, c, x)
BY DEF StepOf

LEMMA StepReplay ==
  ASSUME NEW t, NEW c, NEW x
  PROVE  StepOf(t, c, x, "replay") = TargetBlock(t, c, x)
BY DEF StepOf

LEMMA StepDual ==
  ASSUME NEW t, NEW c, NEW x
  PROVE  StepOf(t, c, x, "dual") = MasterBlock(t, c, x)
BY DEF StepOf

LEMMA StepCouple ==
  ASSUME NEW t, NEW c, NEW x
  PROVE  StepOf(t, c, x, "couple") = Couple(c.plan, c.kernel, c.point.matrix, t, x)
BY DEF StepOf

LEMMA StepCoupleTransposed ==
  ASSUME NEW t, NEW c, NEW x
  PROVE  StepOf(t, c, x, "transpose") = CoupleTransposed(c.plan, c.kernel, c.point.matrix, t, x)
BY DEF StepOf

LEMMA StepContract ==
  ASSUME NEW t, NEW c, NEW x
  PROVE  StepOf(t, c, x, "contract") = (t + c.point.rhs[<<x[1], c.output[1]>>] * c.words[x]) % Prime
BY DEF StepOf

\* A fold by the domains it has passed, as MapThenFoldSet computes it.
FoldOf(it, base, choice, seq, how) ==
  [T \in SUBSET DOMAIN seq |->
     IF T = {} THEN base ELSE StepOf(it[T \ {Max(T)}], choice, seq[Max(T)], how)]

IsFold(it, base, choice, seq, how) == it = FoldOf(it, base, choice, seq, how)

FoldAt(it, base, choice, seq, how, T) ==
  it[T] = IF T = {} THEN base ELSE StepOf(it[T \ {Max(T)}], choice, seq[Max(T)], how)

\* Max of a set of naturals.
LEMMA MaxIs ==
  ASSUME NEW n \in Nat, NEW T \in SUBSET (1 .. n), T # {}
  PROVE  Max(T) \in T /\ \A y \in T : Max(T) >= y
<1> DEFINE U == {k \in Nat : n - k \in T}
<1>1. U # {}
  <2>1. PICK x \in T : TRUE
    OBVIOUS
  <2>2. x \in Nat /\ x <= n
    BY <2>1
  <2>3. n - x \in Nat /\ n - (n - x) = x
    BY <2>2
  <2> QED BY <2>1, <2>3
<1>2. PICK k \in U : \A l \in U : k <= l
  BY <1>1, Least
<1>3. \A y \in T : n - k >= y
  <2> SUFFICES ASSUME NEW y \in T PROVE n - k >= y
    OBVIOUS
  <2>1. n - y \in Nat /\ n - (n - y) = y
    OBVIOUS
  <2>2. n - y \in U
    BY <2>1
  <2>3. k <= n - y
    BY <1>2, <2>2
  <2> QED BY <2>1, <2>3
<1>4. \E x \in T : \A y \in T : x >= y
  BY <1>2, <1>3
<1> QED BY <1>4 DEF Max

\* A set without one element is smaller.
LEMMA OneLess ==
  ASSUME NEW T, IsFiniteSet(T), NEW x \in T, NEW k \in Nat, Cardinality(T) <= k + 1
  PROVE  Cardinality(T \ {x}) <= k
<1>1. IsFiniteSet(T \ {x}) /\ Cardinality(T \ {x}) = Cardinality(T) - 1
  BY FS_RemoveElement
<1>2. Cardinality(T) \in Nat
  BY FS_CardinalityType
<1> QED BY <1>1, <1>2

\* The recursive function behind a fold exists, by induction on the size of domains.
LEMMA FoldExists ==
  ASSUME NEW base, NEW choice, NEW seq, NEW how, NEW n \in Nat, DOMAIN seq = 1 .. n
  PROVE  \E it : IsFold(it, base, choice, seq, how)
<1> DEFINE D == DOMAIN seq
           Right(it, T) == FoldAt(it, base, choice, seq, how, T)
           Solves(it, k) == \A T \in SUBSET D : Cardinality(T) <= k => Right(it, T)
           K == {k \in Nat : \E it : it = [T \in SUBSET D |-> it[T]] /\ Solves(it, k)}
<1>1. \A T \in SUBSET D : IsFiniteSet(T)
  BY FS_Interval, FS_Subset
<1>2. 0 \in K
  <2> DEFINE it == [T \in SUBSET D |-> base]
  <2>1. \A T \in SUBSET D : Cardinality(T) <= 0 => T = {}
    BY <1>1, FS_EmptySet, FS_CardinalityType
  <2>2. Solves(it, 0)
    BY <2>1 DEF FoldAt
  <2> QED BY <2>2
<1>3. ASSUME NEW k \in Nat, k \in K PROVE k + 1 \in K
  <2>1. PICK it : Solves(it, k)
    BY <1>3
  <2> DEFINE u == FoldOf(it, base, choice, seq, how)
  <2>2. \A T \in SUBSET D : u[T] = IF T = {} THEN base
                     ELSE StepOf(it[T \ {Max(T)}], choice, seq[Max(T)], how)
    BY DEF FoldOf
  <2>3. \A T \in SUBSET D : Cardinality(T) <= k => u[T] = it[T]
    BY <2>1, <2>2 DEF FoldAt
  <2>4. u = [T \in SUBSET D |-> u[T]]
    <3> DEFINE e(T) == IF T = {} THEN base
                       ELSE StepOf(it[T \ {Max(T)}], choice, seq[Max(T)], how)
    <3>1. u = [T \in SUBSET D |-> e(T)]
      BY DEF FoldOf
    <3> HIDE DEF e, u
    <3> QED BY <3>1
  <2> HIDE DEF u
  <2>5. ASSUME NEW T \in SUBSET D, Cardinality(T) <= k + 1
        PROVE  Right(u, T)
    <3>1. CASE T = {}
      BY <2>2, <3>1 DEF FoldAt
    <3>2. CASE T # {}
      <4>1. Max(T) \in T
        BY <3>2, MaxIs
      <4>2. T \ {Max(T)} \in SUBSET D /\ Cardinality(T \ {Max(T)}) <= k
        BY <1>1, <2>5, <4>1, OneLess
      <4>3. u[T \ {Max(T)}] = it[T \ {Max(T)}]
        BY <2>3, <4>2
      <4> QED BY <2>2, <3>2, <4>3 DEF FoldAt
    <3> QED BY <3>1, <3>2
  <2>6. Solves(u, k + 1)
    BY <2>5
  <2>7. \E v : v = [T \in SUBSET D |-> v[T]] /\ Solves(v, k + 1)
    BY <2>4, <2>6
  <2>8. k + 1 \in Nat
    OBVIOUS
  <2> HIDE DEF Solves
  <2> QED BY <2>7, <2>8
<1>4. Cardinality(D) \in K
  <2>1. Cardinality(D) \in Nat
    BY <1>1, FS_CardinalityType
  <2> HIDE DEF K
  <2> QED BY <2>1, <1>2, <1>3, SetInduction
<1>5. PICK it : it = [T \in SUBSET D |-> it[T]] /\ Solves(it, Cardinality(D))
  BY <1>4
<1>6. \A T \in SUBSET D : Cardinality(T) <= Cardinality(D)
  BY <1>1, FS_Subset
<1>7. \A T \in SUBSET D : Right(it, T)
  BY <1>5, <1>6
<1> DEFINE e(T) == IF T = {} THEN base
                   ELSE StepOf(it[T \ {Max(T)}], choice, seq[Max(T)], how)
<1>8. \A T \in SUBSET D : it[T] = e(T)
  BY <1>7 DEF FoldAt
<1>9. FoldOf(it, base, choice, seq, how) = [T \in SUBSET D |-> e(T)]
  BY DEF FoldOf
<1>10. it = [T \in SUBSET D |-> e(T)]
  <2> HIDE DEF e
  <2> QED BY <1>5, <1>8
<1> QED BY <1>9, <1>10 DEF IsFold

\* The value of a fold.
Folded(base, choice, seq, how) ==
  (CHOOSE it : IsFold(it, base, choice, seq, how))[DOMAIN seq]

\* The results from row to row.
Chain(f, base, choice, seq, how) ==
  /\ f[0] = base
  /\ \A i \in DOMAIN seq : f[i] = StepOf(f[i - 1], choice, seq[i], how)

\* A fold has a chain of intermediate values.
LEMMA FoldChain ==
  ASSUME NEW base, NEW choice, NEW seq, NEW how, NEW n \in Nat, DOMAIN seq = 1 .. n
  PROVE  \E f : Chain(f, base, choice, seq, how) /\ f[n] = Folded(base, choice, seq, how)
<1> DEFINE it == CHOOSE it : IsFold(it, base, choice, seq, how)
           f == [i \in 0 .. n |-> it[1 .. i]]
<1>1. IsFold(it, base, choice, seq, how)
  BY FoldExists
<1> HIDE DEF it
<1>2. \A T \in SUBSET DOMAIN seq : FoldAt(it, base, choice, seq, how, T)
  BY <1>1 DEF IsFold, FoldOf, FoldAt
<1>3. f[0] = base
  <2>1. 1 .. 0 = {} /\ 0 \in 0 .. n
    OBVIOUS
  <2>2. f[0] = it[{}]
    BY <2>1
  <2> QED BY <2>2, <1>2 DEF FoldAt
<1>4. ASSUME NEW i \in 1 .. n PROVE f[i] = StepOf(f[i - 1], choice, seq[i], how)
  <2> DEFINE T == 1 .. i
  <2>1. T \in SUBSET (1 .. n) /\ T # {} /\ i \in T
    OBVIOUS
  <2>2. Max(T) \in T /\ Max(T) >= i
    BY <2>1, MaxIs
  <2>3. Max(T) = i
    BY <2>2
  <2>4. T \ {i} = 1 .. (i - 1)
    OBVIOUS
  <2>6. i \in 0 .. n /\ i - 1 \in 0 .. n
    OBVIOUS
  <2>5. f[i] = it[T] /\ f[i - 1] = it[T \ {i}]
    BY <2>4, <2>6
  <2> HIDE DEF T, f
  <2> QED BY <2>1, <2>3, <2>5, <1>2 DEF FoldAt
<1>5. f[n] = it[DOMAIN seq]
  OBVIOUS
<1> QED BY <1>3, <1>4, <1>5 DEF Chain, Folded, it
-----------------------------------------------------------------------------
(***************************************************************************)
(* Arithmetic modulo Prime.                                                *)
(***************************************************************************)
Congruent(a, b) == a % Prime = b % Prime

\* What is assumed of the prime.
LEMMA PrimeIs == Prime \in Nat /\ Prime > 1 /\ Prime # 0 /\ 0 \in Field /\ Field \subseteq Int
BY PrimeAssumption DEF Field

\* Division with remainder.
LEMMA Quotient ==
  ASSUME NEW a \in Int
  PROVE  \E q \in Int : a = Prime * q + (a % Prime)
<1> DEFINE p == Prime
<1>1. p \in Nat \ {0}
  BY PrimeIs
<1>2. a \div p \in Int /\ a = p * (a \div p) + (a % p)
  BY <1>1
<1> QED BY <1>2

\* A remainder is an element of the field.
LEMMA RemainderIs ==
  ASSUME NEW a \in Int
  PROVE  a % Prime \in Field
<1> DEFINE p == Prime
<1>1. p \in Nat \ {0}
  BY PrimeIs
<1>2. a % p \in 0 .. p - 1
  BY <1>1
<1> QED BY <1>2 DEF Field

\* An element of the field is its own remainder.
LEMMA OfField ==
  ASSUME NEW a \in Field
  PROVE  a % Prime = a /\ a \in Int
<1> DEFINE p == Prime
<1>1. p \in Nat \ {0} /\ a \in 0 .. p - 1
  BY PrimeIs DEF Field
<1> HIDE DEF p
<1>2. a % p = a
  BY <1>1
<1> QED BY <1>1, <1>2 DEF p

\* Two remainders that differ by a multiple of the modulus are equal.
LEMMA SmallMultiple ==
  ASSUME NEW p \in Nat, p > 0, NEW a \in 0 .. p - 1, NEW b \in 0 .. p - 1, NEW k \in Int,
         a - b = p * k
  PROVE  a = b
<1>1. CASE k >= 1
  <2>1. p * k >= p
    BY <1>1
  <2> QED BY <2>1
<1>2. CASE k <= -1
  <2>1. p * k <= -p
    BY <1>2
  <2> QED BY <2>1
<1>3. CASE k = 0
  BY <1>3
<1> QED BY <1>1, <1>2, <1>3

\* Congruent numbers differ by a multiple of the prime.
LEMMA CongruentIs ==
  ASSUME NEW a \in Int, NEW b \in Int
  PROVE  Congruent(a, b) <=> \E k \in Int : a = b + Prime * k
<1> DEFINE p == Prime
<1>0. p \in Nat /\ p > 0
  BY PrimeIs
<1>1. PICK q \in Int : a = p * q + (a % p)
  BY Quotient
<1>2. PICK r \in Int : b = p * r + (b % p)
  BY Quotient
<1>3. a % p \in 0 .. p - 1 /\ b % p \in 0 .. p - 1
  BY RemainderIs DEF Field
<1>4. ASSUME Congruent(a, b) PROVE \E k \in Int : a = b + p * k
  <2>1. a = b + p * (q - r)
    <3>1. PICK x : x = a % p /\ x = b % p /\ x \in Int
      BY <1>3, <1>4 DEF Congruent
    <3>2. a = p * q + x /\ b = p * r + x
      BY <1>1, <1>2, <3>1
    <3> HIDE DEF p
    <3>3. p * (q - r) = p * q - p * r
      BY <1>0
    <3>4. p * q \in Int /\ p * r \in Int
      BY <1>0
    <3> QED BY <3>1, <3>2, <3>3, <3>4
  <2>2. q - r \in Int
    OBVIOUS
  <2> QED BY <2>1, <2>2
<1>5. ASSUME NEW k \in Int, a = b + p * k PROVE Congruent(a, b)
  <2>1. PICK x \in 0 .. p - 1, y \in 0 .. p - 1 : x = a % p /\ y = b % p
    BY <1>3
  <2>2. a = p * q + x /\ b = p * r + y
    BY <1>1, <1>2, <2>1
  <2> HIDE DEF p
  <2>3. x - y = p * (r - q + k)
    <3>1. p * (r - q + k) = p * r - p * q + p * k
      BY <1>0
    <3>2. p * q \in Int /\ p * r \in Int /\ p * k \in Int /\ x \in Int /\ y \in Int
      BY <1>0
    <3>3. PICK u \in Int, v \in Int, w \in Int : u = p * q /\ v = p * r /\ w = p * k
      BY <3>2
    <3>4. a = u + x /\ b = v + y /\ a = b + w
      BY <1>5, <2>2, <3>3
    <3>5. x - y = v - u + w
      BY <3>2, <3>4
    <3> QED BY <3>1, <3>3, <3>5
  <2>4. x = y
    BY <1>0, <2>3, SmallMultiple
  <2> QED BY <2>1, <2>4 DEF Congruent, p
<1> HIDE DEF p
<1> QED BY <1>4, <1>5 DEF p

\* A number is congruent to its remainder.
LEMMA CongruentRemainder ==
  ASSUME NEW a \in Int
  PROVE  Congruent(a % Prime, a) /\ Congruent(a, a % Prime)
<1>1. a % Prime \in Field
  BY RemainderIs
<1>2. (a % Prime) % Prime = a % Prime
  BY <1>1, OfField
<1> QED BY <1>2 DEF Congruent

\* Congruent elements of the field are equal.
LEMMA CongruentEqual ==
  ASSUME NEW a \in Field, NEW b \in Field, Congruent(a, b)
  PROVE  a = b
BY OfField DEF Congruent

\* Congruence is kept by sums,
LEMMA CongruentSum ==
  ASSUME NEW a \in Int, NEW b \in Int, NEW c \in Int, NEW d \in Int, Congruent(a, b), Congruent(c, d),
         NEW x, x = a + c, NEW y, y = b + d
  PROVE  Congruent(x, y)
<1> DEFINE p == Prime
<1>0. p \in Int
  BY PrimeIs
<1>1. PICK k \in Int : a = b + p * k
  BY CongruentIs
<1>2. PICK l \in Int : c = d + p * l
  BY CongruentIs
<1> HIDE DEF p
<1>3. x = y + p * (k + l)
  BY <1>0, <1>1, <1>2
<1>4. k + l \in Int /\ x \in Int /\ y \in Int
  OBVIOUS
<1> QED BY <1>3, <1>4, CongruentIs DEF p

\* by multiples,
LEMMA CongruentMultiple ==
  ASSUME NEW c \in Int, NEW d \in Int, NEW f \in Int, Congruent(c, d),
         NEW x, x = f * c, NEW y, y = f * d
  PROVE  Congruent(x, y)
<1> DEFINE p == Prime
<1>0. p \in Int
  BY PrimeIs
<1>1. PICK l \in Int : c = d + p * l
  BY CongruentIs
<1> HIDE DEF p
<1>2. x = y + p * (f * l)
  <2>1. f * c = f * d + f * (p * l)
    BY <1>0, <1>1
  <2>2. f * (p * l) = p * (f * l)
    BY <1>0
  <2> QED BY <2>1, <2>2
<1>3. f * l \in Int /\ x \in Int /\ y \in Int
  OBVIOUS
<1> QED BY <1>2, <1>3, CongruentIs DEF p

\* a = b and c = d modulo Prime give a + f * c = b + f * d.
LEMMA CongruentLinear ==
  ASSUME NEW a \in Int, NEW b \in Int, NEW c \in Int, NEW d \in Int, NEW f \in Int,
         Congruent(a, b), Congruent(c, d), NEW x, x = a + f * c, NEW y, y = b + f * d
  PROVE  Congruent(x, y)
<1>1. PICK u \in Int, v \in Int : u = f * c /\ v = f * d
  OBVIOUS
<1>2. Congruent(u, v)
  BY <1>1, CongruentMultiple
<1>3. x = a + u /\ y = b + v
  BY <1>1
<1> QED BY <1>2, <1>3, CongruentSum

\* and is symmetric and transitive.
LEMMA CongruentTrans ==
  ASSUME NEW a, NEW b, NEW c, Congruent(a, b), Congruent(b, c)
  PROVE  Congruent(a, c) /\ Congruent(b, a)
BY DEF Congruent

\* The multiplicative group: what is divided by a pivot can be multiplied by it again.
LEMMA ReciprocalIs ==
  ASSUME NEW a \in Field \ {0}
  PROVE  Reciprocal(a) \in Field /\ (a * Reciprocal(a)) % Prime = 1
BY PrimeAssumption DEF Reciprocal

-----------------------------------------------------------------------------
(***************************************************************************)
(* Sums.                                                                   *)
(***************************************************************************)
Total(f, n) == Folded(0, f, [i \in 1 .. n |-> i], "plus")

Adds(g, f, n) == g[0] = 0 /\ \A i \in 1 .. n : g[i] = g[i - 1] + f[i]

\* Partial sums.
LEMMA TotalChain ==
  ASSUME NEW f, NEW n \in Nat
  PROVE  \E g : Adds(g, f, n) /\ g[n] = Total(f, n)
<1> DEFINE seq == [i \in 1 .. n |-> i]
<1>1. DOMAIN seq = 1 .. n
  OBVIOUS
<1>2. PICK g : Chain(g, 0, f, seq, "plus") /\ g[n] = Folded(0, f, seq, "plus")
  <2> HIDE DEF seq
  <2> QED BY <1>1, FoldChain
<1>3. \A i \in 1 .. n : g[i] = g[i - 1] + f[i]
  BY <1>1, <1>2 DEF Chain, StepOf
<1>4. g[0] = 0
  BY <1>2 DEF Chain
<1> QED BY <1>2, <1>3, <1>4 DEF Adds, Total

\* The sum of one more term.
LEMMA TotalStep ==
  ASSUME NEW f, NEW n \in Nat
  PROVE  Total(f, 0) = 0 /\ Total(f, n + 1) = Total(f, n) + f[n + 1]
<1>1. Total(f, 0) = 0
  <2>1. PICK g : Adds(g, f, 0) /\ g[0] = Total(f, 0)
    BY TotalChain
  <2> QED BY <2>1 DEF Adds
<1>2. PICK g : Adds(g, f, n) /\ g[n] = Total(f, n)
  BY TotalChain
<1>3. PICK h : Adds(h, f, n + 1) /\ h[n + 1] = Total(f, n + 1)
  <2>1. n + 1 \in Nat
    OBVIOUS
  <2> QED BY <2>1, TotalChain
<1> DEFINE K == {i \in Nat : i <= n => g[i] = h[i]}
<1>4. 0 \in K
  BY <1>2, <1>3 DEF Adds
<1>5. ASSUME NEW i \in Nat, i \in K PROVE i + 1 \in K
  <2>1. SUFFICES ASSUME i + 1 <= n PROVE g[i + 1] = h[i + 1]
    BY <1>5
  <2>2. g[i] = h[i] /\ i + 1 \in 1 .. n /\ i + 1 \in 1 .. n + 1 /\ (i + 1) - 1 = i
    BY <1>5, <2>1
  <2> QED BY <1>2, <1>3, <2>2 DEF Adds
<1>6. n \in K
  <2> HIDE DEF K
  <2> QED BY <1>4, <1>5, SetInduction
<1>7. h[n + 1] = h[n] + f[n + 1]
  <2>1. n + 1 \in 1 .. n + 1 /\ (n + 1) - 1 = n
    OBVIOUS
  <2> QED BY <1>3, <2>1 DEF Adds
<1> QED BY <1>1, <1>2, <1>3, <1>6, <1>7

\* A sum of integers is one.
LEMMA TotalInt ==
  ASSUME NEW n \in Nat, NEW f, \A i \in 1 .. n : f[i] \in Int
  PROVE  Total(f, n) \in Int
<1> DEFINE K == {i \in Nat : i <= n => Total(f, i) \in Int}
<1>1. 0 \in K
  BY TotalStep
<1>2. ASSUME NEW i \in Nat, i \in K PROVE i + 1 \in K
  <2>1. SUFFICES ASSUME i + 1 <= n PROVE Total(f, i + 1) \in Int
    BY <1>2
  <2>2. Total(f, i) \in Int /\ i + 1 \in 1 .. n
    BY <1>2, <2>1
  <2>3. f[i + 1] \in Int /\ Total(f, i + 1) = Total(f, i) + f[i + 1]
    BY <2>2, TotalStep
  <2> QED BY <2>2, <2>3
<1>3. n \in K
  <2> HIDE DEF K
  <2> QED BY <1>1, <1>2, SetInduction
<1> QED BY <1>3

\* Equal terms have equal sums.
LEMMA TotalSame ==
  ASSUME NEW n \in Nat, NEW f, NEW g, \A i \in 1 .. n : f[i] = g[i]
  PROVE  Total(f, n) = Total(g, n)
<1> DEFINE K == {i \in Nat : i <= n => Total(f, i) = Total(g, i)}
<1>1. 0 \in K
  BY TotalStep
<1>2. ASSUME NEW i \in Nat, i \in K PROVE i + 1 \in K
  <2>1. SUFFICES ASSUME i + 1 <= n PROVE Total(f, i + 1) = Total(g, i + 1)
    BY <1>2
  <2>2. f[i + 1] = g[i + 1] /\ Total(f, i) = Total(g, i)
    BY <1>2, <2>1
  <2> QED BY <2>2, TotalStep
<1>3. n \in K
  <2> HIDE DEF K
  <2> QED BY <1>1, <1>2, SetInduction
<1> QED BY <1>3

\* A sum of zeros.
LEMMA TotalZero ==
  ASSUME NEW n \in Nat, NEW f, \A i \in 1 .. n : f[i] = 0
  PROVE  Total(f, n) = 0
<1> DEFINE K == {i \in Nat : i <= n => Total(f, i) = 0}
<1>1. 0 \in K
  BY TotalStep
<1>2. ASSUME NEW i \in Nat, i \in K PROVE i + 1 \in K
  <2>1. SUFFICES ASSUME i + 1 <= n PROVE Total(f, i + 1) = 0
    BY <1>2
  <2>2. f[i + 1] = 0 /\ Total(f, i) = 0
    BY <1>2, <2>1
  <2> QED BY <2>2, TotalStep
<1>3. n \in K
  <2> HIDE DEF K
  <2> QED BY <1>1, <1>2, SetInduction
<1> QED BY <1>3

\* Sums that differ in one summand.
LEMMA TotalOne ==
  ASSUME NEW n \in Nat, NEW j \in 1 .. n, NEW f, NEW g,
         \A i \in 1 .. n : f[i] \in Int /\ g[i] \in Int /\ (i # j => f[i] = g[i])
  PROVE  Total(f, n) = Total(g, n) + (f[j] - g[j])
<1> DEFINE K == {i \in Nat : i <= n => Total(f, i) = IF i < j THEN Total(g, i)
                                                   ELSE Total(g, i) + (f[j] - g[j])}
<1>1. 0 \in K
  BY TotalStep
<1>2. ASSUME NEW i \in Nat, i \in K PROVE i + 1 \in K
  <2>1. SUFFICES ASSUME i + 1 <= n
                 PROVE  Total(f, i + 1) = IF i + 1 < j THEN Total(g, i + 1)
                                          ELSE Total(g, i + 1) + (f[j] - g[j])
    BY <1>2
  <2>2. /\ Total(f, i + 1) = Total(f, i) + f[i + 1] /\ Total(g, i + 1) = Total(g, i) + g[i + 1]
    BY TotalStep
  <2>3. i + 1 \in 1 .. n /\ \A k \in 1 .. i : k \in 1 .. n
    BY <2>1
  <2>4. Total(f, i) \in Int /\ Total(g, i) \in Int
    <3>1. \A k \in 1 .. i : f[k] \in Int /\ g[k] \in Int
      BY <2>3
    <3> QED BY <3>1, TotalInt
  <2>5. Total(f, i) = IF i < j THEN Total(g, i) ELSE Total(g, i) + (f[j] - g[j])
    BY <1>2, <2>1
  <2>6. f[i + 1] \in Int /\ g[i + 1] \in Int /\ f[j] \in Int /\ g[j] \in Int
    BY <2>3
  <2>7. CASE i + 1 < j
    <3>1. f[i + 1] = g[i + 1] /\ i < j
      BY <2>3, <2>7
    <3> QED BY <3>1, <2>2, <2>5, <2>7
  <2>8. CASE i + 1 = j
    <3>1. i < j
      BY <2>8
    <3>2. Total(f, i) = Total(g, i)
      BY <3>1, <2>5
    <3> QED BY <3>2, <2>2, <2>4, <2>6, <2>8
  <2>9. CASE i + 1 > j
    <3>1. f[i + 1] = g[i + 1] /\ ~(i < j)
      BY <2>3, <2>9
    <3>2. Total(f, i) = Total(g, i) + (f[j] - g[j])
      BY <3>1, <2>5
    <3> QED BY <3>1, <3>2, <2>2, <2>4, <2>6, <2>9
  <2> QED BY <2>7, <2>8, <2>9
<1>3. n \in K
  <2> HIDE DEF K
  <2> QED BY <1>1, <1>2, SetInduction
<1> QED BY <1>3

-----------------------------------------------------------------------------
(***************************************************************************)
(* The folds of the model.                                                 *)
(***************************************************************************)
LEMMA ComponentsFold ==
  ASSUME NEW c
  PROVE  Components(c.n, c.edges) =
           Folded(Unvisited, c, [i \in 1 .. 2 * c.n + c.n * c.n |-> i], "visit").components
BY DEF FoldLeft, MapThenFoldSet, Components, StepOf, Folded, IsFold, FoldOf

LEMMA PlaceFold ==
  ASSUME NEW c
  PROVE  Place(c.edges, c.components) =
           Folded(<<>>, c, [i \in 1 .. Cardinality(c.components) |-> i], "place")
BY DEF FoldLeft, MapThenFoldSet, Place, Placed, StepOf, Folded, IsFold, FoldOf

LEMMA OrdersFold ==
  ASSUME NEW c
  PROVE  /\ RowOrder(c.sets) = Folded(<<>>, c, c.sets, "rows")
         /\ ColumnOrder(c.system, c.sets) =
              Folded(<<>>, c, [b \in DOMAIN c.sets |-> b], "columns")
<1>1. RowOrder(c.sets) = Folded(<<>>, c, c.sets, "rows")
  BY DEF FoldLeft, MapThenFoldSet, RowOrder, StepOf, Folded, IsFold, FoldOf
<1>2. ColumnOrder(c.system, c.sets) = Folded(<<>>, c, [b \in DOMAIN c.sets |-> b], "columns")
  BY DEF FoldLeft, MapThenFoldSet, ColumnOrder, StepOf, Folded, IsFold, FoldOf
<1> QED BY <1>1, <1>2

\* The position before a block's first.
Before(sets, b) == Folded(0, sets, [i \in 1 .. b - 1 |-> i], "count")

LEMMA ArrangedIs ==
  ASSUME NEW s, NEW sets
  PROVE  LET rows == RowOrder(sets)
             columns == ColumnOrder(s, sets)
         IN  Arranged(s, sets) =
               [matrix |-> [c \in {d \in Positions \X Positions :
                                     <<rows[d[1]], columns[d[2]]>> \in DOMAIN s.matrix} |->
                              s.matrix[<<rows[c[1]], columns[c[2]]>>]],
                rhs |-> {e \in Positions \X Requests : <<rows[e[1]], e[2]>> \in s.rhs},
                rows |-> rows,
                columns |-> columns,
                blocks |-> [b \in DOMAIN sets |->
                              1 + Before(sets, b) ..
                                1 + Before(sets, b) + Cardinality(sets[b]) - 1]]
BY DEF FoldLeft, MapThenFoldSet, Arranged, Before, StepOf, Folded, IsFold, FoldOf

\* What recording a column does.
ColumnRecorded(s, column, c) ==
  IF ~s.ok \/ Candidates(s, column) = {} THEN [s EXCEPT !.ok = FALSE]
  ELSE LET taken == TakePivot(s, c.column, c.pivot)
       IN  Folded(taken, c, Ascending({r \in Candidates(taken, column) :
                                         taken.logical[r] > column}), "row")

LEMMA RecordColumnFold ==
  ASSUME NEW s, NEW column, NEW c, c.column = column, c.pivot = PivotRow(s, column)
  PROVE  RecordColumn(s, column) = ColumnRecorded(s, column, c)
<1>1. RecordColumn(s, column) =
        IF ~s.ok \/ Candidates(s, column) = {} THEN [s EXCEPT !.ok = FALSE]
        ELSE LET taken == TakePivot(s, c.column, c.pivot)
                 below == {r \in Candidates(taken, column) : taken.logical[r] > column}
             IN  FoldLeft(LAMBDA t, r : EliminateRow(t, c.column, c.pivot, r), taken,
                          Ascending(below))
  BY DEF RecordColumn, FoldLeft, MapThenFoldSet
<1> QED
  BY <1>1 DEF FoldLeft, MapThenFoldSet, StepOf, Folded, IsFold, FoldOf, ColumnRecorded

LEMMA TapeFold ==
  ASSUME NEW s, NEW columns, NEW c
  PROVE  /\ Echelon(s, columns) = Folded(s, c, columns, "pivot")
         /\ BackSubstituted(s, columns) =
              IF s.ok THEN Folded(s, c, Reverse(columns), "back") ELSE s
<1>1. Echelon(s, columns) = Folded(s, c, columns, "pivot")
  BY DEF FoldLeft, MapThenFoldSet, Echelon, StepOf, Folded, IsFold, FoldOf
<1>2. BackSubstituted(s, columns) = IF s.ok THEN Folded(s, c, Reverse(columns), "back") ELSE s
  BY DEF FoldLeft, MapThenFoldSet, BackSubstituted, StepOf, Folded, IsFold, FoldOf
<1> QED BY <1>1, <1>2

LEMMA RecordBlocksFold ==
  ASSUME NEW c
  PROVE  RecordBlocks(c.system, c.layout) =
           Folded([ok |-> TRUE, exact |-> TRUE, layout |-> c.layout, live |-> c.layout.rhs,
                   at |-> <<>>, tapes |-> <<>>],
                  c, Reverse([b \in DOMAIN c.layout.blocks |-> b]), "record")
BY DEF FoldLeft, MapThenFoldSet, RecordBlocks, StepOf, Folded, IsFold, FoldOf

LEMMA PruneTapeFold ==
  ASSUME NEW tape, NEW required, NEW c
  PROVE  PruneTape(tape, required) =
           Folded([tape |-> <<>>, rhs |-> required, slots |-> {}], c, Reverse(tape), "prune")
BY DEF FoldLeft, MapThenFoldSet, PruneTape, PruneGroup, StepOf, Folded, IsFold, FoldOf

LEMMA PruneFactorsFold ==
  ASSUME NEW tape, NEW c
  PROVE  PruneFactors(tape) =
           Folded([tape |-> <<>>, slots |-> {}], c, Reverse(tape), "factor")
BY DEF FoldLeft, MapThenFoldSet, PruneFactors, PruneFactor, StepOf, Folded, IsFold, FoldOf

LEMMA FactorsFold ==
  ASSUME NEW tape, NEW matrix, NEW c
  PROVE  Factors(tape, matrix) =
           Folded([ok |-> TRUE, matrix |-> matrix, factors |-> <<>>], c, tape, "run")
BY DEF FoldLeft, MapThenFoldSet, Factors, StepOf, Folded, IsFold, FoldOf

LEMMA ApplyFold ==
  ASSUME NEW rhs, NEW c
  PROVE  /\ ApplyTape(rhs, c.tape, c.factors) =
              Folded(rhs, c, [i \in DOMAIN c.tape |-> i], "apply")
         /\ ApplyTapeTransposed(rhs, c.tape, c.factors) =
              Folded(rhs, c, Reverse([i \in DOMAIN c.tape |-> i]), "transposed")
<1>1. ApplyTape(rhs, c.tape, c.factors) = Folded(rhs, c, [i \in DOMAIN c.tape |-> i], "apply")
  BY DEF FoldLeft, MapThenFoldSet, ApplyTape, StepOf, Folded, IsFold, FoldOf
<1>2. ApplyTapeTransposed(rhs, c.tape, c.factors) =
        Folded(rhs, c, Reverse([i \in DOMAIN c.tape |-> i]), "transposed")
  BY DEF FoldLeft, MapThenFoldSet, ApplyTapeTransposed, StepOf, Folded, IsFold, FoldOf
<1> QED BY <1>1, <1>2

LEMMA TargetKernelFold ==
  ASSUME NEW c
  PROVE  LET final == Folded([tapes |-> <<>>, alive |-> {}], c, BlockNumbers(c.plan), "target")
         IN  TargetKernel(c.plan, c.outputs) =
               [orientation |-> "target", outputs |-> c.outputs, tapes |-> final.tapes,
                alive |-> final.alive,
                columns |-> [x \in DOMAIN c.plan.layout.matrix |->
                               {t \in Requests : <<x[1], t>> \in final.alive}]]
BY DEF FoldLeft, MapThenFoldSet, TargetKernel, TargetPruned, Required, StepOf, Folded, IsFold,
       FoldOf

LEMMA ForwardFold ==
  ASSUME NEW c, NEW seeds
  PROVE  Forward(c.plan, seeds) =
           Folded([reach |-> seeds, columns |-> <<>>, tape |-> <<>>, tapes |-> <<>>], c,
                  BlockNumbers(c.plan), "forwards")
BY DEF FoldLeft, MapThenFoldSet, Forward, ForwardBlock, ForwardGroup, ForwardCoupled, StepOf,
       Folded, IsFold, FoldOf

LEMMA BackwardFold ==
  ASSUME NEW c, NEW sinks
  PROVE  Backward(c.plan, c.forward, sinks) =
           Folded([alive |-> sinks, columns |-> <<>>, tape |-> <<>>, tapes |-> <<>>], c,
                  Reverse(BlockNumbers(c.plan)), "backwards")
BY DEF FoldLeft, MapThenFoldSet, Backward, BackwardBlock, BackwardGroup, BackwardCoupled, StepOf,
       Folded, IsFold, FoldOf

LEMMA GroupsFold ==
  ASSUME NEW f, NEW tape, NEW c
  PROVE  /\ FoldLeft(ForwardGroup, f, tape) = Folded(f, c, tape, "forward")
         /\ FoldLeft(BackwardGroup, f, tape) = Folded(f, c, tape, "backward")
<1>1. FoldLeft(ForwardGroup, f, tape) = Folded(f, c, tape, "forward")
  BY DEF FoldLeft, MapThenFoldSet, StepOf, Folded, IsFold, FoldOf
<1>2. FoldLeft(BackwardGroup, f, tape) = Folded(f, c, tape, "backward")
  BY DEF FoldLeft, MapThenFoldSet, StepOf, Folded, IsFold, FoldOf
<1> QED BY <1>1, <1>2

LEMMA TargetReplayFold ==
  ASSUME NEW c
  PROVE  LET start == [w \in c.kernel.alive |->
                         IF w \in c.plan.layout.rhs THEN c.point.rhs[w] ELSE 0]
             final == Folded([ok |-> TRUE, words |-> start], c, Reverse(BlockNumbers(c.plan)),
                             "replay")
         IN  TargetReplay(c.plan, c.kernel, c.point) =
               IF final.ok
                 THEN [o \in c.kernel.outputs |-> final.words[<<SolutionRow(c.plan, o[2]), o[1]>>]]
                 ELSE NoAnswer
BY DEF FoldLeft, MapThenFoldSet, TargetReplay, TargetBlock, StepOf, Folded, IsFold, FoldOf

\* The contraction of an output, and the words a coupling writes.
Contracted(c) ==
  FoldSet(LAMBDA w, sum : (sum + c.point.rhs[<<w[1], c.output[1]>>] * c.words[w]) % Prime,
          0, c.kernel.contractions[c.output])

LEMMA MasterReplayFold ==
  ASSUME NEW c
  PROVE  LET start == [w \in c.kernel.alive |-> IF w \in c.kernel.seeds THEN 1 ELSE 0]
             final == Folded([ok |-> TRUE, words |-> start], c, BlockNumbers(c.plan), "dual")
         IN  MasterReplay(c.plan, c.kernel, c.point) =
               IF final.ok
                 THEN [o \in c.kernel.outputs |->
                         FoldSet(LAMBDA w, sum :
                                   (sum + c.point.rhs[<<w[1], o[1]>>] * final.words[w]) % Prime,
                                 0, c.kernel.contractions[o])]
                 ELSE NoAnswer
BY DEF FoldLeft, FoldSet, MapThenFoldSet, MasterReplay, MasterBlock, StepOf, Folded, IsFold, FoldOf

-----------------------------------------------------------------------------
(* Folds over a sequence: from either end, and of two sequences at once. *)

(***************************************************************************)
(* Folds from either end.                                                  *)
(***************************************************************************)
LEMMA FoldNone ==
  ASSUME NEW base, NEW c, NEW seq, DOMAIN seq = {}, NEW how
  PROVE  Folded(base, c, seq, how) = base
<1>1. DOMAIN seq = 1 .. 0 /\ 0 \in Nat
  OBVIOUS
<1>2. PICK f : Chain(f, base, c, seq, how) /\ f[0] = Folded(base, c, seq, how)
  BY <1>1, FoldChain
<1> QED BY <1>2 DEF Chain

\* The steps of a chain, one after the other.
Steps(f, n, c, s, how) == \A i \in 1 .. n : f[i] = StepOf(f[i - 1], c, s[i], how)

\* The steps of two folds do the same.
Alike(n, c, s, d, t, how) ==
  \A i \in 1 .. n : \A v : StepOf(v, c, s[i], how) = StepOf(v, d, t[i], how)

\* Chains of like steps from the same start end alike.
LEMMA ChainsMeet ==
  ASSUME NEW n \in Nat, NEW f, NEW g, f[0] = g[0], NEW c, NEW d, NEW s, NEW t, NEW how,
         Steps(f, n, c, s, how), Steps(g, n, d, t, how), Alike(n, c, s, d, t, how)
  PROVE  f[n] = g[n]
<1> DEFINE K == {i \in Nat : i <= n => f[i] = g[i]}
<1>1. 0 \in K
  OBVIOUS
<1>2. ASSUME NEW i \in Nat, i \in K PROVE i + 1 \in K
  <2>1. SUFFICES ASSUME i + 1 <= n PROVE f[i + 1] = g[i + 1]
    BY <1>2
  <2>2. f[i] = g[i] /\ i + 1 \in 1 .. n /\ (i + 1) - 1 = i
    BY <1>2, <2>1
  <2>3. f[i + 1] = StepOf(f[i], c, s[i + 1], how) /\ g[i + 1] = StepOf(g[i], d, t[i + 1], how)
    BY <2>2 DEF Steps
  <2> QED BY <2>2, <2>3 DEF Alike
<1>3. n \in K
  <2> HIDE DEF K
  <2> QED BY <1>1, <1>2, SetInduction
<1> QED BY <1>3

\* Folds of like steps are equal.
LEMMA FoldAlike ==
  ASSUME NEW n \in Nat, NEW base, NEW c, NEW d, NEW s, NEW t, NEW how,
         DOMAIN s = 1 .. n, DOMAIN t = 1 .. n, Alike(n, c, s, d, t, how)
  PROVE  Folded(base, c, s, how) = Folded(base, d, t, how)
<1>1. PICK f : Chain(f, base, c, s, how) /\ f[n] = Folded(base, c, s, how)
  BY FoldChain
<1>2. PICK g : Chain(g, base, d, t, how) /\ g[n] = Folded(base, d, t, how)
  BY FoldChain
<1>3. f[0] = g[0] /\ Steps(f, n, c, s, how) /\ Steps(g, n, d, t, how)
  BY <1>1, <1>2 DEF Chain, Steps
<1>4. f[n] = g[n]
  BY <1>3, ChainsMeet
<1> QED BY <1>1, <1>2, <1>4

\* A fold is its last step after the fold of the rest.
LEMMA FoldLast ==
  ASSUME NEW n \in Nat, NEW base, NEW c, NEW s, NEW t, NEW how,
         DOMAIN s = 1 .. n + 1, DOMAIN t = 1 .. n, \A i \in 1 .. n : t[i] = s[i]
  PROVE  Folded(base, c, s, how) = StepOf(Folded(base, c, t, how), c, s[n + 1], how)
<1>0. n + 1 \in Nat
  OBVIOUS
<1>1. PICK f : Chain(f, base, c, s, how) /\ f[n + 1] = Folded(base, c, s, how)
  BY <1>0, FoldChain
<1>2. PICK g : Chain(g, base, c, t, how) /\ g[n] = Folded(base, c, t, how)
  BY FoldChain
<1>3. f[n] = g[n]
  <2>1. \A i \in 1 .. n : i \in 1 .. n + 1
    OBVIOUS
  <2>2. f[0] = g[0] /\ Steps(f, n, c, t, how) /\ Steps(g, n, c, t, how)
    BY <1>1, <1>2, <2>1 DEF Chain, Steps
  <2>3. Alike(n, c, t, c, t, how)
    BY DEF Alike
  <2> QED BY <2>2, <2>3, ChainsMeet
<1>4. f[n + 1] = StepOf(f[n], c, s[n + 1], how)
  <2>1. n + 1 \in 1 .. n + 1 /\ (n + 1) - 1 = n
    OBVIOUS
  <2> QED BY <1>1, <2>1 DEF Chain
<1> QED BY <1>1, <1>2, <1>3, <1>4

\* A fold is the fold of the rest from its first step.
LEMMA FoldHead ==
  ASSUME NEW n \in Nat, NEW base, NEW c, NEW s, NEW t, NEW how,
         DOMAIN s = 1 .. n + 1, DOMAIN t = 1 .. n, \A i \in 1 .. n : t[i] = s[i + 1]
  PROVE  Folded(base, c, s, how) = Folded(StepOf(base, c, s[1], how), c, t, how)
<1>0. n + 1 \in Nat
  OBVIOUS
<1>1. PICK f : Chain(f, base, c, s, how) /\ f[n + 1] = Folded(base, c, s, how)
  BY <1>0, FoldChain
<1> DEFINE b == StepOf(base, c, s[1], how)
<1>2. PICK g : Chain(g, b, c, t, how) /\ g[n] = Folded(b, c, t, how)
  <2>1. \A v : \E g : Chain(g, v, c, t, how) /\ g[n] = Folded(v, c, t, how)
    BY FoldChain
  <2> QED BY <2>1
<1> DEFINE h == [i \in 0 .. n |-> f[i + 1]]
<1>3. h[0] = g[0]
  <2>1. h[0] = f[1] /\ 1 \in 1 .. n + 1 /\ 1 - 1 = 0
    OBVIOUS
  <2> QED BY <1>1, <1>2, <2>1 DEF Chain
<1>4. \A i \in 1 .. n : h[i] = StepOf(h[i - 1], c, t[i], how)
  <2> SUFFICES ASSUME NEW i \in 1 .. n PROVE h[i] = StepOf(h[i - 1], c, t[i], how)
    OBVIOUS
  <2>1. i + 1 \in 1 .. n + 1 /\ (i + 1) - 1 = i /\ i \in 0 .. n /\ i - 1 \in 0 .. n /\ (i - 1) + 1 = i
    OBVIOUS
  <2>2. h[i] = f[i + 1] /\ h[i - 1] = f[i]
    BY <2>1
  <2>3. f[i + 1] = StepOf(f[i], c, s[i + 1], how)
    BY <1>1, <2>1 DEF Chain
  <2> HIDE DEF h
  <2> QED BY <2>2, <2>3
<1>5. h[n] = g[n]
  <2> HIDE DEF h, b
  <2>1. Steps(h, n, c, t, how) /\ Steps(g, n, c, t, how)
    BY <1>2, <1>4 DEF Chain, Steps
  <2>2. Alike(n, c, t, c, t, how)
    BY DEF Alike
  <2> QED BY <2>1, <2>2, <1>3, ChainsMeet
<1>6. h[n] = f[n + 1]
  OBVIOUS
<1> QED BY <1>1, <1>2, <1>5, <1>6

\* A sequence without its first element.
LEMMA TailIs ==
  ASSUME NEW S, NEW s \in Seq(S), NEW n \in Nat, Len(s) = n + 1
  PROVE  /\ DOMAIN s = 1 .. n + 1 /\ s[1] \in S
         /\ Tail(s) \in Seq(S) /\ Len(Tail(s)) = n /\ DOMAIN Tail(s) = 1 .. n
         /\ \A i \in 1 .. n : Tail(s)[i] = s[i + 1]
<1>1. s # <<>>
  OBVIOUS
<1>2. Tail(s) \in Seq(S) /\ Len(Tail(s)) = n
  BY <1>1
<1> QED BY <1>1, <1>2

\* A sequence with one element put in front.
LEMMA PrefixedIs ==
  ASSUME NEW S, NEW s \in Seq(S), NEW x \in S
  PROVE  LET t == <<x>> \o s
         IN  /\ t \in Seq(S) /\ Len(t) = Len(s) + 1 /\ t[1] = x /\ Tail(t) = s
             /\ \A i \in 1 .. Len(s) : t[i + 1] = s[i]
<1> DEFINE t == <<x>> \o s
<1>1. /\ t \in Seq(S) /\ Len(t) = Len(s) + 1 /\ t[1] = x
      /\ \A i \in 1 .. Len(s) : t[i + 1] = s[i]
  OBVIOUS
<1> HIDE DEF t
<1>2. Len(s) \in Nat
  OBVIOUS
<1>3. Tail(t) \in Seq(S) /\ Len(Tail(t)) = Len(s) /\ \A i \in 1 .. Len(s) : Tail(t)[i] = s[i]
  BY <1>1, <1>2, TailIs
<1>4. Tail(t) = s
  BY <1>3
<1> QED BY <1>1, <1>4 DEF t

\* The reverse of a sequence and of its tail.
LEMMA ReverseIs ==
  ASSUME NEW S, NEW s \in Seq(S), NEW n \in Nat, Len(s) = n + 1
  PROVE  /\ DOMAIN Reverse(s) = 1 .. n + 1 /\ DOMAIN Reverse(Tail(s)) = 1 .. n
         /\ \A i \in 1 .. n : Reverse(Tail(s))[i] = Reverse(s)[i]
         /\ Reverse(s)[n + 1] = s[1]
<1>1. /\ Len(Tail(s)) = n /\ \A i \in 1 .. n : Tail(s)[i] = s[i + 1]
  BY TailIs
<1>2. DOMAIN Reverse(s) = 1 .. n + 1 /\ DOMAIN Reverse(Tail(s)) = 1 .. n
  BY <1>1 DEF Reverse
<1>3. ASSUME NEW i \in 1 .. n PROVE Reverse(Tail(s))[i] = Reverse(s)[i]
  <2>1. Reverse(Tail(s))[i] = Tail(s)[n - i + 1] /\ Reverse(s)[i] = s[(n + 1) - i + 1]
    BY <1>1 DEF Reverse
  <2>2. n - i + 1 \in 1 .. n /\ (n + 1) - i + 1 = (n - i + 1) + 1
    OBVIOUS
  <2> QED BY <1>1, <2>1, <2>2
<1>4. Reverse(s)[n + 1] = s[1]
  BY DEF Reverse
<1> QED BY <1>2, <1>3, <1>4

\* The reverse of nothing.
LEMMA ReverseNone == Reverse(<<>>) = <<>>
BY DEF Reverse

\* What is at a place of a reversed sequence.
LEMMA ReverseAt ==
  ASSUME NEW s, NEW n \in Nat, Len(s) = n
  PROVE  /\ DOMAIN Reverse(s) = 1 .. n
         /\ \A i \in 1 .. n : n - i + 1 \in 1 .. n /\ Reverse(s)[i] = s[n - i + 1]
BY DEF Reverse

\* A fold over a sequence, and over a sequence reversed, by its first element.
LEMMA FoldFirst ==
  ASSUME NEW S, NEW s \in Seq(S), NEW base, NEW c, NEW how
  PROVE  /\ s = <<>> => /\ Folded(base, c, s, how) = base
                        /\ Folded(base, c, Reverse(s), how) = base
         /\ s # <<>> =>
              /\ Folded(base, c, s, how) = Folded(StepOf(base, c, s[1], how), c, Tail(s), how)
              /\ Folded(base, c, Reverse(s), how) =
                   StepOf(Folded(base, c, Reverse(Tail(s)), how), c, s[1], how)
<1>1. CASE s = <<>>
  BY <1>1, FoldNone, ReverseNone
<1>2. CASE s # <<>>
  <2>1. PICK n \in Nat : Len(s) = n + 1
    <3>1. Len(s) \in Nat /\ Len(s) # 0
      BY <1>2
    <3>2. Len(s) - 1 \in Nat /\ Len(s) = (Len(s) - 1) + 1
      BY <3>1
    <3> QED BY <3>2
  <2>2. Folded(base, c, s, how) = Folded(StepOf(base, c, s[1], how), c, Tail(s), how)
    <3>1. /\ DOMAIN s = 1 .. n + 1 /\ DOMAIN Tail(s) = 1 .. n
          /\ \A i \in 1 .. n : Tail(s)[i] = s[i + 1]
      BY <2>1, TailIs
    <3>2. PICK t : t = Tail(s)
      OBVIOUS
    <3>3. DOMAIN t = 1 .. n /\ \A i \in 1 .. n : t[i] = s[i + 1]
      BY <3>1, <3>2
    <3>4. Folded(base, c, s, how) = Folded(StepOf(base, c, s[1], how), c, t, how)
      BY <3>1, <3>3, FoldHead
    <3> QED BY <3>2, <3>4
  <2>3. Folded(base, c, Reverse(s), how) =
          StepOf(Folded(base, c, Reverse(Tail(s)), how), c, Reverse(s)[n + 1], how)
    <3>1. /\ DOMAIN Reverse(s) = 1 .. n + 1 /\ DOMAIN Reverse(Tail(s)) = 1 .. n
          /\ \A i \in 1 .. n : Reverse(Tail(s))[i] = Reverse(s)[i]
      BY <2>1, ReverseIs
    <3> QED BY <3>1, FoldLast
  <2> QED BY <1>2, <2>1, <2>2, <2>3, ReverseIs
<1> QED BY <1>1, <1>2

\* Induction over sequences: what holds for the empty one, and for a sequence
\* whose tail has it, is shown by the sets of lengths it holds for.
LEMMA LengthInduction ==
  ASSUME NEW S, NEW T, T \subseteq Seq(S), <<>> \in T,
         \A s \in Seq(S) : s # <<>> /\ Tail(s) \in T => s \in T
  PROVE  T = Seq(S)
<1> DEFINE K == {n \in Nat : \A s \in Seq(S) : Len(s) = n => s \in T}
<1>1. 0 \in K
  <2>1. \A s \in Seq(S) : Len(s) = 0 => s = <<>>
    OBVIOUS
  <2> QED BY <2>1
<1>2. ASSUME NEW n \in Nat, n \in K PROVE n + 1 \in K
  <2> SUFFICES ASSUME NEW s \in Seq(S), Len(s) = n + 1 PROVE s \in T
    OBVIOUS
  <2>1. Tail(s) \in Seq(S) /\ Len(Tail(s)) = n /\ s # <<>>
    BY TailIs
  <2> QED BY <1>2, <2>1
<1>3. \A n \in Nat : n \in K
  <2> HIDE DEF K
  <2> QED BY <1>1, <1>2, SetInduction
<1>4. \A s \in Seq(S) : Len(s) \in Nat
  OBVIOUS
<1> QED BY <1>3, <1>4

-----------------------------------------------------------------------------
(* What running a tape does to the words it is run on. *)

(***************************************************************************)
(* Running a tape.                                                         *)
(***************************************************************************)
\* The groups on slots W, rows R and columns C of the right-hand side.
Groups(W, R, C) ==
  {g \in [kind : {"scale", "eliminate"}, dst : R, src : R, slot : W, matrix : SUBSET (W \X W),
          rhs : SUBSET C] :
     /\ g.kind = "scale" => g.dst = g.src
     /\ \A o, q \in g.matrix : o[1] = q[1] => o = q}

\* The state of a run of a tape over the slots of a matrix.
RunStates(W) == [ok : BOOLEAN, matrix : [W -> Field], factors : Seq(Field)]

\* A pivot that is zero at the point.
Stuck(m, g) == g.kind = "scale" /\ m[g.slot] = 0
FactorOf(m, g) == IF g.kind = "scale" THEN Reciprocal(m[g.slot]) ELSE m[g.slot]

\* The matrix after a group.
After(m, g) ==
  LET source(w) == (CHOOSE o \in g.matrix : o[1] = w)[2]
      value(w) == IF g.kind = "scale" THEN (m[w] * FactorOf(m, g)) % Prime
                  ELSE SubtractMultiply(m[w], FactorOf(m, g), m[source(w)])
  IN  [w \in DOMAIN m |-> IF w \in {o[1] : o \in g.matrix} THEN value(w) ELSE m[w]]

\* What running a group does.
LEMMA RunGroupIs ==
  ASSUME NEW W, NEW s \in RunStates(W), NEW g
  PROVE  RunGroup(s, g) =
           IF ~s.ok \/ Stuck(s.matrix, g) THEN [s EXCEPT !.ok = FALSE]
           ELSE [s EXCEPT !.matrix = After(s.matrix, g),
                          !.factors = Append(s.factors, FactorOf(s.matrix, g))]
BY DEF RunGroup, Stuck, After, FactorOf, Updated

\* The arithmetic stays in the field.
LEMMA SubtractMultiplyIs ==
  ASSUME NEW a \in Field, NEW f \in Field, NEW b \in Field
  PROVE  SubtractMultiply(a, f, b) \in Field /\ (a * f) % Prime \in Field
<1>1. a - f * b \in Int /\ a * f \in Int
  BY OfField
<1> QED BY <1>1, RemainderIs DEF SubtractMultiply

\* The factor of a group is in the field.
LEMMA FactorTyped ==
  ASSUME NEW W, NEW R, NEW C, NEW g \in Groups(W, R, C), NEW m \in [W -> Field], ~Stuck(m, g)
  PROVE  FactorOf(m, g) \in Field
<1>1. m[g.slot] \in Field
  BY DEF Groups
<1> QED BY <1>1, ReciprocalIs DEF FactorOf, Stuck

\* What a group writes at one of its pairs, and that it leaves the rest.
LEMMA AfterIs ==
  ASSUME NEW W, NEW R, NEW C, NEW g \in Groups(W, R, C), NEW m \in [W -> Field], ~Stuck(m, g)
  PROVE  /\ After(m, g) \in [W -> Field]
         /\ \A o \in g.matrix :
              After(m, g)[o[1]] = IF g.kind = "scale" THEN (m[o[1]] * FactorOf(m, g)) % Prime
                                  ELSE SubtractMultiply(m[o[1]], FactorOf(m, g), m[o[2]])
         /\ \A w \in W : (\A o \in g.matrix : o[1] # w) => After(m, g)[w] = m[w]
<1> DEFINE source(w) == (CHOOSE o \in g.matrix : o[1] = w)[2]
           value(w) == IF g.kind = "scale" THEN (m[w] * FactorOf(m, g)) % Prime
                       ELSE SubtractMultiply(m[w], FactorOf(m, g), m[source(w)])
<1>1. g.matrix \subseteq W \X W /\ \A o, q \in g.matrix : o[1] = q[1] => o = q
  BY DEF Groups
<1>2. \A o \in g.matrix : o[1] \in W /\ o[2] \in W /\ source(o[1]) = o[2]
  <2> SUFFICES ASSUME NEW o \in g.matrix PROVE o[1] \in W /\ o[2] \in W /\ source(o[1]) = o[2]
    OBVIOUS
  <2>1. (CHOOSE q \in g.matrix : q[1] = o[1]) = o
    BY <1>1
  <2> QED BY <1>1, <2>1
<1>3. FactorOf(m, g) \in Field
  <2>1. m[g.slot] \in Field
    BY DEF Groups
  <2> QED BY <2>1, ReciprocalIs DEF FactorOf, Stuck
<1>4. After(m, g) = [w \in W |-> IF w \in {o[1] : o \in g.matrix} THEN value(w) ELSE m[w]]
  BY DEF After
<1>5. \A o \in g.matrix :
        value(o[1]) = IF g.kind = "scale" THEN (m[o[1]] * FactorOf(m, g)) % Prime
                      ELSE SubtractMultiply(m[o[1]], FactorOf(m, g), m[o[2]])
  BY <1>2
<1>6. \A o \in g.matrix : value(o[1]) \in Field
  <2> SUFFICES ASSUME NEW o \in g.matrix PROVE value(o[1]) \in Field
    OBVIOUS
  <2>1. m[o[1]] \in Field /\ m[o[2]] \in Field
    BY <1>2
  <2>2. PICK f \in Field : f = FactorOf(m, g)
    BY <1>3
  <2>3. SubtractMultiply(m[o[1]], f, m[o[2]]) \in Field /\ (m[o[1]] * f) % Prime \in Field
    BY <2>1, SubtractMultiplyIs
  <2> HIDE DEF value
  <2> QED BY <1>5, <2>2, <2>3
<1> HIDE DEF value
<1>7. \A w \in {o[1] : o \in g.matrix} : value(w) \in Field
  BY <1>6
<1>8. After(m, g) \in [W -> Field]
  BY <1>4, <1>7
<1>9. \A o \in g.matrix : After(m, g)[o[1]] = value(o[1])
  BY <1>2, <1>4
<1>10. \A w \in W : (\A o \in g.matrix : o[1] # w) => After(m, g)[w] = m[w]
  BY <1>4
<1> QED BY <1>5, <1>8, <1>9, <1>10

\* A run keeps its type; it goes on unless the pivot is zero.
LEMMA RunTyped ==
  ASSUME NEW W, NEW R, NEW C, NEW g \in Groups(W, R, C), NEW s \in RunStates(W)
  PROVE  /\ RunGroup(s, g) \in RunStates(W)
         /\ RunGroup(s, g).ok <=> s.ok /\ ~Stuck(s.matrix, g)
         /\ RunGroup(s, g).ok =>
              /\ RunGroup(s, g).matrix = After(s.matrix, g)
              /\ RunGroup(s, g).factors = Append(s.factors, FactorOf(s.matrix, g))
<1>1. CASE ~s.ok \/ Stuck(s.matrix, g)
  <2>1. RunGroup(s, g) = [s EXCEPT !.ok = FALSE]
    BY <1>1, RunGroupIs
  <2> QED BY <1>1, <2>1 DEF RunStates
<1>2. CASE s.ok /\ ~Stuck(s.matrix, g)
  <2>1. RunGroup(s, g) = [s EXCEPT !.matrix = After(s.matrix, g),
                                   !.factors = Append(s.factors, FactorOf(s.matrix, g))]
    BY <1>2, RunGroupIs
  <2>2. s.matrix \in [W -> Field] /\ s.factors \in Seq(Field)
    BY DEF RunStates
  <2>3. After(s.matrix, g) \in [W -> Field]
    BY <1>2, <2>2, AfterIs
  <2>4. Append(s.factors, FactorOf(s.matrix, g)) \in Seq(Field)
    BY <1>2, <2>2, FactorTyped
  <2> QED BY <1>2, <2>1, <2>3, <2>4 DEF RunStates
<1> QED BY <1>1, <1>2

\* A run of a whole tape.
RunAll(s, tape) == Folded(s, 0, tape, "run")

\* A run, by the first group of the tape.
LEMMA RunAllFirst ==
  ASSUME NEW S, NEW t \in Seq(S), NEW s
  PROVE  /\ t = <<>> => RunAll(s, t) = s
         /\ t # <<>> => RunAll(s, t) = RunAll(RunGroup(s, t[1]), Tail(t))
<1>1. t = <<>> => RunAll(s, t) = s
  <2>1. DOMAIN <<>> = {}
    OBVIOUS
  <2> QED BY <2>1, FoldNone DEF RunAll
<1>2. ASSUME t # <<>> PROVE RunAll(s, t) = RunAll(RunGroup(s, t[1]), Tail(t))
  <2>1. Folded(s, 0, t, "run") = Folded(StepOf(s, 0, t[1], "run"), 0, Tail(t), "run")
    BY <1>2, FoldFirst
  <2> QED BY <2>1, StepRun DEF RunAll
<1> QED BY <1>1, <1>2

\* A run of no group.
LEMMA RunNone ==
  ASSUME NEW s
  PROVE  RunAll(s, <<>>) = s
<1>1. DOMAIN <<>> = {}
  OBVIOUS
<1> QED BY <1>1, FoldNone DEF RunAll

\* First element and tail of a sequence.
LEMMA FirstOf ==
  ASSUME NEW S, NEW t \in Seq(S), t # <<>>
  PROVE  /\ t[1] \in S /\ Tail(t) \in Seq(S) /\ Len(t) = Len(Tail(t)) + 1
         /\ Len(Tail(t)) \in Nat /\ DOMAIN t = 1 .. Len(Tail(t)) + 1
         /\ DOMAIN Tail(t) = 1 .. Len(Tail(t))
         /\ \A i \in 1 .. Len(Tail(t)) : Tail(t)[i] = t[i + 1]
<1>1. PICK n \in Nat : Len(t) = n + 1
  <2>1. Len(t) \in Nat /\ Len(t) # 0
    OBVIOUS
  <2>2. Len(t) - 1 \in Nat /\ Len(t) = (Len(t) - 1) + 1
    BY <2>1
  <2> QED BY <2>2
<1> QED BY <1>1, TailIs

\* A run that stopped stays so.
LEMMA NotOkStays ==
  ASSUME NEW W, NEW R, NEW C, NEW t \in Seq(Groups(W, R, C)), NEW s \in RunStates(W), ~s.ok
  PROVE  ~RunAll(s, t).ok
<1> DEFINE S == Groups(W, R, C)
           T == {u \in Seq(S) : \A v \in RunStates(W) : ~v.ok => ~RunAll(v, u).ok}
<1> HIDE DEF S
<1>1. <<>> \in T
  <2>1. <<>> \in Seq(S)
    OBVIOUS
  <2> QED BY <2>1, RunNone
<1>2. ASSUME NEW u \in Seq(S), u # <<>>, Tail(u) \in T PROVE u \in T
  <2> SUFFICES ASSUME NEW v \in RunStates(W), ~v.ok PROVE ~RunAll(v, u).ok
    OBVIOUS
  <2>1. u[1] \in S
    BY <1>2, FirstOf
  <2>2. RunGroup(v, u[1]) \in RunStates(W) /\ ~RunGroup(v, u[1]).ok
    BY <2>1, RunTyped DEF S
  <2>3. RunAll(v, u) = RunAll(RunGroup(v, u[1]), Tail(u))
    BY <1>2, RunAllFirst
  <2> QED BY <1>2, <2>2, <2>3
<1>3. T = Seq(S)
  <2> HIDE DEF T
  <2>1. T \subseteq Seq(S)
    BY DEF T
  <2> QED BY <1>1, <1>2, <2>1, LengthInduction
<1> QED BY <1>3 DEF S

\* Factors are found by a run.
LEMMA FactorsRun ==
  ASSUME NEW t, NEW m
  PROVE  Factors(t, m) = RunAll([ok |-> TRUE, matrix |-> m, factors |-> <<>>], t)
BY FactorsFold DEF RunAll

\* The factors do not depend on those computed before.
Shifted(v, u) ==
  LET a == RunAll(v, u)
      b == Factors(u, v.matrix)
  IN  /\ a.ok <=> b.ok
      /\ b.ok => /\ b.factors \in Seq(Field) /\ Len(b.factors) = Len(u)
                 /\ a.factors = v.factors \o b.factors

\* Factors do not depend on those found before.
LEMMA FactorsShift ==
  ASSUME NEW W, NEW R, NEW C, NEW t \in Seq(Groups(W, R, C)), NEW s \in RunStates(W), s.ok
  PROVE  Shifted(s, t)
<1> USE DEF Shifted
<1> DEFINE S == Groups(W, R, C)
           T == {u \in Seq(S) : \A v \in RunStates(W) : v.ok => Shifted(v, u)}
<1> HIDE DEF S
<1>1. <<>> \in T
  <2> SUFFICES ASSUME NEW v \in RunStates(W), v.ok PROVE Shifted(v, <<>>)
    <3>1. <<>> \in Seq(S)
      OBVIOUS
    <3> HIDE DEF Shifted
    <3> QED BY <3>1
  <2>2. RunAll(v, <<>>) = v
    BY RunNone
  <2>3. Factors(<<>>, v.matrix) = [ok |-> TRUE, matrix |-> v.matrix, factors |-> <<>>]
    BY RunNone, FactorsRun
  <2>4. v.factors \in Seq(Field)
    BY DEF RunStates
  <2>5. v.factors \o <<>> = v.factors /\ <<>> \in Seq(Field) /\ Len(<<>>) = 0
    BY <2>4
  <2>6. Factors(<<>>, v.matrix).ok /\ Factors(<<>>, v.matrix).factors = <<>>
    BY <2>3
  <2> QED BY <2>2, <2>5, <2>6
<1>2. ASSUME NEW u \in Seq(S), u # <<>>, Tail(u) \in T PROVE u \in T
  <2> SUFFICES ASSUME NEW v \in RunStates(W), v.ok PROVE Shifted(v, u)
    OBVIOUS
  <2> DEFINE z == [ok |-> TRUE, matrix |-> v.matrix, factors |-> <<>>]
             g == u[1]
  <2>0. z \in RunStates(W) /\ v.matrix \in [W -> Field] /\ v.factors \in Seq(Field)
    BY DEF RunStates
  <2>1. u[1] \in S /\ Tail(u) \in Seq(S) /\ Len(u) = Len(Tail(u)) + 1 /\ Len(Tail(u)) \in Nat
    BY <1>2, FirstOf
  <2>2. RunAll(v, u) = RunAll(RunGroup(v, g), Tail(u))
    BY <1>2, RunAllFirst
  <2>3. Factors(u, v.matrix) = RunAll(RunGroup(z, g), Tail(u))
    BY <1>2, RunAllFirst, FactorsRun
  <2>4. /\ RunGroup(v, g) \in RunStates(W) /\ RunGroup(z, g) \in RunStates(W)
        /\ RunGroup(v, g).ok <=> ~Stuck(v.matrix, g)
        /\ RunGroup(z, g).ok <=> ~Stuck(v.matrix, g)
        /\ ~Stuck(v.matrix, g) =>
             /\ RunGroup(v, g).matrix = After(v.matrix, g)
             /\ RunGroup(z, g).matrix = After(v.matrix, g)
             /\ RunGroup(v, g).factors = Append(v.factors, FactorOf(v.matrix, g))
             /\ RunGroup(z, g).factors = Append(<<>>, FactorOf(v.matrix, g))
    <3>1. z.ok /\ z.matrix = v.matrix /\ z.factors = <<>>
      OBVIOUS
    <3>2. g \in Groups(W, R, C)
      BY <2>1 DEF S
    <3> HIDE DEF z, g
    <3> QED BY <2>0, <3>1, <3>2, RunTyped
  <2>5. CASE Stuck(v.matrix, g)
    <3>1. ~RunAll(v, u).ok /\ ~Factors(u, v.matrix).ok
      BY <2>1, <2>2, <2>3, <2>4, <2>5, NotOkStays DEF S
    <3> QED BY <3>1
  <2>6. CASE ~Stuck(v.matrix, g)
    <3> DEFINE b == Factors(Tail(u), After(v.matrix, g))
               f == FactorOf(v.matrix, g)
    <3>1. f \in Field
      BY <2>0, <2>1, <2>6, FactorTyped DEF S
    <3>2. Shifted(RunGroup(v, g), Tail(u)) /\ Shifted(RunGroup(z, g), Tail(u))
      <4> HIDE DEF Shifted
      <4> QED BY <1>2, <2>4, <2>6
    <3>3. /\ RunAll(v, u).ok <=> b.ok
          /\ Factors(u, v.matrix).ok <=> b.ok
          /\ b.ok => /\ b.factors \in Seq(Field) /\ Len(b.factors) = Len(Tail(u))
                     /\ RunAll(v, u).factors = Append(v.factors, f) \o b.factors
                     /\ Factors(u, v.matrix).factors = Append(<<>>, f) \o b.factors
      BY <3>2, <2>2, <2>3, <2>4, <2>6
    <3> HIDE DEF b, f
    <3>4. ASSUME b.ok
          PROVE  /\ Append(<<>>, f) \o b.factors \in Seq(Field)
                 /\ Len(Append(<<>>, f) \o b.factors) = Len(u)
                 /\ Append(v.factors, f) \o b.factors =
                      v.factors \o (Append(<<>>, f) \o b.factors)
      <4>1. PICK q \in Seq(Field) : q = b.factors /\ Len(q) = Len(Tail(u))
        BY <3>3, <3>4
      <4>2. /\ Append(<<>>, f) \o q \in Seq(Field)
            /\ Len(Append(<<>>, f) \o q) = 1 + Len(q)
        BY <3>1
      <4>3. Append(v.factors, f) \o q = v.factors \o (Append(<<>>, f) \o q)
        <5>1. PICK y \in Seq(Field) : y = v.factors
          BY <2>0
        <5>2. Append(y, f) \o q = y \o (Append(<<>>, f) \o q)
          <6>1. Append(y, f) = y \o <<f>> /\ Append(<<>>, f) = <<f>> /\ <<f>> \in Seq(Field)
            BY <3>1
          <6>2. (y \o <<f>>) \o q = y \o (<<f>> \o q)
            BY <6>1, ConcatAssociative
          <6> QED BY <6>1, <6>2
        <5> QED BY <5>1, <5>2
      <4>4. 1 + Len(q) = Len(u)
        <5>1. Len(q) = Len(Tail(u)) /\ Len(u) = Len(Tail(u)) + 1 /\ Len(Tail(u)) \in Nat
          BY <2>1, <4>1
        <5> QED BY <5>1
      <4> QED BY <4>1, <4>2, <4>3, <4>4
    <3> QED BY <3>3, <3>4
  <2> QED BY <2>5, <2>6
<1>3. T = Seq(S)
  <2> HIDE DEF T
  <2>1. T \subseteq Seq(S)
    BY DEF T
  <2> QED BY <1>1, <1>2, <2>1, LengthInduction
<1>4. Shifted(s, t)
  <2> HIDE DEF Shifted
  <2> QED BY <1>3 DEF S
<1> QED BY <1>4

\* The factors of a tape by its first group.
FactorsFollow(t, m) ==
  LET a == Factors(t, m)
      b == Factors(Tail(t), After(m, t[1]))
  IN  /\ a.ok <=> ~Stuck(m, t[1]) /\ b.ok
      /\ a.ok => a.factors[1] = FactorOf(m, t[1]) /\ Tail(a.factors) = b.factors

FactorsFit(t, m) ==
  Factors(t, m).ok => /\ Factors(t, m).factors \in Seq(Field)
                      /\ Len(Factors(t, m).factors) = Len(t)

\* The factors of a tape, by its first group.
LEMMA FactorsFirst ==
  ASSUME NEW W, NEW R, NEW C, NEW t \in Seq(Groups(W, R, C)), NEW m \in [W -> Field]
  PROVE  /\ t = <<>> => Factors(t, m).ok /\ Factors(t, m).factors = <<>>
         /\ FactorsFit(t, m)
         /\ t # <<>> => FactorsFollow(t, m)
<1> USE DEF FactorsFit, FactorsFollow
<1> DEFINE z == [ok |-> TRUE, matrix |-> m, factors |-> <<>>]
<1>0. z \in RunStates(W)
  BY DEF RunStates
<1>1. t = <<>> => Factors(t, m).ok /\ Factors(t, m).factors = <<>>
  <2>1. Factors(<<>>, m) = z
    BY RunNone, FactorsRun
  <2> QED BY <2>1
<1>2. Factors(t, m).ok => /\ Factors(t, m).factors \in Seq(Field)
                          /\ Len(Factors(t, m).factors) = Len(t)
  <2>1. z.ok /\ z.matrix = m
    OBVIOUS
  <2> HIDE DEF z
  <2>2. LET b == Factors(t, z.matrix) IN b.ok => b.factors \in Seq(Field) /\ Len(b.factors) = Len(t)
    <3>1. PICK y \in RunStates(W) : y = z /\ y.ok
      BY <1>0, <2>1
    <3>2. Shifted(y, t)
      BY <3>1, FactorsShift
    <3> QED BY <3>1, <3>2 DEF Shifted
  <2> QED BY <2>1, <2>2
<1>3. ASSUME t # <<>>
      PROVE  /\ Factors(t, m).ok <=> /\ ~Stuck(m, t[1])
                                     /\ Factors(Tail(t), After(m, t[1])).ok
             /\ Factors(t, m).ok =>
                   /\ Factors(t, m).factors[1] = FactorOf(m, t[1])
                   /\ Tail(Factors(t, m).factors) = Factors(Tail(t), After(m, t[1])).factors
  <2> DEFINE g == t[1]
  <2>1. g \in Groups(W, R, C) /\ Tail(t) \in Seq(Groups(W, R, C))
    BY <1>3, FirstOf
  <2>2. Factors(t, m) = RunAll(RunGroup(z, g), Tail(t))
    BY <1>3, RunAllFirst, FactorsRun
  <2>3. /\ RunGroup(z, g) \in RunStates(W)
        /\ RunGroup(z, g).ok <=> ~Stuck(m, g)
        /\ ~Stuck(m, g) => /\ RunGroup(z, g).matrix = After(m, g)
                           /\ RunGroup(z, g).factors = Append(<<>>, FactorOf(m, g))
    <3>1. z.ok /\ z.matrix = m /\ z.factors = <<>>
      OBVIOUS
    <3> HIDE DEF z, g
    <3> QED BY <1>0, <2>1, <3>1, RunTyped
  <2> HIDE DEF g, z
  <2>4. CASE Stuck(m, g)
    BY <2>1, <2>2, <2>3, <2>4, NotOkStays DEF g
  <2>5. CASE ~Stuck(m, g)
    <3> DEFINE b == Factors(Tail(t), After(m, g))
               f == FactorOf(m, g)
    <3>1. f \in Field
      BY <2>1, <2>5, FactorTyped
    <3>2. /\ Factors(t, m).ok <=> b.ok
          /\ b.ok => /\ b.factors \in Seq(Field)
                     /\ Factors(t, m).factors = Append(<<>>, f) \o b.factors
      <4>1. PICK y \in RunStates(W) : y = RunGroup(z, g) /\ y.ok /\ y.matrix = After(m, g)
                                      /\ y.factors = Append(<<>>, f)
        BY <2>3, <2>5
      <4>2. LET a == RunAll(y, Tail(t))
                d == Factors(Tail(t), y.matrix)
            IN  /\ a.ok <=> d.ok
                /\ d.ok => /\ d.factors \in Seq(Field) /\ Len(d.factors) = Len(Tail(t))
                           /\ a.factors = y.factors \o d.factors
        <5>1. PICK u \in Seq(Groups(W, R, C)) : u = Tail(t)
          BY <2>1
        <5>2. Shifted(y, u)
          BY <4>1, FactorsShift
        <5> HIDE DEF b, f, z, g
        <5> QED BY <5>1, <5>2 DEF Shifted
      <4>3. Factors(t, m) = RunAll(y, Tail(t)) /\ Factors(Tail(t), y.matrix) = b
        BY <2>2, <4>1
      <4> HIDE DEF b, f
      <4> QED BY <4>1, <4>2, <4>3
    <3> HIDE DEF b, f
    <3>3. ASSUME NEW q \in Seq(Field)
          PROVE  (Append(<<>>, f) \o q)[1] = f /\ Tail(Append(<<>>, f) \o q) = q
      <4>1. Append(<<>>, f) = <<f>>
        OBVIOUS
      <4> QED BY <3>1, <4>1, PrefixedIs
    <3> QED BY <2>5, <3>2, <3>3 DEF b, f, g
  <2> QED BY <2>4, <2>5
<1> QED BY <1>1, <1>2, <1>3

\* A tape without groups changes nothing.
LEMMA ApplyNone ==
  ASSUME NEW r, NEW fs
  PROVE  ApplyTape(r, <<>>, fs) = r /\ ApplyTapeTransposed(r, <<>>, fs) = r
<1>1. PICK c : c.tape = <<>> /\ c.factors = fs
  <2> DEFINE c == [tape |-> <<>>, factors |-> fs]
  <2>1. c.tape = <<>> /\ c.factors = fs
    OBVIOUS
  <2> HIDE DEF c
  <2> QED BY <2>1
<1> DEFINE I == [i \in DOMAIN <<>> |-> i]
<1>2. /\ ApplyTape(r, <<>>, fs) = Folded(r, c, I, "apply")
      /\ ApplyTapeTransposed(r, <<>>, fs) = Folded(r, c, Reverse(I), "transposed")
  BY <1>1, ApplyFold
<1>3. I = <<>>
  OBVIOUS
<1> HIDE DEF I
<1>4. DOMAIN <<>> = {} /\ Reverse(<<>>) = <<>>
  BY ReverseNone
<1> QED BY <1>2, <1>3, <1>4, FoldNone

\* Applying a tape, from its first group on, and transposed, to its first group.
LEMMA ApplyFirst ==
  ASSUME NEW S, NEW t \in Seq(S), NEW fs \in Seq(Field), Len(fs) = Len(t), NEW r
  PROVE  /\ t = <<>> => ApplyTape(r, t, fs) = r /\ ApplyTapeTransposed(r, t, fs) = r
         /\ t # <<>> =>
              /\ ApplyTape(r, t, fs) =
                   ApplyTape(ApplyGroup(r, t[1], fs[1]), Tail(t), Tail(fs))
              /\ ApplyTapeTransposed(r, t, fs) =
                   ApplyTransposed(ApplyTapeTransposed(r, Tail(t), Tail(fs)), t[1], fs[1])
<1>1. PICK c : c.tape = t /\ c.factors = fs
  <2> DEFINE c == [tape |-> t, factors |-> fs]
  <2>1. c.tape = t /\ c.factors = fs
    OBVIOUS
  <2> HIDE DEF c
  <2> QED BY <2>1
<1> DEFINE I == [i \in DOMAIN t |-> i]
<1>2. \A v : /\ ApplyTape(v, t, fs) = Folded(v, c, I, "apply")
             /\ ApplyTapeTransposed(v, t, fs) = Folded(v, c, Reverse(I), "transposed")
  BY <1>1, ApplyFold
<1>3. I \in Seq(Nat) /\ Len(I) = Len(t) /\ DOMAIN I = 1 .. Len(t) /\ \A i \in 1 .. Len(t) : I[i] = i
  OBVIOUS
<1>4. CASE t = <<>>
  <2>1. I = <<>>
    BY <1>4
  <2> HIDE DEF I
  <2>2. DOMAIN <<>> = {} /\ Reverse(<<>>) = <<>>
    BY ReverseNone
  <2> QED BY <1>2, <1>4, <2>1, <2>2, FoldNone
<1>5. CASE t # <<>>
  <2>1. PICK n \in Nat : n = Len(Tail(t)) /\ Len(t) = n + 1
    BY <1>5, FirstOf
  <2>2. fs # <<>>
    <3>1. Len(fs) # 0
      BY <2>1
    <3> QED BY <3>1
  <2>3. PICK d : d.tape = Tail(t) /\ d.factors = Tail(fs)
    <3> DEFINE d == [tape |-> Tail(t), factors |-> Tail(fs)]
    <3>1. d.tape = Tail(t) /\ d.factors = Tail(fs)
      OBVIOUS
    <3> HIDE DEF d
    <3> QED BY <3>1
  <2> DEFINE J == [i \in DOMAIN Tail(t) |-> i]
  <2>4. \A v : /\ ApplyTape(v, Tail(t), Tail(fs)) = Folded(v, d, J, "apply")
               /\ ApplyTapeTransposed(v, Tail(t), Tail(fs)) = Folded(v, d, Reverse(J), "transposed")
    BY <2>3, ApplyFold
  <2>5. /\ DOMAIN Tail(t) = 1 .. n /\ Len(Tail(fs)) = n
        /\ \A i \in 1 .. n : Tail(t)[i] = t[i + 1] /\ Tail(fs)[i] = fs[i + 1]
    <3>1. /\ DOMAIN Tail(t) = 1 .. n /\ \A i \in 1 .. n : Tail(t)[i] = t[i + 1]
      BY <1>5, <2>1, FirstOf
    <3>2. Len(fs) = n + 1
      BY <2>1
    <3>3. Len(Tail(fs)) = n /\ \A i \in 1 .. n : Tail(fs)[i] = fs[i + 1]
      BY <3>2, TailIs
    <3> QED BY <3>1, <3>3
  <2>6. DOMAIN J = 1 .. n /\ \A i \in 1 .. n : J[i] = i
    BY <2>5
  <2>6a. J \in Seq(Nat) /\ Len(J) = n
    <3>1. J = [i \in 1 .. n |-> i]
      BY <2>5
    <3> HIDE DEF J
    <3>2. [i \in 1 .. n |-> i] \in Seq(Nat) /\ Len([i \in 1 .. n |-> i]) = n
      OBVIOUS
    <3> QED BY <3>1, <3>2
  <2> HIDE DEF I, J
  <2>7. I # <<>> /\ I[1] = 1
    BY <1>3, <2>1
  <2>8. /\ Tail(I) \in Seq(Nat) /\ Len(Tail(I)) = n /\ DOMAIN Tail(I) = 1 .. n
        /\ \A i \in 1 .. n : Tail(I)[i] = i + 1
    <3>1. /\ Tail(I) \in Seq(Nat) /\ Len(Tail(I)) = n /\ DOMAIN Tail(I) = 1 .. n
          /\ \A i \in 1 .. n : Tail(I)[i] = I[i + 1]
      BY <1>3, <2>1, TailIs
    <3>2. \A i \in 1 .. n : I[i + 1] = i + 1
      BY <1>3, <2>1
    <3> QED BY <3>1, <3>2
  <2>9. \A v : /\ StepOf(v, c, 1, "apply") = ApplyGroup(v, t[1], fs[1])
               /\ StepOf(v, c, 1, "transposed") = ApplyTransposed(v, t[1], fs[1])
    BY <1>1, StepApply, StepTransposed
  <2>10. \A v : Folded(v, c, Tail(I), "apply") = Folded(v, d, J, "apply")
    <3>1. Alike(n, c, Tail(I), d, J, "apply")
      <4> SUFFICES ASSUME NEW j \in 1 .. n, NEW v
                   PROVE StepOf(v, c, Tail(I)[j], "apply") = StepOf(v, d, J[j], "apply")
        BY DEF Alike
      <4>1. Tail(I)[j] = j + 1 /\ J[j] = j
        BY <2>6, <2>8
      <4>2. StepOf(v, c, j + 1, "apply") = ApplyGroup(v, c.tape[j + 1], c.factors[j + 1])
        BY StepApply
      <4>3. StepOf(v, d, j, "apply") = ApplyGroup(v, d.tape[j], d.factors[j])
        BY StepApply
      <4>4. /\ d.tape[j] = t[j + 1] /\ d.factors[j] = fs[j + 1]
            /\ c.tape[j + 1] = t[j + 1] /\ c.factors[j + 1] = fs[j + 1]
        BY <2>5, <1>1, <2>3
      <4> QED BY <4>1, <4>2, <4>3, <4>4
    <3>2. PICK Q : Q = Tail(I)
      OBVIOUS
    <3>3. DOMAIN Q = 1 .. n /\ DOMAIN J = 1 .. n /\ Alike(n, c, Q, d, J, "apply")
      BY <2>6, <2>8, <3>1, <3>2
    <3>4. \A v : Folded(v, c, Q, "apply") = Folded(v, d, J, "apply")
      BY <3>3, FoldAlike
    <3> QED BY <3>2, <3>4
  <2>11. \A v : Folded(v, c, Reverse(Tail(I)), "transposed") = Folded(v, d, Reverse(J), "transposed")
    <3>1. /\ DOMAIN Reverse(Tail(I)) = 1 .. n /\ DOMAIN Reverse(J) = 1 .. n
          /\ \A i \in 1 .. n : /\ Reverse(Tail(I))[i] = (n - i + 1) + 1
                               /\ Reverse(J)[i] = n - i + 1 /\ n - i + 1 \in 1 .. n
      <4>1. PICK Q : Q = Tail(I)
        OBVIOUS
      <4>2. /\ DOMAIN Reverse(Q) = 1 .. n
            /\ \A i \in 1 .. n : n - i + 1 \in 1 .. n /\ Reverse(Q)[i] = Q[n - i + 1]
        <5>1. Len(Q) = n
          BY <2>8, <4>1
        <5> QED BY <5>1, ReverseAt
      <4>3. /\ DOMAIN Reverse(J) = 1 .. n
            /\ \A i \in 1 .. n : n - i + 1 \in 1 .. n /\ Reverse(J)[i] = J[n - i + 1]
        <5>1. Len(J) = n
          BY <2>6a
        <5> QED BY <5>1, ReverseAt
      <4>4. \A i \in 1 .. n : Q[n - i + 1] = (n - i + 1) + 1 /\ J[n - i + 1] = n - i + 1
        <5>1. \A i \in 1 .. n : Q[i] = i + 1 /\ J[i] = i
          BY <2>6, <2>8, <4>1
        <5> QED BY <4>2, <5>1
      <4> QED BY <4>1, <4>2, <4>3, <4>4
    <3>2. Alike(n, c, Reverse(Tail(I)), d, Reverse(J), "transposed")
      <4> SUFFICES ASSUME NEW i \in 1 .. n, NEW v
                   PROVE StepOf(v, c, Reverse(Tail(I))[i], "transposed")
                           = StepOf(v, d, Reverse(J)[i], "transposed")
        BY DEF Alike
      <4>1. PICK j \in 1 .. n : Reverse(Tail(I))[i] = j + 1 /\ Reverse(J)[i] = j
        BY <3>1
      <4>2. StepOf(v, c, j + 1, "transposed") = ApplyTransposed(v, c.tape[j + 1], c.factors[j + 1])
        BY StepTransposed
      <4>3. StepOf(v, d, j, "transposed") = ApplyTransposed(v, d.tape[j], d.factors[j])
        BY StepTransposed
      <4>4. /\ d.tape[j] = t[j + 1] /\ d.factors[j] = fs[j + 1]
            /\ c.tape[j + 1] = t[j + 1] /\ c.factors[j + 1] = fs[j + 1]
        BY <2>5, <1>1, <2>3
      <4> QED BY <4>1, <4>2, <4>3, <4>4
    <3> QED BY <3>1, <3>2, FoldAlike
  <2>12. /\ Folded(r, c, I, "apply") = Folded(StepOf(r, c, 1, "apply"), c, Tail(I), "apply")
         /\ Folded(r, c, Reverse(I), "transposed") =
              StepOf(Folded(r, c, Reverse(Tail(I)), "transposed"), c, 1, "transposed")
    BY <1>3, <2>7, FoldFirst
  <2>13. ApplyTape(r, t, fs) = ApplyTape(ApplyGroup(r, t[1], fs[1]), Tail(t), Tail(fs))
    BY <1>2, <2>4, <2>9, <2>10, <2>12
  <2>14. ApplyTapeTransposed(r, t, fs) =
           ApplyTransposed(ApplyTapeTransposed(r, Tail(t), Tail(fs)), t[1], fs[1])
    BY <1>2, <2>4, <2>9, <2>11, <2>12
  <2> QED BY <1>5, <2>13, <2>14
<1> QED BY <1>4, <1>5

-----------------------------------------------------------------------------
(* Pruning a tape to live rows keeps their words. *)

(***************************************************************************)
(* Pruning a tape to the words that are required.                          *)
(***************************************************************************)
Agree(r, q, X) == \A w \in X : w \in DOMAIN r /\ w \in DOMAIN q /\ r[w] = q[w]

\* A group changes the words of its row and of no other.
LEMMA ApplyGroupIs ==
  ASSUME NEW r, NEW g, NEW f
  PROVE  /\ DOMAIN ApplyGroup(r, g, f) = DOMAIN r
         /\ \A w \in DOMAIN r : w \notin {g.dst} \X g.rhs => ApplyGroup(r, g, f)[w] = r[w]
         /\ \A t \in g.rhs : <<g.dst, t>> \in DOMAIN r =>
              ApplyGroup(r, g, f)[<<g.dst, t>>] =
                IF g.kind = "scale" THEN (r[<<g.dst, t>>] * f) % Prime
                ELSE SubtractMultiply(r[<<g.dst, t>>], f, r[<<g.src, t>>])
<1> DEFINE v(w) == IF g.kind = "scale" THEN (r[w] * f) % Prime
                   ELSE SubtractMultiply(r[w], f, r[<<g.src, w[2]>>])
<1>1. ApplyGroup(r, g, f) =
        [w \in DOMAIN r |-> IF w \in {g.dst} \X g.rhs THEN v(w) ELSE r[w]]
  BY DEF ApplyGroup, Updated
<1>2. \A t \in g.rhs : /\ <<g.dst, t>> \in {g.dst} \X g.rhs
                       /\ v(<<g.dst, t>>) = IF g.kind = "scale" THEN (r[<<g.dst, t>>] * f) % Prime
                              ELSE SubtractMultiply(r[<<g.dst, t>>], f, r[<<g.src, t>>])
  OBVIOUS
<1> HIDE DEF v
<1> QED BY <1>1, <1>2

\* More slots allow more groups.
LEMMA GroupsGrow ==
  ASSUME NEW W, NEW R, NEW C, NEW X, X \subseteq W
  PROVE  /\ Groups(X, R, C) \subseteq Groups(W, R, C)
         /\ Seq(Groups(X, R, C)) \subseteq Seq(Groups(W, R, C))
<1>1. Groups(X, R, C) \subseteq Groups(W, R, C)
  <2> SUFFICES ASSUME NEW g \in Groups(X, R, C) PROVE g \in Groups(W, R, C)
    OBVIOUS
  <2>1. /\ g \in [kind : {"scale", "eliminate"}, dst : R, src : R, slot : X,
                  matrix : SUBSET (X \X X), rhs : SUBSET C]
        /\ g.kind = "scale" => g.dst = g.src
        /\ \A o, q \in g.matrix : o[1] = q[1] => o = q
    BY DEF Groups
  <2>2. g \in [kind : {"scale", "eliminate"}, dst : R, src : R, slot : W,
               matrix : SUBSET (W \X W), rhs : SUBSET C]
    BY <2>1
  <2> QED BY <2>1, <2>2 DEF Groups
<1>2. ASSUME NEW A, NEW B, A \subseteq B PROVE Seq(A) \subseteq Seq(B)
  BY <1>2
<1> QED BY <1>1, <1>2

\* A group with fewer pairs and columns, on slots that still hold it.
IsPart(h, g, M, D) ==
  /\ h.kind = g.kind /\ h.dst = g.dst /\ h.src = g.src /\ h.slot = g.slot
  /\ h.matrix = M /\ h.rhs = D

\* A part of a group is a group.
LEMMA GroupPart ==
  ASSUME NEW W, NEW R, NEW C, NEW g \in Groups(W, R, C), NEW X,
         NEW M, M \subseteq g.matrix, NEW D, D \subseteq g.rhs,
         g.slot \in X, \A o \in M : o[1] \in X /\ o[2] \in X
  PROVE  /\ [g EXCEPT !.rhs = D, !.matrix = M] \in Groups(X, R, C)
         /\ IsPart([g EXCEPT !.rhs = D, !.matrix = M], g, M, D)
<1>1. /\ g \in [kind : {"scale", "eliminate"}, dst : R, src : R, slot : W,
                matrix : SUBSET (W \X W), rhs : SUBSET C]
      /\ g.kind = "scale" => g.dst = g.src
      /\ \A o, q \in g.matrix : o[1] = q[1] => o = q
  BY DEF Groups
<1> DEFINE h == [g EXCEPT !.rhs = D, !.matrix = M]
<1>2. /\ h.kind = g.kind /\ h.dst = g.dst /\ h.src = g.src /\ h.slot = g.slot
      /\ h.matrix = M /\ h.rhs = D
      /\ h \in [kind : {"scale", "eliminate"}, dst : R, src : R, slot : W,
                matrix : {M}, rhs : {D}]
  BY <1>1
<1>3. M \subseteq X \X X
  BY <1>1
<1>4. D \subseteq C
  BY <1>1
<1> HIDE DEF h
<1>5. h \in [kind : {"scale", "eliminate"}, dst : R, src : R, slot : X,
                matrix : SUBSET (X \X X), rhs : SUBSET C]
  BY <1>1, <1>2, <1>3, <1>4
<1>6. /\ h.kind = g.kind /\ h.dst = g.dst /\ h.src = g.src /\ h.slot = g.slot
      /\ h.matrix = M /\ h.rhs = D
  BY <1>2
<1>7. h \in Groups(X, R, C)
  BY <1>1, <1>5, <1>6 DEF Groups
<1> QED BY <1>6, <1>7 DEF h, IsPart

\* Pruning works from the end: the first group last.
LEMMA PruneTapeFirst ==
  ASSUME NEW S, NEW t \in Seq(S), NEW q
  PROVE  /\ t = <<>> => PruneTape(t, q) = [tape |-> <<>>, rhs |-> q, slots |-> {}]
         /\ t # <<>> => PruneTape(t, q) = PruneGroup(PruneTape(Tail(t), q), t[1])
<1> DEFINE b == [tape |-> <<>>, rhs |-> q, slots |-> {}]
<1>1. \A u : PruneTape(u, q) = Folded(b, 0, Reverse(u), "prune")
  BY PruneTapeFold
<1> HIDE DEF b
<1>2. CASE t = <<>>
  <2>1. DOMAIN Reverse(<<>>) = {}
    BY ReverseNone
  <2> QED BY <1>1, <1>2, <2>1, FoldNone DEF b
<1>3. CASE t # <<>>
  <2>1. Folded(b, 0, Reverse(t), "prune") =
          StepOf(Folded(b, 0, Reverse(Tail(t)), "prune"), 0, t[1], "prune")
    BY <1>3, FoldFirst
  <2> QED BY <1>1, <1>3, <2>1, StepPrune
<1> QED BY <1>2, <1>3

PrunedColumns(p, g) == {t \in g.rhs : <<g.dst, t>> \in p.rhs}
PrunedPairs(p, g) == {o \in g.matrix : o[1] \in p.slots}
PrunedGroup(p, g) == [g EXCEPT !.rhs = PrunedColumns(p, g), !.matrix = PrunedPairs(p, g)]
Dropped(p, g) == PrunedColumns(p, g) = {} /\ PrunedPairs(p, g) = {}

\* What pruning keeps: slots it needs, words it needs, groups on those.
IsPruned(p, W, R, C, q) ==
  /\ p.slots \subseteq W
  /\ q \subseteq p.rhs /\ p.rhs \subseteq q \union (R \X C)
  /\ p.tape \in Seq(Groups(p.slots, R, C))

KeptGroup(n, h, p, g, R, C) ==
  /\ h \in Groups(n.slots, R, C)
  /\ n.tape = <<h>> \o p.tape /\ n.tape # <<>> /\ n.tape[1] = h
  /\ Tail(n.tape) = p.tape
  /\ n.rhs = p.rhs \union ({g.src} \X PrunedColumns(p, g))
  /\ n.slots = p.slots \union {o[2] : o \in PrunedPairs(p, g)} \union {g.slot}

\* What pruning makes of one group.
LEMMA PruneGroupIs ==
  ASSUME NEW W, NEW R, NEW C, NEW q, NEW p, IsPruned(p, W, R, C, q), NEW g \in Groups(W, R, C)
  PROVE  /\ IsPruned(PruneGroup(p, g), W, R, C, q)
         /\ Dropped(p, g) => PruneGroup(p, g) = p
         /\ ~Dropped(p, g) => KeptGroup(PruneGroup(p, g), PrunedGroup(p, g), p, g, R, C)
<1> DEFINE n == PruneGroup(p, g)
           h == PrunedGroup(p, g)
           D == PrunedColumns(p, g)
           M == PrunedPairs(p, g)
           X == p.slots \union {o[2] : o \in M} \union {g.slot}
<1>1. CASE Dropped(p, g)
  <2>1. n = p
    BY <1>1 DEF PruneGroup, Dropped, PrunedColumns, PrunedPairs
  <2> QED BY <1>1, <2>1
<1>2. CASE ~Dropped(p, g)
  <2>1. n = [tape |-> <<h>> \o p.tape, rhs |-> p.rhs \union ({g.src} \X D), slots |-> X]
    BY <1>2 DEF PruneGroup, Dropped, PrunedColumns, PrunedPairs, PrunedGroup
  <2>2. /\ g.dst \in R /\ g.src \in R /\ g.slot \in W /\ g.matrix \subseteq W \X W
        /\ g.rhs \subseteq C
    BY DEF Groups
  <2>3. D \subseteq g.rhs /\ M \subseteq g.matrix /\ \A o \in M : o[1] \in p.slots
    BY DEF PrunedColumns, PrunedPairs
  <2>4. X \subseteq W /\ p.slots \subseteq X /\ g.slot \in X /\ \A o \in M : o[1] \in X /\ o[2] \in X
    BY <2>2, <2>3 DEF IsPruned
  <2>4a. h = [g EXCEPT !.rhs = D, !.matrix = M]
    BY DEF PrunedGroup
  <2> HIDE DEF X, D, M, h, n
  <2>5. h \in Groups(X, R, C)
    BY <2>3, <2>4, <2>4a, GroupPart
  <2>6. p.tape \in Seq(Groups(X, R, C))
    BY <2>4, GroupsGrow DEF IsPruned
  <2>7. /\ <<h>> \o p.tape \in Seq(Groups(X, R, C)) /\ <<h>> \o p.tape # <<>>
        /\ (<<h>> \o p.tape)[1] = h /\ Tail(<<h>> \o p.tape) = p.tape
    <3>1. /\ <<h>> \o p.tape \in Seq(Groups(X, R, C)) /\ Len(<<h>> \o p.tape) = Len(p.tape) + 1
          /\ (<<h>> \o p.tape)[1] = h /\ Tail(<<h>> \o p.tape) = p.tape
      BY <2>5, <2>6, PrefixedIs
    <3>2. Len(p.tape) \in Nat
      BY <2>6
    <3> QED BY <3>1, <3>2
  <2>8. p.rhs \union ({g.src} \X D) \subseteq q \union (R \X C)
    BY <2>2, <2>3 DEF IsPruned
  <2>9. n.tape = <<h>> \o p.tape /\ n.rhs = p.rhs \union ({g.src} \X D) /\ n.slots = X
    BY <2>1
  <2>10. IsPruned(n, W, R, C, q)
    BY <2>4, <2>7, <2>8, <2>9 DEF IsPruned
  <2> QED BY <1>2, <2>5, <2>7, <2>9, <2>10 DEF X, D, M, h, n, KeptGroup
<1> QED BY <1>1, <1>2

\* A pruned tape runs on the slots it names.
LEMMA PruneTapeIs ==
  ASSUME NEW W, NEW R, NEW C, NEW t \in Seq(Groups(W, R, C)), NEW q
  PROVE  IsPruned(PruneTape(t, q), W, R, C, q)
<1> DEFINE S == Groups(W, R, C)
           T == {u \in Seq(S) : IsPruned(PruneTape(u, q), W, R, C, q)}
<1> HIDE DEF S
<1>1. <<>> \in T
  <2>1. <<>> \in Seq(S) /\ \A X : <<>> \in Seq(X)
    OBVIOUS
  <2>2. PruneTape(<<>>, q) = [tape |-> <<>>, rhs |-> q, slots |-> {}]
    BY <2>1, PruneTapeFirst
  <2>3. IsPruned([tape |-> <<>>, rhs |-> q, slots |-> {}], W, R, C, q)
    <3>1. PICK p : p.tape = <<>> /\ p.rhs = q /\ p.slots = {}
          /\ p = [tape |-> <<>>, rhs |-> q, slots |-> {}]
      <4> DEFINE p == [tape |-> <<>>, rhs |-> q, slots |-> {}]
      <4>1. p.tape = <<>> /\ p.rhs = q /\ p.slots = {} /\ p = [tape |-> <<>>, rhs |-> q, slots |-> {}]
        OBVIOUS
      <4> HIDE DEF p
      <4> QED BY <4>1
    <3>2. IsPruned(p, W, R, C, q)
      BY <2>1, <3>1 DEF IsPruned
    <3> QED BY <3>1, <3>2
  <2> QED BY <2>1, <2>2, <2>3
<1>2. ASSUME NEW u \in Seq(S), u # <<>>, Tail(u) \in T PROVE u \in T
  <2>1. u[1] \in Groups(W, R, C)
    BY <1>2, FirstOf DEF S
  <2>2. PruneTape(u, q) = PruneGroup(PruneTape(Tail(u), q), u[1])
    BY <1>2, PruneTapeFirst
  <2>3. IsPruned(PruneGroup(PruneTape(Tail(u), q), u[1]), W, R, C, q)
    BY <1>2, <2>1, PruneGroupIs
  <2> QED BY <2>2, <2>3
<1>3. T = Seq(S)
  <2> HIDE DEF T
  <2>1. T \subseteq Seq(S)
    BY DEF T
  <2> QED BY <1>1, <1>2, <2>1, LengthInduction
<1> QED BY <1>3 DEF S

\* The matrix after a group, and after what pruning leaves of it, on the slots
\* that are read afterwards.
Followed(m, g, n, h, W, X, Y) ==
  /\ ~Stuck(n, h) /\ FactorOf(n, h) = FactorOf(m, g)
  /\ After(n, h) \in [X -> Field] /\ After(m, g) \in [W -> Field]
  /\ \A w \in Y : After(n, h)[w] = After(m, g)[w]

\* A pruned group changes the slots that are kept as the group does.
LEMMA MatricesFollow ==
  ASSUME NEW W, NEW R, NEW C, NEW g \in Groups(W, R, C), NEW m \in [W -> Field], ~Stuck(m, g),
         NEW X, NEW n \in [X -> Field], NEW Y, Y \subseteq X, Y \subseteq W, NEW h \in Groups(X, R, C),
         h.kind = g.kind, h.slot = g.slot, h.matrix = {o \in g.matrix : o[1] \in Y},
         n[g.slot] = m[g.slot], \A w \in Y : n[w] = m[w], \A o \in h.matrix : n[o[2]] = m[o[2]]
  PROVE  Followed(m, g, n, h, W, X, Y)
<1>1. ~Stuck(n, h) /\ FactorOf(n, h) = FactorOf(m, g)
  BY DEF Stuck, FactorOf
<1>2. /\ After(m, g) \in [W -> Field]
      /\ \A o \in g.matrix :
           After(m, g)[o[1]] = IF g.kind = "scale" THEN (m[o[1]] * FactorOf(m, g)) % Prime
                               ELSE SubtractMultiply(m[o[1]], FactorOf(m, g), m[o[2]])
      /\ \A w \in W : (\A o \in g.matrix : o[1] # w) => After(m, g)[w] = m[w]
  BY AfterIs
<1>3. /\ After(n, h) \in [X -> Field]
      /\ \A o \in h.matrix :
           After(n, h)[o[1]] = IF h.kind = "scale" THEN (n[o[1]] * FactorOf(n, h)) % Prime
                               ELSE SubtractMultiply(n[o[1]], FactorOf(n, h), n[o[2]])
      /\ \A w \in X : (\A o \in h.matrix : o[1] # w) => After(n, h)[w] = n[w]
  BY <1>1, AfterIs
<1>4. ASSUME NEW w \in Y PROVE After(n, h)[w] = After(m, g)[w]
  <2>1. CASE \E o \in g.matrix : o[1] = w
    <3>1. PICK o \in h.matrix : o[1] = w /\ o \in g.matrix
      BY <2>1
    <3>2. n[o[1]] = m[o[1]] /\ n[o[2]] = m[o[2]]
      BY <3>1
    <3> QED BY <1>1, <1>2, <1>3, <3>1, <3>2
  <2>2. CASE \A o \in g.matrix : o[1] # w
    <3>1. \A o \in h.matrix : o[1] # w
      BY <2>2
    <3>2. After(n, h)[w] = n[w] /\ After(m, g)[w] = m[w]
      BY <1>2, <1>3, <2>2, <3>1
    <3> QED BY <3>2
  <2> QED BY <2>1, <2>2
<1> QED BY <1>1, <1>2, <1>3, <1>4 DEF Followed

\* The right-hand side likewise, on the words that are required afterwards.
LEMMA WordsFollow ==
  ASSUME NEW W, NEW R, NEW C, NEW g \in Groups(W, R, C), NEW X, NEW h \in Groups(X, R, C), NEW f,
         NEW r, NEW s, NEW Y, h.kind = g.kind, h.dst = g.dst, h.src = g.src,
         h.rhs = {t \in g.rhs : <<g.dst, t>> \in Y},
         Agree(r, s, Y), \A t \in h.rhs : r[<<g.src, t>>] = s[<<g.src, t>>]
  PROVE  Agree(ApplyGroup(r, g, f), ApplyGroup(s, h, f), Y)
<1> SUFFICES ASSUME NEW w \in Y
             PROVE /\ w \in DOMAIN ApplyGroup(r, g, f) /\ w \in DOMAIN ApplyGroup(s, h, f)
                   /\ ApplyGroup(r, g, f)[w] = ApplyGroup(s, h, f)[w]
  BY DEF Agree
<1>1. w \in DOMAIN r /\ w \in DOMAIN s /\ r[w] = s[w]
  BY DEF Agree
<1>2. DOMAIN ApplyGroup(r, g, f) = DOMAIN r /\ DOMAIN ApplyGroup(s, h, f) = DOMAIN s
  BY ApplyGroupIs
<1>3. CASE w \in {g.dst} \X g.rhs
  <2>1. PICK t \in g.rhs : w = <<g.dst, t>>
    BY <1>3
  <2>2. t \in h.rhs
    BY <2>1
  <2>3. ApplyGroup(r, g, f)[<<g.dst, t>>] =
                IF g.kind = "scale" THEN (r[<<g.dst, t>>] * f) % Prime
                ELSE SubtractMultiply(r[<<g.dst, t>>], f, r[<<g.src, t>>])
    BY <1>1, <2>1, ApplyGroupIs
  <2>4. ApplyGroup(s, h, f)[<<h.dst, t>>] =
                IF h.kind = "scale" THEN (s[<<h.dst, t>>] * f) % Prime
                ELSE SubtractMultiply(s[<<h.dst, t>>], f, s[<<h.src, t>>])
    BY <1>1, <2>1, <2>2, ApplyGroupIs
  <2> QED BY <1>1, <1>2, <2>1, <2>2, <2>3, <2>4
<1>4. CASE w \notin {g.dst} \X g.rhs
  <2>1. w \notin {h.dst} \X h.rhs
    BY <1>4
  <2>2. ApplyGroup(r, g, f)[w] = r[w] /\ ApplyGroup(s, h, f)[w] = s[w]
    BY <1>1, <1>4, <2>1, ApplyGroupIs
  <2> QED BY <1>1, <1>2, <2>2
<1> QED BY <1>3, <1>4

\* Where the whole tape has factors the pruned one has them, and it computes the
\* same required words.
PruneSound(t, W, q) ==
  \A X \in SUBSET W : \A m \in [W -> Field], n \in [X -> Field] : \A r, s :
    LET p == PruneTape(t, q)
        a == Factors(t, m)
        b == Factors(p.tape, n)
    IN  /\ p.slots \subseteq X /\ \A w \in p.slots : n[w] = m[w]
        /\ Agree(r, s, p.rhs)
        /\ a.ok
        => b.ok /\ Agree(ApplyTape(r, t, a.factors), ApplyTape(s, p.tape, b.factors), q)

\* Pruning keeps what is required, by induction on the tape.
LEMMA PruneKeeps ==
  ASSUME NEW W, NEW R, NEW C, NEW t \in Seq(Groups(W, R, C)), NEW q
  PROVE  PruneSound(t, W, q)
<1> DEFINE S == Groups(W, R, C)
           T == {u \in Seq(S) : PruneSound(u, W, q)}
<1> HIDE DEF S
<1>1. <<>> \in T
  <2>1. <<>> \in Seq(S) /\ \A X : <<>> \in Seq(X)
    OBVIOUS
  <2>2. PruneTape(<<>>, q) = [tape |-> <<>>, rhs |-> q, slots |-> {}]
    BY <2>1, PruneTapeFirst
  <2>3. \A m : Factors(<<>>, m) = [ok |-> TRUE, matrix |-> m, factors |-> <<>>]
    BY RunNone, FactorsRun
  <2>4. \A m : Factors(<<>>, m).ok /\ Factors(<<>>, m).factors = <<>>
    BY <2>3
  <2>5. \A r : ApplyTape(r, <<>>, <<>>) = r
    BY ApplyNone
  <2>6. PruneSound(<<>>, W, q)
    BY <2>2, <2>4, <2>5 DEF PruneSound
  <2> QED BY <2>1, <2>6
<1>2. ASSUME NEW u \in Seq(S), u # <<>>, Tail(u) \in T PROVE u \in T
  <2>0. PICK g, v, p, o : g = u[1] /\ v = Tail(u) /\ p = PruneTape(u, q) /\ o = PruneTape(v, q)
    OBVIOUS
  <2>1. g \in Groups(W, R, C) /\ v \in Seq(Groups(W, R, C)) /\ PruneSound(v, W, q)
    BY <1>2, <2>0, FirstOf DEF S
  <2>2. p = PruneGroup(o, g) /\ IsPruned(o, W, R, C, q)
    BY <1>2, <2>0, <2>1, PruneTapeFirst, PruneTapeIs
  <2> SUFFICES ASSUME NEW X \in SUBSET W, NEW m \in [W -> Field], NEW n \in [X -> Field],
                      NEW r, NEW s, p.slots \subseteq X, \A w \in p.slots : n[w] = m[w],
                      Agree(r, s, p.rhs), Factors(u, m).ok
               PROVE  /\ Factors(p.tape, n).ok
                      /\ Agree(ApplyTape(r, u, Factors(u, m).factors),
                               ApplyTape(s, p.tape, Factors(p.tape, n).factors), q)
    BY <2>0 DEF PruneSound
  <2>0a. PICK f, a : f = FactorOf(m, g) /\ a = Factors(v, After(m, g))
    OBVIOUS
  <2>3. /\ ~Stuck(m, g) /\ a.ok /\ a.factors \in Seq(Field) /\ Len(a.factors) = Len(v)
        /\ Factors(u, m).factors \in Seq(Field) /\ Len(Factors(u, m).factors) = Len(u)
        /\ Factors(u, m).factors[1] = f /\ Tail(Factors(u, m).factors) = a.factors
    <3>1. /\ ~Stuck(m, g) /\ a.ok
          /\ Factors(u, m).factors \in Seq(Field) /\ Len(Factors(u, m).factors) = Len(u)
          /\ Factors(u, m).factors[1] = f /\ Tail(Factors(u, m).factors) = a.factors
      <4>1. FactorsFit(u, m) /\ FactorsFollow(u, m)
        BY <1>2, FactorsFirst DEF S
      <4> QED BY <2>0, <2>0a, <4>1 DEF FactorsFit, FactorsFollow
    <3>2. After(m, g) \in [W -> Field]
      BY <2>1, <3>1, AfterIs
    <3>3. FactorsFit(v, After(m, g))
      <4>1. PICK y \in [W -> Field] : y = After(m, g)
        BY <3>2
      <4>2. FactorsFit(v, y)
        BY <2>1, FactorsFirst
      <4> QED BY <4>1, <4>2
    <3> QED BY <2>0a, <2>1, <3>1, <3>3 DEF FactorsFit
  <2>4. ApplyTape(r, u, Factors(u, m).factors) = ApplyTape(ApplyGroup(r, g, f), v, a.factors)
    BY <1>2, <2>0, <2>3, ApplyFirst
  <2>5. After(m, g) \in [W -> Field]
    BY <2>1, <2>3, AfterIs
  <2>6. CASE Dropped(o, g)
    <3>1. p = o
      BY <2>1, <2>2, <2>6, PruneGroupIs
    <3>2. \A w \in o.slots : n[w] = After(m, g)[w]
      <4>1. \A w \in o.slots : \A x \in g.matrix : x[1] # w
        BY <2>6 DEF Dropped, PrunedPairs
      <4>2. \A w \in o.slots : w \in W
        BY <2>2 DEF IsPruned
      <4>3. \A w \in o.slots : After(m, g)[w] = m[w]
        <5>1. ~Stuck(m, g)
          BY <2>3
        <5>2. \A w \in W : (\A x \in g.matrix : x[1] # w) => After(m, g)[w] = m[w]
          BY <2>1, <5>1, AfterIs
        <5> QED BY <4>1, <4>2, <5>2
      <4> QED BY <3>1, <4>3
    <3>3. Agree(ApplyGroup(r, g, f), s, o.rhs)
      <4>1. \A w \in o.rhs : w \notin {g.dst} \X g.rhs
        BY <2>6 DEF Dropped, PrunedColumns
      <4>2. \A w \in o.rhs : w \in DOMAIN r
        BY <3>1 DEF Agree
      <4> QED BY <3>1, <4>1, <4>2, ApplyGroupIs DEF Agree
    <3>4. /\ Factors(o.tape, n).ok
          /\ Agree(ApplyTape(ApplyGroup(r, g, f), v, a.factors),
                   ApplyTape(s, o.tape, Factors(o.tape, n).factors), q)
      BY <2>1, <2>3, <2>5, <3>1, <3>2, <3>3, <2>0, <2>0a DEF PruneSound
    <3> QED BY <2>4, <3>1, <3>4
  <2>7. CASE ~Dropped(o, g)
    <3>0. PICK h : h = PrunedGroup(o, g)
      OBVIOUS
    <3>1. /\ h \in Groups(p.slots, R, C) /\ p.tape # <<>> /\ p.tape[1] = h /\ Tail(p.tape) = o.tape
          /\ p.rhs = o.rhs \union ({g.src} \X PrunedColumns(o, g))
          /\ p.slots = o.slots \union {x[2] : x \in PrunedPairs(o, g)} \union {g.slot}
          /\ IsPruned(p, W, R, C, q)
      <4>1. KeptGroup(p, PrunedGroup(o, g), o, g, R, C) /\ IsPruned(p, W, R, C, q)
        BY <2>1, <2>2, <2>7, PruneGroupIs
      <4> QED BY <3>0, <4>1 DEF KeptGroup
    <3>2. h \in Groups(X, R, C) /\ p.tape \in Seq(Groups(X, R, C)) /\ o.tape \in Seq(Groups(X, R, C))
      <4>1. p.tape \in Seq(Groups(X, R, C)) /\ h \in Groups(X, R, C)
        BY <3>1, GroupsGrow DEF IsPruned
      <4>2. Tail(p.tape) \in Seq(Groups(X, R, C))
        <5>1. PICK y \in Seq(Groups(X, R, C)) : y = p.tape /\ y # <<>>
          BY <3>1, <4>1
        <5>2. Tail(y) \in Seq(Groups(X, R, C))
          BY <5>1, FirstOf
        <5> QED BY <5>1, <5>2
      <4> QED BY <3>1, <4>1, <4>2
    <3>3. /\ h.kind = g.kind /\ h.dst = g.dst /\ h.src = g.src /\ h.slot = g.slot
          /\ h.matrix = PrunedPairs(o, g) /\ h.rhs = PrunedColumns(o, g)
      <4>1. PrunedPairs(o, g) \subseteq g.matrix /\ PrunedColumns(o, g) \subseteq g.rhs
        BY DEF PrunedPairs, PrunedColumns
      <4>2. g.slot \in W /\ \A x \in PrunedPairs(o, g) : x[1] \in W /\ x[2] \in W
        BY <2>1, <4>1 DEF Groups
      <4>3. IsPart(h, g, PrunedPairs(o, g), PrunedColumns(o, g))
        BY <2>1, <4>1, <4>2, <3>0, GroupPart DEF PrunedGroup
      <4> QED BY <4>3 DEF IsPart
    <3>4. /\ ~Stuck(n, h) /\ FactorOf(n, h) = f /\ After(n, h) \in [X -> Field]
          /\ \A w \in o.slots : After(n, h)[w] = After(m, g)[w]
      <4>1. o.slots \subseteq X /\ o.slots \subseteq W
        BY <2>2, <3>1 DEF IsPruned
      <4>2. h.matrix = {x \in g.matrix : x[1] \in o.slots}
        BY <3>3 DEF PrunedPairs
      <4>3. /\ n[g.slot] = m[g.slot] /\ \A w \in o.slots : n[w] = m[w]
            /\ \A x \in h.matrix : n[x[2]] = m[x[2]]
        BY <3>1, <3>3
      <4>4. PICK Y : Y = o.slots
        OBVIOUS
      <4>5. /\ Y \subseteq X /\ Y \subseteq W /\ h.kind = g.kind /\ h.slot = g.slot
            /\ h.matrix = {x \in g.matrix : x[1] \in Y}
            /\ n[g.slot] = m[g.slot] /\ \A w \in Y : n[w] = m[w]
            /\ \A x \in h.matrix : n[x[2]] = m[x[2]]
        BY <3>3, <4>1, <4>2, <4>3, <4>4
      <4>6. ~Stuck(m, g)
        BY <2>3
      <4>7. Followed(m, g, n, h, W, X, Y)
        BY <2>1, <3>2, <4>5, <4>6, MatricesFollow
      <4> QED BY <2>0a, <4>4, <4>7 DEF Followed
    <3>5. Agree(ApplyGroup(r, g, f), ApplyGroup(s, h, f), o.rhs)
      <4>1. Agree(r, s, o.rhs)
        BY <3>1 DEF Agree
      <4>2. \A t2 \in h.rhs : r[<<g.src, t2>>] = s[<<g.src, t2>>]
        BY <3>1, <3>3 DEF Agree
      <4>3. h.rhs = {t2 \in g.rhs : <<g.dst, t2>> \in o.rhs}
        BY <3>3 DEF PrunedColumns
      <4> QED BY <2>1, <3>2, <3>3, <4>1, <4>2, <4>3, WordsFollow
    <3>5a. PICK b : b = Factors(o.tape, After(n, h))
      OBVIOUS
    <3>6. /\ b.ok
          /\ Agree(ApplyTape(ApplyGroup(r, g, f), v, a.factors),
                   ApplyTape(ApplyGroup(s, h, f), o.tape, b.factors), q)
      <4>1. o.slots \subseteq X
        BY <3>1
      <4> QED BY <2>1, <2>3, <2>5, <3>4, <3>5, <4>1, <2>0, <2>0a, <3>5a DEF PruneSound
    <3>7. /\ Factors(p.tape, n).ok
          /\ Factors(p.tape, n).factors \in Seq(Field) /\ Len(Factors(p.tape, n).factors) = Len(p.tape)
          /\ Factors(p.tape, n).factors[1] = f /\ Tail(Factors(p.tape, n).factors) = b.factors
      <4>1. PICK y \in Seq(Groups(X, R, C)) : y = p.tape /\ y # <<>> /\ y[1] = h /\ Tail(y) = o.tape
        BY <3>1, <3>2
      <4>2. FactorsFit(y, n) /\ FactorsFollow(y, n)
        BY <4>1, FactorsFirst
      <4> QED BY <4>1, <4>2, <3>4, <3>6, <3>5a DEF FactorsFit, FactorsFollow
    <3>8. ApplyTape(s, p.tape, Factors(p.tape, n).factors) =
            ApplyTape(ApplyGroup(s, h, f), o.tape, b.factors)
      <4>1. PICK y \in Seq(Groups(X, R, C)) : y = p.tape /\ y # <<>> /\ y[1] = h /\ Tail(y) = o.tape
        BY <3>1, <3>2
      <4>2. PICK z \in Seq(Field) : z = Factors(p.tape, n).factors /\ Len(z) = Len(y)
        BY <3>7, <4>1
      <4>2a. Len(z) = Len(y)
        BY <4>2
      <4>3. ApplyTape(s, y, z) = ApplyTape(ApplyGroup(s, y[1], z[1]), Tail(y), Tail(z))
        BY <4>1, <4>2a, ApplyFirst
      <4> QED BY <4>1, <4>2, <4>3, <3>7
    <3> QED BY <2>4, <3>6, <3>7, <3>8
  <2> QED BY <2>6, <2>7
<1>3. T = Seq(S)
  <2> HIDE DEF T
  <2>1. T \subseteq Seq(S)
    BY DEF T
  <2> QED BY <1>1, <1>2, <2>1, LengthInduction
<1> QED BY <1>3 DEF S

-----------------------------------------------------------------------------
(* What is gathered over couplings, and what a target block needs. *)

(***************************************************************************)
(* Folds over sets.                                                        *)
(***************************************************************************)
Chosen(T) == CHOOSE x \in T : TRUE

\* A fold over a set, in the order the set gives its elements.
GatherOf(it, base, c, S, how) ==
  [T \in SUBSET S |-> IF T = {} THEN base
                      ELSE StepOf(it[T \ {CHOOSE x \in T : TRUE}], c, CHOOSE x \in T : TRUE, how)]

IsGather(it, base, c, S, how) == it = GatherOf(it, base, c, S, how)

Gathered(base, c, S, how) == (CHOOSE it : IsGather(it, base, c, S, how))[S]

GatherAt(it, base, c, how, T) ==
  it[T] = IF T = {} THEN base ELSE StepOf(it[T \ {Chosen(T)}], c, Chosen(T), how)

\* A set of no element.
LEMMA NoneLeft ==
  ASSUME NEW T, IsFiniteSet(T), Cardinality(T) <= 0
  PROVE  T = {}
BY FS_EmptySet, FS_CardinalityType

\* The recursive function behind such a fold exists.
LEMMA GatherExists ==
  ASSUME NEW base, NEW c, NEW S, IsFiniteSet(S), NEW how
  PROVE  \E it : IsGather(it, base, c, S, how)
<1> DEFINE Solves(it, k) == \A T \in SUBSET S : Cardinality(T) <= k => GatherAt(it, base, c, how, T)
           K == {k \in Nat : \E it : it = [T \in SUBSET S |-> it[T]] /\ Solves(it, k)}
<1>1. \A T \in SUBSET S : IsFiniteSet(T)
  BY FS_Subset
<1>2. 0 \in K
  <2> DEFINE it == [T \in SUBSET S |-> base]
  <2>1. Solves(it, 0)
    BY <1>1, NoneLeft DEF GatherAt
  <2> QED BY <2>1
<1>3. ASSUME NEW k \in Nat, k \in K PROVE k + 1 \in K
  <2>1. PICK it : Solves(it, k)
    BY <1>3
  <2> DEFINE e(T) == IF T = {} THEN base ELSE StepOf(it[T \ {Chosen(T)}], c, Chosen(T), how)
             u == [T \in SUBSET S |-> e(T)]
  <2>2. \A T \in SUBSET S : u[T] = e(T)
    OBVIOUS
  <2>2a. u = [T \in SUBSET S |-> u[T]]
    <3> HIDE DEF e
    <3> QED OBVIOUS
  <2> HIDE DEF u
  <2>3. \A T \in SUBSET S : Cardinality(T) <= k => u[T] = it[T]
    BY <2>1, <2>2 DEF GatherAt
  <2>4. ASSUME NEW T \in SUBSET S, Cardinality(T) <= k + 1
        PROVE  GatherAt(u, base, c, how, T)
    <3>1. CASE T = {}
      BY <2>2, <3>1 DEF GatherAt
    <3>2. CASE T # {}
      <4>1. Chosen(T) \in T
        BY <3>2 DEF Chosen
      <4>2. T \ {Chosen(T)} \in SUBSET S /\ Cardinality(T \ {Chosen(T)}) <= k
        BY <1>1, <2>4, <4>1, OneLess
      <4>3. u[T \ {Chosen(T)}] = it[T \ {Chosen(T)}]
        BY <2>3, <4>2
      <4> QED BY <2>2, <3>2, <4>3 DEF GatherAt
    <3> QED BY <3>1, <3>2
  <2>5. Solves(u, k + 1)
    BY <2>4
  <2>6. \E v : v = [T \in SUBSET S |-> v[T]] /\ Solves(v, k + 1)
    BY <2>2a, <2>5
  <2>7. k + 1 \in Nat
    OBVIOUS
  <2> HIDE DEF Solves
  <2> QED BY <2>6, <2>7
<1>4. Cardinality(S) \in K
  <2>1. Cardinality(S) \in Nat
    BY FS_CardinalityType
  <2> HIDE DEF K
  <2> QED BY <2>1, <1>2, <1>3, SetInduction
<1>5. PICK it : it = [T \in SUBSET S |-> it[T]] /\ Solves(it, Cardinality(S))
  BY <1>4
<1>6. \A T \in SUBSET S : Cardinality(T) <= Cardinality(S)
  BY FS_Subset
<1>7. \A T \in SUBSET S : GatherAt(it, base, c, how, T)
  BY <1>5, <1>6
<1> DEFINE e(T) == IF T = {} THEN base
                   ELSE StepOf(it[T \ {CHOOSE x \in T : TRUE}], c, CHOOSE x \in T : TRUE, how)
<1>8. \A T \in SUBSET S : it[T] = e(T)
  BY <1>7 DEF GatherAt, Chosen
<1>9. GatherOf(it, base, c, S, how) = [T \in SUBSET S |-> e(T)]
  BY DEF GatherOf
<1>10. it = [T \in SUBSET S |-> e(T)]
  <2> HIDE DEF e
  <2> QED BY <1>5, <1>8
<1> QED BY <1>9, <1>10 DEF IsGather

\* The results from subset to subset.
Gathers(it, base, c, S, how) ==
  /\ \A T \in SUBSET S : GatherAt(it, base, c, how, T)
  /\ it[S] = Gathered(base, c, S, how)

\* Such a fold, by the sets it has passed.
LEMMA GatherIs ==
  ASSUME NEW base, NEW c, NEW S, IsFiniteSet(S), NEW how
  PROVE  \E it : Gathers(it, base, c, S, how)
<1> DEFINE it == CHOOSE it : IsGather(it, base, c, S, how)
<1>1. IsGather(it, base, c, S, how)
  BY GatherExists
<1>2. it[S] = Gathered(base, c, S, how)
  BY DEF Gathered
<1> HIDE DEF it
<1> DEFINE e(T) == IF T = {} THEN base
                   ELSE StepOf(it[T \ {CHOOSE x \in T : TRUE}], c, CHOOSE x \in T : TRUE, how)
<1>3. it = [T \in SUBSET S |-> e(T)]
  BY <1>1 DEF IsGather, GatherOf
<1>4. \A T \in SUBSET S : it[T] = e(T)
  <2> HIDE DEF e
  <2> QED BY <1>3
<1>5. \A T \in SUBSET S : GatherAt(it, base, c, how, T)
  BY <1>4 DEF GatherAt, Chosen
<1> QED BY <1>2, <1>5 DEF Gathers

\* A property of the subsets, carried from each to one with an element more.
LEMMA SubsetInduction ==
  ASSUME NEW S, IsFiniteSet(S), NEW Q, {} \in Q,
         \A T \in SUBSET S : T # {} /\ T \ {Chosen(T)} \in Q => T \in Q
  PROVE  S \in Q
<1> DEFINE K == {k \in Nat : \A T \in SUBSET S : Cardinality(T) <= k => T \in Q}
<1>1. \A T \in SUBSET S : IsFiniteSet(T)
  BY FS_Subset
<1>2. 0 \in K
  BY <1>1, NoneLeft
<1>3. ASSUME NEW k \in Nat, k \in K PROVE k + 1 \in K
  <2> SUFFICES ASSUME NEW T \in SUBSET S, Cardinality(T) <= k + 1 PROVE T \in Q
    OBVIOUS
  <2>1. CASE T = {}
    BY <2>1
  <2>2. CASE T # {}
    <3>1. Chosen(T) \in T
      BY <2>2 DEF Chosen
    <3>2. T \ {Chosen(T)} \in SUBSET S /\ Cardinality(T \ {Chosen(T)}) <= k
      BY <1>1, <3>1, OneLess
    <3>3. T \ {Chosen(T)} \in Q
      BY <1>3, <3>2
    <3> QED BY <2>2, <3>3
  <2> QED BY <2>1, <2>2
<1>4. Cardinality(S) \in Nat /\ Cardinality(S) <= Cardinality(S)
  <2>1. Cardinality(S) \in Nat
    BY FS_CardinalityType
  <2> QED BY <2>1
<1>5. Cardinality(S) \in K
  <2> HIDE DEF K
  <2> QED BY <1>2, <1>3, <1>4, SetInduction
<1> QED BY <1>4, <1>5

(***************************************************************************)
(* Couplings.                                                              *)
(***************************************************************************)
\* A coupling as a group of one operation.
CoupleGroup(c, x) ==
  [kind |-> "eliminate", dst |-> x[1], src |-> c.plan.at[x[2]], rhs |-> c.kernel.columns[x]]

\* Couplings do what groups do.
LEMMA CoupleIs ==
  ASSUME NEW c, NEW x, NEW words
  PROVE  /\ StepOf(words, c, x, "couple") =
              ApplyGroup(words, CoupleGroup(c, x), c.point.matrix[x])
         /\ StepOf(words, c, x, "transpose") =
              ApplyTransposed(words, CoupleGroup(c, x), c.point.matrix[x])
<1>1. StepOf(words, c, x, "couple") = Couple(c.plan, c.kernel, c.point.matrix, words, x)
  BY StepCouple
<1>2. StepOf(words, c, x, "transpose") =
        CoupleTransposed(c.plan, c.kernel, c.point.matrix, words, x)
  BY StepCoupleTransposed
<1>3. /\ CoupleGroup(c, x).kind = "eliminate" /\ CoupleGroup(c, x).dst = x[1]
      /\ CoupleGroup(c, x).src = c.plan.at[x[2]] /\ CoupleGroup(c, x).rhs = c.kernel.columns[x]
  BY DEF CoupleGroup
<1>4. Couple(c.plan, c.kernel, c.point.matrix, words, x) =
        ApplyGroup(words, CoupleGroup(c, x), c.point.matrix[x])
  BY <1>3 DEF Couple, ApplyGroup, Updated
<1>5. CoupleTransposed(c.plan, c.kernel, c.point.matrix, words, x) =
        ApplyTransposed(words, CoupleGroup(c, x), c.point.matrix[x])
  BY <1>3 DEF CoupleTransposed, ApplyTransposed, Updated
<1> QED BY <1>1, <1>2, <1>4, <1>5

\* The couplings of a block as a fold by name of step.
LEMMA CoupledFold ==
  ASSUME NEW c, NEW words, NEW S
  PROVE  /\ FoldSet(LAMBDA x, w : Couple(c.plan, c.kernel, c.point.matrix, w, x), words, S) =
              Gathered(words, c, S, "couple")
         /\ FoldSet(LAMBDA x, w : CoupleTransposed(c.plan, c.kernel, c.point.matrix, w, x), words, S) =
              Gathered(words, c, S, "transpose")
<1>1. FoldSet(LAMBDA x, w : Couple(c.plan, c.kernel, c.point.matrix, w, x), words, S) =
        Gathered(words, c, S, "couple")
  BY DEF FoldSet, MapThenFoldSet, StepOf, Gathered, IsGather, GatherOf
<1>2. FoldSet(LAMBDA x, w : CoupleTransposed(c.plan, c.kernel, c.point.matrix, w, x), words, S) =
        Gathered(words, c, S, "transpose")
  BY DEF FoldSet, MapThenFoldSet, StepOf, Gathered, IsGather, GatherOf
<1> QED BY <1>1, <1>2

\* A block of either pass, with its couplings gathered.
FactorsAt(c, block) ==
  Factors(c.kernel.tapes[block], Loaded(c.kernel.tapes[block], c.point.matrix))

\* A block of a target replay: tape, then couplings.
LEMMA TargetBlockIs ==
  ASSUME NEW s, NEW c, NEW block
  PROVE  TargetBlock(s, c, block) =
           IF ~s.ok \/ ~FactorsAt(c, block).ok THEN [s EXCEPT !.ok = FALSE]
           ELSE [s EXCEPT !.words =
                   Gathered(ApplyTape(s.words, c.kernel.tapes[block], FactorsAt(c, block).factors),
                            c, Couplings(c.plan.layout, block), "couple")]
<1> DEFINE f == FactorsAt(c, block)
<1>1. TargetBlock(s, c, block) =
        IF ~s.ok \/ ~f.ok THEN [s EXCEPT !.ok = FALSE]
        ELSE [s EXCEPT !.words =
                FoldSet(LAMBDA x, words : Couple(c.plan, c.kernel, c.point.matrix, words, x),
                        ApplyTape(s.words, c.kernel.tapes[block], f.factors),
                        Couplings(c.plan.layout, block))]
  BY DEF TargetBlock, FactorsAt
<1> QED BY <1>1, CoupledFold

\* A block of a master replay: couplings, then tape, transposed.
LEMMA MasterBlockIs ==
  ASSUME NEW s, NEW c, NEW block
  PROVE  MasterBlock(s, c, block) =
           IF ~s.ok \/ ~FactorsAt(c, block).ok THEN [s EXCEPT !.ok = FALSE]
           ELSE [s EXCEPT !.words =
                   ApplyTapeTransposed(
                     Gathered(s.words, c, Couplings(c.plan.layout, block), "transpose"),
                     c.kernel.tapes[block], FactorsAt(c, block).factors)]
<1> DEFINE f == FactorsAt(c, block)
<1>1. MasterBlock(s, c, block) =
        IF ~s.ok \/ ~f.ok THEN [s EXCEPT !.ok = FALSE]
        ELSE [s EXCEPT !.words =
                ApplyTapeTransposed(
                  FoldSet(LAMBDA x, words :
                            CoupleTransposed(c.plan, c.kernel, c.point.matrix, words, x),
                          s.words, Couplings(c.plan.layout, block)),
                  c.kernel.tapes[block], f.factors)]
  BY DEF MasterBlock, FactorsAt
<1> QED BY <1>1, CoupledFold

-----------------------------------------------------------------------------
(* A tape writes only what it has slots for; what is loaded into them. *)

(***************************************************************************)
(* The words a tape loads.                                                 *)
(***************************************************************************)
LEMMA SameByFirst ==
  ASSUME NEW S, NEW s \in Seq(S), NEW u \in Seq(S), Len(s) = Len(u), s # <<>>, s[1] = u[1],
         Tail(s) = Tail(u)
  PROVE  s = u
<1>1. u # <<>>
  OBVIOUS
<1>2. /\ Len(s) = Len(Tail(s)) + 1 /\ DOMAIN s = 1 .. Len(Tail(s)) + 1 /\ Len(Tail(s)) \in Nat
      /\ \A i \in 1 .. Len(Tail(s)) : Tail(s)[i] = s[i + 1]
  BY FirstOf
<1>3. /\ DOMAIN u = 1 .. Len(Tail(u)) + 1
      /\ \A i \in 1 .. Len(Tail(u)) : Tail(u)[i] = u[i + 1]
  BY <1>1, FirstOf
<1>4. PICK n \in Nat : n = Len(Tail(s)) /\ n = Len(Tail(u))
  BY <1>2
<1>5. ASSUME NEW i \in 1 .. n + 1 PROVE s[i] = u[i]
  <2>1. CASE i = 1
    BY <2>1
  <2>2. CASE i # 1
    <3>1. PICK j \in 1 .. n : i = j + 1
      <4>1. i - 1 \in 1 .. n /\ i = (i - 1) + 1
        BY <2>2
      <4> QED BY <4>1
    <3>2. s[j + 1] = Tail(s)[j] /\ u[j + 1] = Tail(u)[j]
      BY <1>2, <1>3, <1>4
    <3> QED BY <3>1, <3>2
  <2> QED BY <2>1, <2>2
<1>6. s \in [1 .. n + 1 -> S] /\ u \in [1 .. n + 1 -> S]
  <2>1. Len(s) = n + 1 /\ Len(u) = n + 1
    BY <1>2, <1>4
  <2> QED BY <2>1
<1> QED BY <1>5, <1>6

\* Two tapes, on a matrix each, with the same factors.
SameFactors(t, n, u, m) ==
  /\ Factors(t, n).ok <=> Factors(u, m).ok
  /\ Factors(u, m).ok => Factors(t, n).factors = Factors(u, m).factors

\* The factors depend on the slots of the tape alone.
LEMMA FactorsRestrict ==
  ASSUME NEW W, NEW X, X \subseteq W, NEW R, NEW C, NEW t \in Seq(Groups(X, R, C)),
         NEW m \in [W -> Field], NEW n \in [X -> Field], \A w \in X : n[w] = m[w]
  PROVE  SameFactors(t, n, t, m)
<1> DEFINE S == Groups(X, R, C)
           T == {u \in Seq(S) : \A a \in [W -> Field], b \in [X -> Field] :
                   (\A w \in X : b[w] = a[w]) => SameFactors(u, b, u, a)}
<1> HIDE DEF S
<1>1. <<>> \in T
  <2>1. <<>> \in Seq(S)
    OBVIOUS
  <2>2. \A a : Factors(<<>>, a) = [ok |-> TRUE, matrix |-> a, factors |-> <<>>]
    BY RunNone, FactorsRun
  <2>3. \A a : Factors(<<>>, a).ok /\ Factors(<<>>, a).factors = <<>>
    BY <2>2
  <2> QED BY <2>1, <2>3 DEF SameFactors
<1>2. ASSUME NEW u \in Seq(S), u # <<>>, Tail(u) \in T PROVE u \in T
  <2> SUFFICES ASSUME NEW a \in [W -> Field], NEW b \in [X -> Field], \A w \in X : b[w] = a[w]
               PROVE  SameFactors(u, b, u, a)
    OBVIOUS
  <2>0. PICK g, v : g = u[1] /\ v = Tail(u)
    OBVIOUS
  <2>1. g \in Groups(X, R, C) /\ v \in Seq(Groups(X, R, C))
    BY <1>2, <2>0, FirstOf DEF S
  <2>2. g \in Groups(W, R, C) /\ u \in Seq(Groups(W, R, C)) /\ u \in Seq(Groups(X, R, C))
    BY <2>1, GroupsGrow DEF S
  <2>3. FactorsFollow(u, a) /\ FactorsFollow(u, b) /\ FactorsFit(u, a) /\ FactorsFit(u, b)
    BY <1>2, <2>2, FactorsFirst
  <2>4. g.slot \in X
    BY <2>1 DEF Groups
  <2>5. Stuck(b, g) <=> Stuck(a, g)
    BY <2>4 DEF Stuck
  <2>6. CASE Stuck(a, g)
    BY <2>0, <2>3, <2>5, <2>6 DEF FactorsFollow, SameFactors
  <2>7. CASE ~Stuck(a, g)
    <3>1. \A o \in g.matrix : o[1] \in X /\ o[2] \in X
      BY <2>1 DEF Groups
    <3>2. g.matrix = {o \in g.matrix : o[1] \in X} /\ \A o \in g.matrix : b[o[2]] = a[o[2]]
      BY <3>1
    <3>3. Followed(a, g, b, g, W, X, X)
      BY <2>1, <2>2, <2>4, <2>7, <3>2, MatricesFollow
    <3>4. SameFactors(v, After(b, g), v, After(a, g))
      BY <1>2, <2>0, <3>3 DEF Followed
    <3>5. Factors(u, b).ok <=> Factors(u, a).ok
      BY <2>0, <2>3, <2>5, <2>7, <3>4 DEF FactorsFollow, SameFactors
    <3>6. ASSUME Factors(u, a).ok PROVE Factors(u, b).factors = Factors(u, a).factors
      <4>1. PICK x \in Seq(Field), y \in Seq(Field) :
              x = Factors(u, b).factors /\ y = Factors(u, a).factors /\ Len(x) = Len(u) /\ Len(y) = Len(u)
        BY <2>3, <3>5, <3>6 DEF FactorsFit
      <4>2. x[1] = FactorOf(b, g) /\ y[1] = FactorOf(a, g) /\ Tail(x) = Factors(v, After(b, g)).factors
            /\ Tail(y) = Factors(v, After(a, g)).factors /\ Factors(v, After(a, g)).ok
        BY <2>0, <2>3, <3>5, <3>6, <4>1 DEF FactorsFollow
      <4>3. x[1] = y[1] /\ Tail(x) = Tail(y)
        BY <3>3, <3>4, <4>2 DEF Followed, SameFactors
      <4>4. Len(x) = Len(y) /\ x # <<>>
        <5>1. Len(u) # 0
          BY <1>2
        <5> QED BY <4>1, <5>1
      <4> QED BY <4>1, <4>3, <4>4, SameByFirst
    <3> QED BY <3>5, <3>6 DEF SameFactors
  <2> QED BY <2>6, <2>7
<1>3. T = Seq(S)
  <2> HIDE DEF T
  <2>1. T \subseteq Seq(S)
    BY DEF T
  <2> QED BY <1>1, <1>2, <2>1, LengthInduction
<1> QED BY <1>3 DEF S

\* The words of every slot of W at a point.
MatrixOf(v, W) == [w \in W |-> IF w[3] = 0 THEN v[<<w[1], w[2]>>] ELSE 0]

\* The slots a tape names.
SlotsOf(t) ==
  LET pairs == UNION {g.matrix : g \in ToSet(t)}
  IN  {g.slot : g \in ToSet(t)} \union {o[1] : o \in pairs} \union {o[2] : o \in pairs}

\* They are those of its groups.
LEMMA SlotsOfAre ==
  ASSUME NEW t, NEW X
  PROVE  SlotsOf(t) \subseteq X <=>
           \A g \in ToSet(t) : g.slot \in X /\ \A o \in g.matrix : o[1] \in X /\ o[2] \in X
<1>1. \A w : w \in SlotsOf(t) <=>
        \E g \in ToSet(t) : w = g.slot \/ \E o \in g.matrix : w = o[1] \/ w = o[2]
  BY DEF SlotsOf
<1>2. ASSUME SlotsOf(t) \subseteq X, NEW g \in ToSet(t)
      PROVE  g.slot \in X /\ \A o \in g.matrix : o[1] \in X /\ o[2] \in X
  <2>1. \A w : (w = g.slot \/ \E o \in g.matrix : w = o[1] \/ w = o[2]) => w \in X
    BY <1>1, <1>2
  <2> QED BY <2>1
<1>3. ASSUME \A g \in ToSet(t) : g.slot \in X /\ \A o \in g.matrix : o[1] \in X /\ o[2] \in X,
             NEW w \in SlotsOf(t)
      PROVE  w \in X
  <2>1. PICK g \in ToSet(t) : w = g.slot \/ \E o \in g.matrix : w = o[1] \/ w = o[2]
    BY <1>1
  <2> QED BY <1>3, <2>1
<1> QED BY <1>2, <1>3

\* A tape is one over the slots it names.
LEMMA SlotsFit ==
  ASSUME NEW W, NEW R, NEW C, NEW t \in Seq(Groups(W, R, C))
  PROVE  SlotsOf(t) \subseteq W /\ t \in Seq(Groups(SlotsOf(t), R, C))
<1>1. DOMAIN t = 1 .. Len(t) /\ Len(t) \in Nat /\ \A i \in DOMAIN t : t[i] \in Groups(W, R, C)
  OBVIOUS
<1>2. \A g \in ToSet(t) : \E i \in DOMAIN t : g = t[i]
  BY DEF ToSet
<1>3. SlotsOf(t) \subseteq W
  <2>1. \A g \in ToSet(t) : g.slot \in W /\ \A o \in g.matrix : o[1] \in W /\ o[2] \in W
    BY <1>1, <1>2 DEF Groups
  <2> QED BY <2>1, SlotsOfAre
<1>4. ASSUME NEW i \in DOMAIN t PROVE t[i] \in Groups(SlotsOf(t), R, C)
  <2>0. PICK g : g = t[i]
    OBVIOUS
  <2>1. g \in ToSet(t) /\ g \in Groups(W, R, C)
    BY <1>1, <2>0 DEF ToSet
  <2>2. PICK X : X = SlotsOf(t)
    OBVIOUS
  <2>3. g.slot \in X /\ \A o \in g.matrix : o[1] \in X /\ o[2] \in X
    <3>1. SlotsOf(t) \subseteq X
      BY <2>2
    <3>2. \A h \in ToSet(t) : h.slot \in X /\ \A o \in h.matrix : o[1] \in X /\ o[2] \in X
      BY <3>1, SlotsOfAre
    <3> QED BY <2>1, <3>2
  <2>4. /\ g \in [kind : {"scale", "eliminate"}, dst : R, src : R, slot : W,
                  matrix : SUBSET (W \X W), rhs : SUBSET C]
        /\ g.kind = "scale" => g.dst = g.src
        /\ \A o, q \in g.matrix : o[1] = q[1] => o = q
    BY <2>1 DEF Groups
  <2>5. g.matrix \subseteq X \X X
    BY <2>3, <2>4
  <2>6. g \in [kind : {"scale", "eliminate"}, dst : R, src : R, slot : X,
                  matrix : SUBSET (X \X X), rhs : SUBSET C]
    BY <2>3, <2>4, <2>5
  <2>7. g \in Groups(X, R, C)
    BY <2>4, <2>6 DEF Groups
  <2> QED BY <2>0, <2>2, <2>7
<1>5. t \in Seq(Groups(SlotsOf(t), R, C))
  <2>1. PICK S : S = Groups(SlotsOf(t), R, C)
    OBVIOUS
  <2>2. t \in [1 .. Len(t) -> S]
    <3>1. t = [i \in 1 .. Len(t) |-> t[i]]
      BY <1>1
    <3> QED BY <1>1, <1>4, <2>1, <3>1
  <2>3. t \in Seq(S)
    BY <1>1, <2>2
  <2> QED BY <2>1, <2>3
<1> QED BY <1>3, <1>5

\* What is loaded for a tape are the words of its slots.
LEMMA LoadedFactors ==
  ASSUME NEW W, NEW R, NEW C, NEW t \in Seq(Groups(W, R, C)), NEW v, MatrixOf(v, W) \in [W -> Field]
  PROVE  SameFactors(t, Loaded(t, v), t, MatrixOf(v, W))
<1> DEFINE X == SlotsOf(t)
<1>1. X \subseteq W /\ t \in Seq(Groups(X, R, C))
  BY SlotsFit
<1>2. Loaded(t, v) = [w \in X |-> IF w[3] = 0 THEN v[<<w[1], w[2]>>] ELSE Cleared(X)[w]]
  BY DEF Loaded, SlotsOf
<1> HIDE DEF X
<1>3. \A w \in X : Cleared(X)[w] = 0
  BY DEF Cleared
<1>4. \A w \in X : Loaded(t, v)[w] = MatrixOf(v, W)[w]
  <2> SUFFICES ASSUME NEW w \in X PROVE Loaded(t, v)[w] = MatrixOf(v, W)[w]
    OBVIOUS
  <2>1. w \in W
    BY <1>1
  <2>2. MatrixOf(v, W)[w] = IF w[3] = 0 THEN v[<<w[1], w[2]>>] ELSE 0
    BY <2>1 DEF MatrixOf
  <2>3. Loaded(t, v)[w] = IF w[3] = 0 THEN v[<<w[1], w[2]>>] ELSE Cleared(X)[w]
    BY <1>2
  <2> QED BY <1>3, <2>2, <2>3
<1>5. Loaded(t, v) \in [X -> Field]
  <2>1. DOMAIN Loaded(t, v) = X /\ Loaded(t, v) = [w \in X |-> Loaded(t, v)[w]]
    <3> DEFINE e(w) == IF w[3] = 0 THEN v[<<w[1], w[2]>>] ELSE Cleared(X)[w]
    <3>1. Loaded(t, v) = [w \in X |-> e(w)]
      BY <1>2
    <3> HIDE DEF e
    <3> QED BY <3>1
  <2>2. \A w \in X : MatrixOf(v, W)[w] \in Field
    BY <1>1
  <2> QED BY <1>4, <2>1, <2>2
<1> QED BY <1>1, <1>4, <1>5, FactorsRestrict

\* A tape writes the words of its rows only.
LEMMA TapeLeaves ==
  ASSUME NEW W, NEW R, NEW C, NEW t \in Seq(Groups(W, R, C)), NEW fs \in Seq(Field), Len(fs) = Len(t),
         NEW r
  PROVE  /\ DOMAIN ApplyTape(r, t, fs) = DOMAIN r
         /\ \A w \in DOMAIN r : w[1] \notin R => ApplyTape(r, t, fs)[w] = r[w]
<1> DEFINE S == Groups(W, R, C)
           Leaves(u, es, s) ==
             /\ DOMAIN ApplyTape(s, u, es) = DOMAIN s
             /\ \A w \in DOMAIN s : w[1] \notin R => ApplyTape(s, u, es)[w] = s[w]
           T == {u \in Seq(S) : \A es \in Seq(Field) : \A s : Len(es) = Len(u) => Leaves(u, es, s)}
<1> HIDE DEF S
<1>1. <<>> \in T
  <2>1. <<>> \in Seq(S)
    OBVIOUS
  <2>2. \A es, s : ApplyTape(s, <<>>, es) = s
    BY ApplyNone
  <2> QED BY <2>1, <2>2
<1>2. ASSUME NEW u \in Seq(S), u # <<>>, Tail(u) \in T PROVE u \in T
  <2> SUFFICES ASSUME NEW es \in Seq(Field), NEW s, Len(es) = Len(u) PROVE Leaves(u, es, s)
    OBVIOUS
  <2>0. PICK g : g = u[1]
    OBVIOUS
  <2>1. g \in Groups(W, R, C) /\ Len(u) = Len(Tail(u)) + 1 /\ Len(Tail(u)) \in Nat
    BY <1>2, <2>0, FirstOf DEF S
  <2>2. Tail(es) \in Seq(Field) /\ Len(Tail(es)) = Len(Tail(u))
    BY <2>1, TailIs
  <2>3. g.dst \in R
    BY <2>1 DEF Groups
  <2>4. PICK s1 : s1 = ApplyGroup(s, g, es[1])
    OBVIOUS
  <2>5. DOMAIN s1 = DOMAIN s /\ \A w \in DOMAIN s : w[1] \notin R => s1[w] = s[w]
    <3>1. /\ DOMAIN s1 = DOMAIN s
          /\ \A w \in DOMAIN s : w \notin {g.dst} \X g.rhs => s1[w] = s[w]
      BY <2>4, ApplyGroupIs
    <3>2. \A w : w[1] \notin R => w \notin {g.dst} \X g.rhs
      BY <2>3
    <3> QED BY <3>1, <3>2
  <2>6. Leaves(Tail(u), Tail(es), s1)
    BY <1>2, <2>2
  <2>7. ApplyTape(s, u, es) = ApplyTape(s1, Tail(u), Tail(es))
    BY <1>2, <2>0, <2>4, ApplyFirst
  <2> QED BY <2>5, <2>6, <2>7
<1>3. T = Seq(S)
  <2> HIDE DEF T
  <2>1. T \subseteq Seq(S)
    BY DEF T
  <2> QED BY <1>1, <1>2, <2>1, LengthInduction
<1> QED BY <1>3 DEF S

-----------------------------------------------------------------------------
(* One block of a target kernel answers what the recording answers there. *)

(***************************************************************************)
(* The target orientation.                                                 *)
(***************************************************************************)
Slots(p) ==
  {w \in Positions \X Positions \X Nat : w[3] = 0 => <<w[1], w[2]>> \in DOMAIN p.layout.matrix}

\* What replaying relies on: n blocks part the positions, and the tape of each
\* works on its rows.
PlanFits(p, n) ==
  /\ n \in Nat /\ DOMAIN p.layout.blocks = 1 .. n
  /\ \A b \in 1 .. n : p.layout.blocks[b] \subseteq Positions
  /\ \A b, e \in 1 .. n : b # e => p.layout.blocks[b] \intersect p.layout.blocks[e] = {}
  /\ \A i \in Positions : \E b \in 1 .. n : i \in p.layout.blocks[b]
  /\ DOMAIN p.layout.matrix \subseteq Positions \X Positions
  /\ p.layout.rhs \subseteq Positions \X Requests
  /\ \A b \in 1 .. n : p.tapes[b] \in Seq(Groups(Slots(p), p.layout.blocks[b], Requests))
  /\ \A b \in 1 .. n : \A i \in p.layout.blocks[b] : p.at[i] \in p.layout.blocks[b]

\* A point of a plan: a number for each coefficient.
PointFits(p, v) ==
  /\ v.matrix \in [DOMAIN p.layout.matrix -> Field]
  /\ v.rhs \in [p.layout.rhs -> Field]

\* Outputs that the plan can deliver.
OutputsFit(p, outputs) ==
  \A o \in outputs : o[1] \in Requests /\ SolutionRow(p, o[2]) \in p.layout.blocks[1]

\* The matrix of a point is in the field.
LEMMA MatrixTyped ==
  ASSUME NEW p, NEW n, PlanFits(p, n), NEW v, PointFits(p, v)
  PROVE  MatrixOf(v.matrix, Slots(p)) \in [Slots(p) -> Field]
<1>1. ASSUME NEW w \in Slots(p)
      PROVE  (IF w[3] = 0 THEN v.matrix[<<w[1], w[2]>>] ELSE 0) \in Field
  BY PrimeIs DEF Slots, PointFits
<1> QED BY <1>1 DEF MatrixOf

\* The block of a position.
LEMMA BlockIs ==
  ASSUME NEW p, NEW n, PlanFits(p, n), NEW b \in 1 .. n, NEW i \in p.layout.blocks[b]
  PROVE  BlockOf(p.layout, i) = b
BY DEF PlanFits, BlockOf

\* A coupling leads from a block to an earlier one.
LEMMA CouplingsAre ==
  ASSUME NEW p, NEW n, PlanFits(p, n), NEW b \in 1 .. n, NEW x \in Couplings(p.layout, b)
  PROVE  /\ x \in DOMAIN p.layout.matrix /\ x \in Positions \X Positions
         /\ x[2] \in p.layout.blocks[b] /\ p.at[x[2]] \in p.layout.blocks[b]
         /\ \E e \in 1 .. b - 1 : x[1] \in p.layout.blocks[e]
         /\ x[1] \notin p.layout.blocks[b] /\ b # 1
<1>1. /\ x \in DOMAIN p.layout.matrix /\ x \in Positions \X Positions
      /\ x[2] \in p.layout.blocks[b] /\ BlockOf(p.layout, x[1]) < b
  BY DEF Couplings, PlanFits
<1>2. p.at[x[2]] \in p.layout.blocks[b]
  BY <1>1 DEF PlanFits
<1>3. PICK e \in 1 .. n : x[1] \in p.layout.blocks[e]
  BY <1>1 DEF PlanFits
<1>4. BlockOf(p.layout, x[1]) = e
  BY <1>3, BlockIs
<1>5. n \in Nat /\ e < b
  BY <1>1, <1>4 DEF PlanFits
<1>6. e \in 1 .. b - 1 /\ b # 1 /\ b # e
  BY <1>5
<1>7. x[1] \notin p.layout.blocks[b]
  BY <1>3, <1>6 DEF PlanFits
<1> QED BY <1>1, <1>2, <1>3, <1>6, <1>7

\* There are finitely many.
LEMMA CouplingsFinite ==
  ASSUME NEW p, NEW n, PlanFits(p, n), NEW b \in 1 .. n
  PROVE  IsFiniteSet(Couplings(p.layout, b))
<1>1. IsFiniteSet(Positions)
  BY SystemsAssumption, FS_Interval DEF Positions
<1>2. IsFiniteSet(Positions \X Positions)
  BY <1>1, FS_Product
<1>3. Couplings(p.layout, b) \subseteq Positions \X Positions
  BY CouplingsAre
<1> QED BY <1>2, <1>3, FS_Subset

\* Couplings keep the agreement of words, if the words they read agree and both
\* act on the columns that are compared.
LEMMA CouplingsAgree ==
  ASSUME NEW c, NEW d, c.plan = d.plan, c.point = d.point, NEW S, IsFiniteSet(S), NEW A, NEW q,
         \A x \in S : \A t : <<x[1], t>> \in A =>
           t \in c.kernel.columns[x] /\ t \in d.kernel.columns[x] /\ <<c.plan.at[x[2]], t>> \in q,
         \A x \in S : \A w \in q : w[1] # x[1],
         NEW r, NEW s, Agree(r, s, A \union q)
  PROVE  Agree(Gathered(r, d, S, "couple"), Gathered(s, c, S, "couple"), A \union q)
<1>1. PICK ir : Gathers(ir, r, d, S, "couple")
  BY GatherIs
<1>2. PICK is : Gathers(is, s, c, S, "couple")
  BY GatherIs
<1> DEFINE Q == {T \in SUBSET S : Agree(ir[T], is[T], A \union q)}
<1>3. {} \in Q
  <2>1. ir[{}] = r /\ is[{}] = s
    BY <1>1, <1>2 DEF Gathers, GatherAt
  <2> QED BY <2>1
<1>4. ASSUME NEW T \in SUBSET S, T # {}, T \ {Chosen(T)} \in Q
      PROVE  T \in Q
  <2>1. PICK x : x = Chosen(T)
    OBVIOUS
  <2>2. x \in T /\ x \in S
    BY <1>4, <2>1 DEF Chosen
  <2>3. PICK a, e : a = ir[T \ {x}] /\ e = is[T \ {x}] /\ Agree(a, e, A \union q)
    BY <1>4, <2>1
  <2>4. PICK g, h, f : g = CoupleGroup(d, x) /\ h = CoupleGroup(c, x) /\ f = c.point.matrix[x]
    OBVIOUS
  <2>5. ir[T] = ApplyGroup(a, g, f) /\ is[T] = ApplyGroup(e, h, f)
    <3>1. /\ ir[T] = StepOf(a, d, x, "couple") /\ is[T] = StepOf(e, c, x, "couple")
      BY <1>1, <1>2, <1>4, <2>1, <2>3 DEF Gathers, GatherAt
    <3>2. StepOf(a, d, x, "couple") = ApplyGroup(a, CoupleGroup(d, x), d.point.matrix[x])
      BY CoupleIs
    <3>3. StepOf(e, c, x, "couple") = ApplyGroup(e, CoupleGroup(c, x), c.point.matrix[x])
      BY CoupleIs
    <3> QED BY <2>4, <3>1, <3>2, <3>3
  <2>6. /\ g.kind = "eliminate" /\ h.kind = "eliminate" /\ g.dst = x[1] /\ h.dst = x[1]
        /\ g.src = c.plan.at[x[2]] /\ h.src = c.plan.at[x[2]]
        /\ g.rhs = d.kernel.columns[x] /\ h.rhs = c.kernel.columns[x]
    BY <2>4 DEF CoupleGroup
  <2>7. DOMAIN ApplyGroup(a, g, f) = DOMAIN a /\ DOMAIN ApplyGroup(e, h, f) = DOMAIN e
    BY ApplyGroupIs
  <2>8. ASSUME NEW w \in A \union q
        PROVE  /\ w \in DOMAIN ApplyGroup(a, g, f) /\ w \in DOMAIN ApplyGroup(e, h, f)
               /\ ApplyGroup(a, g, f)[w] = ApplyGroup(e, h, f)[w]
    <3>1. w \in DOMAIN a /\ w \in DOMAIN e /\ a[w] = e[w]
      BY <2>3 DEF Agree
    <3>2. CASE \E t : w = <<x[1], t>> /\ w \in A
      <4>1. PICK t : w = <<x[1], t>> /\ w \in A
        BY <3>2
      <4>2. t \in g.rhs /\ t \in h.rhs /\ <<g.src, t>> \in q
        BY <2>2, <2>6, <4>1
      <4>3. a[<<g.src, t>>] = e[<<g.src, t>>]
        BY <2>3, <4>2 DEF Agree
      <4>4. ApplyGroup(a, g, f)[<<g.dst, t>>] =
              SubtractMultiply(a[<<g.dst, t>>], f, a[<<g.src, t>>])
        <5>1. g.kind # "scale" /\ <<g.dst, t>> \in DOMAIN a
          BY <2>6, <3>1, <4>1
        <5> QED BY <4>2, <5>1, ApplyGroupIs
      <4>5. ApplyGroup(e, h, f)[<<h.dst, t>>] =
              SubtractMultiply(e[<<h.dst, t>>], f, e[<<h.src, t>>])
        <5>1. h.kind # "scale" /\ <<h.dst, t>> \in DOMAIN e
          BY <2>6, <3>1, <4>1
        <5> QED BY <4>2, <5>1, ApplyGroupIs
      <4> QED BY <2>6, <2>7, <3>1, <4>1, <4>3, <4>4, <4>5
    <3>3. CASE ~\E t : w = <<x[1], t>> /\ w \in A
      <4>1. w \notin {g.dst} \X g.rhs /\ w \notin {h.dst} \X h.rhs
        <5> SUFFICES ASSUME NEW t, w = <<x[1], t>> PROVE FALSE
          BY <2>6
        <5>1. w \in q
          BY <3>3
        <5> QED BY <2>2, <5>1
      <4>2. ApplyGroup(a, g, f)[w] = a[w] /\ ApplyGroup(e, h, f)[w] = e[w]
        BY <3>1, <4>1, ApplyGroupIs
      <4> QED BY <2>7, <3>1, <4>2
    <3> QED BY <3>2, <3>3
  <2>9. Agree(ir[T], is[T], A \union q)
    BY <2>5, <2>8 DEF Agree
  <2> QED BY <2>9
<1>5. S \in Q
  <2> HIDE DEF Q
  <2> QED BY <1>3, <1>4, SubsetInduction
<1> QED BY <1>1, <1>2, <1>5 DEF Gathers

\* The words of a block after its tape and its couplings.
CoupledWords(r, c, b) ==
  Gathered(ApplyTape(r, c.kernel.tapes[b], FactorsAt(c, b).factors), c,
           Couplings(c.plan.layout, b), "couple")

\* Words of earlier blocks.
Earlier(p, A, b) == \A w \in A : \E e \in 1 .. b - 1 : w[1] \in p.layout.blocks[e]

\* A kernel couples what the words A need.
Serves(c, A, q, b) ==
  \A x \in Couplings(c.plan.layout, b) : \A t : <<x[1], t>> \in A =>
    t \in c.kernel.columns[x] /\ <<c.plan.at[x[2]], t>> \in q

\* A block pruned to what is required agrees with the whole block.
LEMMA TargetBlockAgrees ==
  ASSUME NEW c, NEW d, c.plan = d.plan, c.point = d.point, NEW n, PlanFits(c.plan, n),
         PointFits(c.plan, c.point), NEW b \in 1 .. n, NEW A, NEW q, Earlier(c.plan, A, b),
         \A w \in q : w[1] \in c.plan.layout.blocks[b],
         Serves(c, A, q, b), Serves(d, A, q, b),
         d.kernel.tapes[b] = c.plan.tapes[b],
         c.kernel.tapes[b] = PruneTape(c.plan.tapes[b], q).tape,
         NEW r, NEW s, Agree(r, s, A \union PruneTape(c.plan.tapes[b], q).rhs), FactorsAt(d, b).ok
  PROVE  FactorsAt(c, b).ok /\ Agree(CoupledWords(r, d, b), CoupledWords(s, c, b), A \union q)
<1>0. PICK p, R, W, M, t, z : /\ p = c.plan /\ R = p.layout.blocks[b] /\ W = Slots(p)
                              /\ M = MatrixOf(c.point.matrix, Slots(p)) /\ t = p.tapes[b]
                              /\ z = PruneTape(t, q)
  OBVIOUS
<1>1. /\ t \in Seq(Groups(W, R, Requests)) /\ M \in [W -> Field] /\ R \subseteq Positions
      /\ MatrixOf(c.point.matrix, W) = M
  BY <1>0, MatrixTyped DEF PlanFits
<1>2. IsPruned(z, W, R, Requests, q)
  BY <1>0, <1>1, PruneTapeIs
<1>3. z.slots \subseteq W /\ q \subseteq z.rhs /\ z.tape \in Seq(Groups(W, R, Requests))
  BY <1>2, GroupsGrow DEF IsPruned
<1>4. SameFactors(t, Loaded(t, c.point.matrix), t, M)
  BY <1>1, LoadedFactors
<1>5. SameFactors(z.tape, Loaded(z.tape, c.point.matrix), z.tape, M)
  <2>1. PICK u : u = z.tape
    OBVIOUS
  <2>2. u \in Seq(Groups(W, R, Requests))
    BY <1>3, <2>1
  <2>3. SameFactors(u, Loaded(u, c.point.matrix), u, M)
    BY <1>1, <2>2, LoadedFactors
  <2> QED BY <2>1, <2>3
<1>6. /\ FactorsAt(d, b) = Factors(t, Loaded(t, c.point.matrix))
      /\ FactorsAt(c, b) = Factors(z.tape, Loaded(z.tape, c.point.matrix))
  BY <1>0 DEF FactorsAt
<1>7. Factors(t, M).ok /\ FactorsAt(d, b).factors = Factors(t, M).factors
  BY <1>4, <1>6 DEF SameFactors
<1>8. Agree(r, s, z.rhs) /\ Agree(r, s, A)
  BY <1>0 DEF Agree
<1>9. /\ Factors(z.tape, M).ok
      /\ Agree(ApplyTape(r, t, Factors(t, M).factors),
               ApplyTape(s, z.tape, Factors(z.tape, M).factors), q)
  <2>1. PruneSound(t, W, q)
    BY <1>1, PruneKeeps
  <2>2. W \in SUBSET W
    OBVIOUS
  <2>3. \A N \in [W -> Field] : \A v, u :
          /\ PruneTape(t, q).slots \subseteq W /\ \A w \in PruneTape(t, q).slots : N[w] = N[w]
          /\ Agree(v, u, PruneTape(t, q).rhs)
          /\ Factors(t, N).ok
          => /\ Factors(PruneTape(t, q).tape, N).ok
             /\ Agree(ApplyTape(v, t, Factors(t, N).factors),
                      ApplyTape(u, PruneTape(t, q).tape, Factors(PruneTape(t, q).tape, N).factors), q)
    BY <2>1, <2>2 DEF PruneSound
  <2>4. z = PruneTape(t, q)
    BY <1>0
  <2> QED BY <1>1, <1>3, <1>7, <1>8, <2>3, <2>4
<1>10. FactorsAt(c, b).ok /\ FactorsAt(c, b).factors = Factors(z.tape, M).factors
  BY <1>5, <1>6, <1>9 DEF SameFactors
<1>11. PICK fr, fs, rr, ss : /\ fr = FactorsAt(d, b).factors /\ fs = FactorsAt(c, b).factors
                             /\ rr = ApplyTape(r, t, fr) /\ ss = ApplyTape(s, z.tape, fs)
  OBVIOUS
<1>12. fr \in Seq(Field) /\ Len(fr) = Len(t) /\ fs \in Seq(Field) /\ Len(fs) = Len(z.tape)
  <2>1. FactorsFit(t, M)
    BY <1>1, FactorsFirst
  <2>2. FactorsFit(z.tape, M)
    <3>1. PICK u : u = z.tape
      OBVIOUS
    <3>2. FactorsFit(u, M)
      BY <1>1, <1>3, <3>1, FactorsFirst
    <3> QED BY <3>1, <3>2
  <2> QED BY <1>7, <1>9, <1>10, <1>11, <2>1, <2>2 DEF FactorsFit
<1>13. \A w \in A : w[1] \notin R
  <2> SUFFICES ASSUME NEW w \in A PROVE w[1] \notin R
    OBVIOUS
  <2>1. PICK e \in 1 .. b - 1 : w[1] \in p.layout.blocks[e]
    BY <1>0 DEF Earlier
  <2>2. n \in Nat /\ e \in 1 .. n /\ e # b
    BY DEF PlanFits
  <2> QED BY <1>0, <2>1, <2>2 DEF PlanFits
<1>14. Agree(rr, ss, A)
  <2>1. DOMAIN rr = DOMAIN r /\ \A w \in DOMAIN r : w[1] \notin R => rr[w] = r[w]
    BY <1>1, <1>11, <1>12, TapeLeaves
  <2>2. DOMAIN ss = DOMAIN s /\ \A w \in DOMAIN s : w[1] \notin R => ss[w] = s[w]
    <3>1. PICK u : u = z.tape
      OBVIOUS
    <3>2. u \in Seq(Groups(W, R, Requests)) /\ Len(fs) = Len(u) /\ ss = ApplyTape(s, u, fs)
      BY <1>3, <1>11, <1>12, <3>1
    <3> QED BY <1>12, <3>2, TapeLeaves
  <2> QED BY <1>8, <1>13, <2>1, <2>2 DEF Agree
<1>15. Agree(rr, ss, A \union q)
  <2>1. Agree(rr, ss, q)
    BY <1>7, <1>9, <1>10, <1>11
  <2> QED BY <1>14, <2>1 DEF Agree
<1>16. PICK S : S = Couplings(p.layout, b)
  OBVIOUS
<1>17. IsFiniteSet(S)
  BY <1>0, <1>16, CouplingsFinite
<1>18. \A x \in S : \A u : <<x[1], u>> \in A =>
         u \in c.kernel.columns[x] /\ u \in d.kernel.columns[x] /\ <<c.plan.at[x[2]], u>> \in q
  BY <1>0, <1>16 DEF Serves
<1>19. \A x \in S : \A w \in q : w[1] # x[1]
  BY <1>0, <1>16, CouplingsAre
<1>20. Agree(Gathered(rr, d, S, "couple"), Gathered(ss, c, S, "couple"), A \union q)
  BY <1>15, <1>17, <1>18, <1>19, CouplingsAgree
<1>21. CoupledWords(r, d, b) = Gathered(rr, d, S, "couple")
       /\ CoupledWords(s, c, b) = Gathered(ss, c, S, "couple")
  BY <1>0, <1>11, <1>16 DEF CoupledWords
<1> QED BY <1>10, <1>20, <1>21

\* What TargetKernel keeps, from block to block.
Kept(K, c, n) ==
  /\ K[0] = [tapes |-> <<>>, alive |-> {}]
  /\ \A b \in 1 .. n : K[b] = TargetPruned(K[b - 1], c, b)

Pruned(K, c, b) == PruneTape(c.plan.tapes[b], Required(c, K[b - 1], b))

AnyTape(p, n) == UNION {Seq(Groups(Slots(p), p.layout.blocks[b], Requests)) : b \in 1 .. n}

KeptIs(K, c, n, b) ==
  /\ K[b] \in [tapes : Seq(AnyTape(c.plan, n)), alive : SUBSET (Positions \X Requests)]
  /\ Len(K[b].tapes) = b
  /\ \A j \in 1 .. b : K[b].tapes[j] = Pruned(K, c, j).tape
  /\ Earlier(c.plan, K[b].alive, b + 1)
  /\ b > 0 => /\ K[b].alive = K[b - 1].alive \union Pruned(K, c, b).rhs
              /\ Required(c, K[b - 1], b) \subseteq c.plan.layout.blocks[b] \X Requests

\* What is required of a block are words of the block.
LEMMA RequiredIs ==
  ASSUME NEW c, NEW n, PlanFits(c.plan, n), OutputsFit(c.plan, c.outputs), NEW b \in 1 .. n, NEW k
  PROVE  Required(c, k, b) \subseteq c.plan.layout.blocks[b] \X Requests
<1>1. CASE b = 1
  <2>1. Required(c, k, b) = {<<SolutionRow(c.plan, o[2]), o[1]>> : o \in c.outputs}
    BY <1>1 DEF Required
  <2> QED BY <1>1, <2>1 DEF OutputsFit
<1>2. CASE b # 1
  <2>1. Required(c, k, b) = {<<c.plan.at[d[1][2]], d[2]>> : d \in
          {e \in Couplings(c.plan.layout, b) \X Requests : <<e[1][1], e[2]>> \in k.alive}}
    BY <1>2 DEF Required
  <2>2. \A x \in Couplings(c.plan.layout, b) : c.plan.at[x[2]] \in c.plan.layout.blocks[b]
    BY CouplingsAre
  <2>3. ASSUME NEW d \in Couplings(c.plan.layout, b) \X Requests
        PROVE  <<c.plan.at[d[1][2]], d[2]>> \in c.plan.layout.blocks[b] \X Requests
    <3>1. PICK x \in Couplings(c.plan.layout, b), t \in Requests : d = <<x, t>>
      OBVIOUS
    <3>2. d[1] = x /\ d[2] = t
      BY <3>1
    <3> QED BY <2>2, <3>2
  <2> QED BY <2>1, <2>3
<1> QED BY <1>1, <1>2

\* The invariant of TargetKernel.
LEMMA KeptHolds ==
  ASSUME NEW c, NEW n, PlanFits(c.plan, n), OutputsFit(c.plan, c.outputs), NEW K, Kept(K, c, n)
  PROVE  \A b \in 0 .. n : KeptIs(K, c, n, b)
<1> DEFINE T == {b \in Nat : b <= n => KeptIs(K, c, n, b)}
<1>0. n \in Nat
  BY DEF PlanFits
<1>1. 0 \in T
  <2>1. K[0].tapes = <<>> /\ K[0].alive = {} /\ K[0] = [tapes |-> <<>>, alive |-> {}]
    BY DEF Kept
  <2>2. <<>> \in Seq(AnyTape(c.plan, n)) /\ Len(<<>>) = 0 /\ ~(0 > 0)
    OBVIOUS
  <2>3. K[0] \in [tapes : Seq(AnyTape(c.plan, n)), alive : SUBSET (Positions \X Requests)]
    BY <2>1, <2>2
  <2>4. \A j \in 1 .. 0 : FALSE
    OBVIOUS
  <2> QED BY <2>1, <2>2, <2>3, <2>4 DEF KeptIs, Earlier
<1>2. ASSUME NEW a \in Nat, a \in T PROVE a + 1 \in T
  <2> SUFFICES ASSUME a + 1 <= n PROVE KeptIs(K, c, n, a + 1)
    OBVIOUS
  <2>1. PICK b : b = a + 1
    OBVIOUS
  <2>2. b \in 1 .. n /\ b - 1 = a /\ KeptIs(K, c, n, a) /\ b > 0 /\ b \in Nat
    BY <1>0, <1>2, <2>1
  <2>3. PICK k, q, z, R : /\ k = K[a] /\ q = Required(c, k, b) /\ z = Pruned(K, c, b)
                          /\ R = c.plan.layout.blocks[b]
    OBVIOUS
  <2>4. z = PruneTape(c.plan.tapes[b], q)
    BY <2>2, <2>3 DEF Pruned
  <2>5. IsPruned(z, Slots(c.plan), R, Requests, q)
    <3>1. c.plan.tapes[b] \in Seq(Groups(Slots(c.plan), R, Requests))
      BY <2>2, <2>3 DEF PlanFits
    <3> QED BY <2>4, <3>1, PruneTapeIs
  <2>6. z.tape \in Seq(Groups(Slots(c.plan), R, Requests))
    BY <2>5, GroupsGrow DEF IsPruned
  <2>7. z.tape \in AnyTape(c.plan, n)
    BY <2>2, <2>3, <2>6 DEF AnyTape
  <2>8. q \subseteq R \X Requests /\ z.rhs \subseteq R \X Requests
    <3>1. q \subseteq R \X Requests
      BY <2>2, <2>3, RequiredIs
    <3> QED BY <2>5, <3>1 DEF IsPruned
  <2>9. /\ k \in [tapes : Seq(AnyTape(c.plan, n)), alive : SUBSET (Positions \X Requests)]
        /\ Len(k.tapes) = a /\ \A j \in 1 .. a : k.tapes[j] = Pruned(K, c, j).tape
        /\ Earlier(c.plan, k.alive, b)
    BY <2>1, <2>2, <2>3 DEF KeptIs
  <2>10. K[b] = [k EXCEPT !.tapes = Append(k.tapes, z.tape), !.alive = k.alive \union z.rhs]
    BY <2>2, <2>3, <2>4 DEF Kept, TargetPruned
  <2>11. k.alive \union z.rhs \subseteq Positions \X Requests
    <3>1. R \subseteq Positions
      BY <2>2, <2>3 DEF PlanFits
    <3> QED BY <2>8, <2>9, <3>1
  <2>12. /\ K[b].tapes = Append(k.tapes, z.tape) /\ K[b].alive = k.alive \union z.rhs
         /\ K[b] \in [tapes : Seq(AnyTape(c.plan, n)), alive : SUBSET (Positions \X Requests)]
    <3>1. Append(k.tapes, z.tape) \in Seq(AnyTape(c.plan, n))
      BY <2>7, <2>9
    <3> QED BY <2>9, <2>10, <2>11, <3>1
  <2>13. Len(K[b].tapes) = b /\ \A j \in 1 .. b : K[b].tapes[j] = Pruned(K, c, j).tape
    <3>1. PICK u \in Seq(AnyTape(c.plan, n)) : u = k.tapes /\ Len(u) = a
      BY <2>9
    <3>2. Len(Append(u, z.tape)) = a + 1 /\ Append(u, z.tape)[a + 1] = z.tape
          /\ \A j \in 1 .. a : Append(u, z.tape)[j] = u[j]
      BY <2>7, <3>1
    <3>3. \A j \in 1 .. b : j \in 1 .. a \/ j = b
      BY <2>1
    <3> QED BY <2>1, <2>3, <2>9, <2>12, <3>1, <3>2, <3>3
  <2>14. Earlier(c.plan, K[b].alive, b + 1)
    <3>1. \A e \in 1 .. b - 1 : e \in 1 .. (b + 1) - 1
      BY <2>2
    <3>2. b \in 1 .. (b + 1) - 1
      BY <2>2
    <3>3. \A w \in z.rhs : w[1] \in R
      BY <2>8
    <3> QED BY <2>3, <2>9, <2>12, <3>1, <3>2, <3>3 DEF Earlier
  <2> QED BY <2>1, <2>2, <2>3, <2>8, <2>12, <2>13, <2>14 DEF KeptIs
<1>3. \A b \in Nat : b \in T
  <2> HIDE DEF T
  <2> QED BY <1>1, <1>2, SetInduction
<1> QED BY <1>0, <1>3

\* What TargetReplay computes, from block to block.
Replayed(s, d, n) ==
  /\ s[0] = [ok |-> TRUE, words |-> [w \in d.kernel.alive |->
                                      IF w \in d.plan.layout.rhs THEN d.point.rhs[w] ELSE 0]]
  /\ \A j \in 1 .. n : s[j] = TargetBlock(s[j - 1], d, n - j + 1)

\* A step of a target replay.
LEMMA BlockStep ==
  ASSUME NEW s, s = [ok |-> s.ok, words |-> s.words], s.ok \in BOOLEAN, NEW d, NEW b
  PROVE  LET x == TargetBlock(s, d, b)
         IN  /\ x = [ok |-> x.ok, words |-> x.words] /\ x.ok \in BOOLEAN
             /\ x.ok <=> s.ok /\ FactorsAt(d, b).ok
             /\ x.ok => x.words = CoupledWords(s.words, d, b)
<1>1. CASE ~s.ok \/ ~FactorsAt(d, b).ok
  <2>1. TargetBlock(s, d, b) = [s EXCEPT !.ok = FALSE]
    BY <1>1, TargetBlockIs
  <2>2. TargetBlock(s, d, b) = [ok |-> FALSE, words |-> s.words]
    BY <2>1
  <2> QED BY <1>1, <2>2
<1>2. CASE s.ok /\ FactorsAt(d, b).ok
  <2>1. TargetBlock(s, d, b) = [s EXCEPT !.words = CoupledWords(s.words, d, b)]
    BY <1>2, TargetBlockIs DEF CoupledWords
  <2>2. TargetBlock(s, d, b) = [ok |-> s.ok, words |-> CoupledWords(s.words, d, b)]
    BY <2>1
  <2> QED BY <1>2, <2>2
<1> QED BY <1>1, <1>2

\* The kernel c and the reference d agree on the words kept for the blocks to come.
Meet(r, s, A) ==
  /\ r = [ok |-> r.ok, words |-> r.words] /\ r.ok \in BOOLEAN
  /\ s = [ok |-> s.ok, words |-> s.words] /\ s.ok \in BOOLEAN
  /\ r.ok => s.ok /\ Agree(r.words, s.words, A)

Watched(K, c, n, j) ==
  K[n - j].alive \union (IF j = 0 THEN {} ELSE Required(c, K[n - j], n - j + 1))

\* The two replays agree on what is watched, from block to block.
LEMMA TargetMeets ==
  ASSUME NEW c, NEW d, c.plan = d.plan, c.point = d.point, NEW n, PlanFits(c.plan, n),
         PointFits(c.plan, c.point), OutputsFit(c.plan, c.outputs), n > 0,
         NEW K, Kept(K, c, n), c.kernel.tapes = K[n].tapes, c.kernel.alive = K[n].alive,
         \A x \in DOMAIN c.plan.layout.matrix :
           c.kernel.columns[x] = {t \in Requests : <<x[1], t>> \in K[n].alive},
         d.kernel.tapes = c.plan.tapes, d.kernel.alive = Positions \X Requests,
         \A x \in DOMAIN c.plan.layout.matrix : d.kernel.columns[x] = Requests,
         NEW r, NEW s, Replayed(r, d, n), Replayed(s, c, n)
  PROVE  r[n].ok => s[n].ok /\ Agree(r[n].words, s[n].words, Required(c, K[0], 1))
<1> DEFINE T == {j \in Nat : j <= n => Meet(r[j], s[j], Watched(K, c, n, j))}
<1>0. n \in Nat /\ \A b \in 0 .. n : KeptIs(K, c, n, b)
  BY KeptHolds DEF PlanFits
<1>1. 0 \in T
  <2>1. /\ r[0].ok = TRUE /\ s[0].ok = TRUE
        /\ r[0] = [ok |-> r[0].ok, words |-> r[0].words]
        /\ s[0] = [ok |-> s[0].ok, words |-> s[0].words]
        /\ r[0].words = [w \in Positions \X Requests |->
                           IF w \in c.plan.layout.rhs THEN c.point.rhs[w] ELSE 0]
        /\ s[0].words = [w \in K[n].alive |->
                           IF w \in c.plan.layout.rhs THEN c.point.rhs[w] ELSE 0]
    BY DEF Replayed
  <2>2. K[n].alive \subseteq Positions \X Requests /\ n - 0 = n
    BY <1>0 DEF KeptIs
  <2>3. Agree(r[0].words, s[0].words, K[n].alive)
    BY <2>1, <2>2 DEF Agree
  <2>4. Watched(K, c, n, 0) = K[n].alive
    BY <2>2 DEF Watched
  <2>5. Meet(r[0], s[0], K[n].alive)
    BY <2>1, <2>3 DEF Meet
  <2> QED BY <2>4, <2>5
<1>2. ASSUME NEW j \in Nat, j \in T PROVE j + 1 \in T
  <2> SUFFICES ASSUME j + 1 <= n PROVE Meet(r[j + 1], s[j + 1], Watched(K, c, n, j + 1))
    OBVIOUS
  <2>1. PICK b : b = n - j
    OBVIOUS
  <2>2. /\ b \in 1 .. n /\ n - (j + 1) = b - 1 /\ n - (j + 1) + 1 = b /\ j + 1 \in 1 .. n
        /\ (j + 1) - 1 = j /\ j + 1 # 0 /\ b - 1 \in 0 .. n /\ b \in 0 .. n /\ b > 0 /\ b \in Nat
    BY <1>0, <2>1
  <2>3. PICK A, q, z : /\ A = K[b - 1].alive /\ q = Required(c, K[b - 1], b)
                       /\ z = PruneTape(c.plan.tapes[b], q)
    OBVIOUS
  <2>4. KeptIs(K, c, n, b) /\ KeptIs(K, c, n, b - 1) /\ KeptIs(K, c, n, n)
    BY <1>0, <2>2
  <2>5. K[b].alive = A \union z.rhs /\ q \subseteq c.plan.layout.blocks[b] \X Requests
    BY <2>2, <2>3, <2>4 DEF KeptIs, Pruned
  <2>6. Earlier(c.plan, A, b) /\ A \subseteq Positions \X Requests
    BY <2>2, <2>3, <2>4 DEF KeptIs
  <2>7. c.kernel.tapes[b] = z.tape /\ d.kernel.tapes[b] = c.plan.tapes[b]
    BY <2>2, <2>3, <2>4 DEF KeptIs, Pruned
  <2>8. A \subseteq K[n].alive
    <3> DEFINE U == {i \in Nat : b - 1 + i <= n => A \subseteq K[b - 1 + i].alive}
    <3>1. 0 \in U
      <4>1. PICK e : e = b - 1 + 0
        OBVIOUS
      <4>2. e = b - 1
        BY <2>2, <4>1
      <4>3. A \subseteq K[e].alive
        BY <2>3, <4>2
      <4> QED BY <4>1, <4>3
    <3>2. ASSUME NEW i \in Nat, i \in U PROVE i + 1 \in U
      <4> SUFFICES ASSUME b - 1 + (i + 1) <= n PROVE A \subseteq K[b - 1 + (i + 1)].alive
        OBVIOUS
      <4>1. PICK e : e = b - 1 + (i + 1)
        OBVIOUS
      <4>2. e \in 0 .. n /\ e - 1 = b - 1 + i /\ b - 1 + i <= n /\ e > 0
        <5>1. n \in Nat /\ b \in Nat /\ b > 0
          BY <1>0, <2>2
        <5>2. b - 1 + (i + 1) <= n /\ i \in Nat
          OBVIOUS
        <5> QED BY <4>1, <5>1, <5>2
      <4>3. A \subseteq K[e - 1].alive
        BY <3>2, <4>2
      <4>4. K[e - 1].alive \subseteq K[e].alive
        BY <1>0, <4>2 DEF KeptIs
      <4> QED BY <4>1, <4>3, <4>4
    <3>3. n - (b - 1) \in Nat /\ b - 1 + (n - (b - 1)) = n
      <4>1. n \in Nat
        BY <1>0
      <4>2. b \in 1 .. n /\ b \in Nat
        BY <2>2
      <4> QED BY <4>1, <4>2
    <3>4. \A i \in Nat : i \in U
      <4> HIDE DEF U
      <4> QED BY <3>1, <3>2, SetInduction
    <3>5. n - (b - 1) \in U
      BY <3>3, <3>4
    <3> QED BY <1>0, <3>3, <3>5
  <2>9. Serves(c, A, q, b) /\ Serves(d, A, q, b)
    <3> SUFFICES ASSUME NEW x \in Couplings(c.plan.layout, b), NEW t, <<x[1], t>> \in A
                 PROVE  /\ t \in c.kernel.columns[x] /\ t \in d.kernel.columns[x]
                        /\ <<c.plan.at[x[2]], t>> \in q
      BY DEF Serves
    <3>1. t \in Requests /\ <<x[1], t>> \in K[n].alive
      BY <2>6, <2>8
    <3>2. x \in DOMAIN c.plan.layout.matrix /\ b # 1
      BY <2>2, CouplingsAre
    <3>3. q = {<<c.plan.at[e[1][2]], e[2]>> : e \in
            {y \in Couplings(c.plan.layout, b) \X Requests : <<y[1][1], y[2]>> \in A}}
      BY <2>3, <3>2 DEF Required
    <3>4. <<c.plan.at[x[2]], t>> \in q
      <4> DEFINE y == <<x, t>>
      <4>1. y[1] = x /\ y[2] = t /\ y \in Couplings(c.plan.layout, b) \X Requests
        BY <3>1
      <4>2. y \in {e \in Couplings(c.plan.layout, b) \X Requests : <<e[1][1], e[2]>> \in A}
        BY <3>1, <4>1
      <4> QED BY <3>3, <4>1, <4>2
    <3> QED BY <3>1, <3>2, <3>4
  <2>10. r[j + 1] = TargetBlock(r[j], d, b) /\ s[j + 1] = TargetBlock(s[j], c, b)
    <3>1. n - (j + 1) + 1 = b
      BY <2>2
    <3> QED BY <2>2, <3>1 DEF Replayed
  <2>11. PICK x, y : x = r[j] /\ y = s[j]
    OBVIOUS
  <2>12. Meet(x, y, A \union z.rhs)
    <3>1. PICK V : V = Watched(K, c, n, j)
      OBVIOUS
    <3>2. j <= n
      BY <1>0, <2>2
    <3>3. Meet(x, y, V)
      BY <1>2, <2>11, <3>1, <3>2
    <3>4. A \union z.rhs \subseteq V
      BY <2>1, <2>5, <3>1 DEF Watched
    <3> QED BY <3>3, <3>4 DEF Meet, Agree
  <2>13. PICK u, v : u = TargetBlock(x, d, b) /\ v = TargetBlock(y, c, b)
    OBVIOUS
  <2>14. /\ u = [ok |-> u.ok, words |-> u.words] /\ u.ok \in BOOLEAN
         /\ u.ok <=> x.ok /\ FactorsAt(d, b).ok
         /\ u.ok => u.words = CoupledWords(x.words, d, b)
    BY <2>12, <2>13, BlockStep DEF Meet
  <2>15. /\ v = [ok |-> v.ok, words |-> v.words] /\ v.ok \in BOOLEAN
         /\ v.ok <=> y.ok /\ FactorsAt(c, b).ok
         /\ v.ok => v.words = CoupledWords(y.words, c, b)
    BY <2>12, <2>13, BlockStep DEF Meet
  <2>16. ASSUME u.ok PROVE v.ok /\ Agree(u.words, v.words, A \union q)
    <3>1. x.ok /\ y.ok /\ FactorsAt(d, b).ok /\ Agree(x.words, y.words, A \union z.rhs)
      BY <2>12, <2>14, <2>16 DEF Meet
    <3>2. \A w \in q : w[1] \in c.plan.layout.blocks[b]
      BY <2>5
    <3>3. FactorsAt(c, b).ok /\ Agree(CoupledWords(x.words, d, b), CoupledWords(y.words, c, b), A \union q)
      <4>1. PICK X, Y : X = x.words /\ Y = y.words
        OBVIOUS
      <4>2. b \in 1 .. n /\ Agree(X, Y, A \union PruneTape(c.plan.tapes[b], q).rhs)
        BY <2>2, <2>3, <3>1, <4>1
      <4>3. c.kernel.tapes[b] = PruneTape(c.plan.tapes[b], q).tape
        BY <2>3, <2>7
      <4>4. FactorsAt(c, b).ok /\ Agree(CoupledWords(X, d, b), CoupledWords(Y, c, b), A \union q)
        BY <2>6, <2>7, <2>9, <3>1, <3>2, <4>2, <4>3, TargetBlockAgrees
      <4> QED BY <4>1, <4>4
    <3> QED BY <2>14, <2>15, <2>16, <3>1, <3>3
  <2>17. Meet(r[j + 1], s[j + 1], A \union q)
    BY <2>10, <2>11, <2>13, <2>14, <2>15, <2>16 DEF Meet
  <2>18. Watched(K, c, n, j + 1) = A \union q
    BY <2>2, <2>3 DEF Watched
  <2> QED BY <2>17, <2>18
<1>3. Meet(r[n], s[n], Watched(K, c, n, n))
  <2>1. \A j \in Nat : j \in T
    <3> HIDE DEF T
    <3> QED BY <1>1, <1>2, SetInduction
  <2>2. n \in T
    BY <1>0, <2>1
  <2>3. n <= n
    BY <1>0
  <2> QED BY <2>2, <2>3
<1>4. n - n = 0 /\ n # 0 /\ n - n + 1 = 1
  BY <1>0
<1>5. Required(c, K[0], 1) \subseteq Watched(K, c, n, n)
  BY <1>4 DEF Watched
<1> QED BY <1>3, <1>5 DEF Meet, Agree

-----------------------------------------------------------------------------
(* From block to block: a target kernel answers what the recording does. *)

\* The blocks by number, from either end.
LEMMA NumbersAre ==
  ASSUME NEW p, NEW n \in Nat, DOMAIN p.layout.blocks = 1 .. n
  PROVE  /\ DOMAIN BlockNumbers(p) = 1 .. n /\ \A j \in 1 .. n : BlockNumbers(p)[j] = j
         /\ DOMAIN Reverse(BlockNumbers(p)) = 1 .. n
         /\ \A j \in 1 .. n : Reverse(BlockNumbers(p))[j] = n - j + 1
<1>1. PICK u : u = BlockNumbers(p)
  OBVIOUS
<1>2. DOMAIN u = 1 .. n /\ \A j \in 1 .. n : u[j] = j
  BY <1>1 DEF BlockNumbers
<1>3. u \in Seq(Nat) /\ Len(u) = n
  <2>1. u = [j \in 1 .. n |-> j]
    BY <1>1 DEF BlockNumbers
  <2> QED BY <2>1
<1>4. DOMAIN Reverse(u) = 1 .. n /\ \A j \in 1 .. n : Reverse(u)[j] = u[n - j + 1]
  BY <1>3 DEF Reverse
<1>5. \A j \in 1 .. n : n - j + 1 \in 1 .. n
  OBVIOUS
<1>6. \A j \in 1 .. n : Reverse(u)[j] = n - j + 1
  BY <1>2, <1>4, <1>5
<1> QED BY <1>1, <1>2, <1>4, <1>6

\* A target kernel comes from its passes.
LEMMA KeptExists ==
  ASSUME NEW c, NEW n \in Nat, DOMAIN c.plan.layout.blocks = 1 .. n
  PROVE  \E K : /\ Kept(K, c, n)
                /\ TargetKernel(c.plan, c.outputs) =
                     [orientation |-> "target", outputs |-> c.outputs, tapes |-> K[n].tapes,
                      alive |-> K[n].alive,
                      columns |-> [x \in DOMAIN c.plan.layout.matrix |->
                                     {t \in Requests : <<x[1], t>> \in K[n].alive}]]
<1>1. PICK u, base : u = BlockNumbers(c.plan) /\ base = [tapes |-> <<>>, alive |-> {}]
  OBVIOUS
<1>2. DOMAIN u = 1 .. n /\ \A j \in 1 .. n : u[j] = j
  BY <1>1, NumbersAre
<1>3. PICK K : Chain(K, base, c, u, "target") /\ K[n] = Folded(base, c, u, "target")
  BY <1>2, FoldChain
<1>4. Kept(K, c, n)
  <2>1. \A j \in 1 .. n : K[j] = StepOf(K[j - 1], c, j, "target")
    BY <1>2, <1>3 DEF Chain
  <2>2. \A j \in 1 .. n : K[j] = TargetPruned(K[j - 1], c, j)
    BY <2>1, StepTarget
  <2> QED BY <1>1, <1>3, <2>2 DEF Chain, Kept
<1>5. PICK final : final = K[n]
  OBVIOUS
<1>6. TargetKernel(c.plan, c.outputs) =
        [orientation |-> "target", outputs |-> c.outputs, tapes |-> final.tapes,
         alive |-> final.alive,
         columns |-> [x \in DOMAIN c.plan.layout.matrix |->
                        {t \in Requests : <<x[1], t>> \in final.alive}]]
  BY <1>1, <1>3, <1>5, TargetKernelFold
<1> QED BY <1>4, <1>5, <1>6

\* A target replay comes from its steps.
LEMMA ReplayedExists ==
  ASSUME NEW d, NEW n \in Nat, DOMAIN d.plan.layout.blocks = 1 .. n
  PROVE  \E r : /\ Replayed(r, d, n)
                /\ TargetReplay(d.plan, d.kernel, d.point) =
                     IF r[n].ok
                       THEN [o \in d.kernel.outputs |-> r[n].words[<<SolutionRow(d.plan, o[2]), o[1]>>]]
                       ELSE NoAnswer
<1>1. PICK u, base : /\ u = Reverse(BlockNumbers(d.plan))
                     /\ base = [ok |-> TRUE, words |-> [w \in d.kernel.alive |->
                                  IF w \in d.plan.layout.rhs THEN d.point.rhs[w] ELSE 0]]
  OBVIOUS
<1>2. DOMAIN u = 1 .. n /\ \A j \in 1 .. n : u[j] = n - j + 1
  BY <1>1, NumbersAre
<1>3. PICK r : Chain(r, base, d, u, "replay") /\ r[n] = Folded(base, d, u, "replay")
  BY <1>2, FoldChain
<1>4. Replayed(r, d, n)
  <2>1. \A j \in 1 .. n : r[j] = StepOf(r[j - 1], d, n - j + 1, "replay")
    BY <1>2, <1>3 DEF Chain
  <2>2. \A j \in 1 .. n : r[j] = TargetBlock(r[j - 1], d, n - j + 1)
    BY <2>1, StepReplay
  <2> QED BY <1>1, <1>3, <2>2 DEF Chain, Replayed
<1>5. PICK final : final = r[n]
  OBVIOUS
<1>6. TargetReplay(d.plan, d.kernel, d.point) =
        IF final.ok
          THEN [o \in d.kernel.outputs |-> final.words[<<SolutionRow(d.plan, o[2]), o[1]>>]]
          ELSE NoAnswer
  BY <1>1, <1>3, <1>5, TargetReplayFold
<1> QED BY <1>4, <1>5, <1>6

\* In target orientation the kernel answers what the reference does.
LEMMA TargetMatches ==
  ASSUME NEW s, NEW p, NEW n, PlanFits(p, n), n > 0, NEW outputs, OutputsFit(p, outputs),
         outputs \subseteq AllOutputs(s), NEW v, PointFits(p, v),
         TargetReplay(p, ReferenceKernel(s, p), v) # NoAnswer
  PROVE  TargetReplay(p, TargetKernel(p, outputs), v) =
           [o \in outputs |-> TargetReplay(p, ReferenceKernel(s, p), v)[o]]
<1>0. n \in Nat /\ DOMAIN p.layout.blocks = 1 .. n
  BY DEF PlanFits
<1> DEFINE kk == TargetKernel(p, outputs)
           c == [plan |-> p, point |-> v, outputs |-> outputs, kernel |-> kk]
           d == [plan |-> p, point |-> v, kernel |-> ReferenceKernel(s, p)]
<1>1. /\ c.plan = p /\ c.point = v /\ c.outputs = outputs /\ c.kernel = TargetKernel(p, outputs)
      /\ d.plan = p /\ d.point = v /\ d.kernel = ReferenceKernel(s, p)
  OBVIOUS
<1> HIDE DEF c, d
<1>2. PICK K : /\ Kept(K, c, n)
               /\ TargetKernel(p, outputs) =
                     [orientation |-> "target", outputs |-> outputs, tapes |-> K[n].tapes,
                      alive |-> K[n].alive,
                      columns |-> [x \in DOMAIN p.layout.matrix |->
                                     {t \in Requests : <<x[1], t>> \in K[n].alive}]]
  <2>1. DOMAIN c.plan.layout.blocks = 1 .. n
    BY <1>0, <1>1
  <2>2. PICK K : /\ Kept(K, c, n)
                 /\ TargetKernel(c.plan, c.outputs) =
                       [orientation |-> "target", outputs |-> c.outputs, tapes |-> K[n].tapes,
                        alive |-> K[n].alive,
                        columns |-> [x \in DOMAIN c.plan.layout.matrix |->
                                       {t \in Requests : <<x[1], t>> \in K[n].alive}]]
    BY <1>0, <2>1, KeptExists
  <2> QED BY <1>1, <2>2
<1>3. PICK r : /\ Replayed(r, d, n)
               /\ TargetReplay(p, ReferenceKernel(s, p), v) =
                     IF r[n].ok
                       THEN [o \in d.kernel.outputs |-> r[n].words[<<SolutionRow(p, o[2]), o[1]>>]]
                       ELSE NoAnswer
  <2>1. DOMAIN d.plan.layout.blocks = 1 .. n
    BY <1>0, <1>1
  <2>2. PICK r : /\ Replayed(r, d, n)
                 /\ TargetReplay(d.plan, d.kernel, d.point) =
                       IF r[n].ok
                         THEN [o \in d.kernel.outputs |->
                                 r[n].words[<<SolutionRow(d.plan, o[2]), o[1]>>]]
                         ELSE NoAnswer
    BY <1>0, <2>1, ReplayedExists
  <2> QED BY <1>1, <2>2
<1>4. PICK q : /\ Replayed(q, c, n)
               /\ TargetReplay(p, TargetKernel(p, outputs), v) =
                     IF q[n].ok
                       THEN [o \in c.kernel.outputs |-> q[n].words[<<SolutionRow(p, o[2]), o[1]>>]]
                       ELSE NoAnswer
  <2>1. DOMAIN c.plan.layout.blocks = 1 .. n
    BY <1>0, <1>1
  <2>2. PICK q : /\ Replayed(q, c, n)
                 /\ TargetReplay(c.plan, c.kernel, c.point) =
                       IF q[n].ok
                         THEN [o \in c.kernel.outputs |->
                                 q[n].words[<<SolutionRow(c.plan, o[2]), o[1]>>]]
                         ELSE NoAnswer
    BY <1>0, <2>1, ReplayedExists
  <2> QED BY <1>1, <2>2
<1>5. /\ c.kernel.tapes = K[n].tapes /\ c.kernel.alive = K[n].alive /\ c.kernel.outputs = outputs
      /\ c.kernel.columns = [x \in DOMAIN p.layout.matrix |->
                               {t \in Requests : <<x[1], t>> \in K[n].alive}]
  BY <1>1, <1>2
<1>6. /\ d.kernel.tapes = p.tapes /\ d.kernel.alive = Positions \X Requests
      /\ d.kernel.columns = [x \in DOMAIN p.layout.matrix |-> Requests]
      /\ d.kernel.outputs = AllOutputs(s)
  BY <1>1 DEF ReferenceKernel
<1>7. r[n].ok
  BY <1>3
<1>8. q[n].ok /\ Agree(r[n].words, q[n].words, Required(c, K[0], 1))
  <2>1. /\ c.plan = d.plan /\ c.point = d.point /\ PlanFits(c.plan, n) /\ PointFits(c.plan, c.point)
        /\ OutputsFit(c.plan, c.outputs) /\ d.kernel.tapes = c.plan.tapes
    BY <1>1, <1>6
  <2>2. /\ \A x \in DOMAIN c.plan.layout.matrix :
             c.kernel.columns[x] = {t \in Requests : <<x[1], t>> \in K[n].alive}
        /\ \A x \in DOMAIN c.plan.layout.matrix : d.kernel.columns[x] = Requests
    BY <1>1, <1>5, <1>6
  <2>3. /\ c.kernel.tapes = K[n].tapes /\ c.kernel.alive = K[n].alive
        /\ d.kernel.alive = Positions \X Requests
    BY <1>5, <1>6
  <2>4. r[n].ok => q[n].ok /\ Agree(r[n].words, q[n].words, Required(c, K[0], 1))
    BY <1>0, <1>2, <1>3, <1>4, <2>1, <2>2, <2>3, TargetMeets
  <2> QED BY <1>7, <2>4
<1>9. ASSUME NEW o \in outputs
      PROVE  q[n].words[<<SolutionRow(p, o[2]), o[1]>>] = r[n].words[<<SolutionRow(p, o[2]), o[1]>>]
  <2>1. Required(c, K[0], 1) = {<<SolutionRow(p, e[2]), e[1]>> : e \in outputs}
    BY <1>1 DEF Required
  <2>2. <<SolutionRow(p, o[2]), o[1]>> \in Required(c, K[0], 1)
    BY <2>1
  <2> QED BY <1>8, <2>2 DEF Agree
<1>10. TargetReplay(p, ReferenceKernel(s, p), v) =
         [o \in AllOutputs(s) |-> r[n].words[<<SolutionRow(p, o[2]), o[1]>>]]
  BY <1>3, <1>6, <1>7
<1>11. TargetReplay(p, TargetKernel(p, outputs), v) =
         [o \in outputs |-> q[n].words[<<SolutionRow(p, o[2]), o[1]>>]]
  BY <1>4, <1>5, <1>8
<1> QED BY <1>9, <1>10, <1>11

-----------------------------------------------------------------------------
(* The transposed tape: what it writes, and pruning it. *)

(***************************************************************************)
(* Pruning the factors of a tape.                                          *)
(***************************************************************************)
LEMMA ApplyTransposedIs ==
  ASSUME NEW r, NEW g, NEW f
  PROVE  /\ DOMAIN ApplyTransposed(r, g, f) = DOMAIN r
         /\ \A w \in DOMAIN r : w \notin {g.src} \X g.rhs => ApplyTransposed(r, g, f)[w] = r[w]
         /\ \A t \in g.rhs : <<g.src, t>> \in DOMAIN r =>
              ApplyTransposed(r, g, f)[<<g.src, t>>] =
                IF g.kind = "scale" THEN (r[<<g.src, t>>] * f) % Prime
                ELSE SubtractMultiply(r[<<g.src, t>>], f, r[<<g.dst, t>>])
<1> DEFINE v(w) == IF g.kind = "scale" THEN (r[w] * f) % Prime
                   ELSE SubtractMultiply(r[w], f, r[<<g.dst, w[2]>>])
<1>1. ApplyTransposed(r, g, f) =
        [w \in DOMAIN r |-> IF w \in {g.src} \X g.rhs THEN v(w) ELSE r[w]]
  BY DEF ApplyTransposed, Updated
<1>2. \A t \in g.rhs : /\ <<g.src, t>> \in {g.src} \X g.rhs
                       /\ v(<<g.src, t>>) = IF g.kind = "scale" THEN (r[<<g.src, t>>] * f) % Prime
                              ELSE SubtractMultiply(r[<<g.src, t>>], f, r[<<g.dst, t>>])
  OBVIOUS
<1> HIDE DEF v
<1> QED BY <1>1, <1>2

\* A function on words.
IsWords(d) == d = [w \in DOMAIN d |-> d[w]]

\* Transposed groups keep them functions; without columns they do nothing.
LEMMA TransposedWords ==
  ASSUME NEW d, IsWords(d), NEW g, NEW f
  PROVE  /\ IsWords(ApplyTransposed(d, g, f))
         /\ g.rhs = {} => ApplyTransposed(d, g, f) = d
<1> DEFINE v(w) == IF g.kind = "scale" THEN (d[w] * f) % Prime
                   ELSE SubtractMultiply(d[w], f, d[<<g.dst, w[2]>>])
           e(w) == IF w \in {g.src} \X g.rhs THEN v(w) ELSE d[w]
<1>1. ApplyTransposed(d, g, f) = [w \in DOMAIN d |-> e(w)]
  BY DEF ApplyTransposed, Updated
<1>2. g.rhs = {} => \A w \in DOMAIN d : e(w) = d[w]
  OBVIOUS
<1> HIDE DEF e
<1>3. IsWords([w \in DOMAIN d |-> e(w)])
  BY DEF IsWords
<1>4. ASSUME \A w \in DOMAIN d : e(w) = d[w] PROVE [w \in DOMAIN d |-> e(w)] = d
  BY <1>4 DEF IsWords
<1> QED BY <1>1, <1>2, <1>3, <1>4

\* So do transposed tapes.
LEMMA TransposedTapeWords ==
  ASSUME NEW S, NEW t \in Seq(S), NEW fs \in Seq(Field), Len(fs) = Len(t), NEW d, IsWords(d)
  PROVE  IsWords(ApplyTapeTransposed(d, t, fs))
<1> DEFINE T == {u \in Seq(S) : \A es \in Seq(Field) :
                   Len(es) = Len(u) => IsWords(ApplyTapeTransposed(d, u, es))}
<1>1. <<>> \in T
  BY ApplyNone
<1>2. ASSUME NEW u \in Seq(S), u # <<>>, Tail(u) \in T PROVE u \in T
  <2> SUFFICES ASSUME NEW es \in Seq(Field), Len(es) = Len(u)
               PROVE  IsWords(ApplyTapeTransposed(d, u, es))
    OBVIOUS
  <2>1. Len(u) = Len(Tail(u)) + 1 /\ Len(Tail(u)) \in Nat
    BY <1>2, FirstOf
  <2>2. Tail(es) \in Seq(Field) /\ Len(Tail(es)) = Len(Tail(u))
    BY <2>1, TailIs
  <2>3. IsWords(ApplyTapeTransposed(d, Tail(u), Tail(es)))
    BY <1>2, <2>2
  <2>4. ApplyTapeTransposed(d, u, es) =
          ApplyTransposed(ApplyTapeTransposed(d, Tail(u), Tail(es)), u[1], es[1])
    BY <1>2, ApplyFirst
  <2> QED BY <2>3, <2>4, TransposedWords
<1>3. T = Seq(S)
  <2> HIDE DEF T
  <2>1. T \subseteq Seq(S)
    BY DEF T
  <2> QED BY <1>1, <1>2, <2>1, LengthInduction
<1> QED BY <1>3

\* Pruning of factors works from the end.
LEMMA PruneFactorsFirst ==
  ASSUME NEW S, NEW t \in Seq(S)
  PROVE  /\ t = <<>> => PruneFactors(t) = [tape |-> <<>>, slots |-> {}]
         /\ t # <<>> => PruneFactors(t) = PruneFactor(PruneFactors(Tail(t)), t[1])
<1> DEFINE b == [tape |-> <<>>, slots |-> {}]
<1>1. \A u : PruneFactors(u) = Folded(b, 0, Reverse(u), "factor")
  BY PruneFactorsFold
<1> HIDE DEF b
<1>2. CASE t = <<>>
  <2>1. DOMAIN Reverse(<<>>) = {}
    BY ReverseNone
  <2> QED BY <1>1, <1>2, <2>1, FoldNone DEF b
<1>3. CASE t # <<>>
  <2>1. Folded(b, 0, Reverse(t), "factor") =
          StepOf(Folded(b, 0, Reverse(Tail(t)), "factor"), 0, t[1], "factor")
    BY <1>3, FoldFirst
  <2> QED BY <1>1, <1>3, <2>1, StepFactor
<1> QED BY <1>2, <1>3

\* What it keeps.
Pruned2(p, W, R, C) == p.slots \subseteq W /\ p.tape \in Seq(Groups(p.slots, R, C))

FactorDropped(p, g) == g.rhs = {} /\ PrunedPairs(p, g) = {}
FactorGroup(p, g) == [g EXCEPT !.matrix = PrunedPairs(p, g)]

FactorKept(n, h, p, g, R, C) ==
  /\ h \in Groups(n.slots, R, C)
  /\ n.tape = <<h>> \o p.tape /\ n.tape # <<>> /\ n.tape[1] = h
  /\ Tail(n.tape) = p.tape
  /\ n.slots = p.slots \union {o[2] : o \in PrunedPairs(p, g)} \union {g.slot}
  /\ IsPart(h, g, PrunedPairs(p, g), g.rhs)

\* What it makes of one group.
LEMMA PruneFactorIs ==
  ASSUME NEW W, NEW R, NEW C, NEW p, Pruned2(p, W, R, C), NEW g \in Groups(W, R, C)
  PROVE  /\ Pruned2(PruneFactor(p, g), W, R, C)
         /\ FactorDropped(p, g) => PruneFactor(p, g) = p
         /\ ~FactorDropped(p, g) => FactorKept(PruneFactor(p, g), FactorGroup(p, g), p, g, R, C)
<1> DEFINE n == PruneFactor(p, g)
           h == FactorGroup(p, g)
           M == PrunedPairs(p, g)
           X == p.slots \union {o[2] : o \in M} \union {g.slot}
<1>1. CASE FactorDropped(p, g)
  <2>1. n = p
    BY <1>1 DEF PruneFactor, FactorDropped, PrunedPairs
  <2> QED BY <1>1, <2>1
<1>2. CASE ~FactorDropped(p, g)
  <2>1. n = [tape |-> <<h>> \o p.tape, slots |-> X]
    BY <1>2 DEF PruneFactor, FactorDropped, PrunedPairs, FactorGroup
  <2>2. /\ g.slot \in W /\ g.matrix \subseteq W \X W
        /\ g = [g EXCEPT !.rhs = g.rhs]
    BY DEF Groups
  <2>3. M \subseteq g.matrix /\ \A o \in M : o[1] \in p.slots
    BY DEF PrunedPairs
  <2>4. X \subseteq W /\ p.slots \subseteq X /\ g.slot \in X /\ \A o \in M : o[1] \in X /\ o[2] \in X
    BY <2>2, <2>3 DEF Pruned2
  <2>4a. h = [g EXCEPT !.rhs = g.rhs, !.matrix = M]
    BY <2>2 DEF FactorGroup
  <2> HIDE DEF X, M, h, n
  <2>5. h \in Groups(X, R, C) /\ IsPart(h, g, M, g.rhs)
    BY <2>3, <2>4, <2>4a, GroupPart
  <2>6. p.tape \in Seq(Groups(X, R, C))
    BY <2>4, GroupsGrow DEF Pruned2
  <2>7. /\ <<h>> \o p.tape \in Seq(Groups(X, R, C)) /\ <<h>> \o p.tape # <<>>
        /\ (<<h>> \o p.tape)[1] = h /\ Tail(<<h>> \o p.tape) = p.tape
    <3>1. /\ <<h>> \o p.tape \in Seq(Groups(X, R, C)) /\ Len(<<h>> \o p.tape) = Len(p.tape) + 1
          /\ (<<h>> \o p.tape)[1] = h /\ Tail(<<h>> \o p.tape) = p.tape
      BY <2>5, <2>6, PrefixedIs
    <3>2. Len(p.tape) \in Nat
      BY <2>6
    <3> QED BY <3>1, <3>2
  <2>9. n.tape = <<h>> \o p.tape /\ n.slots = X
    BY <2>1
  <2>10. Pruned2(n, W, R, C)
    BY <2>4, <2>7, <2>9 DEF Pruned2
  <2> QED BY <1>2, <2>5, <2>7, <2>9, <2>10 DEF X, M, h, n, FactorKept
<1> QED BY <1>1, <1>2

\* What is left runs on the slots it names.
LEMMA PruneFactorsIs ==
  ASSUME NEW W, NEW R, NEW C, NEW t \in Seq(Groups(W, R, C))
  PROVE  Pruned2(PruneFactors(t), W, R, C)
<1> DEFINE S == Groups(W, R, C)
           T == {u \in Seq(S) : Pruned2(PruneFactors(u), W, R, C)}
<1> HIDE DEF S
<1>1. <<>> \in T
  <2>1. <<>> \in Seq(S) /\ \A X : <<>> \in Seq(X)
    OBVIOUS
  <2>2. PruneFactors(<<>>) = [tape |-> <<>>, slots |-> {}]
    BY <2>1, PruneFactorsFirst
  <2>3. PruneFactors(<<>>).tape = <<>> /\ PruneFactors(<<>>).slots = {}
    BY <2>2
  <2> QED BY <2>1, <2>3 DEF Pruned2
<1>2. ASSUME NEW u \in Seq(S), u # <<>>, Tail(u) \in T PROVE u \in T
  <2>1. u[1] \in Groups(W, R, C)
    BY <1>2, FirstOf DEF S
  <2>2. PruneFactors(u) = PruneFactor(PruneFactors(Tail(u)), u[1])
    BY <1>2, PruneFactorsFirst
  <2>3. Pruned2(PruneFactor(PruneFactors(Tail(u)), u[1]), W, R, C)
    BY <1>2, <2>1, PruneFactorIs
  <2> QED BY <2>2, <2>3
<1>3. T = Seq(S)
  <2> HIDE DEF T
  <2>1. T \subseteq Seq(S)
    BY DEF T
  <2> QED BY <1>1, <1>2, <2>1, LengthInduction
<1> QED BY <1>3 DEF S

\* Where the whole tape has factors the pruned one has them, and transposed it
\* computes the same words.
SoundAt(t, X, m, n, d) ==
  LET p == PruneFactors(t)
      a == Factors(t, m)
      b == Factors(p.tape, n)
  IN  /\ p.slots \subseteq X /\ \A w \in p.slots : n[w] = m[w]
      /\ IsWords(d)
      /\ a.ok
      => /\ b.ok
         /\ ApplyTapeTransposed(d, p.tape, b.factors) = ApplyTapeTransposed(d, t, a.factors)

\* A tape without idle groups does, transposed, what the tape does.
FactorsSound(t, W) ==
  \A X \in SUBSET W : \A m \in [W -> Field], n \in [X -> Field] : \A d : SoundAt(t, X, m, n, d)

\* Pruning of factors changes no word, by induction on the tape.
LEMMA PruneFactorsKeeps ==
  ASSUME NEW W, NEW R, NEW C, NEW t \in Seq(Groups(W, R, C))
  PROVE  FactorsSound(t, W)
<1> DEFINE S == Groups(W, R, C)
           T == {u \in Seq(S) : FactorsSound(u, W)}
<1> HIDE DEF S
<1>1. <<>> \in T
  <2>1. <<>> \in Seq(S) /\ \A X : <<>> \in Seq(X)
    OBVIOUS
  <2>2. PruneFactors(<<>>) = [tape |-> <<>>, slots |-> {}]
    BY <2>1, PruneFactorsFirst
  <2>3. \A m : Factors(<<>>, m) = [ok |-> TRUE, matrix |-> m, factors |-> <<>>]
    BY RunNone, FactorsRun
  <2>4. \A m : Factors(<<>>, m).ok /\ Factors(<<>>, m).factors = <<>>
    BY <2>3
  <2>5. \A r : ApplyTapeTransposed(r, <<>>, <<>>) = r
    BY ApplyNone
  <2>6. FactorsSound(<<>>, W)
    BY <2>2, <2>4, <2>5 DEF FactorsSound, SoundAt
  <2> QED BY <2>1, <2>6
<1>2. ASSUME NEW u \in Seq(S), u # <<>>, Tail(u) \in T PROVE u \in T
  <2>0. PICK g, v, p, o : g = u[1] /\ v = Tail(u) /\ p = PruneFactors(u) /\ o = PruneFactors(v)
    OBVIOUS
  <2>1. g \in Groups(W, R, C) /\ v \in Seq(Groups(W, R, C)) /\ FactorsSound(v, W)
    BY <1>2, <2>0, FirstOf DEF S
  <2>2. p = PruneFactor(o, g) /\ Pruned2(o, W, R, C)
    BY <1>2, <2>0, <2>1, PruneFactorsFirst, PruneFactorsIs
  <2> SUFFICES ASSUME NEW X \in SUBSET W, NEW m \in [W -> Field], NEW n \in [X -> Field], NEW d
               PROVE  SoundAt(u, X, m, n, d)
    BY DEF FactorsSound
  <2> SUFFICES ASSUME p.slots \subseteq X, \A w \in p.slots : n[w] = m[w],
                      IsWords(d), Factors(u, m).ok
               PROVE  /\ Factors(p.tape, n).ok
                      /\ ApplyTapeTransposed(d, p.tape, Factors(p.tape, n).factors) =
                           ApplyTapeTransposed(d, u, Factors(u, m).factors)
    BY <2>0 DEF SoundAt
  <2>0a. PICK f, a, e : /\ f = FactorOf(m, g) /\ a = Factors(v, After(m, g))
                        /\ e = ApplyTapeTransposed(d, v, a.factors)
    OBVIOUS
  <2>3. /\ ~Stuck(m, g) /\ a.ok /\ a.factors \in Seq(Field) /\ Len(a.factors) = Len(v)
        /\ Factors(u, m).factors \in Seq(Field) /\ Len(Factors(u, m).factors) = Len(u)
        /\ Factors(u, m).factors[1] = f /\ Tail(Factors(u, m).factors) = a.factors
    <3>1. /\ ~Stuck(m, g) /\ a.ok
          /\ Factors(u, m).factors \in Seq(Field) /\ Len(Factors(u, m).factors) = Len(u)
          /\ Factors(u, m).factors[1] = f /\ Tail(Factors(u, m).factors) = a.factors
      <4>1. FactorsFit(u, m) /\ FactorsFollow(u, m)
        BY <1>2, FactorsFirst DEF S
      <4> QED BY <2>0, <2>0a, <4>1 DEF FactorsFit, FactorsFollow
    <3>2. After(m, g) \in [W -> Field]
      BY <2>1, <3>1, AfterIs
    <3>3. FactorsFit(v, After(m, g))
      <4>1. PICK y \in [W -> Field] : y = After(m, g)
        BY <3>2
      <4>2. FactorsFit(v, y)
        BY <2>1, FactorsFirst
      <4> QED BY <4>1, <4>2
    <3> QED BY <2>0a, <2>1, <3>1, <3>3 DEF FactorsFit
  <2>4. ApplyTapeTransposed(d, u, Factors(u, m).factors) = ApplyTransposed(e, g, f)
    BY <1>2, <2>0, <2>0a, <2>3, ApplyFirst
  <2>5. After(m, g) \in [W -> Field] /\ IsWords(e)
    BY <2>0a, <2>1, <2>3, AfterIs, TransposedTapeWords
  <2>6. CASE FactorDropped(o, g)
    <3>1. p = o
      BY <2>1, <2>2, <2>6, PruneFactorIs
    <3>2. \A w \in o.slots : n[w] = After(m, g)[w]
      <4>1. \A w \in o.slots : \A x \in g.matrix : x[1] # w
        BY <2>6 DEF FactorDropped, PrunedPairs
      <4>2. \A w \in o.slots : w \in W
        BY <2>2 DEF Pruned2
      <4>3. \A w \in o.slots : After(m, g)[w] = m[w]
        <5>1. ~Stuck(m, g)
          BY <2>3
        <5>2. \A w \in W : (\A x \in g.matrix : x[1] # w) => After(m, g)[w] = m[w]
          BY <2>1, <5>1, AfterIs
        <5> QED BY <4>1, <4>2, <5>2
      <4> QED BY <3>1, <4>3
    <3>3. Factors(o.tape, n).ok /\ ApplyTapeTransposed(d, o.tape, Factors(o.tape, n).factors) = e
      <4>1. SoundAt(v, X, After(m, g), n, d)
        BY <2>1, <2>5 DEF FactorsSound
      <4> QED BY <2>3, <3>1, <3>2, <2>0, <2>0a, <4>1 DEF SoundAt
    <3>4. ApplyTransposed(e, g, f) = e
      BY <2>5, <2>6, TransposedWords DEF FactorDropped
    <3> QED BY <2>4, <3>1, <3>3, <3>4
  <2>7. CASE ~FactorDropped(o, g)
    <3>0. PICK h : h = FactorGroup(o, g)
      OBVIOUS
    <3>1. /\ h \in Groups(p.slots, R, C) /\ p.tape # <<>> /\ p.tape[1] = h /\ Tail(p.tape) = o.tape
          /\ p.slots = o.slots \union {x[2] : x \in PrunedPairs(o, g)} \union {g.slot}
          /\ Pruned2(p, W, R, C) /\ IsPart(h, g, PrunedPairs(o, g), g.rhs)
      <4>1. FactorKept(p, FactorGroup(o, g), o, g, R, C) /\ Pruned2(p, W, R, C)
        BY <2>1, <2>2, <2>7, PruneFactorIs
      <4> QED BY <3>0, <4>1 DEF FactorKept
    <3>2. h \in Groups(X, R, C) /\ p.tape \in Seq(Groups(X, R, C)) /\ o.tape \in Seq(Groups(X, R, C))
      <4>1. p.tape \in Seq(Groups(X, R, C)) /\ h \in Groups(X, R, C)
        BY <3>1, GroupsGrow DEF Pruned2
      <4>2. Tail(p.tape) \in Seq(Groups(X, R, C))
        <5>1. PICK y \in Seq(Groups(X, R, C)) : y = p.tape /\ y # <<>>
          BY <3>1, <4>1
        <5>2. Tail(y) \in Seq(Groups(X, R, C))
          BY <5>1, FirstOf
        <5> QED BY <5>1, <5>2
      <4> QED BY <3>1, <4>1, <4>2
    <3>3. /\ h.kind = g.kind /\ h.dst = g.dst /\ h.src = g.src /\ h.slot = g.slot
          /\ h.matrix = PrunedPairs(o, g) /\ h.rhs = g.rhs
      BY <3>1 DEF IsPart
    <3>4. /\ ~Stuck(n, h) /\ FactorOf(n, h) = f /\ After(n, h) \in [X -> Field]
          /\ \A w \in o.slots : After(n, h)[w] = After(m, g)[w]
      <4>1. o.slots \subseteq X /\ o.slots \subseteq W
        BY <2>2, <3>1 DEF Pruned2
      <4>2. h.matrix = {x \in g.matrix : x[1] \in o.slots}
        BY <3>3 DEF PrunedPairs
      <4>3. /\ n[g.slot] = m[g.slot] /\ \A w \in o.slots : n[w] = m[w]
            /\ \A x \in h.matrix : n[x[2]] = m[x[2]]
        BY <3>1, <3>3
      <4>4. PICK Y : Y = o.slots
        OBVIOUS
      <4>5. /\ Y \subseteq X /\ Y \subseteq W /\ h.kind = g.kind /\ h.slot = g.slot
            /\ h.matrix = {x \in g.matrix : x[1] \in Y}
            /\ n[g.slot] = m[g.slot] /\ \A w \in Y : n[w] = m[w]
            /\ \A x \in h.matrix : n[x[2]] = m[x[2]]
        BY <3>3, <4>1, <4>2, <4>3, <4>4
      <4>6. ~Stuck(m, g)
        BY <2>3
      <4>7. Followed(m, g, n, h, W, X, Y)
        BY <2>1, <3>2, <4>5, <4>6, MatricesFollow
      <4> QED BY <2>0a, <4>4, <4>7 DEF Followed
    <3>5. PICK b : b = Factors(o.tape, After(n, h))
      OBVIOUS
    <3>6. b.ok /\ ApplyTapeTransposed(d, o.tape, b.factors) = e
      <4>1. o.slots \subseteq X
        BY <3>1
      <4>2. SoundAt(v, X, After(m, g), After(n, h), d)
        BY <2>1, <2>5, <3>4 DEF FactorsSound
      <4> QED BY <2>3, <3>4, <4>1, <4>2, <2>0, <2>0a, <3>5 DEF SoundAt
    <3>7. /\ Factors(p.tape, n).ok
          /\ Factors(p.tape, n).factors \in Seq(Field) /\ Len(Factors(p.tape, n).factors) = Len(p.tape)
          /\ Factors(p.tape, n).factors[1] = f /\ Tail(Factors(p.tape, n).factors) = b.factors
      <4>1. PICK y \in Seq(Groups(X, R, C)) : y = p.tape /\ y # <<>> /\ y[1] = h /\ Tail(y) = o.tape
        BY <3>1, <3>2
      <4>2. FactorsFit(y, n) /\ FactorsFollow(y, n)
        BY <4>1, FactorsFirst
      <4> QED BY <4>1, <4>2, <3>4, <3>6, <3>5 DEF FactorsFit, FactorsFollow
    <3>8. ApplyTapeTransposed(d, p.tape, Factors(p.tape, n).factors) = ApplyTransposed(e, h, f)
      <4>1. PICK y \in Seq(Groups(X, R, C)) : y = p.tape /\ y # <<>> /\ y[1] = h /\ Tail(y) = o.tape
        BY <3>1, <3>2
      <4>2. PICK z \in Seq(Field) : z = Factors(p.tape, n).factors /\ Len(z) = Len(y)
        BY <3>7, <4>1
      <4>2a. Len(z) = Len(y)
        BY <4>2
      <4>3. ApplyTapeTransposed(d, y, z) =
              ApplyTransposed(ApplyTapeTransposed(d, Tail(y), Tail(z)), y[1], z[1])
        BY <4>1, <4>2a, ApplyFirst
      <4> QED BY <4>1, <4>2, <4>3, <3>6, <3>7
    <3>9. ApplyTransposed(e, h, f) = ApplyTransposed(e, g, f)
      BY <3>3 DEF ApplyTransposed, Updated
    <3> QED BY <2>4, <3>7, <3>8, <3>9
  <2> QED BY <2>6, <2>7
<1>3. T = Seq(S)
  <2> HIDE DEF T
  <2>1. T \subseteq Seq(S)
    BY DEF T
  <2> QED BY <1>1, <1>2, <2>1, LengthInduction
<1> QED BY <1>3 DEF S

\* Groups that differ in their columns only have the same factors.
Alter(t, u) ==
  /\ Len(t) = Len(u)
  /\ \A i \in 1 .. Len(t) : /\ u[i].kind = t[i].kind /\ u[i].dst = t[i].dst /\ u[i].src = t[i].src
                            /\ u[i].slot = t[i].slot /\ u[i].matrix = t[i].matrix

\* They have the same factors.
LEMMA AlterFactors ==
  ASSUME NEW S, NEW t \in Seq(S), NEW u \in Seq(S), Alter(t, u), NEW m
  PROVE  Factors(u, m) = Factors(t, m)
<1>1. PICK n \in Nat : n = Len(t) /\ DOMAIN t = 1 .. n /\ DOMAIN u = 1 .. n
  BY DEF Alter
<1> DEFINE z == [ok |-> TRUE, matrix |-> m, factors |-> <<>>]
<1>2. Factors(u, m) = Folded(z, 0, u, "run") /\ Factors(t, m) = Folded(z, 0, t, "run")
  BY FactorsFold
<1>3. Alike(n, 0, t, 0, u, "run")
  <2> SUFFICES ASSUME NEW i \in 1 .. n, NEW s
               PROVE  StepOf(s, 0, t[i], "run") = StepOf(s, 0, u[i], "run")
    BY DEF Alike
  <2>1. /\ u[i].kind = t[i].kind /\ u[i].slot = t[i].slot /\ u[i].matrix = t[i].matrix
    BY <1>1 DEF Alter
  <2>2. RunGroup(s, u[i]) = RunGroup(s, t[i])
    BY <2>1 DEF RunGroup, Updated
  <2> QED BY <2>2, StepRun
<1> HIDE DEF z
<1>4. Folded(z, 0, t, "run") = Folded(z, 0, u, "run")
  BY <1>1, <1>3, FoldAlike
<1> QED BY <1>2, <1>4

-----------------------------------------------------------------------------
(* Pairings of vectors, and how one changed word changes them. *)

(***************************************************************************)
(* The pairing of dual words with words, which the passes preserve.        *)
(***************************************************************************)
Pair(e, r, m, t) == Total([i \in Positions |-> e[<<i, m>>] * r[<<i, t>>]], Dim)

\* What a group adds to the pairing, on either side.
Moved(g, f, x, y) == IF g.kind = "scale" THEN (f - 1) * (x * y) ELSE -(f * (x * y))

\* Products of elements of the field are integers.
LEMMA ProductInt ==
  ASSUME NEW x \in Field, NEW y \in Field
  PROVE  x * y \in Int
<1>1. x \in Int /\ y \in Int
  BY PrimeIs
<1> QED BY <1>1

\* A pairing is an integer.
LEMMA PairInt ==
  ASSUME NEW e, NEW r, NEW m, NEW t,
         \A i \in Positions : e[<<i, m>>] \in Field /\ r[<<i, t>>] \in Field
  PROVE  Pair(e, r, m, t) \in Int
<1> DEFINE f == [i \in Positions |-> e[<<i, m>>] * r[<<i, t>>]]
<1>1. \A i \in Positions : e[<<i, m>>] * r[<<i, t>>] \in Int
  BY ProductInt
<1>2. \A i \in 1 .. Dim : f[i] \in Int
  BY <1>1 DEF Positions
<1> HIDE DEF f
<1>3. Total(f, Dim) \in Int
  BY <1>2, SystemsAssumption, TotalInt
<1> QED BY <1>3 DEF Pair, f

\* A pairing after one row changed.
LEMMA PairShift ==
  ASSUME NEW e, NEW r, NEW h, NEW s, NEW m, NEW t,
         \A i \in Positions : e[<<i, m>>] \in Field /\ r[<<i, t>>] \in Field
                              /\ h[<<i, m>>] \in Field /\ s[<<i, t>>] \in Field,
         NEW j \in Positions,
         \A i \in Positions : i # j => e[<<i, m>>] = h[<<i, m>>] /\ r[<<i, t>>] = s[<<i, t>>],
         NEW d \in Int,
         Congruent(e[<<j, m>>] * r[<<j, t>>], h[<<j, m>>] * s[<<j, t>>] + d)
  PROVE  Congruent(Pair(e, r, m, t), Pair(h, s, m, t) + d)
<1> DEFINE f == [i \in Positions |-> e[<<i, m>>] * r[<<i, t>>]]
           g == [i \in Positions |-> h[<<i, m>>] * s[<<i, t>>]]
<1>1. \A i \in Positions : e[<<i, m>>] * r[<<i, t>>] \in Int /\ h[<<i, m>>] * s[<<i, t>>] \in Int
  BY ProductInt
<1>2. \A i \in Positions : f[i] \in Int /\ g[i] \in Int
  BY <1>1
<1>3. \A i \in Positions : i # j => f[i] = g[i]
  OBVIOUS
<1>4. Congruent(f[j], g[j] + d)
  OBVIOUS
<1>5. Pair(e, r, m, t) = Total(f, Dim) /\ Pair(h, s, m, t) = Total(g, Dim)
  BY DEF Pair
<1> HIDE DEF f, g
<1>6. Positions = 1 .. Dim /\ Dim \in Nat
  BY SystemsAssumption DEF Positions
<1>7. PICK a, b, x, y : a = Total(f, Dim) /\ b = Total(g, Dim) /\ x = f[j] /\ y = g[j]
  OBVIOUS
<1>8. a = b + (x - y) /\ a \in Int /\ b \in Int /\ x \in Int /\ y \in Int
  <2>1. Total(f, Dim) = Total(g, Dim) + (f[j] - g[j])
    BY <1>2, <1>3, <1>6, TotalOne
  <2>2. Total(f, Dim) \in Int /\ Total(g, Dim) \in Int
    BY <1>2, <1>6, TotalInt
  <2> QED BY <1>2, <1>7, <2>1, <2>2
<1>9. Congruent(x, y + d)
  BY <1>4, <1>7
<1>10. PICK z \in Int, u \in Int : z = b - y /\ u = y + d
  BY <1>8
<1>11. Congruent(z, z) /\ Congruent(x, u)
  BY <1>9, <1>10 DEF Congruent
<1>12. a = z + x /\ b + d = z + u
  BY <1>8, <1>10
<1>13. Congruent(a, b + d)
  <2>1. PICK v : v = b + d
    OBVIOUS
  <2>2. Congruent(a, v)
    BY <1>8, <1>10, <1>11, <1>12, <2>1, CongruentSum
  <2> QED BY <2>1, <2>2
<1> QED BY <1>5, <1>7, <1>13

\* A word that a group changes, against the word as it was.
LEMMA ChangeScaled ==
  ASSUME NEW x \in Field, NEW y \in Field, NEW f \in Field
  PROVE  /\ Congruent(((x * f) % Prime) * y, x * y + (f - 1) * (x * y))
         /\ Congruent(x * ((y * f) % Prime), x * y + (f - 1) * (x * y))
         /\ (f - 1) * (x * y) \in Int /\ (x * f) % Prime \in Field
<1>0. x \in Int /\ y \in Int /\ f \in Int
  BY PrimeIs
<1>1. PICK a \in Int, b \in Int, c \in Int : a = x * f /\ b = y * f /\ c = x * y
  BY <1>0
<1>2. y * a = c + (f - 1) * c /\ x * b = c + (f - 1) * c /\ (f - 1) * c \in Int
  <2>1. (f - 1) * c = f * c - c
    BY <1>0
  <2>2. y * (x * f) = f * (x * y) /\ x * (y * f) = f * (x * y)
    BY <1>0
  <2>3. f * c \in Int
    BY <1>0
  <2> QED BY <1>0, <1>1, <2>1, <2>2, <2>3
<1>3. a % Prime \in Field /\ b % Prime \in Field /\ Congruent(a % Prime, a) /\ Congruent(b % Prime, b)
  BY RemainderIs, CongruentRemainder
<1>4. PICK p \in Int, q \in Int : p = a % Prime /\ q = b % Prime
  BY <1>3, PrimeIs
<1>5. Congruent(y * p, y * a) /\ Congruent(x * q, x * b)
  BY <1>0, <1>3, <1>4, CongruentMultiple
<1>6. p * y = y * p
  BY <1>0
<1> QED BY <1>1, <1>2, <1>3, <1>4, <1>5, <1>6

\* The change an elimination makes to a product.
LEMMA ChangeSubtracted ==
  ASSUME NEW x \in Field, NEW y \in Field, NEW z \in Field, NEW f \in Field
  PROVE  /\ Congruent(SubtractMultiply(x, f, z) * y, x * y + (-(f * (z * y))))
         /\ Congruent(y * SubtractMultiply(x, f, z), y * x + (-(f * (y * z))))
         /\ -(f * (z * y)) \in Int /\ SubtractMultiply(x, f, z) \in Field
<1>0. x \in Int /\ y \in Int /\ f \in Int /\ z \in Int
  BY PrimeIs
<1>1. PICK a \in Int, c \in Int, d \in Int : a = x - f * z /\ c = z * y /\ d = f * c
  BY <1>0
<1>2. y * a = x * y + (-d) /\ y * a = y * x + (-d)
  <2>1. y * (x - f * z) = y * x - y * (f * z)
    <3>1. PICK k \in Int : k = f * z
      BY <1>0
    <3>2. y * (x - k) = y * x - y * k
      BY <1>0
    <3> QED BY <3>1, <3>2
  <2>2. y * (f * z) = f * (z * y)
    BY <1>0
  <2>3. y * x \in Int /\ x * y = y * x
    BY <1>0
  <2> QED BY <1>0, <1>1, <2>1, <2>2, <2>3
<1>3. a % Prime \in Field /\ Congruent(a % Prime, a) /\ SubtractMultiply(x, f, z) = a % Prime
  BY <1>1, RemainderIs, CongruentRemainder DEF SubtractMultiply
<1>4. PICK p \in Int : p = a % Prime
  BY <1>3, PrimeIs
<1>5. Congruent(y * p, y * a)
  BY <1>0, <1>3, <1>4, CongruentMultiple
<1>6. p * y = y * p /\ y * z = c
  BY <1>0, <1>1
<1> QED BY <1>1, <1>2, <1>3, <1>4, <1>5, <1>6

\* The change is an integer.
LEMMA MovedInt ==
  ASSUME NEW g, NEW f \in Field, NEW x \in Field, NEW y \in Field
  PROVE  Moved(g, f, x, y) \in Int
BY ChangeScaled, ChangeSubtracted DEF Moved

\* The pairing after a transposed group on the left.
LEMMA PairLeft ==
  ASSUME NEW e, NEW r, NEW m, NEW t,
         \A i \in Positions : e[<<i, m>>] \in Field /\ r[<<i, t>>] \in Field /\ <<i, m>> \in DOMAIN e,
         NEW g, g.src \in Positions, g.dst \in Positions, g.kind = "scale" => g.dst = g.src,
         m \in g.rhs, NEW f \in Field
  PROVE  /\ \A i \in Positions : ApplyTransposed(e, g, f)[<<i, m>>] \in Field
         /\ Congruent(Pair(ApplyTransposed(e, g, f), r, m, t),
                      Pair(e, r, m, t) + Moved(g, f, e[<<g.dst, m>>], r[<<g.src, t>>]))
<1>1. PICK h, j, x, y, z, d : /\ h = ApplyTransposed(e, g, f) /\ j = g.src
                              /\ x = e[<<g.src, m>>] /\ y = r[<<g.src, t>>] /\ z = e[<<g.dst, m>>]
                              /\ d = Moved(g, f, z, y)
  OBVIOUS
<1>2. x \in Field /\ y \in Field /\ z \in Field /\ d \in Int
  <2>1. x \in Field /\ y \in Field /\ z \in Field
    BY <1>1
  <2> QED BY <1>1, <2>1, MovedInt
<1>3. h[<<j, m>>] = IF g.kind = "scale" THEN (x * f) % Prime ELSE SubtractMultiply(x, f, z)
  BY <1>1, ApplyTransposedIs
<1>4. \A i \in Positions : i # j => h[<<i, m>>] = e[<<i, m>>]
  <2> SUFFICES ASSUME NEW i \in Positions, i # j PROVE h[<<i, m>>] = e[<<i, m>>]
    OBVIOUS
  <2>1. <<i, m>> \in DOMAIN e /\ <<i, m>> \notin {g.src} \X g.rhs
    BY <1>1
  <2> QED BY <1>1, <2>1, ApplyTransposedIs
<1>5. h[<<j, m>>] \in Field /\ Congruent(h[<<j, m>>] * y, x * y + d)
  <2>1. CASE g.kind = "scale"
    <3>1. z = x /\ d = (f - 1) * (x * y)
      BY <1>1, <2>1 DEF Moved
    <3>2. Congruent(((x * f) % Prime) * y, x * y + (f - 1) * (x * y)) /\ (x * f) % Prime \in Field
      BY <1>2, ChangeScaled
    <3> QED BY <1>3, <2>1, <3>1, <3>2
  <2>2. CASE g.kind # "scale"
    <3>1. d = -(f * (z * y))
      BY <1>1, <2>2 DEF Moved
    <3>2. /\ Congruent(SubtractMultiply(x, f, z) * y, x * y + (-(f * (z * y))))
          /\ SubtractMultiply(x, f, z) \in Field
      BY <1>2, ChangeSubtracted
    <3> QED BY <1>3, <2>2, <3>1, <3>2
  <2> QED BY <2>1, <2>2
<1>6. \A i \in Positions : h[<<i, m>>] \in Field
  BY <1>4, <1>5
<1>7. /\ j \in Positions /\ Congruent(h[<<j, m>>] * r[<<j, t>>], e[<<j, m>>] * r[<<j, t>>] + d)
  BY <1>1, <1>5
<1>8. Congruent(Pair(h, r, m, t), Pair(e, r, m, t) + d)
  BY <1>2, <1>4, <1>6, <1>7, PairShift
<1> QED BY <1>1, <1>6, <1>8

\* The pairing after the group on the right: the same change.
LEMMA PairRight ==
  ASSUME NEW e, NEW r, NEW m, NEW t,
         \A i \in Positions : e[<<i, m>>] \in Field /\ r[<<i, t>>] \in Field /\ <<i, t>> \in DOMAIN r,
         NEW g, g.src \in Positions, g.dst \in Positions, g.kind = "scale" => g.dst = g.src,
         t \in g.rhs \/ r[<<g.src, t>>] = 0, NEW f \in Field
  PROVE  /\ \A i \in Positions : ApplyGroup(r, g, f)[<<i, t>>] \in Field
         /\ Congruent(Pair(e, ApplyGroup(r, g, f), m, t),
                      Pair(e, r, m, t) + Moved(g, f, e[<<g.dst, m>>], r[<<g.src, t>>]))
<1>1. PICK h, j, x, y, z, d : /\ h = ApplyGroup(r, g, f) /\ j = g.dst
                              /\ x = r[<<g.dst, t>>] /\ y = e[<<g.dst, m>>] /\ z = r[<<g.src, t>>]
                              /\ d = Moved(g, f, y, z)
  OBVIOUS
<1>2. x \in Field /\ y \in Field /\ z \in Field /\ d \in Int
  <2>1. x \in Field /\ y \in Field /\ z \in Field
    BY <1>1
  <2> QED BY <1>1, <2>1, MovedInt
<1>3. h[<<j, t>>] = IF g.kind = "scale" THEN (x * f) % Prime ELSE SubtractMultiply(x, f, z)
  <2>1. CASE t \in g.rhs
    BY <1>1, <2>1, ApplyGroupIs
  <2>2. CASE t \notin g.rhs
    <3>1. <<j, t>> \in DOMAIN r /\ <<j, t>> \notin {g.dst} \X g.rhs /\ z = 0
      BY <1>1, <2>2
    <3>2. h[<<j, t>>] = x
      BY <1>1, <3>1, ApplyGroupIs
    <3>3. x % Prime = x /\ x \in Int /\ f \in Int
      BY <1>2, OfField, PrimeIs
    <3>4. CASE g.kind = "scale"
      <4>1. x = 0
        BY <1>1, <3>1, <3>4
      <4>2. x * f = 0
        BY <3>3, <4>1
      <4> QED BY <3>2, <3>3, <3>4, <4>1, <4>2
    <3>5. CASE g.kind # "scale"
      <4>1. x - f * z = x
        BY <3>1, <3>3
      <4> QED BY <3>2, <3>3, <3>5, <4>1 DEF SubtractMultiply
    <3> QED BY <3>4, <3>5
  <2> QED BY <2>1, <2>2
<1>4. \A i \in Positions : i # j => h[<<i, t>>] = r[<<i, t>>]
  <2> SUFFICES ASSUME NEW i \in Positions, i # j PROVE h[<<i, t>>] = r[<<i, t>>]
    OBVIOUS
  <2>1. <<i, t>> \in DOMAIN r /\ <<i, t>> \notin {g.dst} \X g.rhs
    BY <1>1
  <2> QED BY <1>1, <2>1, ApplyGroupIs
<1>5. h[<<j, t>>] \in Field /\ Congruent(y * h[<<j, t>>], y * x + d)
  <2>1. CASE g.kind = "scale"
    <3>1. x = z
      BY <1>1, <2>1
    <3>2. d = (f - 1) * (y * x)
      BY <1>1, <2>1, <3>1 DEF Moved
    <3>3. Congruent(y * ((x * f) % Prime), y * x + (f - 1) * (y * x)) /\ (x * f) % Prime \in Field
      BY <1>2, ChangeScaled
    <3> QED BY <1>3, <2>1, <3>2, <3>3
  <2>2. CASE g.kind # "scale"
    <3>1. d = -(f * (y * z))
      BY <1>1, <2>2 DEF Moved
    <3>2. /\ Congruent(y * SubtractMultiply(x, f, z), y * x + (-(f * (y * z))))
          /\ SubtractMultiply(x, f, z) \in Field
      BY <1>2, ChangeSubtracted
    <3> QED BY <1>3, <2>2, <3>1, <3>2
  <2> QED BY <2>1, <2>2
<1>6. \A i \in Positions : h[<<i, t>>] \in Field
  BY <1>4, <1>5
<1>7. /\ j \in Positions /\ Congruent(e[<<j, m>>] * h[<<j, t>>], e[<<j, m>>] * r[<<j, t>>] + d)
  BY <1>1, <1>5
<1>8. Congruent(Pair(e, h, m, t), Pair(e, r, m, t) + d)
  BY <1>2, <1>4, <1>6, <1>7, PairShift
<1> QED BY <1>1, <1>6, <1>8

-----------------------------------------------------------------------------
(* One factor of a tape and its transpose are adjoint. *)

(***************************************************************************)
(* A tape, transposed on one side of the pairing, is the tape on the       *)
(* other.                                                                  *)
(***************************************************************************)
Words(C) == [Positions \X C -> Field]

\* Words outside of A are zero.
ZeroOff(r, A) == \A w \in DOMAIN r : w \notin A => r[w] = 0

\* A tape for the columns M.
Widened(t, M) == [i \in DOMAIN t |-> [t[i] EXCEPT !.rhs = M]]

\* Each group acts on every column the word it reads may be nonzero in, when
\* the tape starts with zero off A, and ends with zero off B.
TapeLive(t, A, B) ==
  /\ A \subseteq B
  /\ \A i \in 1 .. Len(t) : \A x :
       /\ \/ <<t[i].src, x>> \in A
          \/ \E j \in 1 .. i - 1 : t[j].dst = t[i].src /\ x \in t[j].rhs
          => x \in t[i].rhs
       /\ x \in t[i].rhs => <<t[i].dst, x>> \in B

Written(A, g) == A \union ({g.dst} \X g.rhs)

\* Such a tape without its first group.
LEMMA LiveTail ==
  ASSUME NEW S, NEW t \in Seq(S), t # <<>>, NEW A, NEW B, TapeLive(t, A, B)
  PROVE  /\ TapeLive(Tail(t), Written(A, t[1]), B)
         /\ \A x : <<t[1].src, x>> \in A => x \in t[1].rhs
<1>1. /\ Len(t) = Len(Tail(t)) + 1 /\ Len(Tail(t)) \in Nat
      /\ \A i \in 1 .. Len(Tail(t)) : Tail(t)[i] = t[i + 1]
  BY FirstOf
<1>2. PICK n, u : n \in Nat /\ n = Len(Tail(t)) /\ u = Tail(t) /\ Len(t) = n + 1
  BY <1>1
<1>3. \A i \in 1 .. n : u[i] = t[i + 1]
  BY <1>1, <1>2
<1>4. 1 \in 1 .. Len(t)
  BY <1>2
<1>5. \A x : <<t[1].src, x>> \in A => x \in t[1].rhs
  BY <1>4 DEF TapeLive
<1>6. \A x : x \in t[1].rhs => <<t[1].dst, x>> \in B
  BY <1>4 DEF TapeLive
<1>7. Written(A, t[1]) \subseteq B
  BY <1>6 DEF TapeLive, Written
<1>8. ASSUME NEW i \in 1 .. n, NEW x,
             \/ <<u[i].src, x>> \in Written(A, t[1])
             \/ \E j \in 1 .. i - 1 : u[j].dst = u[i].src /\ x \in u[j].rhs
      PROVE  x \in u[i].rhs
  <2>1. i + 1 \in 1 .. Len(t) /\ u[i] = t[i + 1]
    BY <1>2, <1>3
  <2>2. CASE <<u[i].src, x>> \in A
    BY <2>1, <2>2 DEF TapeLive
  <2>3. CASE u[i].src = t[1].dst /\ x \in t[1].rhs
    <3>1. 1 \in 1 .. (i + 1) - 1
      OBVIOUS
    <3> QED BY <2>1, <2>3, <3>1 DEF TapeLive
  <2>4. CASE \E j \in 1 .. i - 1 : u[j].dst = u[i].src /\ x \in u[j].rhs
    <3>1. PICK j \in 1 .. i - 1 : u[j].dst = u[i].src /\ x \in u[j].rhs
      BY <2>4
    <3>2. j \in 1 .. n /\ j + 1 \in 1 .. (i + 1) - 1
      BY <1>2
    <3>3. u[j] = t[j + 1]
      BY <1>3, <3>2
    <3> QED BY <2>1, <3>1, <3>2, <3>3 DEF TapeLive
  <2> QED BY <1>8, <2>2, <2>3, <2>4 DEF Written
<1>9. ASSUME NEW i \in 1 .. n, NEW x, x \in u[i].rhs
      PROVE  <<u[i].dst, x>> \in B
  <2>1. i + 1 \in 1 .. Len(t) /\ u[i] = t[i + 1]
    BY <1>2, <1>3
  <2> QED BY <1>9, <2>1 DEF TapeLive
<1>10. TapeLive(u, Written(A, t[1]), B)
  BY <1>2, <1>7, <1>8, <1>9 DEF TapeLive
<1> QED BY <1>2, <1>5, <1>10

\* A widened tape is a tape,
LEMMA WidenedTyped ==
  ASSUME NEW W, NEW R, NEW C, NEW t \in Seq(Groups(W, R, C)), NEW M
  PROVE  Widened(t, M) \in Seq(Groups(W, R, M)) /\ Len(Widened(t, M)) = Len(t)
<1>1. DOMAIN t = 1 .. Len(t) /\ Len(t) \in Nat /\ \A i \in 1 .. Len(t) : t[i] \in Groups(W, R, C)
  BY SequenceIs
<1>2. \A g \in Groups(W, R, C) : [g EXCEPT !.rhs = M] \in Groups(W, R, M)
  BY DEF Groups
<1>3. Widened(t, M) = [i \in 1 .. Len(t) |-> [t[i] EXCEPT !.rhs = M]]
  BY <1>1 DEF Widened
<1>4. \A i \in 1 .. Len(t) : [t[i] EXCEPT !.rhs = M] \in Groups(W, R, M)
  BY <1>1, <1>2
<1>5. Widened(t, M) \in [1 .. Len(t) -> Groups(W, R, M)]
  BY <1>3, <1>4
<1> QED BY <1>1, <1>5

\* with the first group widened first.
LEMMA WidenedFirst ==
  ASSUME NEW W, NEW R, NEW C, NEW t \in Seq(Groups(W, R, C)), NEW M
  PROVE  /\ Widened(t, M) \in Seq(Groups(W, R, M)) /\ Len(Widened(t, M)) = Len(t)
         /\ t = <<>> => Widened(t, M) = <<>>
         /\ t # <<>> => /\ Widened(t, M) # <<>>
                        /\ Widened(t, M)[1] = [t[1] EXCEPT !.rhs = M]
                        /\ Tail(Widened(t, M)) = Widened(Tail(t), M)
         /\ Alter(t, Widened(t, M))
<1>1. DOMAIN t = 1 .. Len(t) /\ Len(t) \in Nat /\ \A i \in 1 .. Len(t) : t[i] \in Groups(W, R, C)
  BY SequenceIs
<1>2. ASSUME NEW g \in Groups(W, R, C)
      PROVE  LET h == [g EXCEPT !.rhs = M] IN h \in Groups(W, R, M) /\ IsPart(h, g, g.matrix, M)
  BY DEF Groups, IsPart
<1>3. \A i \in 1 .. Len(t) : Widened(t, M)[i] = [t[i] EXCEPT !.rhs = M]
  BY <1>1 DEF Widened
<1>4. \A i \in 1 .. Len(t) : [t[i] EXCEPT !.rhs = M] \in Groups(W, R, M)
  BY <1>1, <1>2
<1>5. Widened(t, M) = [i \in 1 .. Len(t) |-> [t[i] EXCEPT !.rhs = M]]
  BY <1>1 DEF Widened
<1>6. Widened(t, M) \in [1 .. Len(t) -> Groups(W, R, M)]
  BY <1>4, <1>5
<1>7. Widened(t, M) \in Seq(Groups(W, R, M)) /\ Len(Widened(t, M)) = Len(t)
  BY <1>1, <1>6
<1>8. ASSUME t = <<>> PROVE Widened(t, M) = <<>>
  BY <1>7, <1>8
<1>9. ASSUME t # <<>>
      PROVE  /\ Widened(t, M) # <<>> /\ Widened(t, M)[1] = [t[1] EXCEPT !.rhs = M]
             /\ Tail(Widened(t, M)) = Widened(Tail(t), M)
  <2>1. /\ Len(t) = Len(Tail(t)) + 1 /\ Len(Tail(t)) \in Nat /\ DOMAIN Tail(t) = 1 .. Len(Tail(t))
        /\ \A i \in 1 .. Len(Tail(t)) : Tail(t)[i] = t[i + 1]
    BY <1>9, FirstOf
  <2>2. PICK n \in Nat : n = Len(Tail(t)) /\ Len(t) = n + 1
    BY <2>1
  <2>3. Widened(t, M) # <<>> /\ 1 \in 1 .. Len(t)
    <3>1. Len(Widened(t, M)) = n + 1
      BY <1>7, <2>2
    <3>2. Len(<<>>) = 0
      OBVIOUS
    <3>3. Widened(t, M) # <<>>
      BY <3>1, <3>2
    <3> QED BY <2>2, <3>3
  <2>4. /\ Len(Tail(Widened(t, M))) = n /\ DOMAIN Tail(Widened(t, M)) = 1 .. n
        /\ \A i \in 1 .. n : Tail(Widened(t, M))[i] = Widened(t, M)[i + 1]
        /\ Tail(Widened(t, M)) \in Seq(Groups(W, R, M))
    BY <1>7, <2>2, TailIs
  <2>5. Widened(Tail(t), M) = [i \in 1 .. n |-> [Tail(t)[i] EXCEPT !.rhs = M]]
    BY <2>1, <2>2 DEF Widened
  <2>6. ASSUME NEW i \in 1 .. n PROVE Tail(Widened(t, M))[i] = [Tail(t)[i] EXCEPT !.rhs = M]
    <3>1. i + 1 \in 1 .. Len(t) /\ Tail(t)[i] = t[i + 1]
      BY <2>1, <2>2
    <3> QED BY <1>3, <2>4, <3>1
  <2>7. Tail(Widened(t, M)) = [i \in 1 .. n |-> Tail(Widened(t, M))[i]]
    <3>1. PICK q : q = Tail(Widened(t, M))
      OBVIOUS
    <3>2. q \in Seq(Groups(W, R, M)) /\ Len(q) = n
      BY <2>4, <3>1
    <3>3. q = [i \in 1 .. n |-> q[i]]
      BY <3>2
    <3> QED BY <3>1, <3>3
  <2> QED BY <1>3, <2>3, <2>5, <2>6, <2>7
<1>10. Alter(t, Widened(t, M))
  <2>1. ASSUME NEW i \in 1 .. Len(t) PROVE IsPart(Widened(t, M)[i], t[i], t[i].matrix, M)
    BY <1>1, <1>2, <1>3
  <2> QED BY <1>7, <2>1 DEF Alter, IsPart
<1> QED BY <1>7, <1>8, <1>9, <1>10

\* A group on the words of C.
ActsOn(g, C) ==
  /\ g.dst \in Positions /\ g.src \in Positions /\ g.rhs \subseteq C
  /\ g.kind = "scale" => g.dst = g.src

\* The groups of a tape are.
LEMMA GroupActs ==
  ASSUME NEW W, NEW R, R \subseteq Positions, NEW C, NEW g \in Groups(W, R, C)
  PROVE  ActsOn(g, C)
BY DEF Groups, ActsOn

\* A group keeps words what they are, and zero off what it wrote.
LEMMA GroupOnWords ==
  ASSUME NEW C, NEW g, ActsOn(g, C), NEW r \in Words(C), NEW f \in Field
  PROVE  /\ ApplyGroup(r, g, f) \in Words(C)
         /\ \A A : ZeroOff(r, A) => ZeroOff(ApplyGroup(r, g, f), Written(A, g))
<1>1. /\ g.dst \in Positions /\ g.src \in Positions /\ g.rhs \subseteq C
      /\ g.kind = "scale" => g.dst = g.src
  BY DEF ActsOn
<1>2. DOMAIN r = Positions \X C /\ \A w \in Positions \X C : r[w] \in Field
  BY DEF Words
<1>3. PICK q : q = ApplyGroup(r, g, f)
  OBVIOUS
<1>4. /\ DOMAIN q = Positions \X C
      /\ \A w \in Positions \X C : w \notin {g.dst} \X g.rhs => q[w] = r[w]
      /\ \A t \in g.rhs : q[<<g.dst, t>>] = IF g.kind = "scale" THEN (r[<<g.dst, t>>] * f) % Prime
                                             ELSE SubtractMultiply(r[<<g.dst, t>>], f, r[<<g.src, t>>])
  BY <1>1, <1>2, <1>3, ApplyGroupIs
<1>5. \A t \in g.rhs : q[<<g.dst, t>>] \in Field
  <2> SUFFICES ASSUME NEW t \in g.rhs PROVE q[<<g.dst, t>>] \in Field
    OBVIOUS
  <2>1. PICK x \in Field, y \in Field : x = r[<<g.dst, t>>] /\ y = r[<<g.src, t>>]
    BY <1>1, <1>2
  <2>2. SubtractMultiply(x, f, y) \in Field /\ (x * f) % Prime \in Field
    BY SubtractMultiplyIs
  <2> QED BY <1>4, <2>1, <2>2
<1>6. \A w \in Positions \X C : q[w] \in Field
  BY <1>2, <1>4, <1>5
<1>7. q = [w \in DOMAIN r |-> q[w]]
  BY <1>3 DEF ApplyGroup, Updated
<1>8. q \in Words(C)
  BY <1>2, <1>6, <1>7 DEF Words
<1>9. ASSUME NEW A, ZeroOff(r, A) PROVE ZeroOff(q, Written(A, g))
  BY <1>2, <1>4, <1>9 DEF ZeroOff, Written
<1> QED BY <1>3, <1>8, <1>9

\* A transposed group keeps words what they are.
LEMMA TransposedOnWords ==
  ASSUME NEW C, NEW g, ActsOn(g, C), NEW e \in Words(C), NEW f \in Field
  PROVE  ApplyTransposed(e, g, f) \in Words(C)
<1>1. /\ g.dst \in Positions /\ g.src \in Positions /\ g.rhs \subseteq C
  BY DEF ActsOn
<1>2. DOMAIN e = Positions \X C /\ \A w \in Positions \X C : e[w] \in Field
  BY DEF Words
<1>3. PICK q : q = ApplyTransposed(e, g, f)
  OBVIOUS
<1>4. /\ DOMAIN q = Positions \X C
      /\ \A w \in Positions \X C : w \notin {g.src} \X g.rhs => q[w] = e[w]
      /\ \A t \in g.rhs : q[<<g.src, t>>] = IF g.kind = "scale" THEN (e[<<g.src, t>>] * f) % Prime
                                             ELSE SubtractMultiply(e[<<g.src, t>>], f, e[<<g.dst, t>>])
  BY <1>1, <1>2, <1>3, ApplyTransposedIs
<1>5. \A t \in g.rhs : q[<<g.src, t>>] \in Field
  <2> SUFFICES ASSUME NEW t \in g.rhs PROVE q[<<g.src, t>>] \in Field
    OBVIOUS
  <2>1. PICK x \in Field, y \in Field : x = e[<<g.src, t>>] /\ y = e[<<g.dst, t>>]
    BY <1>1, <1>2
  <2>2. SubtractMultiply(x, f, y) \in Field /\ (x * f) % Prime \in Field
    BY SubtractMultiplyIs
  <2> QED BY <1>4, <2>1, <2>2
<1>6. \A w \in Positions \X C : q[w] \in Field
  BY <1>2, <1>4, <1>5
<1>7. q = [w \in DOMAIN e |-> q[w]]
  BY <1>3 DEF ApplyTransposed, Updated
<1> QED BY <1>2, <1>3, <1>6, <1>7 DEF Words

\* The pairing of h with r is that of e with q.
Adjoint(h, r, e, q, M) ==
  \A m \in M, x \in Requests : Congruent(Pair(h, r, m, x), Pair(e, q, m, x))

\* One group.
LEMMA GroupAdjoint ==
  ASSUME NEW W, NEW R, R \subseteq Positions, NEW g \in Groups(W, R, Requests), NEW M,
         NEW r \in Words(Requests), NEW e \in Words(M), NEW f \in Field,
         \A x \in Requests : r[<<g.src, x>>] # 0 => x \in g.rhs
  PROVE  Adjoint(ApplyTransposed(e, [g EXCEPT !.rhs = M], f), r, e, ApplyGroup(r, g, f), M)
<1> SUFFICES ASSUME NEW m \in M, NEW x \in Requests
             PROVE  Congruent(Pair(ApplyTransposed(e, [g EXCEPT !.rhs = M], f), r, m, x),
                              Pair(e, ApplyGroup(r, g, f), m, x))
  BY DEF Adjoint
<1>1. PICK h : h = [g EXCEPT !.rhs = M]
  OBVIOUS
<1>2. /\ h.dst = g.dst /\ h.src = g.src /\ h.kind = g.kind /\ h.rhs = M
      /\ g.dst \in Positions /\ g.src \in Positions
      /\ g.kind = "scale" => g.dst = g.src
  BY <1>1 DEF Groups
<1>3. \A i \in Positions : /\ e[<<i, m>>] \in Field /\ <<i, m>> \in DOMAIN e
                           /\ r[<<i, x>>] \in Field /\ <<i, x>> \in DOMAIN r
  BY DEF Words
<1>4. PICK d : d = Moved(g, f, e[<<g.dst, m>>], r[<<g.src, x>>])
  OBVIOUS
<1>5. Moved(h, f, e[<<h.dst, m>>], r[<<h.src, x>>]) = d
  BY <1>2, <1>4 DEF Moved
<1>6. Congruent(Pair(ApplyTransposed(e, h, f), r, m, x), Pair(e, r, m, x) + d)
  <2>1. h.src \in Positions /\ h.dst \in Positions /\ (h.kind = "scale" => h.dst = h.src) /\ m \in h.rhs
    BY <1>2
  <2> QED BY <1>3, <1>5, <2>1, PairLeft
<1>7. Congruent(Pair(e, ApplyGroup(r, g, f), m, x), Pair(e, r, m, x) + d)
  <2>1. x \in g.rhs \/ r[<<g.src, x>>] = 0
    OBVIOUS
  <2> QED BY <1>2, <1>3, <1>4, <2>1, PairRight
<1> QED BY <1>1, <1>6, <1>7 DEF Congruent

-----------------------------------------------------------------------------
(* A tape and its transpose are adjoint. *)

TapePairsAt(t, M, fs, A, B, r, e) ==
  /\ Len(fs) = Len(t) /\ TapeLive(t, A, B)
  /\ r \in Words(Requests) /\ ZeroOff(r, A) /\ e \in Words(M)
  => /\ ApplyTapeTransposed(e, Widened(t, M), fs) \in Words(M)
     /\ ApplyTape(r, t, fs) \in Words(Requests)
     /\ ZeroOff(ApplyTape(r, t, fs), B)
     /\ Adjoint(ApplyTapeTransposed(e, Widened(t, M), fs), r, e, ApplyTape(r, t, fs), M)

TapePairs(t, M) ==
  \A fs \in Seq(Field) : \A A, B, r, e : TapePairsAt(t, M, fs, A, B, r, e)

\* A tape and its transpose are adjoint, by induction on the tape.
LEMMA TapeAdjoint ==
  ASSUME NEW W, NEW R, R \subseteq Positions, NEW M, NEW t \in Seq(Groups(W, R, Requests))
  PROVE  TapePairs(t, M)
<1> DEFINE S == Groups(W, R, Requests)
           T == {u \in Seq(S) : TapePairs(u, M)}
<1>1. <<>> \in T
  <2>1. <<>> \in Seq(S)
    OBVIOUS
  <2> SUFFICES ASSUME NEW fs \in Seq(Field), NEW A, NEW B, NEW r, NEW e,
                      Len(fs) = Len(<<>>), TapeLive(<<>>, A, B),
                      r \in Words(Requests), ZeroOff(r, A), e \in Words(M)
               PROVE  TapePairsAt(<<>>, M, fs, A, B, r, e)
    BY <2>1 DEF TapePairs, TapePairsAt
  <2>2. Widened(<<>>, M) = <<>>
    BY DEF Widened
  <2>3. ApplyTape(r, <<>>, fs) = r /\ ApplyTapeTransposed(e, <<>>, fs) = e
    BY ApplyNone
  <2>4. ZeroOff(r, B)
    BY DEF TapeLive, ZeroOff
  <2>5. Adjoint(e, r, e, r, M)
    BY DEF Adjoint, Congruent
  <2> QED BY <2>2, <2>3, <2>4, <2>5 DEF TapePairsAt
<1>2. ASSUME NEW u \in Seq(S), u # <<>>, Tail(u) \in T PROVE u \in T
  <2> SUFFICES ASSUME NEW fs \in Seq(Field), NEW A, NEW B, NEW r, NEW e,
                      Len(fs) = Len(u), TapeLive(u, A, B),
                      r \in Words(Requests), ZeroOff(r, A), e \in Words(M)
               PROVE  TapePairsAt(u, M, fs, A, B, r, e)
    BY DEF TapePairs, TapePairsAt
  <2>1. u[1] \in S /\ Tail(u) \in Seq(S) /\ Len(u) = Len(Tail(u)) + 1 /\ Len(Tail(u)) \in Nat
    BY <1>2, FirstOf
  <2>2. fs # <<>> /\ fs[1] \in Field /\ Tail(fs) \in Seq(Field) /\ Len(Tail(fs)) = Len(Tail(u))
    BY <2>1, TailIs
  <2>3. /\ Widened(u, M) \in Seq(Groups(W, R, M)) /\ Len(Widened(u, M)) = Len(u)
        /\ Widened(u, M) # <<>>
        /\ Widened(u, M)[1] = [u[1] EXCEPT !.rhs = M]
        /\ Tail(Widened(u, M)) = Widened(Tail(u), M)
    BY <1>2, WidenedFirst
  <2>4. PICK g, f, v, ws, q, A1 : /\ g = u[1] /\ f = fs[1] /\ v = Tail(u) /\ ws = Tail(fs)
                                 /\ q = ApplyGroup(r, g, f) /\ A1 = Written(A, g)
    OBVIOUS
  <2>5. ApplyTape(r, u, fs) = ApplyTape(q, v, ws)
    BY <1>2, <2>4, ApplyFirst
  <2>6. PICK h : h = ApplyTapeTransposed(e, Widened(v, M), ws)
    OBVIOUS
  <2>7. ApplyTapeTransposed(e, Widened(u, M), fs) = ApplyTransposed(h, [g EXCEPT !.rhs = M], f)
    <3>1. PICK z \in Seq(Groups(W, R, M)) : z = Widened(u, M)
      BY <2>3
    <3>2. z # <<>> /\ Len(fs) = Len(z)
      BY <2>3, <3>1
    <3>3. ApplyTapeTransposed(e, z, fs) =
            ApplyTransposed(ApplyTapeTransposed(e, Tail(z), Tail(fs)), z[1], fs[1])
      BY <3>2, ApplyFirst
    <3> QED BY <2>3, <2>4, <2>6, <3>1, <3>3
  <2>8. q \in Words(Requests) /\ ZeroOff(q, A1)
    BY <2>1, <2>2, <2>4, GroupActs, GroupOnWords
  <2>9. TapeLive(v, A1, B) /\ \A x : <<g.src, x>> \in A => x \in g.rhs
    BY <1>2, <2>4, LiveTail
  <2>10. TapePairsAt(v, M, ws, A1, B, q, e)
    BY <1>2, <2>2, <2>4 DEF TapePairs
  <2>11. /\ h \in Words(M) /\ ApplyTape(q, v, ws) \in Words(Requests)
         /\ ZeroOff(ApplyTape(q, v, ws), B) /\ Adjoint(h, q, e, ApplyTape(q, v, ws), M)
    BY <2>2, <2>4, <2>6, <2>8, <2>9, <2>10 DEF TapePairsAt
  <2>12. \A x \in Requests : r[<<g.src, x>>] # 0 => x \in g.rhs
    <3> SUFFICES ASSUME NEW x \in Requests, r[<<g.src, x>>] # 0 PROVE x \in g.rhs
      OBVIOUS
    <3>1. <<g.src, x>> \in DOMAIN r
      BY <2>1, <2>4 DEF Words, Groups
    <3> QED BY <2>9, <3>1 DEF ZeroOff
  <2>13. PICK k : k = ApplyTransposed(h, [g EXCEPT !.rhs = M], f)
    OBVIOUS
  <2>14. Adjoint(k, r, h, q, M)
    BY <2>1, <2>2, <2>4, <2>11, <2>12, <2>13, GroupAdjoint
  <2>15. Adjoint(k, r, e, ApplyTape(q, v, ws), M)
    BY <2>11, <2>14 DEF Adjoint, Congruent
  <2>16. k \in Words(M)
    <3>1. [g EXCEPT !.rhs = M] \in Groups(W, R, M)
      BY <2>1, <2>4 DEF Groups
    <3> QED BY <2>2, <2>4, <2>11, <2>13, <3>1, GroupActs, TransposedOnWords
  <2> QED BY <2>5, <2>7, <2>11, <2>13, <2>15, <2>16 DEF TapePairsAt
<1> HIDE DEF T, S
<1>3. T \subseteq Seq(S)
  BY DEF T
<1>4. T = Seq(S)
  BY <1>1, <1>2, <1>3, LengthInduction
<1> QED BY <1>4 DEF T, S

-----------------------------------------------------------------------------
(* The couplings of a block and their transpose are adjoint. *)

\* What the couplings of a block leave zero.
LiveCoupled(p, b, B, L) ==
  /\ B \subseteq L
  /\ \A x \in Couplings(p.layout, b) : \A t : <<p.at[x[2]], t>> \in B => <<x[1], t>> \in L

CouplingsHold(it, jt, c, d, b, r, e, M, L, T) ==
  /\ it[T] \in Words(Requests) /\ jt[T] \in Words(M)
  /\ \A w \in Positions \X Requests : w[1] \in c.plan.layout.blocks[b] => it[T][w] = r[w]
  /\ \A w \in Positions \X M : w[1] \notin c.plan.layout.blocks[b] => jt[T][w] = e[w]
  /\ Adjoint(jt[T], r, e, it[T], M)
  /\ ZeroOff(it[T], L)

\* The couplings of a block and their transposes are adjoint, in whatever order: they
\* read rows of the block and write rows of others.
LEMMA CouplingsAdjoint ==
  ASSUME NEW c, NEW d, c.plan = d.plan, c.point = d.point, NEW n, PlanFits(c.plan, n),
         PointFits(c.plan, c.point), NEW b \in 1 .. n, NEW M,
         \A x \in DOMAIN c.plan.layout.matrix : c.kernel.columns[x] = Requests,
         \A x \in DOMAIN c.plan.layout.matrix : d.kernel.columns[x] = M,
         NEW r \in Words(Requests), NEW e \in Words(M), NEW B, NEW L, ZeroOff(r, B),
         LiveCoupled(c.plan, b, B, L)
  PROVE  LET S == Couplings(c.plan.layout, b)
             q == Gathered(r, c, S, "couple")
             h == Gathered(e, d, S, "transpose")
         IN  /\ q \in Words(Requests) /\ h \in Words(M) /\ ZeroOff(q, L)
             /\ Adjoint(h, r, e, q, M)
<1> DEFINE S == Couplings(c.plan.layout, b)
           I == c.plan.layout.blocks[b]
<1>1. IsFiniteSet(S)
  BY CouplingsFinite
<1>2. PICK it : Gathers(it, r, c, S, "couple")
  BY <1>1, GatherIs
<1>3. PICK jt : Gathers(jt, e, d, S, "transpose")
  BY <1>1, GatherIs
<1> DEFINE Q == {T \in SUBSET S : CouplingsHold(it, jt, c, d, b, r, e, M, L, T)}
<1>4. {} \in Q
  <2>1. it[{}] = r /\ jt[{}] = e
    <3>1. {} \in SUBSET S
      OBVIOUS
    <3>2. GatherAt(it, r, c, "couple", {}) /\ GatherAt(jt, e, d, "transpose", {})
      BY <1>2, <1>3, <3>1 DEF Gathers
    <3> QED BY <3>2 DEF GatherAt
  <2>2. ZeroOff(r, L)
    BY DEF LiveCoupled, ZeroOff
  <2>3. Adjoint(e, r, e, r, M)
    BY DEF Adjoint, Congruent
  <2> QED BY <2>1, <2>2, <2>3 DEF CouplingsHold
<1>5. ASSUME NEW T \in SUBSET S, T # {}, T \ {Chosen(T)} \in Q PROVE T \in Q
  <2>1. PICK x, V, q, h, f, gc, gd, a :
          /\ x = Chosen(T) /\ V = T \ {x} /\ q = it[V] /\ h = jt[V] /\ f = c.point.matrix[x]
          /\ gc = CoupleGroup(c, x) /\ gd = CoupleGroup(d, x) /\ a = c.plan.at[x[2]]
    OBVIOUS
  <2>2. x \in S
    BY <1>5, <2>1 DEF Chosen
  <2>3. /\ x \in DOMAIN c.plan.layout.matrix /\ x[1] \in Positions /\ x[1] \notin I
        /\ a \in I /\ a \in Positions
    <3>1. /\ x \in DOMAIN c.plan.layout.matrix /\ x \in Positions \X Positions
          /\ x[1] \notin I /\ a \in I
      BY <2>1, <2>2, CouplingsAre
    <3> QED BY <3>1 DEF PlanFits
  <2>4. f \in Field
    BY <2>1, <2>3 DEF PointFits
  <2>5. /\ gc.kind = "eliminate" /\ gc.dst = x[1] /\ gc.src = a /\ gc.rhs = Requests
        /\ gd.kind = "eliminate" /\ gd.dst = x[1] /\ gd.src = a /\ gd.rhs = M
    BY <2>1, <2>3 DEF CoupleGroup
  <2>6. it[T] = ApplyGroup(q, gc, f) /\ jt[T] = ApplyTransposed(h, gd, f)
    <3>1. GatherAt(it, r, c, "couple", T) /\ GatherAt(jt, e, d, "transpose", T)
      BY <1>2, <1>3 DEF Gathers
    <3>2. it[T] = StepOf(q, c, x, "couple") /\ jt[T] = StepOf(h, d, x, "transpose")
      BY <1>5, <2>1, <3>1 DEF GatherAt
    <3>3. StepOf(q, c, x, "couple") = ApplyGroup(q, CoupleGroup(c, x), c.point.matrix[x])
      BY CoupleIs
    <3>4. StepOf(h, d, x, "transpose") = ApplyTransposed(h, CoupleGroup(d, x), d.point.matrix[x])
      BY CoupleIs
    <3> QED BY <2>1, <3>2, <3>3, <3>4
  <2>7. CouplingsHold(it, jt, c, d, b, r, e, M, L, V)
    BY <1>5, <2>1
  <2>8. /\ q \in Words(Requests) /\ h \in Words(M) /\ Adjoint(h, r, e, q, M) /\ ZeroOff(q, L)
        /\ \A w \in Positions \X Requests : w[1] \in I => q[w] = r[w]
        /\ \A w \in Positions \X M : w[1] \notin I => h[w] = e[w]
    BY <2>1, <2>7 DEF CouplingsHold
  <2>9. ActsOn(gc, Requests) /\ ActsOn(gd, M)
    BY <2>3, <2>5 DEF ActsOn
  <2>10. it[T] \in Words(Requests) /\ jt[T] \in Words(M)
    BY <2>4, <2>6, <2>8, <2>9, GroupOnWords, TransposedOnWords
  <2>11. DOMAIN q = Positions \X Requests /\ DOMAIN h = Positions \X M
    BY <2>8 DEF Words
  <2>12. ASSUME NEW w \in Positions \X Requests, w[1] \in I PROVE it[T][w] = r[w]
    <3>1. w \notin {gc.dst} \X gc.rhs
      BY <2>3, <2>5, <2>12
    <3> QED BY <2>6, <2>8, <2>11, <2>12, <3>1, ApplyGroupIs
  <2>13. ASSUME NEW w \in Positions \X M, w[1] \notin I PROVE jt[T][w] = e[w]
    <3>1. w \notin {gd.src} \X gd.rhs
      BY <2>3, <2>5, <2>13
    <3> QED BY <2>6, <2>8, <2>11, <2>13, <3>1, ApplyTransposedIs
  <2>14. ASSUME NEW m \in M, NEW t \in Requests
         PROVE  Congruent(Pair(jt[T], r, m, t), Pair(e, it[T], m, t))
    <3>1. /\ \A i \in Positions : h[<<i, m>>] \in Field /\ <<i, m>> \in DOMAIN h /\ r[<<i, t>>] \in Field
          /\ \A i \in Positions : e[<<i, m>>] \in Field /\ q[<<i, t>>] \in Field /\ <<i, t>> \in DOMAIN q
      BY <2>8 DEF Words
    <3>2. h[<<x[1], m>>] = e[<<x[1], m>>] /\ q[<<a, t>>] = r[<<a, t>>]
      BY <2>3, <2>8
    <3>3. PICK k : k = Moved(gc, f, e[<<x[1], m>>], r[<<a, t>>])
      OBVIOUS
    <3>4. Moved(gd, f, h[<<gd.dst, m>>], r[<<gd.src, t>>]) = k
      BY <2>5, <3>2, <3>3 DEF Moved
    <3>5. Moved(gc, f, e[<<gc.dst, m>>], q[<<gc.src, t>>]) = k
      BY <2>5, <3>2, <3>3
    <3>6. Congruent(Pair(jt[T], r, m, t), Pair(h, r, m, t) + k)
      <4>1. gd.src \in Positions /\ gd.dst \in Positions /\ (gd.kind = "scale" => gd.dst = gd.src) /\ m \in gd.rhs
        BY <2>3, <2>5
      <4> QED BY <2>4, <2>6, <3>1, <3>4, <4>1, PairLeft
    <3>7. Congruent(Pair(e, it[T], m, t), Pair(e, q, m, t) + k)
      <4>1. gc.src \in Positions /\ gc.dst \in Positions /\ (gc.kind = "scale" => gc.dst = gc.src)
        BY <2>3, <2>5
      <4>2. t \in gc.rhs \/ q[<<gc.src, t>>] = 0
        BY <2>5
      <4> QED BY <2>4, <2>6, <3>1, <3>5, <4>1, <4>2, PairRight
    <3>8. Congruent(Pair(h, r, m, t), Pair(e, q, m, t))
      BY <2>8 DEF Adjoint
    <3>9. PICK y, z : y = Pair(h, r, m, t) /\ z = Pair(e, q, m, t)
      OBVIOUS
    <3>10. y \in Int /\ z \in Int /\ k \in Int
      <4>1. e[<<x[1], m>>] \in Field /\ r[<<a, t>>] \in Field
        BY <2>3, <3>1
      <4> QED BY <2>4, <3>1, <3>3, <3>9, <4>1, PairInt, MovedInt
    <3>11. Congruent(y + k, z + k)
      <4>1. Congruent(y, z) /\ Congruent(k, k)
        BY <3>8, <3>9 DEF Congruent
      <4> QED BY <3>10, <4>1, CongruentSum
    <3> QED BY <3>6, <3>7, <3>9, <3>11 DEF Congruent
  <2>15. ASSUME NEW w \in Positions \X Requests, w \notin L PROVE it[T][w] = 0
    <3>1. q[w] = 0
      BY <2>8, <2>11, <2>15 DEF ZeroOff
    <3>2. CASE w \notin {gc.dst} \X gc.rhs
      BY <2>6, <2>11, <3>1, <3>2, ApplyGroupIs
    <3>3. CASE w \in {gc.dst} \X gc.rhs
      <4>1. PICK t \in Requests : w = <<x[1], t>>
        BY <2>5, <3>3
      <4>2. <<a, t>> \notin B
        BY <2>1, <2>2, <2>15, <4>1 DEF LiveCoupled
      <4>3. r[<<a, t>>] = 0 /\ q[<<a, t>>] = 0
        <5>1. <<a, t>> \in DOMAIN r /\ <<a, t>> \in Positions \X Requests
          BY <2>3 DEF Words
        <5> QED BY <2>3, <2>8, <4>2, <5>1 DEF ZeroOff
      <4>4. it[T][w] = SubtractMultiply(q[w], f, q[<<a, t>>])
        <5>1. t \in gc.rhs /\ <<gc.dst, t>> \in DOMAIN q /\ <<gc.dst, t>> = w /\ gc.kind # "scale"
          BY <2>5, <2>11, <4>1
        <5> QED BY <2>5, <2>6, <5>1, ApplyGroupIs
      <4>5. SubtractMultiply(0, f, 0) = 0
        <5>1. 0 - f * 0 = 0 /\ 0 % Prime = 0
          BY <2>4, PrimeIs
        <5> QED BY <5>1 DEF SubtractMultiply
      <4> QED BY <3>1, <4>3, <4>4, <4>5
    <3> QED BY <3>2, <3>3
  <2>16. ZeroOff(it[T], L)
    BY <2>10, <2>15 DEF ZeroOff, Words
  <2>17. Adjoint(jt[T], r, e, it[T], M)
    BY <2>14 DEF Adjoint
  <2>18. CouplingsHold(it, jt, c, d, b, r, e, M, L, T)
    BY <2>10, <2>12, <2>13, <2>16, <2>17 DEF CouplingsHold
  <2> QED BY <2>18
<1> HIDE DEF Q
<1>6. S \in Q
  BY <1>1, <1>4, <1>5, SubsetInduction
<1>7. CouplingsHold(it, jt, c, d, b, r, e, M, L, S)
  BY <1>6 DEF Q
<1>8. it[S] = Gathered(r, c, S, "couple") /\ jt[S] = Gathered(e, d, S, "transpose")
  BY <1>2, <1>3 DEF Gathers
<1> QED BY <1>7, <1>8 DEF CouplingsHold

-----------------------------------------------------------------------------
(* The forward half of the transposed replay is the reversed tape. *)

(***************************************************************************)
(* The passes that prune the transposed program, tape by tape.             *)
(***************************************************************************)
OfPairs(words, M) == words \subseteq Positions \X M

\* The columns of a row.
LEMMA AtIs ==
  ASSUME NEW M, NEW words, OfPairs(words, M), NEW row
  PROVE  At(words, row) \subseteq M /\ \A m : m \in At(words, row) <=> <<row, m>> \in words
<1>1. \A m : m \in At(words, row) <=> \E w \in words : w[1] = row /\ w[2] = m
  BY DEF At
<1>2. \A w \in words : w = <<w[1], w[2]>> /\ w[2] \in M
  BY DEF OfPairs
<1> QED BY <1>1, <1>2

\* A group for other columns is a group.
LEMMA Recolumn ==
  ASSUME NEW W, NEW R, NEW C, NEW g \in Groups(W, R, C), NEW M, NEW D, D \subseteq M
  PROVE  LET h == [g EXCEPT !.rhs = D] IN h \in Groups(W, R, M) /\ IsPart(h, g, g.matrix, D)
BY DEF Groups, IsPart

\* Numbers from last to first.
LEMMA NumbersReversed ==
  ASSUME NEW n \in Nat
  PROVE  LET s == Reverse([i \in 1 .. n |-> i])
         IN  DOMAIN s = 1 .. n /\ \A j \in 1 .. n : s[j] = n - j + 1
<1>1. PICK q : q = [i \in 1 .. n |-> i]
  OBVIOUS
<1>2. q \in Seq(Nat) /\ Len(q) = n /\ \A i \in 1 .. n : q[i] = i
  BY <1>1
<1>3. \A j \in 1 .. n : (n - j) + 1 \in 1 .. n
  OBVIOUS
<1> QED BY <1>1, <1>2, <1>3 DEF Reverse

\* A tape from last to first.
LEMMA TapeReversed ==
  ASSUME NEW S, NEW t \in Seq(S), NEW n, n = Len(t)
  PROVE  DOMAIN Reverse(t) = 1 .. n /\ \A j \in 1 .. n : Reverse(t)[j] = t[n - j + 1]
<1>1. \A j \in 1 .. n : (n - j) + 1 = n - j + 1
  OBVIOUS
<1> QED BY <1>1 DEF Reverse

\* Downwards from n.
LEMMA DownInduction ==
  ASSUME NEW n \in Nat, NEW T, n \in T, \A i \in 1 .. n : i \in T => i - 1 \in T
  PROVE  \A i \in 0 .. n : i \in T
<1> DEFINE U == {k \in Nat : k <= n => n - k \in T}
<1>1. 0 \in U
  OBVIOUS
<1>2. ASSUME NEW k \in Nat, k \in U PROVE k + 1 \in U
  <2>1. CASE k + 1 <= n
    <3>1. n - k \in T /\ n - k \in 1 .. n
      BY <1>2, <2>1
    <3>2. (n - k) - 1 \in T /\ (n - k) - 1 = n - (k + 1)
      BY <3>1
    <3> QED BY <3>2
  <2> QED BY <2>1
<1> HIDE DEF U
<1>3. \A k \in Nat : k \in U
  BY <1>1, <1>2, SetInduction
<1>4. ASSUME NEW i \in 0 .. n PROVE i \in T
  <2>1. n - i \in U /\ n - i \in Nat /\ n - i <= n /\ n - (n - i) = i
    BY <1>3
  <2> QED BY <2>1 DEF U
<1> QED BY <1>4

\* The values of a transposed tape.
DualChain(E, e, t, fs, n) ==
  E[n] = e /\ \A i \in 1 .. n : E[i - 1] = ApplyTransposed(E[i], t[i], fs[i])

\* A transposed tape has them.
LEMMA TransposedChain ==
  ASSUME NEW S, NEW t \in Seq(S), NEW fs, NEW e, NEW n, n = Len(t)
  PROVE  \E E : DualChain(E, e, t, fs, n) /\ E[0] = ApplyTapeTransposed(e, t, fs)
<1>1. n \in Nat /\ DOMAIN t = 1 .. n
  BY SequenceIs
<1> DEFINE c == [tape |-> t, factors |-> fs]
           s == Reverse([i \in 1 .. n |-> i])
<1>2. ApplyTapeTransposed(e, t, fs) = Folded(e, c, s, "transposed")
  BY <1>1, ApplyFold
<1>3. DOMAIN s = 1 .. n /\ \A j \in 1 .. n : s[j] = n - j + 1
  BY <1>1, NumbersReversed
<1> HIDE DEF s
<1>4. PICK g : Chain(g, e, c, s, "transposed") /\ g[n] = Folded(e, c, s, "transposed")
  BY <1>1, <1>3, FoldChain
<1>5. \A j \in 1 .. n : g[j] = ApplyTransposed(g[j - 1], t[n - j + 1], fs[n - j + 1])
  <2> SUFFICES ASSUME NEW j \in 1 .. n
               PROVE  g[j] = ApplyTransposed(g[j - 1], t[n - j + 1], fs[n - j + 1])
    OBVIOUS
  <2>1. g[j] = StepOf(g[j - 1], c, n - j + 1, "transposed")
    BY <1>3, <1>4 DEF Chain
  <2>2. StepOf(g[j - 1], c, n - j + 1, "transposed") =
          ApplyTransposed(g[j - 1], c.tape[n - j + 1], c.factors[n - j + 1])
    BY StepTransposed
  <2> QED BY <2>1, <2>2
<1> DEFINE E == [i \in 0 .. n |-> g[n - i]]
<1>6. E[n] = e
  <2>1. n \in 0 .. n /\ n - n = 0
    BY <1>1
  <2> QED BY <1>4, <2>1 DEF Chain
<1>7. E[0] = g[n]
  BY <1>1
<1>8. ASSUME NEW i \in 1 .. n PROVE E[i - 1] = ApplyTransposed(E[i], t[i], fs[i])
  <2>1. PICK j \in 1 .. n : j = n - i + 1
    BY <1>1
  <2>2. /\ i - 1 \in 0 .. n /\ i \in 0 .. n /\ n - (i - 1) = j /\ n - i = j - 1
        /\ n - j + 1 = i
    BY <1>1, <2>1
  <2>3. E[i - 1] = g[j] /\ E[i] = g[j - 1]
    BY <2>2
  <2>4. g[j] = ApplyTransposed(g[j - 1], t[n - j + 1], fs[n - j + 1])
    BY <1>5
  <2> QED BY <2>2, <2>3, <2>4
<1> QED BY <1>2, <1>4, <1>6, <1>7, <1>8 DEF DualChain

\* r[i] is what is reached before the transposed pass comes to group i.
ForwardTape(t, u, r, n) ==
  \A i \in 1 .. n : /\ u[i] = [t[i] EXCEPT !.rhs = At(r[i], t[i].dst)]
                    /\ r[i - 1] = r[i] \union ({t[i].src} \X At(r[i], t[i].dst))

IsForward(f) == f = [reach |-> f.reach, columns |-> f.columns, tape |-> f.tape, tapes |-> f.tapes]

\* A step of the forward pass.
LEMMA ForwardGroupIs ==
  ASSUME NEW f, IsForward(f), NEW g
  PROVE  LET h == ForwardGroup(f, g)
         IN  /\ IsForward(h) /\ h.columns = f.columns /\ h.tapes = f.tapes
             /\ h.tape = <<[g EXCEPT !.rhs = At(f.reach, g.dst)]>> \o f.tape
             /\ h.reach = f.reach \union ({g.src} \X At(f.reach, g.dst))
<1>1. PICK a, b, u, v : a = f.reach /\ b = f.columns /\ u = f.tape /\ v = f.tapes
  OBVIOUS
<1>2. f = [reach |-> a, columns |-> b, tape |-> u, tapes |-> v]
  BY <1>1 DEF IsForward
<1>3. ForwardGroup(f, g) = [reach |-> a \union ({g.src} \X At(a, g.dst)), columns |-> b,
                            tape |-> <<[g EXCEPT !.rhs = At(a, g.dst)]>> \o u, tapes |-> v]
  <2>1. PICK X, Y : X = a \union ({g.src} \X At(a, g.dst)) /\ Y = <<[g EXCEPT !.rhs = At(a, g.dst)]>> \o u
    OBVIOUS
  <2>2. PICK h, k : h = ForwardGroup(f, g) /\ k = [f EXCEPT !.tape = Y]
    OBVIOUS
  <2>3. h = [f EXCEPT !.tape = Y, !.reach = X]
    BY <1>1, <2>1, <2>2 DEF ForwardGroup
  <2>4. k = [reach |-> a, columns |-> b, tape |-> Y, tapes |-> v]
    BY <1>2, <2>2
  <2>5. h = [k EXCEPT !.reach = X]
    BY <2>2, <2>3
  <2>6. h = [reach |-> X, columns |-> b, tape |-> Y, tapes |-> v]
    BY <2>4, <2>5
  <2> QED BY <2>1, <2>2, <2>6
<1> QED BY <1>1, <1>3 DEF IsForward

ForwardHolds(g, f, t, W, R, M, n, j) ==
  /\ IsForward(g[j]) /\ g[j].columns = f.columns /\ g[j].tapes = f.tapes
  /\ g[j].tape \in Seq(Groups(W, R, M)) /\ Len(g[j].tape) = j
  /\ \A i \in 1 .. j :
       g[j].tape[i] = [t[n - j + i] EXCEPT !.rhs = At(g[j - i].reach, t[n - j + i].dst)]
  /\ OfPairs(g[j].reach, M)

ForwardOver(f, t) == FoldLeft(ForwardGroup, f, Reverse(t))

ForwardStarts(f, t, W, R, C, M) ==
  /\ R \subseteq Positions /\ t \in Seq(Groups(W, R, C))
  /\ IsForward(f) /\ f.tape = <<>> /\ OfPairs(f.reach, M)

ForwardGives(f, t, W, R, M, x, r) ==
  /\ x = ForwardOver(f, t)
  /\ IsForward(x) /\ x.columns = f.columns /\ x.tapes = f.tapes
  /\ x.tape \in Seq(Groups(W, R, M)) /\ Len(x.tape) = Len(t)
  /\ ForwardTape(t, x.tape, r, Len(t)) /\ r[Len(t)] = f.reach /\ r[0] = x.reach
  /\ \A i \in 0 .. Len(t) : OfPairs(r[i], M)

\* The forward pass over a tape, step by step.
LEMMA ForwardChain ==
  ASSUME NEW W, NEW R, NEW C, NEW t, NEW M, NEW f, ForwardStarts(f, t, W, R, C, M)
  PROVE  \E x, r : ForwardGives(f, t, W, R, M, x, r)
<1>0. PICK n : n = Len(t)
  OBVIOUS
<1>a. /\ R \subseteq Positions /\ t \in Seq(Groups(W, R, C))
      /\ IsForward(f) /\ f.tape = <<>> /\ OfPairs(f.reach, M)
  BY DEF ForwardStarts
<1>1. n \in Nat /\ \A i \in 1 .. n : t[i] \in Groups(W, R, C)
  BY <1>0, <1>a, SequenceIs
<1>2. DOMAIN Reverse(t) = 1 .. n /\ \A j \in 1 .. n : Reverse(t)[j] = t[n - j + 1]
  BY <1>0, <1>a, TapeReversed
<1>3. PICK g : Chain(g, f, 0, Reverse(t), "forward") /\ g[n] = Folded(f, 0, Reverse(t), "forward")
  <2>1. PICK s : s = Reverse(t)
    OBVIOUS
  <2>2. DOMAIN s = 1 .. n /\ n \in Nat
    BY <1>1, <1>2, <2>1
  <2>3. \E g : Chain(g, f, 0, s, "forward") /\ g[n] = Folded(f, 0, s, "forward")
    BY <2>2, FoldChain
  <2> QED BY <2>1, <2>3
<1>4. g[n] = ForwardOver(f, t)
  BY <1>3, GroupsFold DEF ForwardOver
<1>5. \A j \in 1 .. n : g[j] = ForwardGroup(g[j - 1], t[n - j + 1])
  <2> SUFFICES ASSUME NEW j \in 1 .. n PROVE g[j] = ForwardGroup(g[j - 1], t[n - j + 1])
    OBVIOUS
  <2>1. g[j] = StepOf(g[j - 1], 0, t[n - j + 1], "forward")
    BY <1>2, <1>3 DEF Chain
  <2> QED BY <2>1, StepForward
<1> DEFINE T == {j \in Nat : j <= n => ForwardHolds(g, f, t, W, R, M, n, j)}
<1>6. 0 \in T
  <2>1. g[0] = f
    BY <1>3 DEF Chain
  <2>2. f.tape \in Seq(Groups(W, R, M)) /\ Len(f.tape) = 0
    BY <1>a
  <2>3. IsForward(g[0]) /\ OfPairs(g[0].reach, M) /\ g[0].columns = f.columns /\ g[0].tapes = f.tapes
    BY <1>a, <2>1
  <2>4. g[0].tape = <<>>
    BY <1>a, <2>1
  <2>5. \A i \in 1 .. 0 : FALSE
    OBVIOUS
  <2> QED BY <2>2, <2>3, <2>4, <2>5 DEF ForwardHolds
<1>7. ASSUME NEW k \in Nat, k \in T PROVE k + 1 \in T
  <2> SUFFICES ASSUME k + 1 <= n PROVE ForwardHolds(g, f, t, W, R, M, n, k + 1)
    OBVIOUS
  <2>1. PICK j, y, z, a, D, h :
          /\ j = k + 1 /\ y = g[k] /\ z = g[j] /\ a = t[n - k] /\ D = At(y.reach, a.dst)
          /\ h = [a EXCEPT !.rhs = D]
    OBVIOUS
  <2>2. ForwardHolds(g, f, t, W, R, M, n, k)
    BY <1>1, <1>7
  <2>3. /\ IsForward(y) /\ y.columns = f.columns /\ y.tapes = f.tapes
        /\ y.tape \in Seq(Groups(W, R, M)) /\ Len(y.tape) = k
        /\ \A i \in 1 .. k :
             y.tape[i] = [t[n - k + i] EXCEPT !.rhs = At(g[k - i].reach, t[n - k + i].dst)]
        /\ OfPairs(y.reach, M)
    BY <2>1, <2>2 DEF ForwardHolds
  <2>4. a \in Groups(W, R, C) /\ z = ForwardGroup(y, a)
    <3>1. n - k \in 1 .. n /\ j \in 1 .. n /\ n - j + 1 = n - k /\ j - 1 = k
      BY <1>1, <2>1
    <3>2. g[j] = ForwardGroup(g[j - 1], t[n - j + 1])
      BY <1>5, <3>1
    <3> QED BY <1>1, <2>1, <3>1, <3>2
  <2>5. D \subseteq M
    <3>1. PICK rr : rr = y.reach
      OBVIOUS
    <3>2. OfPairs(rr, M)
      BY <2>3, <3>1
    <3>3. At(rr, a.dst) \subseteq M
      BY <3>2, AtIs
    <3> QED BY <2>1, <3>1, <3>3
  <2>6. h \in Groups(W, R, M)
    BY <2>1, <2>4, <2>5, Recolumn
  <2>7. /\ IsForward(z) /\ z.columns = f.columns /\ z.tapes = f.tapes
        /\ z.tape = <<h>> \o y.tape /\ z.reach = y.reach \union ({a.src} \X D)
    <3>1. PICK x : x = ForwardGroup(y, a)
      OBVIOUS
    <3>2. /\ IsForward(x) /\ x.columns = y.columns /\ x.tapes = y.tapes
          /\ x.tape = <<[a EXCEPT !.rhs = At(y.reach, a.dst)]>> \o y.tape
          /\ x.reach = y.reach \union ({a.src} \X At(y.reach, a.dst))
      BY <2>3, <3>1, ForwardGroupIs
    <3> QED BY <2>1, <2>3, <2>4, <3>1, <3>2
  <2>8. /\ z.tape \in Seq(Groups(W, R, M)) /\ Len(z.tape) = k + 1 /\ z.tape[1] = h
        /\ \A i \in 1 .. k : z.tape[i + 1] = y.tape[i]
    <3>1. PICK s : s = y.tape
      OBVIOUS
    <3>2. s \in Seq(Groups(W, R, M)) /\ Len(s) = k
      BY <2>3, <3>1
    <3>3. /\ <<h>> \o s \in Seq(Groups(W, R, M)) /\ Len(<<h>> \o s) = Len(s) + 1
          /\ (<<h>> \o s)[1] = h /\ \A i \in 1 .. Len(s) : (<<h>> \o s)[i + 1] = s[i]
      BY <2>6, <3>2, PrefixedIs
    <3> QED BY <2>7, <3>1, <3>2, <3>3
  <2>9. OfPairs(z.reach, M)
    <3>1. a.src \in Positions
      BY <1>a, <2>4 DEF Groups
    <3> QED BY <2>3, <2>5, <2>7, <3>1 DEF OfPairs
  <2>10. ASSUME NEW i \in 1 .. j
         PROVE  z.tape[i] = [t[n - j + i] EXCEPT !.rhs = At(g[j - i].reach, t[n - j + i].dst)]
    <3>1. CASE i = 1
      <4>1. n - j + i = n - k /\ j - i = k
        BY <1>1, <2>1, <3>1
      <4> QED BY <2>1, <2>8, <3>1, <4>1
    <3>2. CASE i # 1
      <4>1. PICK q \in 1 .. k : i = q + 1
        <5>1. i - 1 \in 1 .. k /\ i = (i - 1) + 1
          BY <2>1, <3>2
        <5> QED BY <5>1
      <4>2. n - j + i = n - k + q /\ j - i = k - q
        <5>1. j = k + 1
          BY <2>1
        <5> QED BY <1>1, <4>1, <5>1
      <4>3. y.tape[q] = [t[n - k + q] EXCEPT !.rhs = At(g[k - q].reach, t[n - k + q].dst)]
        BY <2>3
      <4>4. z.tape[i] = y.tape[q]
        BY <2>8, <4>1
      <4> QED BY <4>2, <4>3, <4>4
    <3> QED BY <3>1, <3>2
  <2> QED BY <2>1, <2>7, <2>8, <2>9, <2>10 DEF ForwardHolds
<1> HIDE DEF T
<1>8. \A j \in Nat : j \in T
  BY <1>6, <1>7, SetInduction
<1>9. \A j \in 0 .. n : ForwardHolds(g, f, t, W, R, M, n, j)
  BY <1>1, <1>8 DEF T
<1> DEFINE r == [i \in 0 .. n |-> g[n - i].reach]
<1>10. ForwardTape(t, g[n].tape, r, n)
  <2> SUFFICES ASSUME NEW i \in 1 .. n
               PROVE  /\ g[n].tape[i] = [t[i] EXCEPT !.rhs = At(r[i], t[i].dst)]
                      /\ r[i - 1] = r[i] \union ({t[i].src} \X At(r[i], t[i].dst))
    BY DEF ForwardTape
  <2>1. i \in 0 .. n /\ i - 1 \in 0 .. n /\ n - n + i = i /\ n - (i - 1) = n - i + 1 /\ n \in 0 .. n
    BY <1>1
  <2>2. r[i] = g[n - i].reach /\ r[i - 1] = g[n - i + 1].reach
    BY <2>1
  <2>3. g[n].tape[i] = [t[i] EXCEPT !.rhs = At(r[i], t[i].dst)]
    <3>1. ForwardHolds(g, f, t, W, R, M, n, n)
      BY <1>9, <2>1
    <3> QED BY <2>1, <2>2, <3>1 DEF ForwardHolds
  <2>4. r[i - 1] = r[i] \union ({t[i].src} \X At(r[i], t[i].dst))
    <3>1. PICK j \in 1 .. n : j = n - i + 1
      <4>1. n - i + 1 \in 1 .. n
        BY <1>1
      <4> QED BY <4>1
    <3>2. n - j + 1 = i /\ j - 1 = n - i /\ n - i \in 0 .. n
      BY <1>1, <3>1
    <3>3. g[j] = ForwardGroup(g[n - i], t[i])
      BY <1>5, <3>2
    <3>4. IsForward(g[n - i])
      BY <1>9, <3>2 DEF ForwardHolds
    <3>5. g[j].reach = g[n - i].reach \union ({t[i].src} \X At(g[n - i].reach, t[i].dst))
      <4>1. PICK y, a : y = g[n - i] /\ a = t[i]
        OBVIOUS
      <4>2. IsForward(y)
        BY <3>4, <4>1
      <4>3. ForwardGroup(y, a).reach = y.reach \union ({a.src} \X At(y.reach, a.dst))
        BY <4>2, ForwardGroupIs
      <4> QED BY <3>3, <4>1, <4>3
    <3> QED BY <2>2, <3>1, <3>5
  <2> QED BY <2>3, <2>4
<1>11. r[n] = f.reach /\ r[0] = g[n].reach
  BY <1>1, <1>3 DEF Chain
<1>12. \A i \in 0 .. n : OfPairs(r[i], M)
  <2> SUFFICES ASSUME NEW i \in 0 .. n PROVE OfPairs(r[i], M)
    OBVIOUS
  <2>1. n - i \in 0 .. n /\ r[i] = g[n - i].reach
    BY <1>1
  <2> QED BY <1>9, <2>1 DEF ForwardHolds
<1>13. ForwardHolds(g, f, t, W, R, M, n, n)
  BY <1>1, <1>9
<1> HIDE DEF r
<1> QED BY <1>0, <1>4, <1>10, <1>11, <1>12, <1>13 DEF ForwardHolds, ForwardGives

-----------------------------------------------------------------------------
(* The backward half of the transposed replay is the reversed tape. *)

\* a[i] is what later operations read of the words that group i leaves.
BackwardTape(u, h, a, n) ==
  \A i \in 1 .. n : /\ h[i] = [u[i] EXCEPT !.rhs = u[i].rhs \intersect At(a[i - 1], u[i].src)]
                    /\ a[i] = a[i - 1] \union ({u[i].dst} \X h[i].rhs)

IsBackward(k) == k = [alive |-> k.alive, columns |-> k.columns, tape |-> k.tape, tapes |-> k.tapes]

\* A step of the backward pass.
LEMMA BackwardGroupIs ==
  ASSUME NEW f, IsBackward(f), NEW g
  PROVE  LET h == BackwardGroup(f, g)
             rhs == g.rhs \intersect At(f.alive, g.src)
         IN  /\ IsBackward(h) /\ h.columns = f.columns /\ h.tapes = f.tapes
             /\ h.tape = Append(f.tape, [g EXCEPT !.rhs = rhs])
             /\ h.alive = f.alive \union ({g.dst} \X rhs)
<1>1. PICK a, b, u, v : a = f.alive /\ b = f.columns /\ u = f.tape /\ v = f.tapes
  OBVIOUS
<1>2. f = [alive |-> a, columns |-> b, tape |-> u, tapes |-> v]
  BY <1>1 DEF IsBackward
<1>3. PICK rhs : rhs = g.rhs \intersect At(a, g.src)
  OBVIOUS
<1>4. PICK X, Y : X = a \union ({g.dst} \X rhs) /\ Y = Append(u, [g EXCEPT !.rhs = rhs])
  OBVIOUS
<1>5. PICK h, k : h = BackwardGroup(f, g) /\ k = [f EXCEPT !.tape = Y]
  OBVIOUS
<1>6. h = [f EXCEPT !.tape = Y, !.alive = X]
  BY <1>1, <1>3, <1>4, <1>5 DEF BackwardGroup
<1>7. k = [alive |-> a, columns |-> b, tape |-> Y, tapes |-> v]
  BY <1>2, <1>5
<1>8. h = [k EXCEPT !.alive = X]
  BY <1>5, <1>6
<1>9. h = [alive |-> X, columns |-> b, tape |-> Y, tapes |-> v]
  BY <1>7, <1>8
<1> QED BY <1>1, <1>3, <1>4, <1>5, <1>9 DEF IsBackward

BackwardHolds(g, f, u, W, R, M, j) ==
  /\ IsBackward(g[j]) /\ g[j].columns = f.columns /\ g[j].tapes = f.tapes
  /\ g[j].tape \in Seq(Groups(W, R, M)) /\ Len(g[j].tape) = j
  /\ \A i \in 1 .. j :
       g[j].tape[i] = [u[i] EXCEPT !.rhs = u[i].rhs \intersect At(g[i - 1].alive, u[i].src)]
  /\ OfPairs(g[j].alive, M)

\* A sequence with one more element.
LEMMA AppendedIs ==
  ASSUME NEW S, NEW s \in Seq(S), NEW x \in S
  PROVE  LET t == Append(s, x)
         IN  /\ t \in Seq(S) /\ Len(t) = Len(s) + 1 /\ t[Len(s) + 1] = x
             /\ \A i \in 1 .. Len(s) : t[i] = s[i]
OBVIOUS

BackwardOver(f, u) == FoldLeft(BackwardGroup, f, u)

BackwardStarts(f, u, W, R, M) ==
  /\ R \subseteq Positions /\ u \in Seq(Groups(W, R, M))
  /\ IsBackward(f) /\ f.tape = <<>> /\ OfPairs(f.alive, M)

BackwardGives(f, u, W, R, M, x, a) ==
  /\ x = BackwardOver(f, u)
  /\ IsBackward(x) /\ x.columns = f.columns /\ x.tapes = f.tapes
  /\ x.tape \in Seq(Groups(W, R, M)) /\ Len(x.tape) = Len(u)
  /\ BackwardTape(u, x.tape, a, Len(u)) /\ a[0] = f.alive /\ a[Len(u)] = x.alive
  /\ \A i \in 0 .. Len(u) : OfPairs(a[i], M)

\* The backward pass over a tape, step by step.
LEMMA BackwardChain ==
  ASSUME NEW W, NEW R, NEW M, NEW u, NEW f, BackwardStarts(f, u, W, R, M)
  PROVE  \E x, a : BackwardGives(f, u, W, R, M, x, a)
<1>0. PICK n : n = Len(u)
  OBVIOUS
<1>a. /\ R \subseteq Positions /\ u \in Seq(Groups(W, R, M))
      /\ IsBackward(f) /\ f.tape = <<>> /\ OfPairs(f.alive, M)
  BY DEF BackwardStarts
<1>1. n \in Nat /\ DOMAIN u = 1 .. n /\ \A i \in 1 .. n : u[i] \in Groups(W, R, M)
  BY <1>0, <1>a, SequenceIs
<1>3. PICK g : Chain(g, f, 0, u, "backward") /\ g[n] = Folded(f, 0, u, "backward")
  BY <1>1, FoldChain
<1>4. g[n] = BackwardOver(f, u)
  BY <1>3, GroupsFold DEF BackwardOver
<1>5. \A j \in 1 .. n : g[j] = BackwardGroup(g[j - 1], u[j])
  <2> SUFFICES ASSUME NEW j \in 1 .. n PROVE g[j] = BackwardGroup(g[j - 1], u[j])
    OBVIOUS
  <2>1. g[j] = StepOf(g[j - 1], 0, u[j], "backward")
    BY <1>1, <1>3 DEF Chain
  <2> QED BY <2>1, StepBackward
<1> DEFINE T == {j \in Nat : j <= n => BackwardHolds(g, f, u, W, R, M, j)}
<1>6. 0 \in T
  <2>1. g[0] = f
    BY <1>3 DEF Chain
  <2>2. f.tape \in Seq(Groups(W, R, M)) /\ Len(f.tape) = 0
    BY <1>a
  <2>3. IsBackward(g[0]) /\ OfPairs(g[0].alive, M) /\ g[0].columns = f.columns /\ g[0].tapes = f.tapes
    BY <1>a, <2>1
  <2>4. g[0].tape = <<>>
    BY <1>a, <2>1
  <2>5. \A i \in 1 .. 0 : FALSE
    OBVIOUS
  <2> QED BY <2>2, <2>3, <2>4, <2>5 DEF BackwardHolds
<1>7. ASSUME NEW k \in Nat, k \in T PROVE k + 1 \in T
  <2> SUFFICES ASSUME k + 1 <= n PROVE BackwardHolds(g, f, u, W, R, M, k + 1)
    OBVIOUS
  <2>1. PICK j, y, z, b, D, h :
          /\ j = k + 1 /\ y = g[k] /\ z = g[j] /\ b = u[j]
          /\ D = b.rhs \intersect At(y.alive, b.src) /\ h = [b EXCEPT !.rhs = D]
    OBVIOUS
  <2>2. BackwardHolds(g, f, u, W, R, M, k)
    BY <1>1, <1>7
  <2>3. /\ IsBackward(y) /\ y.columns = f.columns /\ y.tapes = f.tapes
        /\ y.tape \in Seq(Groups(W, R, M)) /\ Len(y.tape) = k
        /\ \A i \in 1 .. k :
             y.tape[i] = [u[i] EXCEPT !.rhs = u[i].rhs \intersect At(g[i - 1].alive, u[i].src)]
        /\ OfPairs(y.alive, M)
    BY <2>1, <2>2 DEF BackwardHolds
  <2>4. b \in Groups(W, R, M) /\ z = BackwardGroup(y, b)
    <3>1. j \in 1 .. n /\ j - 1 = k
      BY <1>1, <2>1
    <3> QED BY <1>1, <1>5, <2>1, <3>1
  <2>5. D \subseteq M
    BY <2>1, <2>4 DEF Groups
  <2>6. h \in Groups(W, R, M)
    BY <2>1, <2>4, <2>5, Recolumn
  <2>7. /\ IsBackward(z) /\ z.columns = f.columns /\ z.tapes = f.tapes
        /\ z.tape = Append(y.tape, h) /\ z.alive = y.alive \union ({b.dst} \X D)
    <3>1. PICK x : x = BackwardGroup(y, b)
      OBVIOUS
    <3>2. /\ IsBackward(x) /\ x.columns = y.columns /\ x.tapes = y.tapes
          /\ x.tape = Append(y.tape, [b EXCEPT !.rhs = b.rhs \intersect At(y.alive, b.src)])
          /\ x.alive = y.alive \union ({b.dst} \X (b.rhs \intersect At(y.alive, b.src)))
      BY <2>3, <3>1, BackwardGroupIs
    <3> QED BY <2>1, <2>3, <2>4, <3>1, <3>2
  <2>8. /\ z.tape \in Seq(Groups(W, R, M)) /\ Len(z.tape) = k + 1 /\ z.tape[k + 1] = h
        /\ \A i \in 1 .. k : z.tape[i] = y.tape[i]
    <3>1. PICK s : s = y.tape
      OBVIOUS
    <3>2. s \in Seq(Groups(W, R, M)) /\ Len(s) = k
      BY <2>3, <3>1
    <3>3. /\ Append(s, h) \in Seq(Groups(W, R, M)) /\ Len(Append(s, h)) = k + 1
          /\ Append(s, h)[k + 1] = h /\ \A i \in 1 .. k : Append(s, h)[i] = s[i]
      BY <2>6, <3>2, AppendedIs
    <3> QED BY <2>7, <3>1, <3>3
  <2>9. OfPairs(z.alive, M)
    <3>1. b.dst \in Positions
      BY <1>a, <2>4 DEF Groups
    <3> QED BY <2>3, <2>5, <2>7, <3>1 DEF OfPairs
  <2>10. ASSUME NEW i \in 1 .. j
         PROVE  z.tape[i] = [u[i] EXCEPT !.rhs = u[i].rhs \intersect At(g[i - 1].alive, u[i].src)]
    <3>1. CASE i = j
      <4>1. i = k + 1 /\ i - 1 = k
        BY <2>1, <3>1
      <4> QED BY <2>1, <2>8, <3>1, <4>1
    <3>2. CASE i # j
      <4>1. i \in 1 .. k
        BY <2>1, <3>2
      <4> QED BY <2>3, <2>8, <4>1
    <3> QED BY <3>1, <3>2
  <2> QED BY <2>1, <2>7, <2>8, <2>9, <2>10 DEF BackwardHolds
<1> HIDE DEF T
<1>8. \A j \in Nat : j \in T
  BY <1>6, <1>7, SetInduction
<1>9. \A j \in 0 .. n : BackwardHolds(g, f, u, W, R, M, j)
  BY <1>1, <1>8 DEF T
<1> DEFINE a == [i \in 0 .. n |-> g[i].alive]
<1>13. BackwardHolds(g, f, u, W, R, M, n)
  BY <1>1, <1>9
<1>10. BackwardTape(u, g[n].tape, a, n)
  <2> SUFFICES ASSUME NEW i \in 1 .. n
               PROVE  /\ g[n].tape[i] = [u[i] EXCEPT !.rhs = u[i].rhs \intersect At(a[i - 1], u[i].src)]
                      /\ a[i] = a[i - 1] \union ({u[i].dst} \X g[n].tape[i].rhs)
    BY DEF BackwardTape
  <2>1. i \in 0 .. n /\ i - 1 \in 0 .. n
    BY <1>1
  <2>2. PICK y, z, b, D : y = g[i - 1] /\ z = g[i] /\ b = u[i] /\ D = b.rhs \intersect At(y.alive, b.src)
    OBVIOUS
  <2>3. a[i] = z.alive /\ a[i - 1] = y.alive
    BY <2>1, <2>2
  <2>4. g[n].tape[i] = [b EXCEPT !.rhs = D]
    BY <1>13, <2>2 DEF BackwardHolds
  <2>5. b \in Groups(W, R, M)
    BY <1>1, <2>2
  <2>6. [b EXCEPT !.rhs = D].rhs = D
    BY <2>5 DEF Groups
  <2>7. z.alive = y.alive \union ({b.dst} \X D)
    <3>1. z = BackwardGroup(y, b)
      BY <1>5, <2>2
    <3>2. IsBackward(y)
      BY <1>9, <2>1, <2>2 DEF BackwardHolds
    <3>3. BackwardGroup(y, b).alive = y.alive \union ({b.dst} \X (b.rhs \intersect At(y.alive, b.src)))
      BY <3>2, BackwardGroupIs
    <3> QED BY <2>2, <3>1, <3>3
  <2> QED BY <2>2, <2>3, <2>4, <2>6, <2>7
<1>11. a[0] = f.alive /\ a[n] = g[n].alive
  BY <1>1, <1>3 DEF Chain
<1>12. \A i \in 0 .. n : OfPairs(a[i], M)
  <2> SUFFICES ASSUME NEW i \in 0 .. n PROVE OfPairs(a[i], M)
    OBVIOUS
  <2>1. a[i] = g[i].alive
    OBVIOUS
  <2> QED BY <1>9, <2>1 DEF BackwardHolds
<1> HIDE DEF a
<1> QED BY <1>0, <1>4, <1>10, <1>11, <1>12, <1>13 DEF BackwardHolds, BackwardGives

(***************************************************************************)
(* The pruned program agrees with the whole one where it is read.          *)
(***************************************************************************)
LEMMA GroupAgrees ==
  ASSUME NEW M, NEW g, ActsOn(g, M), g.rhs = M, NEW h, h.kind = g.kind, h.dst = g.dst, h.src = g.src,
         NEW r, OfPairs(r, M), NEW a, OfPairs(a, M),
         h.rhs = At(r, g.dst) \intersect At(a, g.src),
         NEW e \in Words(M), ZeroOff(e, r), NEW d, Agree(e, d, a \union ({g.dst} \X h.rhs)),
         NEW f \in Field
  PROVE  /\ ApplyTransposed(e, g, f) \in Words(M)
         /\ ZeroOff(ApplyTransposed(e, g, f), r \union ({g.src} \X At(r, g.dst)))
         /\ Agree(ApplyTransposed(e, g, f), ApplyTransposed(d, h, f), a)
<1>1. PICK e1, d1 : e1 = ApplyTransposed(e, g, f) /\ d1 = ApplyTransposed(d, h, f)
  OBVIOUS
<1>2. e1 \in Words(M)
  BY <1>1, TransposedOnWords
<1>3. DOMAIN e1 = Positions \X M /\ DOMAIN e = Positions \X M /\ DOMAIN d1 = DOMAIN d
  BY <1>1, <1>2, ApplyTransposedIs DEF Words
<1>4. g.src \in Positions /\ g.dst \in Positions /\ (g.kind = "scale" => g.dst = g.src)
  BY DEF ActsOn
<1>5. \A m \in M : e1[<<g.src, m>>] = IF g.kind = "scale" THEN (e[<<g.src, m>>] * f) % Prime
                                      ELSE SubtractMultiply(e[<<g.src, m>>], f, e[<<g.dst, m>>])
  <2> SUFFICES ASSUME NEW m \in M
               PROVE  e1[<<g.src, m>>] = IF g.kind = "scale" THEN (e[<<g.src, m>>] * f) % Prime
                                         ELSE SubtractMultiply(e[<<g.src, m>>], f, e[<<g.dst, m>>])
    OBVIOUS
  <2>1. <<g.src, m>> \in DOMAIN e /\ m \in g.rhs
    BY <1>3, <1>4
  <2> QED BY <1>1, <2>1, ApplyTransposedIs
<1>6. \A w \in Positions \X M : w[1] # g.src => e1[w] = e[w]
  <2> SUFFICES ASSUME NEW w \in Positions \X M, w[1] # g.src PROVE e1[w] = e[w]
    OBVIOUS
  <2>1. w \in DOMAIN e /\ w \notin {g.src} \X g.rhs
    BY <1>3
  <2> QED BY <1>1, <2>1, ApplyTransposedIs
<1>7. \A m \in M : m \in At(r, g.dst) <=> <<g.dst, m>> \in r
  BY AtIs
<1>8. \A m \in M : <<g.dst, m>> \notin r => e[<<g.dst, m>>] = 0
  <2> SUFFICES ASSUME NEW m \in M, <<g.dst, m>> \notin r PROVE e[<<g.dst, m>>] = 0
    OBVIOUS
  <2>1. <<g.dst, m>> \in DOMAIN e
    BY <1>3, <1>4
  <2> QED BY <2>1 DEF ZeroOff
\* A word whose source is zero stays as it is.
<1>9. ASSUME NEW m \in M, m \notin At(r, g.dst) PROVE e1[<<g.src, m>>] = e[<<g.src, m>>]
  <2>1. e[<<g.dst, m>>] = 0
    BY <1>7, <1>8, <1>9
  <2>2. PICK x \in Field : x = e[<<g.src, m>>]
    BY <1>4 DEF Words
  <2>3. x \in Int /\ x % Prime = x /\ f \in Int
    BY OfField
  <2>4. CASE g.kind = "scale"
    <3>1. x = 0
      BY <1>4, <2>1, <2>2, <2>4
    <3>2. x * f = 0
      BY <2>3, <3>1
    <3> QED BY <1>5, <2>2, <2>3, <2>4, <3>1, <3>2
  <2>5. CASE g.kind # "scale"
    <3>1. x - f * 0 = x
      BY <2>3
    <3>2. SubtractMultiply(x, f, 0) = x
      BY <2>3, <3>1 DEF SubtractMultiply
    <3> QED BY <1>5, <2>1, <2>2, <2>5, <3>2
  <2> QED BY <2>4, <2>5
<1>10. ASSUME NEW w \in Positions \X M, w \notin r \union ({g.src} \X At(r, g.dst)) PROVE e1[w] = 0
  <2>1. e[w] = 0
    BY <1>3, <1>10 DEF ZeroOff
  <2>2. CASE w[1] # g.src
    BY <1>6, <2>1, <2>2
  <2>3. CASE w[1] = g.src
    <3>1. PICK m \in M : w = <<g.src, m>>
      BY <2>3
    <3>2. m \notin At(r, g.dst)
      BY <1>10, <3>1
    <3> QED BY <1>9, <2>1, <3>1, <3>2
  <2> QED BY <2>2, <2>3
<1>11. ZeroOff(e1, r \union ({g.src} \X At(r, g.dst)))
  BY <1>3, <1>10 DEF ZeroOff
<1>12. ASSUME NEW w \in a PROVE w \in DOMAIN e1 /\ w \in DOMAIN d1 /\ e1[w] = d1[w]
  <2>1. w \in Positions \X M /\ w \in DOMAIN d /\ e[w] = d[w]
    BY <1>3, <1>12 DEF Agree, OfPairs
  <2>2. w \in DOMAIN e1 /\ w \in DOMAIN d1
    BY <1>3, <2>1
  <2>3. CASE w \notin {h.src} \X h.rhs
    <3>1. d1[w] = d[w]
      BY <1>1, <2>1, <2>3, ApplyTransposedIs
    <3>2. e1[w] = e[w]
      <4>1. CASE w[1] # g.src
        BY <1>6, <2>1, <4>1
      <4>2. CASE w[1] = g.src
        <5>1. PICK m \in M : w = <<g.src, m>>
          BY <2>1, <4>2
        <5>2. m \in At(a, g.src)
          BY <1>12, <5>1, AtIs
        <5>3. m \notin At(r, g.dst)
          BY <2>3, <5>1, <5>2
        <5> QED BY <1>9, <5>1, <5>3
      <4> QED BY <4>1, <4>2
    <3> QED BY <2>1, <2>2, <3>1, <3>2
  <2>4. CASE w \in {h.src} \X h.rhs
    <3>1. PICK m \in h.rhs : w = <<g.src, m>>
      BY <2>4
    <3>2. m \in M
      BY <2>1, <3>1
    <3>3. e[<<g.dst, m>>] = d[<<g.dst, m>>]
      <4>1. <<g.dst, m>> \in a \union ({g.dst} \X h.rhs)
        OBVIOUS
      <4> QED BY <4>1 DEF Agree
    <3>4. d1[w] = IF g.kind = "scale" THEN (d[w] * f) % Prime
                  ELSE SubtractMultiply(d[w], f, d[<<g.dst, m>>])
      <4>1. <<h.src, m>> \in DOMAIN d /\ <<h.src, m>> = w
        BY <2>1, <3>1
      <4> QED BY <1>1, <3>1, <4>1, ApplyTransposedIs
    <3> QED BY <1>5, <2>1, <2>2, <3>1, <3>2, <3>3, <3>4
  <2> QED BY <2>3, <2>4
<1>13. Agree(e1, d1, a)
  BY <1>12 DEF Agree
<1> QED BY <1>1, <1>2, <1>11, <1>13

-----------------------------------------------------------------------------
(* A pruned pair of halves agrees with the whole where it is alive. *)

TapeAgreesAt(E, D, r, a, M, i) ==
  E[i] \in Words(M) /\ ZeroOff(E[i], r[i]) /\ Agree(E[i], D[i], a[i])

\* So does the tape that both passes leave.
LEMMA TapeAgrees ==
  ASSUME NEW W, NEW R, R \subseteq Positions, NEW C, NEW t \in Seq(Groups(W, R, C)), NEW n, n = Len(t),
         NEW M, NEW u \in Seq(Groups(W, R, M)), Len(u) = n, NEW r, ForwardTape(t, u, r, n),
         NEW h \in Seq(Groups(W, R, M)), Len(h) = n, NEW a, BackwardTape(u, h, a, n),
         \A i \in 0 .. n : OfPairs(r[i], M) /\ OfPairs(a[i], M),
         NEW e \in Words(M), ZeroOff(e, r[n]), NEW d, Agree(e, d, a[n]),
         NEW fs \in Seq(Field), Len(fs) = n
  PROVE  /\ ApplyTapeTransposed(e, Widened(t, M), fs) \in Words(M)
         /\ ZeroOff(ApplyTapeTransposed(e, Widened(t, M), fs), r[0])
         /\ Agree(ApplyTapeTransposed(e, Widened(t, M), fs), ApplyTapeTransposed(d, h, fs), a[0])
<1>1. /\ n \in Nat /\ DOMAIN t = 1 .. n /\ \A i \in 1 .. n : t[i] \in Groups(W, R, C)
      /\ \A i \in 1 .. n : u[i] \in Groups(W, R, M)
      /\ \A i \in 1 .. n : fs[i] \in Field
  BY SequenceIs
<1>2. PICK v : v = Widened(t, M)
  OBVIOUS
<1>3. v \in Seq(Groups(W, R, M)) /\ Len(v) = n /\ \A i \in 1 .. n : v[i] = [t[i] EXCEPT !.rhs = M]
  <2>1. v \in Seq(Groups(W, R, M)) /\ Len(v) = n
    <3>1. Widened(t, M) \in Seq(Groups(W, R, M)) /\ Len(Widened(t, M)) = Len(t)
      BY t \in Seq(Groups(W, R, C)), WidenedTyped
    <3> QED BY <1>2, <3>1
  <2>2. \A i \in 1 .. n : v[i] = [t[i] EXCEPT !.rhs = M]
    BY <1>1, <1>2 DEF Widened
  <2> QED BY <2>1, <2>2
<1>4. PICK E : DualChain(E, e, v, fs, n) /\ E[0] = ApplyTapeTransposed(e, v, fs)
  BY <1>3, TransposedChain
<1>5. PICK D : DualChain(D, d, h, fs, n) /\ D[0] = ApplyTapeTransposed(d, h, fs)
  BY TransposedChain
<1> DEFINE T == {i \in 0 .. n : TapeAgreesAt(E, D, r, a, M, i)}
<1>6. n \in T
  BY <1>1, <1>4, <1>5 DEF DualChain, TapeAgreesAt
<1>7. ASSUME NEW i \in 1 .. n, i \in T PROVE i - 1 \in T
  <2>1. PICK x, y, z, e1, d1, f, ri, ai :
          /\ x = t[i] /\ y = v[i] /\ z = h[i] /\ e1 = E[i] /\ d1 = D[i] /\ f = fs[i]
          /\ ri = r[i] /\ ai = a[i - 1]
    OBVIOUS
  <2>2. e1 \in Words(M) /\ ZeroOff(e1, ri) /\ Agree(e1, d1, a[i])
    BY <1>7, <2>1 DEF TapeAgreesAt
  <2>3. x \in Groups(W, R, C) /\ f \in Field /\ u[i] \in Groups(W, R, M)
    BY <1>1, <2>1
  <2>4. y = [x EXCEPT !.rhs = M]
    BY <1>3, <2>1
  <2>5. y \in Groups(W, R, M) /\ IsPart(y, x, x.matrix, M)
    BY <2>3, <2>4, Recolumn
  <2>6. u[i] = [x EXCEPT !.rhs = At(ri, x.dst)] /\ r[i - 1] = ri \union ({x.src} \X At(ri, x.dst))
    BY <2>1 DEF ForwardTape
  <2>7. OfPairs(ri, M) /\ OfPairs(ai, M)
    BY <1>1, <2>1
  <2>8. IsPart(u[i], x, x.matrix, At(ri, x.dst))
    <3>1. At(ri, x.dst) \subseteq M
      BY <2>7, AtIs
    <3>2. PICK D1, y1 : D1 = At(ri, x.dst) /\ y1 = [x EXCEPT !.rhs = D1]
      OBVIOUS
    <3>3. IsPart(y1, x, x.matrix, D1)
      BY <2>3, <3>1, <3>2, Recolumn
    <3> QED BY <2>6, <3>2, <3>3
  <2>9. PICK H : H = u[i].rhs \intersect At(ai, u[i].src)
    OBVIOUS
  <2>10. z = [u[i] EXCEPT !.rhs = H] /\ a[i] = ai \union ({u[i].dst} \X z.rhs)
    BY <2>1, <2>9 DEF BackwardTape
  <2>11. IsPart(z, u[i], u[i].matrix, H)
    <3>1. H \subseteq M
      BY <2>3, <2>9 DEF Groups
    <3> QED BY <2>3, <2>10, <3>1, Recolumn
  <2>12. /\ z.kind = x.kind /\ z.dst = x.dst /\ z.src = x.src
         /\ z.rhs = At(ri, x.dst) \intersect At(ai, x.src)
         /\ y.kind = x.kind /\ y.dst = x.dst /\ y.src = x.src /\ y.rhs = M
         /\ u[i].dst = x.dst
    BY <2>5, <2>8, <2>9, <2>11 DEF IsPart
  <2>13. E[i - 1] = ApplyTransposed(e1, y, f) /\ D[i - 1] = ApplyTransposed(d1, z, f)
    BY <1>4, <1>5, <2>1 DEF DualChain
  <2>14. ActsOn(y, M)
    BY <2>5, GroupActs
  <2>15. Agree(e1, d1, ai \union ({y.dst} \X z.rhs))
    BY <2>2, <2>10, <2>12
  <2>16. z.rhs = At(ri, y.dst) \intersect At(ai, y.src)
    BY <2>12
  <2>17. /\ ApplyTransposed(e1, y, f) \in Words(M)
         /\ ZeroOff(ApplyTransposed(e1, y, f), ri \union ({y.src} \X At(ri, y.dst)))
         /\ Agree(ApplyTransposed(e1, y, f), ApplyTransposed(d1, z, f), ai)
    BY <2>2, <2>3, <2>7, <2>12, <2>14, <2>15, <2>16, GroupAgrees
  <2>18. TapeAgreesAt(E, D, r, a, M, i - 1)
    BY <2>1, <2>6, <2>12, <2>13, <2>17 DEF TapeAgreesAt
  <2>19. i - 1 \in 0 .. n
    BY <1>1
  <2> QED BY <2>18, <2>19
<1> HIDE DEF T
<1>8. 0 \in T
  BY <1>1, <1>6, <1>7, DownInduction
<1>9. TapeAgreesAt(E, D, r, a, M, 0)
  BY <1>8 DEF T
<1> QED BY <1>2, <1>4, <1>5, <1>9 DEF TapeAgreesAt

\* One function over another.
LEMMA OverIs ==
  ASSUME NEW f, NEW g
  PROVE  /\ DOMAIN Over(f, g) = DOMAIN f \union DOMAIN g
         /\ \A x \in DOMAIN f : Over(f, g)[x] = f[x]
         /\ \A x \in DOMAIN g \ DOMAIN f : Over(f, g)[x] = g[x]
BY DEF Over

-----------------------------------------------------------------------------
(* What the passes over the blocks make of one block. *)

(***************************************************************************)
(* The passes block by block.                                              *)
(***************************************************************************)
ReachCoupled(p, reach, b) ==
  reach \union UNION {{p.at[x[2]]} \X At(reach, x[1]) : x \in Couplings(p.layout, b)}

KeptColumns(c, alive, x) == c.forward.columns[x] \intersect At(alive, c.plan.at[x[2]])

AliveCoupled(c, alive, b) ==
  alive \union UNION {{x[1]} \X KeptColumns(c, alive, x) : x \in Couplings(c.plan.layout, b)}

\* What is reached after the couplings.
LEMMA ReachCoupledIs ==
  ASSUME NEW p, NEW n, PlanFits(p, n), NEW b \in 1 .. n, NEW M, NEW reach, OfPairs(reach, M)
  PROVE  /\ OfPairs(ReachCoupled(p, reach, b), M) /\ reach \subseteq ReachCoupled(p, reach, b)
         /\ \A x \in Couplings(p.layout, b) : \A m \in At(reach, x[1]) :
              <<p.at[x[2]], m>> \in ReachCoupled(p, reach, b)
         /\ \A w \in ReachCoupled(p, reach, b) :
              w \in reach \/ \E x \in Couplings(p.layout, b) : \E m \in At(reach, x[1]) :
                               w = <<p.at[x[2]], m>>
<1>1. PICK S, Z : S = Couplings(p.layout, b) /\ Z = ReachCoupled(p, reach, b)
  OBVIOUS
<1>2. \A w : w \in Z <=> w \in reach \/ \E x \in S : w \in {p.at[x[2]]} \X At(reach, x[1])
  BY <1>1 DEF ReachCoupled
<1>3. \A x \in S : \A w : w \in {p.at[x[2]]} \X At(reach, x[1]) <=>
                            \E m \in At(reach, x[1]) : w = <<p.at[x[2]], m>>
  OBVIOUS
<1>4. \A x \in S : p.at[x[2]] \in Positions /\ At(reach, x[1]) \subseteq M
  <2> SUFFICES ASSUME NEW x \in S PROVE p.at[x[2]] \in Positions /\ At(reach, x[1]) \subseteq M
    OBVIOUS
  <2>1. p.at[x[2]] \in p.layout.blocks[b]
    BY <1>1, CouplingsAre
  <2>2. At(reach, x[1]) \subseteq M
    BY AtIs
  <2> QED BY <2>1, <2>2 DEF PlanFits
<1>5. OfPairs(Z, M)
  <2> SUFFICES ASSUME NEW w \in Z PROVE w \in Positions \X M
    BY DEF OfPairs
  <2>1. CASE w \in reach
    BY <2>1 DEF OfPairs
  <2>2. CASE w \notin reach
    <3>1. PICK x \in S : \E m \in At(reach, x[1]) : w = <<p.at[x[2]], m>>
      BY <1>2, <1>3, <2>2
    <3> QED BY <1>4, <3>1
  <2> QED BY <2>1, <2>2
<1>6. \A x \in S : \A m \in At(reach, x[1]) : <<p.at[x[2]], m>> \in Z
  BY <1>2, <1>3
<1>7. \A w \in Z : w \in reach \/ \E x \in S : \E m \in At(reach, x[1]) : w = <<p.at[x[2]], m>>
  BY <1>2, <1>3
<1>8. reach \subseteq Z
  BY <1>2
<1> QED BY <1>1, <1>5, <1>6, <1>7, <1>8

\* What is alive after the couplings.
LEMMA AliveCoupledIs ==
  ASSUME NEW c, NEW n, PlanFits(c.plan, n), NEW b \in 1 .. n, NEW M, NEW alive, OfPairs(alive, M)
  PROVE  /\ OfPairs(AliveCoupled(c, alive, b), M) /\ alive \subseteq AliveCoupled(c, alive, b)
         /\ \A x \in Couplings(c.plan.layout, b) : \A m \in KeptColumns(c, alive, x) :
              <<x[1], m>> \in AliveCoupled(c, alive, b)
<1>1. PICK S, Z : S = Couplings(c.plan.layout, b) /\ Z = AliveCoupled(c, alive, b)
  OBVIOUS
<1>2. \A w : w \in Z <=> w \in alive \/ \E x \in S : w \in {x[1]} \X KeptColumns(c, alive, x)
  BY <1>1 DEF AliveCoupled
<1>3. \A x \in S : \A w : w \in {x[1]} \X KeptColumns(c, alive, x) <=>
                            \E m \in KeptColumns(c, alive, x) : w = <<x[1], m>>
  OBVIOUS
<1>4. \A x \in S : x[1] \in Positions /\ KeptColumns(c, alive, x) \subseteq M
  <2> SUFFICES ASSUME NEW x \in S PROVE x[1] \in Positions /\ KeptColumns(c, alive, x) \subseteq M
    OBVIOUS
  <2>1. x \in Positions \X Positions
    BY <1>1, CouplingsAre
  <2>2. At(alive, c.plan.at[x[2]]) \subseteq M
    BY AtIs
  <2> QED BY <2>1, <2>2 DEF KeptColumns
<1>5. OfPairs(Z, M)
  <2> SUFFICES ASSUME NEW w \in Z PROVE w \in Positions \X M
    BY DEF OfPairs
  <2>1. CASE w \in alive
    BY <2>1 DEF OfPairs
  <2>2. CASE w \notin alive
    <3>1. PICK x \in S : \E m \in KeptColumns(c, alive, x) : w = <<x[1], m>>
      BY <1>2, <1>3, <2>2
    <3> QED BY <1>4, <3>1
  <2> QED BY <2>1, <2>2
<1>6. \A x \in S : \A m \in KeptColumns(c, alive, x) : <<x[1], m>> \in Z
  BY <1>2, <1>3
<1>8. alive \subseteq Z
  BY <1>2
<1> QED BY <1>1, <1>5, <1>6, <1>8

\* The forward pass over couplings.
LEMMA ForwardCoupledIs ==
  ASSUME NEW c, NEW f, IsForward(f), NEW b
  PROVE  LET y == [ForwardCoupled(f, c, b) EXCEPT !.tape = <<>>]
         IN  /\ IsForward(y) /\ y.tape = <<>> /\ y.tapes = f.tapes
             /\ y.columns = Over([x \in Couplings(c.plan.layout, b) |-> At(f.reach, x[1])], f.columns)
             /\ y.reach = ReachCoupled(c.plan, f.reach, b)
<1>1. PICK r, q, u, v : r = f.reach /\ q = f.columns /\ u = f.tape /\ v = f.tapes
  OBVIOUS
<1>2. f = [reach |-> r, columns |-> q, tape |-> u, tapes |-> v]
  BY <1>1 DEF IsForward
<1>3. PICK X, Y : /\ X = ReachCoupled(c.plan, r, b)
                  /\ Y = Over([x \in Couplings(c.plan.layout, b) |-> At(r, x[1])], q)
  OBVIOUS
<1>4. PICK h, k, y : h = ForwardCoupled(f, c, b) /\ k = [f EXCEPT !.columns = Y] /\ y = [h EXCEPT !.tape = <<>>]
  OBVIOUS
<1>5. h = [f EXCEPT !.columns = Y, !.reach = X]
  BY <1>1, <1>3, <1>4 DEF ForwardCoupled, ReachCoupled
<1>6. k = [reach |-> r, columns |-> Y, tape |-> u, tapes |-> v]
  BY <1>2, <1>4
<1>7. h = [k EXCEPT !.reach = X]
  BY <1>4, <1>5
<1>8. h = [reach |-> X, columns |-> Y, tape |-> u, tapes |-> v]
  BY <1>6, <1>7
<1>9. y = [reach |-> X, columns |-> Y, tape |-> <<>>, tapes |-> v]
  BY <1>4, <1>8
<1>10. /\ IsForward(y) /\ y.tape = <<>> /\ y.tapes = f.tapes
       /\ y.columns = Y /\ y.reach = X
  BY <1>1, <1>9 DEF IsForward
<1>11. Y = Over([x \in Couplings(c.plan.layout, b) |-> At(f.reach, x[1])], f.columns)
  BY <1>1, <1>3
<1>12. X = ReachCoupled(c.plan, f.reach, b)
  BY <1>1, <1>3
<1>13. y = [ForwardCoupled(f, c, b) EXCEPT !.tape = <<>>]
  BY <1>4
<1> QED BY <1>10, <1>11, <1>12, <1>13

\* The backward pass over couplings.
LEMMA BackwardCoupledIs ==
  ASSUME NEW c, NEW f, IsBackward(f), NEW b
  PROVE  LET y == BackwardCoupled(f, c, b)
         IN  /\ IsBackward(y) /\ y.tape = f.tape /\ y.tapes = f.tapes
             /\ y.columns = Over([x \in Couplings(c.plan.layout, b) |-> KeptColumns(c, f.alive, x)], f.columns)
             /\ y.alive = AliveCoupled(c, f.alive, b)
<1>1. PICK r, q, u, v : r = f.alive /\ q = f.columns /\ u = f.tape /\ v = f.tapes
  OBVIOUS
<1>2. f = [alive |-> r, columns |-> q, tape |-> u, tapes |-> v]
  BY <1>1 DEF IsBackward
<1>3. PICK X, Y : /\ X = AliveCoupled(c, r, b)
                  /\ Y = Over([x \in Couplings(c.plan.layout, b) |-> KeptColumns(c, r, x)], q)
  OBVIOUS
<1>4. PICK h, k : h = BackwardCoupled(f, c, b) /\ k = [f EXCEPT !.columns = Y]
  OBVIOUS
<1>5. h = [f EXCEPT !.columns = Y, !.alive = X]
  BY <1>1, <1>3, <1>4 DEF BackwardCoupled, AliveCoupled, KeptColumns
<1>6. k = [alive |-> r, columns |-> Y, tape |-> u, tapes |-> v]
  BY <1>2, <1>4
<1>7. h = [k EXCEPT !.alive = X]
  BY <1>4, <1>5
<1>8. h = [alive |-> X, columns |-> Y, tape |-> u, tapes |-> v]
  BY <1>6, <1>7
<1> QED BY <1>1, <1>3, <1>4, <1>8 DEF IsBackward

\* What one block of the forward pass does.
ForwardBlockDoes(f, y, r, c, M, b) ==
  LET t == c.plan.tapes[b]
      n == Len(t)
  IN  /\ IsForward(y) /\ y.tapes = Append(f.tapes, y.tape)
      /\ y.columns = Over([x \in Couplings(c.plan.layout, b) |-> At(f.reach, x[1])], f.columns)
      /\ y.tape \in Seq(Groups(Slots(c.plan), c.plan.layout.blocks[b], M)) /\ Len(y.tape) = n
      /\ ForwardTape(t, y.tape, r, n)
      /\ r[n] = ReachCoupled(c.plan, f.reach, b) /\ r[0] = y.reach
      /\ \A i \in 0 .. n : OfPairs(r[i], M)

\* The forward pass over a block.
LEMMA ForwardBlockIs ==
  ASSUME NEW c, NEW n, PlanFits(c.plan, n), NEW b \in 1 .. n, NEW M,
         NEW f, IsForward(f), OfPairs(f.reach, M)
  PROVE  \E r : ForwardBlockDoes(f, ForwardBlock(f, c, b), r, c, M, b)
<1>1. PICK t, R, S, y : /\ t = c.plan.tapes[b] /\ R = c.plan.layout.blocks[b] /\ S = Slots(c.plan)
                        /\ y = [ForwardCoupled(f, c, b) EXCEPT !.tape = <<>>]
  OBVIOUS
<1>2. t \in Seq(Groups(S, R, Requests)) /\ R \subseteq Positions
  BY <1>1 DEF PlanFits
<1>3. /\ IsForward(y) /\ y.tape = <<>> /\ y.tapes = f.tapes
      /\ y.columns = Over([x \in Couplings(c.plan.layout, b) |-> At(f.reach, x[1])], f.columns)
      /\ y.reach = ReachCoupled(c.plan, f.reach, b)
  <2>1. LET z == [ForwardCoupled(f, c, b) EXCEPT !.tape = <<>>]
        IN  /\ IsForward(z) /\ z.tape = <<>> /\ z.tapes = f.tapes
            /\ z.columns = Over([x \in Couplings(c.plan.layout, b) |-> At(f.reach, x[1])], f.columns)
            /\ z.reach = ReachCoupled(c.plan, f.reach, b)
    BY ForwardCoupledIs
  <2> QED BY <1>1, <2>1
<1>4. OfPairs(y.reach, M)
  BY <1>3, ReachCoupledIs
<1>5. PICK x, r : /\ x = ForwardOver(y, t)
                  /\ IsForward(x) /\ x.columns = y.columns /\ x.tapes = y.tapes
                  /\ x.tape \in Seq(Groups(S, R, M)) /\ Len(x.tape) = Len(t)
                  /\ ForwardTape(t, x.tape, r, Len(t)) /\ r[Len(t)] = y.reach /\ r[0] = x.reach
                  /\ \A i \in 0 .. Len(t) : OfPairs(r[i], M)
  <2>1. ForwardStarts(y, t, S, R, Requests, M)
    BY <1>2, <1>3, <1>4 DEF ForwardStarts
  <2>2. PICK x, r : ForwardGives(y, t, S, R, M, x, r)
    BY <2>1, ForwardChain
  <2> QED BY <2>2 DEF ForwardGives
<1>6. PICK z : z = ForwardBlock(f, c, b)
  OBVIOUS
<1>7. z = [x EXCEPT !.tapes = Append(x.tapes, x.tape)]
  BY <1>1, <1>5, <1>6 DEF ForwardBlock, ForwardOver
<1>8. IsForward(z) /\ z.tapes = Append(f.tapes, x.tape) /\ z.tape = x.tape /\ z.reach = x.reach /\ z.columns = x.columns
  <2>1. PICK r0, q, u, v : r0 = x.reach /\ q = x.columns /\ u = x.tape /\ v = x.tapes
    OBVIOUS
  <2>2. x = [reach |-> r0, columns |-> q, tape |-> u, tapes |-> v]
    BY <1>5, <2>1 DEF IsForward
  <2>3. PICK Z : Z = Append(v, u)
    OBVIOUS
  <2>4. z = [x EXCEPT !.tapes = Z]
    BY <1>7, <2>1, <2>3
  <2>5. z = [reach |-> r0, columns |-> q, tape |-> u, tapes |-> Z]
    BY <2>2, <2>4
  <2> QED BY <1>3, <1>5, <2>1, <2>3, <2>5 DEF IsForward
<1>9. ForwardBlockDoes(f, z, r, c, M, b)
  BY <1>1, <1>3, <1>5, <1>8 DEF ForwardBlockDoes
<1> QED BY <1>6, <1>9

BackwardBlockDoes(k, y, h, a, c, M, b) ==
  LET u == c.forward.tapes[b]
      n == Len(u)
  IN  /\ IsBackward(y) /\ y.tapes = <<PruneFactors(h).tape>> \o k.tapes
      /\ y.columns = Over([x \in Couplings(c.plan.layout, b) |-> KeptColumns(c, a[n], x)], k.columns)
      /\ h \in Seq(Groups(Slots(c.plan), c.plan.layout.blocks[b], M)) /\ Len(h) = n
      /\ BackwardTape(u, h, a, n) /\ a[0] = k.alive
      /\ y.alive = AliveCoupled(c, a[n], b) /\ OfPairs(y.alive, M)
      /\ \A i \in 0 .. n : OfPairs(a[i], M)

\* The backward pass over a block.
LEMMA BackwardBlockIs ==
  ASSUME NEW c, NEW n, PlanFits(c.plan, n), NEW b \in 1 .. n, NEW M,
         c.forward.tapes[b] \in Seq(Groups(Slots(c.plan), c.plan.layout.blocks[b], M)),
         NEW k, IsBackward(k), OfPairs(k.alive, M)
  PROVE  \E h, a : BackwardBlockDoes(k, BackwardBlock(k, c, b), h, a, c, M, b)
<1>1. PICK u, R, S, y : /\ u = c.forward.tapes[b] /\ R = c.plan.layout.blocks[b] /\ S = Slots(c.plan)
                        /\ y = [k EXCEPT !.tape = <<>>]
  OBVIOUS
<1>2. u \in Seq(Groups(S, R, M)) /\ R \subseteq Positions
  BY <1>1 DEF PlanFits
<1>3. IsBackward(y) /\ y.tape = <<>> /\ y.tapes = k.tapes /\ y.columns = k.columns /\ y.alive = k.alive
  <2>1. PICK r0, q, z, v : r0 = k.alive /\ q = k.columns /\ z = k.tape /\ v = k.tapes
    OBVIOUS
  <2>2. k = [alive |-> r0, columns |-> q, tape |-> z, tapes |-> v]
    BY <2>1 DEF IsBackward
  <2>3. y = [alive |-> r0, columns |-> q, tape |-> <<>>, tapes |-> v]
    BY <1>1, <2>2
  <2> QED BY <2>1, <2>3 DEF IsBackward
<1>5. PICK x, a : /\ x = BackwardOver(y, u)
                  /\ IsBackward(x) /\ x.columns = y.columns /\ x.tapes = y.tapes
                  /\ x.tape \in Seq(Groups(S, R, M)) /\ Len(x.tape) = Len(u)
                  /\ BackwardTape(u, x.tape, a, Len(u)) /\ a[0] = y.alive /\ a[Len(u)] = x.alive
                  /\ \A i \in 0 .. Len(u) : OfPairs(a[i], M)
  <2>1. BackwardStarts(y, u, S, R, M)
    BY <1>2, <1>3 DEF BackwardStarts
  <2>2. PICK x, a : BackwardGives(y, u, S, R, M, x, a)
    BY <2>1, BackwardChain
  <2> QED BY <2>2 DEF BackwardGives
<1>6. PICK z, w : z = BackwardBlock(k, c, b) /\ w = BackwardCoupled(x, c, b)
  OBVIOUS
<1>7. z = [w EXCEPT !.tapes = <<PruneFactors(x.tape).tape>> \o w.tapes]
  BY <1>1, <1>5, <1>6 DEF BackwardBlock, BackwardOver
<1>8. /\ IsBackward(w) /\ w.tape = x.tape /\ w.tapes = x.tapes
      /\ w.columns = Over([v \in Couplings(c.plan.layout, b) |-> KeptColumns(c, x.alive, v)], x.columns)
      /\ w.alive = AliveCoupled(c, x.alive, b)
  <2>1. IsBackward(x)
    BY <1>5
  <2>2. LET q == BackwardCoupled(x, c, b)
        IN  /\ IsBackward(q) /\ q.tape = x.tape /\ q.tapes = x.tapes
            /\ q.columns = Over([v \in Couplings(c.plan.layout, b) |-> KeptColumns(c, x.alive, v)], x.columns)
            /\ q.alive = AliveCoupled(c, x.alive, b)
    BY <2>1, BackwardCoupledIs
  <2> QED BY <1>6, <2>2
<1>9. /\ IsBackward(z) /\ z.tapes = <<PruneFactors(x.tape).tape>> \o k.tapes /\ z.columns = w.columns
      /\ z.alive = w.alive
  <2>1. PICK r0, q, s, v : r0 = w.alive /\ q = w.columns /\ s = w.tape /\ v = w.tapes
    OBVIOUS
  <2>2. w = [alive |-> r0, columns |-> q, tape |-> s, tapes |-> v]
    BY <1>8, <2>1 DEF IsBackward
  <2>3. PICK Z : Z = <<PruneFactors(x.tape).tape>> \o v
    OBVIOUS
  <2>4. z = [w EXCEPT !.tapes = Z]
    BY <1>7, <2>1, <2>3
  <2>5. z = [alive |-> r0, columns |-> q, tape |-> s, tapes |-> Z]
    BY <2>2, <2>4
  <2> QED BY <1>3, <1>5, <1>8, <2>1, <2>3, <2>5 DEF IsBackward
<1>10. Len(u) \in 0 .. Len(u)
  BY <1>2, SequenceIs
<1>11. OfPairs(x.alive, M)
  BY <1>5, <1>10
<1>12. OfPairs(z.alive, M)
  BY <1>8, <1>9, <1>11, AliveCoupledIs
<1>13. BackwardBlockDoes(k, z, x.tape, a, c, M, b)
  BY <1>1, <1>3, <1>5, <1>8, <1>9, <1>12 DEF BackwardBlockDoes
<1> QED BY <1>6, <1>13

-----------------------------------------------------------------------------
(* The passes over the blocks, one block at a time. *)

TapeSet(p, b, M) == Seq(Groups(Slots(p), p.layout.blocks[b], M))
TapesFor(p, n, M) == UNION {TapeSet(p, b, M) : b \in 1 .. n}

\* Tapes of the blocks.
LEMMA TapesForIs ==
  ASSUME NEW p, NEW n, NEW M, NEW b \in 1 .. n, NEW t \in TapeSet(p, b, M)
  PROVE  t \in TapesFor(p, n, M)
BY DEF TapesFor

\* Each coupling is of one block.
LEMMA CouplingsApart ==
  ASSUME NEW p, NEW n, PlanFits(p, n), NEW b \in 1 .. n, NEW e \in 1 .. n, b # e,
         NEW x \in Couplings(p.layout, b)
  PROVE  x \notin Couplings(p.layout, e)
<1>1. x[2] \in p.layout.blocks[b]
  BY CouplingsAre
<1>2. x[2] \notin p.layout.blocks[e]
  <2>1. p.layout.blocks[b] \intersect p.layout.blocks[e] = {}
    BY DEF PlanFits
  <2> QED BY <1>1, <2>1
<1> QED BY <1>2, CouplingsAre

ForwardPass(F, c, seeds, n) ==
  /\ F[0] = [reach |-> seeds, columns |-> <<>>, tape |-> <<>>, tapes |-> <<>>]
  /\ \A b \in 1 .. n : F[b] = ForwardBlock(F[b - 1], c, b)

ForwardExplained(F, c, M, b, i) ==
  /\ F[b].tapes[i] = F[i].tape
  /\ \E r : ForwardBlockDoes(F[i - 1], F[i], r, c, M, i)
  /\ \A x \in Couplings(c.plan.layout, i) :
       x \in DOMAIN F[b].columns /\ F[b].columns[x] = At(F[i - 1].reach, x[1])

ForwardAt(F, c, M, n, b) ==
  /\ IsForward(F[b]) /\ OfPairs(F[b].reach, M)
  /\ F[b].tapes \in Seq(TapesFor(c.plan, n, M)) /\ Len(F[b].tapes) = b
  /\ \A i \in 1 .. b : ForwardExplained(F, c, M, b, i)

\* The forward pass, from the first block to the last.
LEMMA ForwardPassIs ==
  ASSUME NEW c, NEW n, PlanFits(c.plan, n), NEW M, NEW seeds, OfPairs(seeds, M),
         NEW F, ForwardPass(F, c, seeds, n)
  PROVE  \A b \in 0 .. n : ForwardAt(F, c, M, n, b)
<1>1. n \in Nat
  BY DEF PlanFits
<1> DEFINE T == {b \in Nat : b <= n => ForwardAt(F, c, M, n, b)}
<1>2. 0 \in T
  <2>1. PICK f : f = F[0]
    OBVIOUS
  <2>2. f = [reach |-> seeds, columns |-> <<>>, tape |-> <<>>, tapes |-> <<>>]
    BY <2>1 DEF ForwardPass
  <2>3. IsForward(f) /\ f.reach = seeds /\ f.tapes = <<>>
    BY <2>2 DEF IsForward
  <2>4. <<>> \in Seq(TapesFor(c.plan, n, M)) /\ Len(<<>>) = 0
    OBVIOUS
  <2>5. \A i \in 1 .. 0 : FALSE
    OBVIOUS
  <2> QED BY <2>1, <2>3, <2>4, <2>5 DEF ForwardAt
<1>3. ASSUME NEW k \in Nat, k \in T PROVE k + 1 \in T
  <2> SUFFICES ASSUME k + 1 <= n PROVE ForwardAt(F, c, M, n, k + 1)
    OBVIOUS
  <2>1. PICK b \in 1 .. n : b = k + 1
    BY <1>1
  <2>2. PICK f, y : f = F[k] /\ y = F[b]
    OBVIOUS
  <2>3. ForwardAt(F, c, M, n, k)
    BY <1>1, <1>3
  <2>4. /\ IsForward(f) /\ OfPairs(f.reach, M)
        /\ f.tapes \in Seq(TapesFor(c.plan, n, M)) /\ Len(f.tapes) = k
        /\ \A i \in 1 .. k : ForwardExplained(F, c, M, k, i)
    BY <2>2, <2>3 DEF ForwardAt
  <2>5. y = ForwardBlock(f, c, b)
    <3>1. b - 1 = k
      BY <2>1
    <3> QED BY <2>2, <3>1 DEF ForwardPass
  <2>6. PICK r : ForwardBlockDoes(f, y, r, c, M, b)
    BY <2>4, <2>5, ForwardBlockIs
  <2>7. PICK m : m = Len(c.plan.tapes[b])
    OBVIOUS
  <2>8. /\ IsForward(y) /\ y.tapes = Append(f.tapes, y.tape)
        /\ y.columns = Over([x \in Couplings(c.plan.layout, b) |-> At(f.reach, x[1])], f.columns)
        /\ y.tape \in TapeSet(c.plan, b, M)
        /\ r[0] = y.reach /\ \A i \in 0 .. m : OfPairs(r[i], M)
    BY <2>6, <2>7 DEF ForwardBlockDoes, TapeSet
  <2>9. OfPairs(y.reach, M)
    <3>1. m \in Nat
      <4>1. c.plan.tapes[b] \in Seq(Groups(Slots(c.plan), c.plan.layout.blocks[b], Requests))
        BY DEF PlanFits
      <4> QED BY <2>7, <4>1, SequenceIs
    <3>2. 0 \in 0 .. m
      BY <3>1
    <3> QED BY <2>8, <3>2
  <2>10. y.tape \in TapesFor(c.plan, n, M)
    BY <2>8, TapesForIs
  <2>11. /\ y.tapes \in Seq(TapesFor(c.plan, n, M)) /\ Len(y.tapes) = b /\ y.tapes[b] = y.tape
         /\ \A i \in 1 .. k : y.tapes[i] = f.tapes[i]
    <3>1. PICK s, x : s = f.tapes /\ x = y.tape
      OBVIOUS
    <3>2. s \in Seq(TapesFor(c.plan, n, M)) /\ Len(s) = k /\ x \in TapesFor(c.plan, n, M)
      BY <2>4, <2>10, <3>1
    <3>3. /\ Append(s, x) \in Seq(TapesFor(c.plan, n, M)) /\ Len(Append(s, x)) = k + 1
          /\ Append(s, x)[k + 1] = x /\ \A i \in 1 .. k : Append(s, x)[i] = s[i]
      BY <3>2, AppendedIs
    <3> QED BY <2>1, <2>8, <3>1, <3>3
  <2>12. ASSUME NEW i \in 1 .. b PROVE ForwardExplained(F, c, M, b, i)
    <3>1. PICK g, C : g = [x \in Couplings(c.plan.layout, b) |-> At(f.reach, x[1])] /\ C = f.columns
      OBVIOUS
    <3>2. /\ \A x \in Couplings(c.plan.layout, b) : x \in DOMAIN y.columns /\ y.columns[x] = At(f.reach, x[1])
          /\ \A x \in DOMAIN C : x \notin Couplings(c.plan.layout, b) =>
                x \in DOMAIN y.columns /\ y.columns[x] = C[x]
      <4>1. /\ DOMAIN Over(g, C) = DOMAIN g \union DOMAIN C
            /\ \A x \in DOMAIN g : Over(g, C)[x] = g[x]
            /\ \A x \in DOMAIN C \ DOMAIN g : Over(g, C)[x] = C[x]
        BY OverIs
      <4>2. y.columns = Over(g, C)
        BY <2>8, <3>1
      <4>3. DOMAIN g = Couplings(c.plan.layout, b) /\ \A x \in DOMAIN g : g[x] = At(f.reach, x[1])
        BY <3>1
      <4> QED BY <4>1, <4>2, <4>3
    <3>3. CASE i = b
      <4>1. b - 1 = k
        BY <2>1
      <4>2. ForwardBlockDoes(F[b - 1], F[b], r, c, M, b)
        BY <2>2, <2>6, <4>1
      <4>3. F[b].tapes[b] = F[b].tape
        BY <2>2, <2>11
      <4>4. \A x \in Couplings(c.plan.layout, b) :
              x \in DOMAIN F[b].columns /\ F[b].columns[x] = At(F[b - 1].reach, x[1])
        BY <2>2, <3>2, <4>1
      <4> QED BY <3>3, <4>2, <4>3, <4>4 DEF ForwardExplained
    <3>4. CASE i # b
      <4>1. i \in 1 .. k /\ i \in 1 .. n /\ i # b
        BY <1>1, <2>1, <3>4
      <4>2. ForwardExplained(F, c, M, k, i)
        BY <2>4, <4>1
      <4>3. /\ f.tapes[i] = F[i].tape /\ \E q : ForwardBlockDoes(F[i - 1], F[i], q, c, M, i)
            /\ \A x \in Couplings(c.plan.layout, i) : x \in DOMAIN C /\ C[x] = At(F[i - 1].reach, x[1])
        BY <2>2, <3>1, <4>2 DEF ForwardExplained
      <4>4. F[b].tapes[i] = F[i].tape
        BY <2>2, <2>11, <4>1, <4>3
      <4>5. \A x \in Couplings(c.plan.layout, i) :
              x \in DOMAIN F[b].columns /\ F[b].columns[x] = At(F[i - 1].reach, x[1])
        <5> SUFFICES ASSUME NEW x \in Couplings(c.plan.layout, i)
                     PROVE  x \in DOMAIN F[b].columns /\ F[b].columns[x] = At(F[i - 1].reach, x[1])
          OBVIOUS
        <5>1. x \notin Couplings(c.plan.layout, b)
          BY <4>1, CouplingsApart
        <5> QED BY <2>2, <3>2, <4>3, <5>1
      <4> QED BY <4>3, <4>4, <4>5 DEF ForwardExplained
    <3> QED BY <3>3, <3>4
  <2> QED BY <2>1, <2>2, <2>8, <2>9, <2>11, <2>12 DEF ForwardAt
<1> HIDE DEF T
<1>4. \A b \in Nat : b \in T
  BY <1>2, <1>3, SetInduction
<1> QED BY <1>1, <1>4 DEF T

\* Forward comes from its passes.
LEMMA ForwardExists ==
  ASSUME NEW c, NEW n, PlanFits(c.plan, n), NEW seeds
  PROVE  \E F : ForwardPass(F, c, seeds, n) /\ Forward(c.plan, seeds) = F[n]
<1>1. n \in Nat /\ DOMAIN c.plan.layout.blocks = 1 .. n
  BY DEF PlanFits
<1>2. PICK s, f : /\ s = BlockNumbers(c.plan)
                  /\ f = [reach |-> seeds, columns |-> <<>>, tape |-> <<>>, tapes |-> <<>>]
  OBVIOUS
<1>3. DOMAIN s = 1 .. n /\ \A b \in 1 .. n : s[b] = b
  BY <1>1, <1>2, NumbersAre
<1>4. PICK F : Chain(F, f, c, s, "forwards") /\ F[n] = Folded(f, c, s, "forwards")
  BY <1>1, <1>3, FoldChain
<1>5. Forward(c.plan, seeds) = F[n]
  BY <1>2, <1>4, ForwardFold
<1>6. F[0] = f
  BY <1>4 DEF Chain
<1>7. ASSUME NEW b \in 1 .. n PROVE F[b] = ForwardBlock(F[b - 1], c, b)
  <2>1. F[b] = StepOf(F[b - 1], c, b, "forwards")
    BY <1>3, <1>4 DEF Chain
  <2> QED BY <2>1, StepForwards
<1> QED BY <1>2, <1>5, <1>6, <1>7 DEF ForwardPass
=============================================================================
