------------------------------ MODULE BasisProbes ------------------------------
(***************************************************************************)
(* What the search for a d-separating basis learns from numerical probes   *)
(* of its oracle (TrialBasisChecker of basis/DSeparatingBasisSearch.cpp):  *)
(* the coordinates of integrals in a trial basis are known at values of d, *)
(* for some values of the kinematics and two primes, and are recovered as  *)
(* functions of d as far as the samples allow.                             *)
(*                                                                         *)
(* The oracle o (NativeBasisProbeDataset with the options of the search)   *)
(* holds the pool of candidates with their sectors and dots, and the rows  *)
(* of coordinates in the initial basis at q, a prime and a kinematic       *)
(* point, by integral.  A path is a sequence of swaps, each of a candidate *)
(* for what is in a slot.  What may be missing is a set with one element   *)
(* at most.                                                                *)
(***************************************************************************)
EXTENDS RationalFunctions, TLC

Tabled(f) == f @@ <<>>
ThePrime(o, q) == o.primes[q[1]]
Slots(o) == DOMAIN o.basis
TrainingPoints(o) == 1 .. o.training
AllPoints(o) == 1 .. o.training + o.holdoutPoints
Swap(candidate, slot) == [candidate |-> candidate, slot |-> slot]

\* rebase_after_basis_swaps
Along(row, tape, p) == FoldLeft(LAMBDA r, t : Rebased(r, t.pivot, t.slot, p), row, tape)

\* build_basis_swap_coordinate_tape: a pivot is in the basis of all swaps before it.
Extended(tape, slot, pivot) ==
  IF pivot[slot] = Zero THEN {} ELSE {Append(tape, [pivot |-> pivot, slot |-> slot])}

Tapes(o, q, path) ==
  FoldLeft(LAMBDA tapes, s : UNION {Extended(t, s.slot, Along(o.rows[q][o.pool[s.candidate]], t, ThePrime(o, q))) :
                                      t \in tapes},
           {<<>>}, path)

Inserted(o, path) == {o.pool[s.candidate] : s \in Range(path)}

\* Samples at which the oracle answers all of the rows, and no pivot is zero.
UsableSamples(o, q, path, integrals, samples) ==
  LET p == ThePrime(o, q)
      answered(d) == \A i \in integrals \union Inserted(o, path) :
                       \A c \in Slots(o) : IsDefined(o.rows[q][i][c], d, p)
      pivoted(tape, d) == \A t \in Range(tape) : ValueOf(Numerator(t.pivot[t.slot]), d, p) # 0
  IN  UNION {{j \in samples : /\ <<q[1], q[2], j>> \notin o.lost
                             /\ answered(o.samples[q[1]][j])
                             /\ pivoted(tape, o.samples[q[1]][j])} : tape \in Tapes(o, q, path)}

\* rank_complete: one sample at the first and at the last point.
RankComplete(o, path) ==
  path = <<>> \/ \A prime \in DOMAIN o.primes, point \in {1, Max(AllPoints(o))} :
                   UsableSamples(o, <<prime, point>>, path, {}, {1}) # {}

-----------------------------------------------------------------------------
(* diagnose *)

Verdict(result, witnesses, support) ==
  [result |-> result, witnesses |-> witnesses, support |-> support]

\* The functions of integrals in the trial basis, by point; nothing without a tape.
RowsAlong(o, q, tapes, integrals) ==
  Tabled([i \in integrals |->
            Tabled(Along(o.rows[q][i], CHOOSE t \in tapes : TRUE, ThePrime(o, q)))])

TapedRows(o, prime, tapes, integrals) ==
  IF \E k \in DOMAIN tapes : tapes[k] = {} THEN {}
  ELSE {Tabled([k \in DOMAIN tapes |-> RowsAlong(o, <<prime, k>>, tapes[k], integrals)])}

CoordinatesAt(o, prime, points, path, integrals) ==
  TapedRows(o, prime, Tabled([k \in points |-> Tapes(o, <<prime, k>>, path)]), integrals)

\* The three interpolations, of which the last is for the last samples.
Enough(o, f, number, last, degrees) ==
  LET training == number - o.holdouts
  IN  /\ training > 0
      /\ \/ IsConstantFunction(f)
         \/ training >= ThieleSamples(f)
         \/ last /\ training >= LinearSamples(f)
         \/ \E g \in degrees : HasDegrees(f, g) /\ training >= g[1] + g[2] + 1

Flats(o, targets) == Range(targets) \X Slots(o)

FunctionAt(w, f, k) == w.functions[k][f[1]][f[2]]

\* The targets with functions that are not known yet.
Active(o, w, known) ==
  {f[1] : f \in {g \in Flats(o, w.targets) : \E k \in w.points : <<g, k>> \notin known}}

With(usable, active, fresh) ==
  Tabled([i \in DOMAIN usable |-> usable[i] \union IF i \in active THEN fresh ELSE {}])

Fetched(o, w, usable, active, samples) ==
  Tabled([k \in w.points |->
    With(usable[k], active, UsableSamples(o, <<w.prime, k>>, w.path, active, samples))])

Learnt(o, w, fetched, active, count) ==
  {x \in {f \in Flats(o, w.targets) : f[1] \in active} \X w.points :
     Enough(o, FunctionAt(w, x[1], x[2]), Cardinality(fetched[x[2]][x[1][1]]),
            count = o.maximum, w.degrees[x[1]][x[2]])}

Complete(o, w, known) == {f \in Flats(o, w.targets) : \A k \in w.points : <<f, k>> \in known}
Moving(w, outputs) ==
  {f \in outputs : Cardinality({Denominator(FunctionAt(w, f, k)) : k \in w.points} \ {One}) > 1}

\* The rungs of the ladder of samples: those of the targets that are not known yet are
\* fetched, until all are known, poles that move are seen, or there are no more samples.
RECURSIVE Climb(_, _, _, _, _, _)

Rung(o, w, fetched, known, count) ==
  IF Moving(w, Complete(o, w, known)) # {}
    THEN Verdict("moving", Moving(w, Complete(o, w, known)), {})
  ELSE IF Complete(o, w, known) = Flats(o, w.targets) THEN Verdict("passed", {}, {})
  ELSE IF count = o.maximum THEN Verdict("sampling", {}, {})
  ELSE Climb(o, w, fetched, known, count, Min({o.maximum, count + o.batch}))

Fresh(o, w, fetched, known, count) ==
  Rung(o, w, fetched, known \union Learnt(o, w, fetched, Active(o, w, known), count), count)

Climb(o, w, usable, known, before, count) ==
  Fresh(o, w, Fetched(o, w, usable, Active(o, w, known), before + 1 .. count), known, count)

Works(o, prime, points, path, targets) ==
  {[prime |-> prime, points |-> points, path |-> path, targets |-> targets, functions |-> g,
    degrees |-> [f \in Flats(o, targets) |-> [k \in points |-> {}]]] :
     g \in CoordinatesAt(o, prime, points, path, Range(targets))}

Judged(o, w) ==
  Climb(o, w, [k \in w.points |-> [i \in Range(w.targets) |-> {}]], {}, 0, o.initial)

\* Degree and support of the first denominator that says anything, by output.
SignatureOf(o, w, f) ==
  LET some == {k \in w.points : ~IsConstant(Denominator(FunctionAt(w, f, k)))}
      shape(a) == [i \in DOMAIN a |-> a[i] # 0]
  IN  IF some = {} THEN <<TRUE>> ELSE shape(Denominator(FunctionAt(w, f, Min(some))))

NonzeroOutputs(o, w) ==
  {f \in Flats(o, w.targets) : \E k \in w.points : FunctionAt(w, f, k) # Zero}

WithDegrees(o, w, first) ==
  LET degrees(g) == {<<DegreeOf(Numerator(g)), DegreeOf(Denominator(g))>>}
  IN  [w EXCEPT !.degrees = Tabled([f \in Flats(o, w.targets) |->
                              Tabled([k \in w.points |-> degrees(FunctionAt(first, f, k))])])]

ConfirmedBy(verdict, o, first, second) ==
  IF verdict.result # "passed" THEN verdict
  ELSE IF \E f \in Flats(o, first.targets) : SignatureOf(o, second, f) # SignatureOf(o, first, f)
    THEN Verdict("sampling", {}, {})
  ELSE Verdict("passed", {}, NonzeroOutputs(o, first) \union NonzeroOutputs(o, second))

Confirmed(o, first, second) ==
  ConfirmedBy(Judged(o, WithDegrees(o, second, first)), o, first, second)

\* Without a tape at some point there are no samples of it.
OrSampling(verdicts) == IF verdicts = {} THEN {Verdict("sampling", {}, {})} ELSE verdicts

\* The second prime confirms what the first shows.
Strengthened(f, o, path, strict) ==
  IF f.verdict.result # "passed" \/ ~strict THEN {f.verdict}
  ELSE OrSampling({Confirmed(o, f.work, w) :
                     w \in Works(o, 2, f.work.points, path, f.work.targets)})

\* Screening has the first prime and the training points, strict validation all.
Diagnose(o, path, targets, strict) ==
  LET points == IF strict THEN AllPoints(o) ELSE TrainingPoints(o)
      first(w) == [work |-> w, verdict |-> Judged(o, w)]
  IN  OrSampling(UNION {Strengthened(f, o, path, strict) :
                          f \in {first(w) : w \in Works(o, 1, points, path, targets)}})

-----------------------------------------------------------------------------
(* propose_pivots *)

\* Mutant: also candidates of other sectors.
AllPairs(o, selected, witnesses) ==
  {Swap(c, w[2]) : c \in {x \in DOMAIN o.pool : x \notin Range(selected)}, w \in witnesses}

\* The candidates of a slot's sector for a slot with witnesses.
SwapPairs(o, selected, witnesses) ==
  {Swap(c, w[2]) : c \in {x \in DOMAIN o.pool : x \notin Range(selected)}, w \in witnesses}
  \ {s \in {Swap(c, j) : c \in DOMAIN o.pool, j \in Slots(o)} :
       o.sectors[s.candidate] # o.sectors[selected[s.slot]]}

\* The functions of a swap at a point: the pivot, and what becomes of the witnesses.
SwapFunctions(o, functions, pair, witnesses, p) ==
  LET pivot == functions[o.pool[pair.candidate]][pair.slot]
  IN  [pivot |-> pivot,
       children |-> Tabled([i \in {w[1] : w \in {v \in witnesses : v[2] = pair.slot}} |->
                              Over(functions[i][pair.slot], pivot, p)])]

IsRecovered(o, swap, usable, p) ==
  LET samples == {j \in usable : ValueOf(Numerator(swap.pivot), o.samples[1][j], p) # 0}
  IN  /\ Cardinality(samples) > o.holdouts
      /\ \A f \in {swap.pivot} \union Range(swap.children) :
           Cardinality(samples) - o.holdouts >= LinearSamples(f)

\* What a swap promises, the best first: witnesses that it leaves, degrees that move, a
\* pivot whose numerator moves.  All swaps are of one trial basis.
ScoreOfSwap(o, swaps, witnesses, p) ==
  LET points == TrainingPoints(o)
      pivots == [k \in points |-> Numerator(swaps[k].pivot)]
      of(i) == [k \in points |-> Denominator(swaps[k].children[i])]
      children == DOMAIN swaps[1].children
      repaired == {i \in children : IsStable(of(i), p)}
  IN  <<Cardinality(witnesses) - Cardinality(repaired),
        MapThenSumSet(LAMBDA i : MovingDegree(of(i), p), children),
        Max({MovingDegree(of(i), p) : i \in children}),
        IF IsStable(pivots, p) THEN 0 ELSE 1,
        MovingDegree(pivots, p),
        Max({DegreeOf(a) : a \in Range(pivots)})>>

ScoredSwaps(o, path, pairs, witnesses) ==
  LET p == o.primes[1]
      integrals == {o.pool[s.candidate] : s \in pairs} \union {w[1] : w \in witnesses}
      usable == Tabled([k \in TrainingPoints(o) |->
                  UsableSamples(o, <<1, k>>, path, integrals, 1 .. o.maximum)])
      nonzero(functions, s) ==
        \A k \in TrainingPoints(o) : functions[k][o.pool[s.candidate]][s.slot] # Zero
      at(functions, s) ==
        Tabled([k \in TrainingPoints(o) |-> SwapFunctions(o, functions[k], s, witnesses, p)])
      recovered(swaps) == \A k \in TrainingPoints(o) : IsRecovered(o, swaps[k], usable[k], p)
  IN  UNION {UNION {{[swap |-> s, score |-> ScoreOfSwap(o, x, witnesses, p)] :
                       x \in {y \in {at(functions, s)} : recovered(y)}} :
                      s \in {t \in pairs : nonzero(functions, t)}} :
               functions \in CoordinatesAt(o, 1, TrainingPoints(o), path, integrals)}

InOrder(S, IsBefore(_, _)) ==
  SortSeq(FoldSet(LAMBDA x, seq : Append(seq, x), <<>>, S), IsBefore)

TupleBefore(a, b) ==
  \E i \in DOMAIN a \intersect DOMAIN b : a[i] < b[i] /\ \A j \in 1 .. i - 1 : a[j] = b[j]

SortedBy(S, Key(_)) == InOrder(S, LAMBDA a, b : TupleBefore(Key(a), Key(b)))

SwapKey(o, x) == x.score \o <<o.dots[x.swap.candidate], x.swap.candidate, x.swap.slot>>

\* The best swap of every slot comes before the others, up to the shortlist.
Shortlist(o, scored) ==
  LET sorted == SortedBy(scored, LAMBDA x : SwapKey(o, x))
      IsFirst(i) == \A j \in 1 .. i - 1 : sorted[j].swap.slot # sorted[i].swap.slot
      at == SelectSeq([i \in DOMAIN sorted |-> i], IsFirst)
              \o SelectSeq([i \in DOMAIN sorted |-> i], LAMBDA i : ~IsFirst(i))
  IN  SubSeq([i \in DOMAIN at |-> sorted[at[i]]], 1, Min({Len(at), o.shortlist}))
=============================================================================
