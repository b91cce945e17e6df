---------------------------- MODULE FactorSaturation ----------------------------
(***************************************************************************)
(* factor_saturation::sequential and saturate_ranked                       *)
(* (basis/FactorSaturation.cpp) with what the search gives them            *)
(* (TrialBasisChecker::sequential_factors): in the field of one prime, the *)
(* factors of denominators that move with the kinematics are taken out one *)
(* after the other.  A factor is taken out by swaps until no candidate has *)
(* it in a denominator, and of several swaps the one is made that brings   *)
(* back the fewest of the factors that are gone.  A chain is what          *)
(* `sequential` holds of it.                                               *)
(***************************************************************************)
EXTENDS BasisProbes

Identity(o, slot) == [c \in Slots(o) |-> IF c = slot THEN Unit ELSE Zero]

\* recover_rows
RecoverRows(o, q, path, integrals) ==
  LET enough(rows, usable) == \A i \in integrals : \A c \in Slots(o) :
                                Enough(o, rows[i][c], Cardinality(usable), TRUE, {})
  IN  {rows[q[2]] : rows \in
         {r \in CoordinatesAt(o, q[1], {q[2]}, path, integrals) :
            enough(r[q[2]], UsableSamples(o, q, path, integrals, 1 .. o.maximum))}}

\* Of what may be missing, all or nothing.
AllOf(some) ==
  IF \E i \in DOMAIN some : some[i] = {} THEN {}
  ELSE {Tabled([i \in DOMAIN some |-> CHOOSE x \in some[i] : TRUE])}

\* original_row: a row that is recovered without others.
OriginalRow(o, q, integral) ==
  IF integral \in Range(o.basis)
    THEN {Identity(o, CHOOSE c \in Slots(o) : o.basis[c] = integral)}
    ELSE {rows[integral] : rows \in RecoverRows(o, q, <<>>, {integral})}

CurrentRow(o, q, path, integral) ==
  {Tabled(Along(rows[integral], tape, ThePrime(o, q))) :
     rows \in AllOf(Tabled([i \in Inserted(o, path) \union {integral} |-> OriginalRow(o, q, i)])),
     tape \in Tapes(o, q, path)}

-----------------------------------------------------------------------------
(* scan_at *)

FactorScan(status, factors) == [status |-> status, factors |-> factors]

DenominatorsOf(rows, f) == [k \in DOMAIN rows |-> Denominator(rows[k][f[1]][f[2]])]

\* Nothing that only the anchor has says nothing if there are poles that move.
ScanWith(found, moves) ==
  FactorScan(IF found = {} /\ moves THEN "anchor_inconclusive" ELSE "complete", found)

ScanOf(o, p, rows, anchor) ==
  ScanWith(UNION {Factors(NoncommonPart(DenominatorsOf(rows, f), anchor, p), p) : f \in Flats(o, o.targets)},
           \E f \in Flats(o, o.targets) : MovingDegree(DenominatorsOf(rows, f), p) # 0)

ScansOf(o, prime, all, anchor) ==
  IF all = {} THEN {FactorScan("interpolation_incomplete", {})}
  ELSE {ScanOf(o, o.primes[prime], rows, anchor) : rows \in all}

ScanAt(o, prime, path, anchor) ==
  CHOOSE s \in ScansOf(o, prime,
                  AllOf(Tabled([k \in TrainingPoints(o) |->
                          RecoverRows(o, <<prime, k>>, path, Range(o.targets))])), anchor) : TRUE

\* The first point whose factors are not shared by all others, or the last.
AnchorOf(o, prime) ==
  Min({o.training} \union
      {k \in TrainingPoints(o) : ScanAt(o, prime, <<>>, k).status # "anchor_inconclusive"})

-----------------------------------------------------------------------------
(* saturate_ranked *)

AllRows(o) == o.pool \o o.targets
AnchorOfChain(chain) == <<chain.prime, chain.anchor>>
RegularOn(rows, h, p) == {c \in DOMAIN rows : IsRegular(rows[c], h, p)}

\* Factors that no row has: a swap should not bring them back.
Protected(o, chain, h, rows) ==
  {g \in chain.observed \ {h} : RegularOn(rows, g, o.primes[chain.prime]) = DOMAIN rows}

\* The slots with the deepest pole of a candidate.
MinimumSlots(row, h, p) ==
  {j \in DOMAIN row : \A i \in DOMAIN row : Valuation(row[j], h, p) <= Valuation(row[i], h, p)}

\* Swaps within a sector, of candidates that have the factor in a denominator.
LegalSwaps(o, h, s, p) ==
  {Swap(c, j) : c \in DOMAIN o.pool \ RegularOn(s.rows, h, p), j \in Slots(o)}
  \ {x \in {Swap(c, j) : c \in DOMAIN o.pool, j \in Slots(o)} :
       \/ o.sectors[x.candidate] # o.sectors[s.selected[x.slot]]
       \/ x.slot \notin MinimumSlots(s.rows[x.candidate], h, p)}

After(selected, x) == [selected EXCEPT ![x.slot] = x.candidate]
FreshSwaps(legal, s) == {x \in legal : Range(After(s.selected, x)) \notin s.visited}

\* Factors that a swap brings back: their number, and then their degrees.
Reintroduced(o, x, s, protected, p) ==
  {g \in protected : Valuation(s.rows[x.candidate][x.slot], g, p) > 0}
RiskOf(o, x, s, protected, p) ==
  LET back == Reintroduced(o, x, s, protected, p)
  IN  <<Cardinality(back), MapThenSumSet(LAMBDA g : DegreeOf(g), back)>>

\* pair_scorer: whether the numerator of the pivot moves; 2 for what is not known.
ScoreOf(numerators, p) ==
  <<IF Nothing \in Range(numerators) THEN 2 ELSE IF IsStable(numerators, p) THEN 0 ELSE 1,
    IF Nothing \in Range(numerators) THEN 0 ELSE MovingDegree(numerators, p),
    Max({DegreeOf(a) : a \in Range(numerators)})>>

BestScore(o, chain, x, all) ==
  IF all = {} THEN <<2, 0, 0>>
  ELSE CHOOSE score \in {ScoreOf([k \in DOMAIN rows |-> Numerator(rows[k][x.slot])], o.primes[chain.prime]) :
                           rows \in all} : TRUE

NumeratorScore(o, chain, path, x) ==
  BestScore(o, chain, x,
            AllOf(Tabled([k \in TrainingPoints(o) |->
                    CurrentRow(o, <<chain.prime, k>>, path, o.pool[x.candidate])])))

\* Of the swaps with the least risk the one whose pivot moves least.
LeastOf(rank) == {x \in DOMAIN rank : \A y \in DOMAIN rank : ~TupleBefore(rank[y], rank[x])}

BestSwap(o, chain, s, fresh, protected) ==
  LET rank(x) == NumeratorScore(o, chain, chain.steps \o s.steps, x) \o <<x.candidate, x.slot>>
      safest == LeastOf(Tabled([x \in fresh |-> RiskOf(o, x, s, protected, o.primes[chain.prime])]))
  IN  CHOOSE x \in LeastOf(Tabled([y \in safest |-> rank(y)])) : TRUE

\* The program's own checks of a swap: what was regular stays so, a candidate is gained,
\* and factors come back just as the pivot says; a basis has room for so many swaps.
Gains(o, was, now) == was \subseteq now /\ (now \ was) \intersect DOMAIN o.pool # {}

IsSound(o, h, before, x, rows, steps, protected, p) ==
  /\ Gains(o, RegularOn(before, h, p), RegularOn(rows, h, p))
  /\ \A g \in protected :
       Valuation(before[x.candidate][x.slot], g, p) > 0 <=> RegularOn(rows, g, p) # DOMAIN rows
  /\ Len(steps) <= Len(o.pool) - Len(o.basis)

Saturation(status, s) == [status |-> status, rows |-> s.rows, selected |-> s.selected, steps |-> s.steps]

Swapped(s, x, p) ==
  [rows |-> Tabled([c \in DOMAIN s.rows |->
              Tabled(Rebased(s.rows[c], s.rows[x.candidate], x.slot, p))]),
   selected |-> After(s.selected, x),
   steps |-> Append(s.steps, x),
   visited |-> s.visited \union {Range(After(s.selected, x))}]

\* Why there is no swap to make.
Ended(o, h, s, legal, p) ==
  IF DOMAIN o.pool \subseteq RegularOn(s.rows, h, p) THEN "candidate_pool_regular"
  ELSE IF legal # {} THEN "cycle_blocked" ELSE "eligibility_blocked"

RECURSIVE Saturated(_, _, _, _)

AfterSwap(o, chain, h, s, x, next, protected) ==
  IF IsSound(o, h, s.rows, x, next.rows, next.steps, protected, o.primes[chain.prime])
    THEN Saturated(o, chain, h, next) ELSE Saturation("logic_error", s)

WithSwap(o, chain, h, s, x, protected) ==
  AfterSwap(o, chain, h, s, x, Swapped(s, x, o.primes[chain.prime]), protected)

WithBest(o, chain, h, s, fresh, protected) ==
  WithSwap(o, chain, h, s, BestSwap(o, chain, s, fresh, protected), protected)

OfLegal(o, chain, h, s, legal) ==
  IF FreshSwaps(legal, s) = {} THEN Saturation(Ended(o, h, s, legal, o.primes[chain.prime]), s)
  ELSE IF Len(s.steps) = chain.limit - chain.used THEN Saturation("budget_exhausted", s)
  ELSE WithBest(o, chain, h, s, FreshSwaps(legal, s), Protected(o, chain, h, s.rows))

Saturated(o, chain, h, s) ==
  OfLegal(o, chain, h, s, LegalSwaps(o, h, s, o.primes[chain.prime]))

Start(chain, rows) ==
  [rows |-> rows, selected |-> chain.selected, steps |-> <<>>,
   visited |-> chain.seen \union {Range(chain.selected)}]

SaturatedFrom(o, chain, h, all) ==
  IF all = {} THEN {Saturation("interpolation_incomplete", Start(chain, <<>>))}
  ELSE {Saturated(o, chain, h, Start(chain, rows)) : rows \in all}

Saturate(o, chain, h) ==
  CHOOSE r \in SaturatedFrom(o, chain, h,
                  AllOf(Tabled([c \in DOMAIN AllRows(o) |->
                          CurrentRow(o, AnchorOfChain(chain), chain.steps, AllRows(o)[c])]))) : TRUE

-----------------------------------------------------------------------------
(* sequential *)

\* The chain of a prime, which its first scan begins.
NewChain(o, prime, selected, limit) ==
  [prime |-> prime, anchor |-> AnchorOf(o, prime), selected |-> selected, steps |-> <<>>,
   seen |-> {Range(selected)}, observed |-> {}, queue |-> <<>>, used |-> 0, limit |-> limit,
   status |-> "scan"]

AfterScan(chain, scan) ==
  IF scan.status # "complete" THEN [chain EXCEPT !.status = scan.status]
  ELSE IF scan.factors = {} THEN [chain EXCEPT !.status = "validate"]
  ELSE [chain EXCEPT !.status = "factor", !.observed = @ \union scan.factors,
                     !.queue = InOrder(scan.factors, FactorBefore)]

\* The factors of a scan are tried from the smallest on.  Without any, the basis is to be
\* validated.
Scanned(o, chain) ==
  AfterScan(chain, ScanAt(o, chain.prime, chain.steps, chain.anchor))

\* The bases that the swaps pass through.
Passed(selected, steps) ==
  {Range(FoldLeft(After, selected, SubSeq(steps, 1, i))) : i \in DOMAIN steps}

Blocked(chain) ==
  IF Len(chain.queue) = 1 THEN [chain EXCEPT !.status = "all_factors_blocked_or_incomplete"]
  ELSE [chain EXCEPT !.queue = Tail(@)]

\* A factor that no candidate and no target has any more is done with, for good.
Committed(chain, r) ==
  [chain EXCEPT !.selected = r.selected, !.steps = @ \o r.steps,
                !.seen = @ \union Passed(chain.selected, r.steps), !.queue = <<>>,
                !.status = IF Range(r.selected) \in chain.seen \union
                                Passed(chain.selected, SubSeq(r.steps, 1, Len(r.steps) - 1))
                             THEN "cycle" ELSE "scan"]

AfterFactor(o, chain, h, r) ==
  CASE r.status \in {"budget_exhausted", "logic_error"} -> [chain EXCEPT !.status = r.status]
    [] r.status \in {"interpolation_incomplete", "cycle_blocked", "eligibility_blocked"} ->
         Blocked(chain)
    [] r.status = "candidate_pool_regular" ->
         IF RegularOn(r.rows, h, o.primes[chain.prime]) # DOMAIN r.rows
           THEN [chain EXCEPT !.status = "sampled_pool_insufficient"]
         ELSE IF r.steps = <<>> THEN Blocked(chain)
         ELSE Committed(chain, r)

WithSaturation(o, chain, h, r) ==
  AfterFactor(o, [chain EXCEPT !.used = @ + Len(r.steps)], h, r)

\* The next factor of the queue.
FactorRound(o, chain) ==
  IF chain.used = chain.limit THEN [chain EXCEPT !.status = "budget_exhausted"]
  ELSE WithSaturation(o, chain, Head(chain.queue), Saturate(o, chain, Head(chain.queue)))
=============================================================================
