---------------------------- MODULE ProjectedTargets ----------------------------
(***************************************************************************)
(* Integrals with numerators (negative indices) or in another dimension,   *)
(* projected on integrals of the family (reduction/TopLpTargets.cpp), the  *)
(* values of their coefficients (CoefficientEvaluator.cpp), and the        *)
(* normalisation between an integral and its Lee-Pomeransky form           *)
(* (compile_lp_programs and evaluate_lp_fraction).                         *)
(*                                                                         *)
(* An integral has the indices of its propagators and the even shift of    *)
(* its dimension.  A negative index is a derivative at the edge of the     *)
(* integration; jets are the terms of the derivatives of a power of G.     *)
(***************************************************************************)
EXTENDS EquationGenerator

HalfShift(integral) == integral.shift \div 2
NeedsProjection(integral) ==
  integral.shift # 0 \/ \E v \in DOMAIN integral.indices : integral.indices[v] < 0

\* The integral of a sector's powers, and the powers of one without projection.
IntegralWith(powers) == [indices |-> [v \in 1 .. Len(powers) - 1 |-> powers[v + 1] + 1], shift |-> 0]
PowersOf(integral) ==
  [i \in 1 .. Len(integral.indices) + 1 |-> IF i = 1 THEN 0 ELSE integral.indices[i - 1] - 1]

-----------------------------------------------------------------------------
(* Jets: JetState with its weight. *)

Jet(g, derivatives, powers, factors) ==
  [g |-> g, derivatives |-> derivatives, powers |-> powers, factors |-> factors]

\* add_state: the weights of equal states add up, what is zero is gone.
Added(parts) ==
  LET states == {p.jet : p \in parts}
      weights == Tabled([s \in states |->
                   MapThenSumSet(LAMBDA p : p.weight, {p \in parts : p.jet = s})])
  IN  [s \in {t \in states : weights[t] # 0} |-> weights[s]]

\* A contribution to a new state, named by where it comes from.
Part(from, term, jet, weight) == [from |-> from, term |-> term, jet |-> jet, weight |-> weight]

PlusPowers(powers, term) == [v \in DOMAIN powers |-> powers[v] + term.powers[v]]

\* One derivative: of the powers, and of G by each of its terms.
Differentiated(terms, jets, v) ==
  Added(
    {Part(s, 0, [s EXCEPT !.powers[v] = @ - 1], jets[s] * s.powers[v]) :
       s \in {j \in DOMAIN jets : j.powers[v] > 0}}
    \union
    {Part(s, i, Jet(s.g + 1, s.derivatives + 1,
                    [PlusPowers(s.powers, terms[i]) EXCEPT ![v] = @ - 1],
                    [s.factors EXCEPT ![i] = @ + 1]),
          jets[s] * terms[i].powers[v]) :
       s \in DOMAIN jets, i \in {j \in DOMAIN terms : terms[j].powers[v] > 0}})

Boundary(integral) == {v \in DOMAIN integral.indices : integral.indices[v] <= 0}
Violates(jet, boundary) == \E v \in boundary : jet.powers[v] # 0

\* One factor G of a positive power, written as its terms.
ExpandedOnce(terms, jets, boundary) ==
  Added(
    {Part(s, 0, s, jets[s]) : s \in {j \in DOMAIN jets : j.g >= 0}}
    \union
    {p \in {Part(s, i, Jet(s.g + 1, s.derivatives, PlusPowers(s.powers, terms[i]),
                           [s.factors EXCEPT ![i] = @ + 1]), jets[s]) :
              s \in {j \in DOMAIN jets : j.g < 0}, i \in DOMAIN terms} :
       ~Violates(p.jet, boundary)})

\* expand_positive_g_power: no state is further below zero than the first was.
ExpandPositive(terms, jets, boundary, first) ==
  FoldLeft(LAMBDA states, i : ExpandedOnce(terms, states, boundary), jets,
           [i \in 1 .. IF first < 0 THEN -first ELSE 0 |-> i])

Order(integral) ==
  MapThenSumSet(LAMBDA v : -integral.indices[v],
                {u \in DOMAIN integral.indices : integral.indices[u] < 0})

JetsOf(family, integral) ==
  LET terms == family.terms
      none == [i \in DOMAIN terms |-> 0]
      start == Jet(HalfShift(integral), 0, [v \in DOMAIN integral.indices |-> 0], none) :> 1
      orders(v) == IF integral.indices[v] < 0 THEN -integral.indices[v] ELSE 0
      along(jets, v) == FoldLeft(LAMBDA j, k : Differentiated(terms, j, v), jets,
                                 [k \in 1 .. orders(v) |-> k])
      jets == FoldLeft(along, start, [v \in DOMAIN integral.indices |-> v])
  IN  ExpandPositive(terms, jets, Boundary(integral), HalfShift(integral))

-----------------------------------------------------------------------------
(* compile_integral *)

Falling(value, degree) ==
  FoldLeft(LAMBDA p, k : p * (value - (k - 1)), 1, [k \in 1 .. degree |-> k])

\* binomial
Choose(n, k) ==
  FoldLeft(LAMBDA b, i : (b * (n - k + i)) \div i, 1, [i \in 1 .. k |-> i])

\* append_shifted_falling_atoms: (z - q)_m in terms of (z)_j, for z = -d/2.
Atoms(jet, weight, shift) ==
  {a \in {[weight |-> weight * Choose(jet.derivatives, j) * Falling(-shift, jet.derivatives - j),
           degree |-> j, of |-> jet] : j \in 0 .. jet.derivatives} : a.weight # 0}

ProjectedPowers(integral, jet) ==
  [i \in 1 .. Len(integral.indices) + 1 |->
     IF i = 1 THEN -jet.g
     ELSE (IF integral.indices[i - 1] > 0 THEN integral.indices[i - 1] - 1 ELSE -1)
            + jet.powers[i - 1]]

Signed(integral, weight) == IF Order(integral) % 2 = 0 THEN weight ELSE -weight

\* A column of projected terms: powers with the atoms of their coefficient.
ProjectedColumn(family, integral, jets, kept) ==
  LET expression(powers) ==
        UNION {Atoms(s, Signed(integral, jets[s]), HalfShift(integral)) :
                 s \in {t \in kept : ProjectedPowers(integral, t) = powers}}
  IN  {c \in {[powers |-> p, atoms |-> expression(p)] :
                p \in {ProjectedPowers(integral, s) : s \in kept}} :
         c.atoms # {} /\ IsValidSector(family, SectorOf(c.powers))}

WithinBoundary(family, integral, jets) ==
  ProjectedColumn(family, integral, jets,
                  {s \in DOMAIN jets : ~Violates(s, Boundary(integral))})

CompileIntegral(family, integral) == WithinBoundary(family, integral, JetsOf(family, integral))

PlanOf(columns, count, projected) ==
  [projected |-> projected, basis |-> SubSeq(columns, 1, count),
   targets |-> SubSeq(columns, count + 1, Len(columns)),
   maximum |-> Max({0} \union {-c.powers[1] : c \in UNION Range(columns)})]

PlannedColumns(family, integrals, projected) ==
  [i \in DOMAIN integrals |->
     IF projected THEN CompileIntegral(family, integrals[i])
     ELSE IntegralColumn(family, PowersOf(integrals[i]))]

\* compile_top_lp_target_plan: all integrals are projected if one has to be.
TargetPlan(family, basis, targets) ==
  LET projected == \E i \in Range(basis) \union Range(targets) : NeedsProjection(i)
  IN  PlanOf(PlannedColumns(family, basis \o targets, projected), Len(basis), projected)

-----------------------------------------------------------------------------
(* evaluate_coefficients *)

FactorsAt(family, factors, point) ==
  FoldLeft(LAMBDA v, i : (v * FoldLeft(LAMBDA w, k : (w * PolynomialCoefficient(family.terms[i], point))
                                                       % point.prime,
                                       1, [k \in 1 .. factors[i] |-> k])) % point.prime,
           1, [i \in DOMAIN factors |-> i])

ExpressionAt(family, atoms, point) ==
  MapThenSumSet(LAMBDA a : (a.weight * (Falling(MinusHalfD(point), a.degree) % point.prime)
                              * FactorsAt(family, a.of.factors, point)) % point.prime, atoms)
  % point.prime

\* A column of projected terms by canonical row.
ProjectedColumnAt(family, column, point) ==
  LET rowOf == Tabled([c \in column |-> Canonicalize(family, c.powers)])
  IN  Tabled([row \in Range(rowOf) |->
                MapThenSumSet(LAMBDA c : ExpressionAt(family, c.atoms, point),
                              {c \in column : rowOf[c] = row}) % point.prime])

\* The same modulo the prime after every factor.
RisingMod(value, first, count, prime) ==
  FoldLeft(LAMBDA p, k : (p * ((value + first + k - 1) % prime)) % prime, 1, [k \in 1 .. count |-> k])

Positive(n) == IF n > 0 THEN n ELSE 0

\* evaluate_lp_fraction, as its numerator and denominator.
LpFraction(family, integral, point) ==
  LET prime == point.prime
      sum == FoldLeft(LAMBDA s, i : s + i, 0, integral.indices)
      delta == sum - Len(integral.indices)
      q == HalfShift(integral)
      half == (-MinusHalfD(point)) % prime
      base == ((family.loops + 1) * half - family.variables) % prime
      shifted == (base + (family.loops + 1) * q) % prime
      steps == (family.loops + 1) * q
      factorials == FoldLeft(LAMBDA f, i : (f * RisingMod(1, 0, Positive(i - 1), prime)) % prime,
                             1, integral.indices)
      product(factors) == FoldLeft(LAMBDA p, f : (p * f) % prime, 1, factors)
  IN  [numerator |-> product(<<IF sum % 2 = 0 THEN 1 ELSE -1,
                               RisingMod(shifted, -Positive(delta), Positive(delta), prime),
                               RisingMod(half, 0, Positive(q), prime),
                               RisingMod(base, steps, Positive(-steps), prime)>>),
       denominator |-> product(<<RisingMod(shifted, 0, Positive(-delta), prime),
                                 factorials,
                                 RisingMod(half, q, Positive(-q), prime),
                                 RisingMod(base, 0, Positive(steps), prime)>>)]
=============================================================================
