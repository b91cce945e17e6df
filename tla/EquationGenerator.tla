--------------------------- MODULE EquationGenerator ---------------------------
(***************************************************************************)
(* The linear relations among the integrals of a family, and the seeds     *)
(* from which they are generated (reduction/EquationGenerator.cpp).  A     *)
(* relation is a set of terms: the powers of an integral, the polynomial   *)
(* term whose coefficient multiplies it (0 for none), and the integer      *)
(* parts of its coefficient, constant and with -d/2.                       *)
(***************************************************************************)
EXTENDS SectorSymmetry

Mono(powers, term, int, minusHalfD) ==
  [powers |-> powers, term |-> term, int |-> int, minusHalfD |-> minusHalfD]

Plain(powers, int) == Mono(powers, 0, int, 0)

\* Only integrals of sectors that are not zero are terms of a relation.
OfNonzeroSectors(family, terms) ==
  {t \in terms : IsValidSector(family, SectorOf(t.powers))}

Absent(powers) == {i - 1 : i \in {j \in 2 .. Len(powers) : powers[j] < 0}}

\* surviving_polynomial_terms without a derivative, and with that by variable k.
SurvivingTerms(family, powers) ==
  {i \in DOMAIN family.terms :
     \A v \in Absent(powers) : family.terms[i].powers[v] = 0}

SurvivingDerivatives(family, powers, k) ==
  {i \in DOMAIN family.terms :
     /\ family.terms[i].powers[k] > 0
     /\ \A v \in Absent(powers) :
          family.terms[i].powers[v] = 0 \/ (v = k /\ family.terms[i].powers[v] = 1)}

Total(powers) == FoldLeft(LAMBDA s, x : s + x, 0, powers)


\* x^A G^g times a term of the polynomial, for one power of G less.
Times(powers, term) ==
  [i \in DOMAIN powers |-> IF i = 1 THEN powers[1] - 1 ELSE powers[i] + term.powers[i - 1]]

Lowered(powers, k) == [powers EXCEPT ![k + 1] = @ - 1]
Raised(powers, k) == [powers EXCEPT ![k + 1] = @ + 1]

\* dimension_shift_generator: x^A G^g = x^A G G^(g - 1).
DimensionShift(family, powers) ==
  OfNonzeroSectors(family,
    {Plain(powers, 1)} \union
    {Mono(Times(powers, family.terms[i]), i, -1, 0) : i \in SurvivingTerms(family, powers)})

\* nabla_k_generator: a total derivative by variable k, with its boundary term.
Nabla(family, k, powers) ==
  OfNonzeroSectors(family,
    (IF powers[k + 1] > 0 THEN {Plain(Lowered(powers, k), powers[k + 1])} ELSE {})
    \union
    {LET factor == family.terms[i].powers[k]
     IN  Mono(Lowered(Times(powers, family.terms[i]), k), i, factor * powers[1], factor) :
       i \in SurvivingDerivatives(family, powers, k)}
    \union
    (IF powers[k + 1] = 0 THEN {Plain([powers EXCEPT ![k + 1] = -1], 1)} ELSE {}))

\* euler_generator: the scaling of all variables at once.
Euler(family, powers) ==
  LET weight == Total(Tail(powers)) + family.variables
  IN  OfNonzeroSectors(family,
        (IF weight # 0 THEN {Plain(powers, weight)} ELSE {})
        \union
        {LET degree == Total(family.terms[i].powers)
         IN  Mono(Times(powers, family.terms[i]), i, degree * powers[1], degree) :
           i \in {j \in SurvivingTerms(family, powers) : Total(family.terms[j].powers) > 0}})

\* build_ansatz_column: no derivative by an absent variable.
AnsatzColumn(family, powers, kind, k) ==
  CASE kind = "Nabla" -> IF powers[k + 1] < 0 THEN {} ELSE Nabla(family, k, powers)
    [] kind = "Euler" -> Euler(family, powers)
    [] kind = "DimensionShift" -> DimensionShift(family, powers)

\* for_each_ansatz_column: by family, derivative and seed; empty ones are skipped.
AnsatzColumns(family, grid) ==
  LET of(kind, k) ==
        [i \in DOMAIN grid |->
           [seed |-> grid[i], kind |-> kind, derivative |-> k,
            terms |-> AnsatzColumn(family, grid[i], kind, k)]]
      nablas == FoldLeft(LAMBDA all, k : all \o of("Nabla", k), <<>>,
                         [v \in 1 .. family.variables |-> v])
  IN  SelectSeq(nablas \o of("Euler", 0) \o of("DimensionShift", 0),
                LAMBDA column : column.terms # {})

-----------------------------------------------------------------------------
(* Integrals and seeds.  An integral is given by its powers. *)

\* build_integral_columns: an integral of a zero sector has an empty column.
IntegralColumn(family, powers) ==
  OfNonzeroSectors(family, {Plain(powers, 1)})

\* sector_corner
Corner(family, sector) ==
  [i \in 1 .. family.variables + 1 |-> IF i = 1 \/ i - 1 \in sector THEN 0 ELSE -1]

Excess(powers) ==
  MapThenSumSet(LAMBDA i : powers[i], {j \in 2 .. Len(powers) : powers[j] > 0})

\* The dots a sector inherits from anchors of sectors above it.
InheritedExcess(family, anchors, gShift, sector) ==
  {Excess(a) + (IF gShift = 0 /\ SectorOf(a) # sector THEN 1 ELSE 0) :
     a \in {b \in anchors : sector \subseteq SectorOf(b) /\ IsValidSector(family, SectorOf(b))}}

\* All ways to put at most `dots` dots on a sector's variables.
DottedSeeds(family, sector, dots, gShift) ==
  LET assignments == {f \in [sector -> 0 .. dots] : MapThenSumSet(LAMBDA v : f[v], sector) <= dots}
  IN  {[i \in 1 .. family.variables + 1 |->
          IF i = 1 THEN -gShift ELSE IF i - 1 \in sector THEN f[i - 1] ELSE -1] : f \in assignments}

\* enumerate_initial_dot_excess_domain
InitialDomain(family, anchors, gShift) ==
  UNION {DottedSeeds(family, S, Max(InheritedExcess(family, anchors, gShift, S)), gShift) :
           S \in {T \in family.valid : InheritedExcess(family, anchors, gShift, T) # {}}}

-----------------------------------------------------------------------------
(* Values at a point: its prime, the dimension d and the kinematic values. *)

\* evaluate_polynomial_coefficient
PolynomialCoefficient(term, point) ==
  FoldLeft(LAMBDA s, j : s + term.weights[j + 1] * point.kinematics[j], term.weights[1],
           [j \in DOMAIN point.kinematics |-> j]) % point.prime

MinusHalfD(point) == (-point.d * Linear(point.prime)!Reciprocal(2)) % point.prime

\* evaluate
TermValue(family, t, point) ==
  ((t.int + t.minusHalfD * MinusHalfD(point))
     * (IF t.term = 0 THEN 1 ELSE PolynomialCoefficient(family.terms[t.term], point)))
  % point.prime

\* A column by the canonical rows of its terms; entries that vanish stay.
ColumnAt(family, terms, point) ==
  LET rowOf == Tabled([t \in terms |-> Canonicalize(family, t.powers)])
  IN  Tabled([row \in Range(rowOf) |->
                MapThenSumSet(LAMBDA t : TermValue(family, t, point),
                              {t \in terms : rowOf[t] = row}) % point.prime])
=============================================================================
