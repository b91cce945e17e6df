----------------------------- MODULE QuotientBasis -----------------------------
(***************************************************************************)
(* The monomials that a sector's critical points call for: the scripts     *)
(* that MasterFinder.cpp, NonisolatedSingular.hpp and                      *)
(* IsolatedSymmetryBasis.hpp have Singular run, and the order of           *)
(* monomials (MonomialPreference.hpp).                                     *)
(*                                                                         *)
(* What Singular's library computes is external: an ideal of dimension     *)
(* zero is its set of points, which are rational and simple in the fields  *)
(* of the instances, so that a normal form is the values at the points;    *)
(* the primary decomposition of any other is a sequence of components.  A  *)
(* point gives the values of the sector's variables in ascending order, a  *)
(* monomial their exponents.                                               *)
(***************************************************************************)
EXTENDS EquationGenerator

Degree(monomial) == Total(monomial)
Highest(monomial) == Max(Range(monomial))

\* monomial_preferred: degree, then highest power, then powers of the first variables.
Preferred(a, b) ==
  \/ Degree(a) < Degree(b)
  \/ Degree(a) = Degree(b) /\ Highest(a) < Highest(b)
  \/ Degree(a) = Degree(b) /\ Highest(a) = Highest(b) /\ LexBefore(b, a)

MonomialsOf(n, degree) == {m \in [1 .. n -> 0 .. degree] : Total(m) = degree}

\* Mutant: the last degree is left out.
FewerCandidates(n, dimension) ==
  InOrder(UNION {MonomialsOf(n, d) : d \in 0 .. dimension - 2}, Preferred)

\* fr_degree_candidates, degree by degree, each in the order of preference.
Candidates(n, dimension) ==
  InOrder(UNION {MonomialsOf(n, d) : d \in 0 .. dimension - 1}, Preferred)

ValueAt(monomial, point, prime) ==
  LET powers == {i \in DOMAIN monomial : monomial[i] > 0}
  IN  FoldSet(LAMBDA i, v : (v * point[i] ^ monomial[i]) % prime, 1, powers)

\* A sequence of values, of one thing after another.
Listed(Value(_), seq) == FoldLeft(LAMBDA list, x : Append(list, Value(x)), <<>>, seq)

\* The coordinates of an element of the quotient: its values at the points.
Coordinates(monomial, points, prime) ==
  Listed(LAMBDA x : ValueAt(monomial, x, prime), points)

Difference(a, b, prime) ==
  Listed(LAMBDA i : (a[i] - b[i]) % prime, [i \in DOMAIN a |-> i])

\* rank of a matrix of such columns
CoordinateRank(columns, n, prime) ==
  LET matrix == [r \in 1 .. n |->
                   [c \in {k \in DOMAIN columns : columns[k][r] # 0} |-> columns[c][r]]]
  IN  Len(Linear(prime)!GaussianElimination(
            matrix, [r \in 1 .. n |-> <<>>], Len(columns), [r \in 1 .. n |-> 1],
            [c \in DOMAIN columns |-> 1]).columns)

\* One by one, what is independent of what has been kept, `first` to begin with.
KeptColumns(first, columns, n, prime) ==
  FoldLeft(LAMBDA kept, column :
             IF CoordinateRank(Append(kept, column), n, prime) > Len(kept)
               THEN Append(kept, column) ELSE kept,
           first, columns)

\* The loop over candidates: those that raise the rank of the coordinates.
SelectedMonomials(candidates, points, prime) ==
  LET step(state, m) ==
        LET columns == Append(state.columns, Coordinates(m, points, prime))
        IN  IF CoordinateRank(columns, Len(points), prime) > Len(state.columns)
              THEN [columns |-> columns, selected |-> Append(state.selected, m)]
              ELSE state
  IN  FoldLeft(step, [columns |-> <<>>, selected |-> <<>>], candidates).selected

InSomeOrder(points) == InOrder(points, LexBefore)

-----------------------------------------------------------------------------
(* fr_select_symmetry_basis *)

\* fr_action: the variables of the sector at their images.
MovedMonomial(sector, generator, monomial) ==
  LET active == Ascending(sector)
      place(v) == CHOOSE i \in DOMAIN active : active[i] = v
  IN  [i \in DOMAIN monomial |->
         monomial[CHOOSE j \in DOMAIN active : place(generator[active[j]]) = i]]

\* KB[i] - image(KB[i]) for every generator; any basis of the quotient serves as KB.
SymmetryRelations(sector, generators, basis, points, prime) ==
  FoldSet(LAMBDA g, all :
            all \o Listed(LAMBDA m : Difference(Coordinates(m, points, prime),
                                               Coordinates(MovedMonomial(sector, g, m), points, prime),
                                               prime), basis),
          <<>>, generators)

\* The candidates that are independent of each other modulo the differences.
SymmetryBasis(sector, generators, basis, points, prime) ==
  LET relations == KeptColumns(<<>>,
                     SymmetryRelations(sector, generators, basis, points, prime),
                     Len(points), prime)
      step(state, m) ==
        LET columns == Append(state.columns, Coordinates(m, points, prime))
        IN  IF CoordinateRank(columns, Len(points), prime) > Len(state.columns)
              THEN [columns |-> columns, selected |-> Append(state.selected, m)]
              ELSE state
  IN  FoldLeft(step, [columns |-> relations, selected |-> <<>>], basis).selected

-----------------------------------------------------------------------------
(* fr_count_nonisolated and fr_select_nonisolated_basis *)

\* What is known of a component: its points if finite; else whether it is radical, the
\* nonlinear generators of its reduced form, whether the only one of them vanishes
\* modulo the linear ones, its dimension, and the singular points of that one.
Component(radical, nonlinear, vanishes, dimension, child) ==
  [finite |-> FALSE, radical |-> radical, nonlinear |-> nonlinear, vanishes |-> vanishes,
   dimension |-> dimension, child |-> child]

FiniteIdeal(points) == [finite |-> TRUE, dimension |-> 0, points |-> points]
InfiniteIdeal(dimension, components) ==
  [finite |-> FALSE, dimension |-> dimension, components |-> components]

Counted(count, status, terminals) ==
  [count |-> count, status |-> status, terminals |-> terminals]

RECURSIVE CountNonisolated(_, _, _)

\* The status with which a component that is not finite ends the count.
ComponentStatus(component) ==
  CASE ~component.radical                                -> 5
    [] component.radical /\ component.nonlinear = 0      -> 0
    [] component.radical /\ component.nonlinear > 1      -> 2
    [] component.nonlinear = 1 /\ component.vanishes     -> 3
    [] component.child.dimension >= component.dimension  -> 4
    [] OTHER                                             -> 0

WithPoints(result, points) ==
  [result EXCEPT !.count = @ + Cardinality(points),
                 !.terminals = IF points = {} THEN @ ELSE Append(@, points)]

\* A flat component has no critical point; of one hypersurface those of its equation count.
WithComponent(result, component, depth, variables) ==
  CASE result.status # 0 -> result
    [] result.status = 0 /\ component.finite -> WithPoints(result, component.points)
    [] result.status = 0 /\ ~component.finite /\ ComponentStatus(component) # 0 ->
         [result EXCEPT !.status = ComponentStatus(component)]
    [] result.status = 0 /\ ~component.finite /\ component.radical /\ component.nonlinear = 0 ->
         result
    [] OTHER ->
         LET child == CountNonisolated(component.child, depth + 1, variables)
         IN  IF child.status # 0 THEN [result EXCEPT !.status = child.status]
             ELSE Counted(result.count + child.count, 0, result.terminals \o child.terminals)

CountNonisolated(ideal, depth, variables) ==
  CASE ideal.finite -> WithPoints(Counted(0, 0, <<>>), ideal.points)
    [] ~ideal.finite /\ depth > variables -> Counted(0, 1, <<>>)
    [] OTHER -> FoldLeft(LAMBDA result, c : WithComponent(result, c, depth, variables),
                         Counted(0, 0, <<>>), ideal.components)

\* The direct sum of the quotients: the points of all terminals, repeated ones, too.
TerminalPoints(terminals) ==
  FoldLeft(LAMBDA all, points : all \o InSomeOrder(points), <<>>, terminals)

NonisolatedBasis(variables, count, prime) ==
  SelectedMonomials(Candidates(variables, count.count), TerminalPoints(count.terminals), prime)

-----------------------------------------------------------------------------
(* probe_script and parse_probe_result: what a probe gives, if it does not fail. *)

\* The symmetry basis is in a set of its own, if there is one.
Result(nonisolated, monomials, symmetry) ==
  [dimension |-> Len(monomials), nonisolated |-> nonisolated, monomials |-> monomials,
   symmetry |-> symmetry]

\* Without a status, as many monomials as the count says, else the parser refuses.
NonisolatedResult(variables, ideal, prime) ==
  LET count == CountNonisolated(ideal, 0, variables)
      basis == NonisolatedBasis(variables, count, prime)
  IN  IF count.status # 0 \/ Len(basis) # count.count THEN {} ELSE {Result(TRUE, basis, {})}

IsolatedResult(sector, generators, points, prime) ==
  LET basis == SelectedMonomials(Candidates(Cardinality(sector), Len(points)), points, prime)
      quotient == IF generators = {} THEN {}
                  ELSE {SymmetryBasis(sector, generators, basis, points, prime)}
  IN  CASE points = <<>>                              -> {Result(FALSE, <<>>, {})}
        [] points # <<>> /\ Len(basis) # Len(points) -> {}
        [] OTHER                                      -> {Result(FALSE, basis, quotient)}

ProbeResult(sector, generators, ideal, prime) ==
  IF ideal.finite THEN IsolatedResult(sector, generators, InSomeOrder(ideal.points), prime)
  ELSE NonisolatedResult(Cardinality(sector), ideal, prime)

-----------------------------------------------------------------------------
(* The critical points of a sector's polynomial at a point. *)

\* The polynomial in the sector's variables, with its coefficients at the point.
LocalTerms(family, sector, point) ==
  LET terms == Surviving(family, sector)
      active == Ascending(sector)
  IN  {[powers |-> [i \in DOMAIN active |-> terms[t].powers[active[i]]],
        value |-> PolynomialCoefficient(terms[t], point)] : t \in DOMAIN terms}

DerivativeOf(terms, i) ==
  {[powers |-> [t.powers EXCEPT ![i] = @ - 1], value |-> t.powers[i] * t.value] :
     t \in {u \in terms : u.powers[i] > 0}}

PolynomialAt(terms, x, prime) ==
  MapThenSumSet(LAMBDA t : t.value * ValueAt(t.powers, x, prime), terms) % prime

\* J: all derivatives vanish and the polynomial does not.
CriticalPoints(family, sector, point) ==
  LET terms == LocalTerms(family, sector, point)
      n == Cardinality(sector)
      derivatives == {DerivativeOf(terms, i) : i \in 1 .. n}
  IN  {x \in [1 .. n -> 0 .. point.prime - 1] :
         /\ \A f \in derivatives : PolynomialAt(f, x, point.prime) = 0
         /\ PolynomialAt(terms, x, point.prime) # 0}

\* A line of critical points has at least as many as the field has elements.
CriticalIdeal(family, sector, point) ==
  LET points == CriticalPoints(family, sector, point)
  IN  IF Cardinality(points) < point.prime THEN FiniteIdeal(points)
      ELSE InfiniteIdeal(1, <<Component(TRUE, 0, FALSE, 1, FiniteIdeal({}))>>)

\* Every surviving coefficient vanishes: the script is not even written.
Annihilated(family, sector, point) ==
  \A i \in DOMAIN Surviving(family, sector) :
    PolynomialCoefficient(Surviving(family, sector)[i], point) = 0
=============================================================================
