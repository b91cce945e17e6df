--------------------------- MODULE RationalFunctions ---------------------------
(***************************************************************************)
(* Rational functions of d over the field of p elements, with which the    *)
(* search for a d-separating basis works (basis/FactorSaturation.cpp, by   *)
(* FLINT in the program, and basis/UnivariateSeparation.cpp).              *)
(*                                                                         *)
(* A polynomial is the sequence of its coefficients, that of d^0 first,    *)
(* without zeros at the end but for <<0>>; a function is a coprime pair of *)
(* polynomials with a monic denominator; a row is a sequence of functions, *)
(* the coordinates of an integral in a basis.                              *)
(***************************************************************************)
EXTENDS Integers, SequencesExt, FiniteSetsExt

Nothing == <<0>>
One == <<1>>
IsConstant(a) == Len(a) = 1

Reciprocal(x, p) == CHOOSE y \in 1 .. p - 1 : (x * y) % p = 1

Trimmed(a) == SubSeq(a, 1, Max({1} \union {i \in DOMAIN a : a[i] # 0}))

Coefficient(a, i) == IF i \in DOMAIN a THEN a[i] ELSE 0

Scaled(a, x, p) == Trimmed([i \in DOMAIN a |-> (a[i] * x) % p])

Minus(a, b, p) ==
  Trimmed([i \in 1 .. Max({Len(a), Len(b)}) |-> (Coefficient(a, i) - Coefficient(b, i)) % p])

Product(a, b, p) ==
  Trimmed([k \in 1 .. Len(a) + Len(b) - 1 |->
             MapThenSumSet(LAMBDA i : a[i] * Coefficient(b, k + 1 - i), 1 .. Min({k, Len(a)})) % p])

Monic(a, p) == IF a = Nothing THEN a ELSE Scaled(a, Reciprocal(Last(a), p), p)

\* evaluate
ValueOf(a, x, p) == FoldRight(LAMBDA c, value : (value * x + c) % p, a, 0)

\* Quotient and remainder: the leading terms of a are taken off as long as b fits in.
TakenOff(d, b, factor, k, p) ==
  [quotient |-> <<factor>> \o d.quotient,
   rest |-> [i \in DOMAIN d.rest |-> IF i \in k .. k + Len(b) - 1
               THEN (d.rest[i] - factor * b[i + 1 - k]) % p ELSE d.rest[i]]]

Division(a, b, p) ==
  LET fits == Len(a) + 1 - Len(b)
  IN  FoldLeft(LAMBDA d, k : TakenOff(d, b, (d.rest[k + Len(b) - 1] * Reciprocal(Last(b), p)) % p, k, p),
               [quotient |-> <<>>, rest |-> a], [k \in 1 .. fits |-> fits + 1 - k])

Quotient(a, b, p) == Division(a, b, p).quotient
Remainder(a, b, p) == Trimmed(Division(a, b, p).rest)
Divides(b, a, p) == Remainder(a, b, p) = Nothing

RECURSIVE Gcd(_, _, _)
Gcd(a, b, p) == IF b = Nothing THEN Monic(a, p) ELSE Gcd(b, Remainder(a, b, p), p)

-----------------------------------------------------------------------------
(* Functions *)

Zero == <<Nothing, One>>
Unit == <<One, One>>
Numerator(f) == f[1]
Denominator(f) == f[2]

WithMonic(n, d, p) ==
  LET scale == Reciprocal(Last(d), p)
  IN  <<Scaled(n, scale, p), Scaled(d, scale, p)>>

Cancelled(n, d, g, p) == WithMonic(Quotient(n, g, p), Quotient(d, g, p), p)
Normalized(n, d, p) == IF n = Nothing THEN Zero ELSE Cancelled(n, d, Gcd(n, d, p), p)

Multiply(f, g, p) == Normalized(Product(f[1], g[1], p), Product(f[2], g[2], p), p)
Over(f, g, p) == Multiply(f, <<g[2], g[1]>>, p)
Subtract(f, g, p) ==
  Normalized(Minus(Product(f[1], g[2], p), Product(g[1], f[2], p), p), Product(f[2], g[2], p), p)

IsDefined(f, x, p) == ValueOf(f[2], x, p) # 0

Eliminated(row, pivot, slot, ratio, p) ==
  [i \in DOMAIN row |-> IF i = slot THEN ratio
                        ELSE Subtract(row[i], Multiply(ratio, pivot[i], p), p)]

\* A row when the integral with the coordinates `pivot` takes the place in slot.
Rebased(row, pivot, slot, p) == Eliminated(row, pivot, slot, Over(row[slot], pivot[slot], p), p)

-----------------------------------------------------------------------------
(* Factors *)

\* Polynomials that divide until they no longer do: what is left of a.
RECURSIVE Without(_, _, _)
Without(a, h, p) ==
  IF Len(a) >= Len(h) /\ Divides(h, a, p) THEN Without(Quotient(a, h, p), h, p) ELSE a

LinearFactors(a, p) == {<<(0 - x) % p, 1>> : x \in {y \in 0 .. p - 1 : ValueOf(a, y, p) = 0}}

\* Of a polynomial without roots, which is irreducible if its degree is two or three.
QuadraticFactors(a, p) ==
  IF Len(a) <= 4 THEN {}
  ELSE {q \in {<<x, y, 1>> : x, y \in 0 .. p - 1} : Divides(q, a, p)}

\* factors.  Bound: what is left without factors of degree one and two has degree five
\* at most, and is then irreducible.
WithoutAll(a, factors, p) == FoldSet(LAMBDA h, b : Without(b, h, p), a, factors)

Whole(a, p) == IF IsConstant(a) THEN {} ELSE {Monic(a, p)}
NonlinearFactors(a, quadratic, p) == quadratic \union Whole(WithoutAll(a, quadratic, p), p)
RootlessFactors(a, p) == NonlinearFactors(a, QuadraticFactors(a, p), p)

Factors(a, p) ==
  IF IsConstant(a) THEN {}
  ELSE LinearFactors(a, p) \union RootlessFactors(WithoutAll(a, LinearFactors(a, p), p), p)

FactorBefore(g, h) ==
  \/ Len(g) < Len(h)
  \/ Len(g) = Len(h) /\ \E i \in DOMAIN g : g[i] < h[i] /\ \A j \in 1 .. i - 1 : g[j] = h[j]

Multiplicity(a, h, p) == (Len(a) - Len(Without(a, h, p))) \div (Len(h) - 1)

\* infinite_valuation.  Bound: nothing here has a zero or a pole of this order.
Infinite == 1000
Valuation(f, h, p) ==
  IF f = Zero THEN Infinite ELSE Multiplicity(f[1], h, p) - Multiplicity(f[2], h, p)

IsRegular(row, h, p) == \A i \in DOMAIN row : Valuation(row[i], h, p) >= 0

-----------------------------------------------------------------------------
(* What polynomials of several points have in common.  Constants say nothing of it. *)

Nonconstant(polys) == SelectSeq(polys, LAMBDA a : ~IsConstant(a))

CommonPart(polys, p) ==
  LET some == Nonconstant(polys)
  IN  FoldLeft(LAMBDA g, a : Gcd(g, a, p), Monic(some[1], p), Tail(some))

\* noncommon_part: of the polynomial at a point, what the others do not share.
NoncommonPart(polys, point, p) ==
  IF IsConstant(polys[point]) THEN One
  ELSE Monic(Quotient(polys[point], CommonPart(polys, p), p), p)

\* moving_polynomial_degree
MovingDegree(polys, p) ==
  IF Nonconstant(polys) = <<>> THEN 0
  ELSE Max({Len(a) : a \in Range(Nonconstant(polys))}) - Len(CommonPart(polys, p))

\* stable_polynomial_signatures
IsStable(polys, p) == Cardinality({Monic(a, p) : a \in Range(Nonconstant(polys))}) <= 1

-----------------------------------------------------------------------------
(* Interpolation, by what it does: the function itself comes out as soon as its degrees *)
(* fit into the samples that are not held out, else nothing.  A constant shows at once. *)

DegreeOf(a) == Len(a) - 1
IsConstantFunction(f) == IsConstant(f[1]) /\ IsConstant(f[2])

\* interpolate_rational_thiele_monic: the continued fraction, and a sample it predicts.
ThieleSamples(f) ==
  IF IsConstantFunction(f) THEN 0
  ELSE Max({2 * DegreeOf(f[1]), 2 * DegreeOf(f[2]) + 1}) + 1

\* interpolate_rational_monic: a system with as many unknowns.
LinearSamples(f) ==
  IF IsConstantFunction(f) THEN 0 ELSE DegreeOf(f[1]) + DegreeOf(f[2]) + 1

\* interpolate_rational_fixed_degrees, with the degrees of the other prime.
HasDegrees(f, degrees) == DegreeOf(f[1]) <= degrees[1] /\ DegreeOf(f[2]) = degrees[2]
=============================================================================
