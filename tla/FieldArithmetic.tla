--------------------------- MODULE FieldArithmetic ---------------------------
(***************************************************************************)
(* Arithmetic in the field of Prime elements, in which systems are planned *)
(* and replayed (FiniteFieldArithmetic.hpp; 63-bit primes in the program). *)
(***************************************************************************)
EXTENDS Integers, SequencesExt

CONSTANT Prime

Field == 0 .. Prime - 1
Reciprocal(a) == CHOOSE b \in Field : (a * b) % Prime = 1

SubtractMultiply(a, factor, b) == (a - factor * b) % Prime

\* The elements of a finite set of numbers in their order.
Ascending(S) ==
  [i \in 1 .. Cardinality(S) |-> CHOOSE x \in S : Cardinality({y \in S : y < x}) = i - 1]
=============================================================================
