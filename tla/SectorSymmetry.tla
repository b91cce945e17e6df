---------------------------- MODULE SectorSymmetry ----------------------------
(***************************************************************************)
(* Sectors of a family of integrals and their symmetries: which sectors    *)
(* are not zero (topology/SectorUtils.cpp), which of them have the same    *)
(* restricted Lee-Pomeransky polynomial (symmetry/SubsectorAnalysis.cpp),  *)
(* and the one power vector that stands for all symmetric ones             *)
(* (reduction/SymmetryCanonicalizer.cpp).                                  *)
(*                                                                         *)
(* A family has `variables` variables and a sequence of terms, each with   *)
(* the powers of the variables and the weights of the kinematic            *)
(* parameters in its coefficient (the first is the constant part).  All    *)
(* variables are active: there are no auxiliary (ISP) slots.  A sector is  *)
(* the set of its variables.  A power vector has the power of G first; a   *)
(* variable with power -1 is absent and below that under a derivative of   *)
(* the delta function.                                                     *)
(***************************************************************************)
EXTENDS Integers, FiniteSetsExt, SequencesExt, Functions

Linear(prime) == INSTANCE SparseEchelon WITH Prime <- prime

\* A set in an order; IsBefore is a total order on it.
InOrder(S, IsBefore(_, _)) == SortSeq(FoldSet(LAMBDA x, seq : Append(seq, x), <<>>, S), IsBefore)
Ascending(S) == InOrder(S, LAMBDA a, b : a < b)

\* The function itself, which TLC evaluates at every point once.
Tabled(f) == f @@ <<>>

-----------------------------------------------------------------------------
(* Sectors. *)

Mask(sector) == MapThenSumSet(LAMBDA v : 2 ^ (v - 1), sector)

\* The sector orders of the planners: fewer variables first, then by mask.
SectorBefore(S, T) ==
  \/ Cardinality(S) < Cardinality(T)
  \/ Cardinality(S) = Cardinality(T) /\ Mask(S) < Mask(T)

Survives(term, sector) == \A v \in DOMAIN term.powers : term.powers[v] > 0 => v \in sector

Surviving(family, sector) ==
  SelectSeq(family.terms, LAMBDA term : Survives(term, sector))

\* The exponents of a sector's terms, by variable, with a column of ones if augmented.
ExponentMatrix(terms, sector, augmented) ==
  LET columns == Ascending(sector)
  IN  [r \in DOMAIN terms |->
         [c \in {i \in DOMAIN columns : terms[r].powers[columns[i]] > 0} |->
            terms[r].powers[columns[c]]]
         @@ (IF augmented THEN Len(columns) + 1 :> 1 ELSE <<>>)]

\* fmpz_mat_rank, in a field whose prime no minor of small powers reaches.
RankPrime == 101
Rank(matrix, columns) ==
  LET none == [i \in 1 .. columns |-> 1]
  IN  Len(Linear(RankPrime)!GaussianElimination(
            matrix, [r \in DOMAIN matrix |-> <<>>], columns,
            [r \in DOMAIN matrix |-> 1], none).columns)

\* compute_valid_sector: no scaling of the variables multiplies every term.
ComputeValidSector(family, sector) ==
  LET terms == Surviving(family, sector)
      n == Cardinality(sector)
      exponents == Rank(ExponentMatrix(terms, sector, FALSE), n)
  IN  /\ terms # <<>>
      /\ exponents # Len(terms)
      /\ Rank(ExponentMatrix(terms, sector, TRUE), n + 1) > exponents

Variables(family) == 1 .. family.variables

\* enumerate_nonzero_sectors leaves out what is below a zero sector, too.
NonzeroSectors(family) ==
  LET ok == {S \in SUBSET Variables(family) \ {{}} : ComputeValidSector(family, S)}
  IN  {S \in ok : \A T \in SUBSET Variables(family) : S \subseteq T => T \in ok}

SectorOf(powers) == {i - 1 : i \in {j \in 2 .. Len(powers) : powers[j] >= 0}}
IsValidSector(family, sector) == sector \in family.valid

-----------------------------------------------------------------------------
(* Restricted polynomials and the maps between them. *)

\* restrict_polynomial; terms with equal powers do not occur.
Restricted(family, sector) == Range(Surviving(family, sector))

\* The term with its powers moved along a map of the variables of a sector.
Moved(family, map, term) ==
  [term EXCEPT !.powers =
     [v \in DOMAIN @ |-> IF \E s \in DOMAIN map : map[s] = v
                           THEN @[CHOOSE s \in DOMAIN map : map[s] = v] ELSE 0]]

\* validate_sector_relation, and what equal certificates of two graphs mean.
IsRelation(family, source, target, map) ==
  /\ DOMAIN map = source
  /\ IsInjective(map)
  /\ Range(map) = target
  /\ {Moved(family, map, t) : t \in Restricted(family, source)} = Restricted(family, target)

Isomorphisms(family, source, target) ==
  {m \in [source -> target] : IsRelation(family, source, target, m)}

\* The backends return generators; here all but the identity.
Identity(sector) == [v \in sector |-> v]
Generators(family, sector) == Isomorphisms(family, sector, sector) \ {Identity(sector)}

Image(map, sector) == {map[v] : v \in sector}

\* compose_permutations: the first and then the second.
Composed(first, second) == [v \in DOMAIN first |-> second[first[v]]]

-----------------------------------------------------------------------------
(* find_subsector_symmetry_classes *)

\* The orbit of a sector under the symmetries of the whole family.
OrbitOf(family, sector) ==
  {sector} \union {Image(g, sector) : g \in Generators(family, Variables(family))}

\* Sectors in the order of their masks: the first of an orbit represents it.
OrbitRepresentatives(family) ==
  {S \in family.valid : \A T \in OrbitOf(family, S) : Mask(S) <= Mask(T)}

\* A symmetry of the family that takes an orbit's representative to the member.
Transporter(family, representative, member) ==
  IF representative = member THEN Identity(Variables(family))
  ELSE CHOOSE g \in Generators(family, Variables(family)) : Image(g, representative) = member

\* Orbits whose restricted polynomials are isomorphic, one bucket by their first.
BucketOf(family, base) ==
  {R \in OrbitRepresentatives(family) : Isomorphisms(family, base, R) # {}}

Bases(family) ==
  {R \in OrbitRepresentatives(family) : \A T \in BucketOf(family, R) : Mask(R) <= Mask(T)}

\* canonical_variable_map: one isomorphism, which the labels of the graphs decide.
CanonicalVariableMap(family, base, target) ==
  IF base = target THEN Identity(base) ELSE CHOOSE m \in Isomorphisms(family, base, target) : TRUE

\* Mutant: members of an orbit keep the variables of its representative's map.
WithoutTransport(family, base) ==
  [member \in UNION {OrbitOf(family, R) : R \in BucketOf(family, base)} |->
     CanonicalVariableMap(family, base, base)]

\* From the base to every sector of its class, as maps of its variables.
ClassRelations(family, base) ==
  LET orbit(member) == CHOOSE R \in BucketOf(family, base) : member \in OrbitOf(family, R)
  IN  [member \in UNION {OrbitOf(family, R) : R \in BucketOf(family, base)} |->
         Composed(CanonicalVariableMap(family, base, orbit(member)),
                  Transporter(family, orbit(member), member))]

\* Classes without a symmetry are left out.
SymmetryClasses(family) ==
  {c \in {[representative |-> R, generators |-> Generators(family, R),
           relations |-> ClassRelations(family, R)] : R \in Bases(family)} :
     c.generators # {} \/ DOMAIN c.relations # {c.representative}}

-----------------------------------------------------------------------------
(* SymmetryCanonicalizer *)

\* apply: the variables outside the map are absent in the image.
Applied(powers, map) ==
  [i \in DOMAIN powers |->
     IF i = 1 THEN powers[1]
     ELSE IF \E s \in DOMAIN map : map[s] = i - 1
       THEN powers[1 + CHOOSE s \in DOMAIN map : map[s] = i - 1] ELSE -1]

InverseOf(map) == [t \in Range(map) |-> CHOOSE s \in DOMAIN map : map[s] = t]

\* Generators are all the symmetries, so one application reaches the orbit.
PowerOrbit(powers, generators) == {powers} \union {Applied(powers, g) : g \in generators}

LexBefore(a, b) ==
  \E i \in DOMAIN a : a[i] < b[i] /\ \A j \in 1 .. i - 1 : a[j] = b[j]

Smallest(orbit) == CHOOSE a \in orbit : \A b \in orbit : a = b \/ LexBefore(a, b)

ClassOf(family, sector) == {c \in family.classes : sector \in DOMAIN c.relations}

Canonicalize(family, powers) ==
  IF \E i \in 2 .. Len(powers) : powers[i] < -1
    THEN Smallest(PowerOrbit(powers, family.generators))
    ELSE LET own == ClassOf(family, SectorOf(powers))
         IN  IF own = {} THEN powers
             ELSE LET c == CHOOSE k \in own : TRUE
                  IN  Smallest(PowerOrbit(
                        Applied(powers, InverseOf(c.relations[SectorOf(powers)])),
                        c.generators))

CanonicalizeGrid(family, grid) ==
  InOrder({Canonicalize(family, powers) : powers \in grid}, LexBefore)
=============================================================================
