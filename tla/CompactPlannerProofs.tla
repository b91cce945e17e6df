------------------------ MODULE CompactPlannerProofs ------------------------
(***************************************************************************)
(* Theorems about the planner and its elimination.  The operators of       *)
(* SparseMarkowitz are folds over the rows of a pivot.  FoldExists states   *)
(* what FoldLeft computes as a chain of values, one for each element, and   *)
(* FoldChain carries a fact along a chain; with them a lemma about one row *)
(* (RowStep) becomes one about a pivot.  System, elimination and batch are  *)
(* typed by predicates of one value each (WellFormed, Typed, BatchTyped),  *)
(* so that a lemma can be stated once for all states; so are the counters  *)
(* (Counts, Midway), the marks (Marks) and the queues (Follows).           *)
(*                                                                         *)
(* That closed answers are right is linear algebra modulo Prime: Total is  *)
(* the sum of which Sum is the remainder, Value what a row is at a vector. *)
(* The elimination of what was selected is in echelon form up to a column  *)
(* (EchelonAt), and has the solutions of its start (EquationsOf).          *)
(***************************************************************************)
EXTENDS CompactPlanner, FiniteSetTheorems, WellFoundedInduction, TLAPS

(***************************************************************************)
(* Sets and sequences.                                                     *)
(***************************************************************************)
LEMMA Least ==
  ASSUME NEW T, T \subseteq Nat, T # {}
  PROVE  \E x \in T : \A y \in T : x <= y
<1>1. PICK x \in T : \A y \in T : ~(<<y, x>> \in OpToRel(<, Nat))
  BY NatLessThanWellFounded, WFMin
<1>2. ASSUME NEW y \in T PROVE x <= y
  <2>1. ~(y < x)
    BY <1>1, <1>2 DEF OpToRel
  <2> QED BY <2>1, <1>2
<1> QED BY <1>2

LEMMA SetInduction ==
  ASSUME NEW T, 0 \in T, \A k \in Nat : k \in T => k + 1 \in T
  PROVE  \A k \in Nat : k \in T
<1> DEFINE Exceptions == {k \in Nat : k \notin T}
<1>1. SUFFICES ASSUME Exceptions # {} PROVE FALSE
  OBVIOUS
<1>2. PICK k \in Exceptions : \A l \in Exceptions : k <= l
  BY <1>1, Least
<1>3. k # 0 /\ k - 1 \in Nat /\ k - 1 \in T
  BY <1>2
<1> QED BY <1>2, <1>3

LEMMA SequenceIs ==
  ASSUME NEW S, NEW s \in Seq(S)
  PROVE  /\ Len(s) \in Nat /\ DOMAIN s = 1 .. Len(s)
         /\ \A i \in DOMAIN s : s[i] \in S
OBVIOUS

\* How many elements of a set are below an element.
Smaller(S, x) == Cardinality({y \in S : y < x})

LEMMA SmallerRises ==
  ASSUME NEW S, S \subseteq Int, IsFiniteSet(S), NEW x \in S
  PROVE  /\ Smaller(S, x) \in Nat /\ Smaller(S, x) < Cardinality(S)
         /\ \A y \in S : x < y => Smaller(S, x) < Smaller(S, y)
<1>1. ASSUME NEW U, NEW V, IsFiniteSet(V), U \subseteq V, NEW z, z \in V, z \notin U
      PROVE  /\ Cardinality(U) \in Nat /\ Cardinality(V) \in Nat
             /\ Cardinality(U) < Cardinality(V)
  <2>1. IsFiniteSet(U) /\ Cardinality(U) <= Cardinality(V) /\ Cardinality(U) # Cardinality(V)
    BY <1>1, FS_Subset
  <2>2. Cardinality(U) \in Nat /\ Cardinality(V) \in Nat
    BY <1>1, <2>1, FS_CardinalityType
  <2> QED BY <2>1, <2>2
<1>2. Smaller(S, x) \in Nat /\ Smaller(S, x) < Cardinality(S)
  <2> DEFINE U == {y \in S : y < x}
  <2>1. U \subseteq S /\ x \notin U
    OBVIOUS
  <2> HIDE DEF U
  <2>2. Cardinality(U) \in Nat /\ Cardinality(U) < Cardinality(S)
    BY <2>1, <1>1
  <2> QED BY <2>2 DEF Smaller, U
<1>3. ASSUME NEW y \in S, x < y PROVE Smaller(S, x) < Smaller(S, y)
  <2> DEFINE U == {z \in S : z < x}
             V == {z \in S : z < y}
  <2>0. x \in Int /\ y \in Int /\ \A z \in S : z \in Int
    OBVIOUS
  <2>4. \A z \in S : z < x => z < y
    BY <1>3, <2>0
  <2>5. ~(x < x)
    BY <2>0
  <2>1. U \subseteq V /\ x \in V /\ x \notin U
    BY <1>3, <2>4, <2>5
  <2>2. IsFiniteSet(V)
    BY FS_Subset
  <2> HIDE DEF U, V
  <2>3. Cardinality(U) < Cardinality(V)
    BY <2>1, <2>2, <1>1
  <2> QED BY <2>3 DEF Smaller, U, V
<1> QED BY <1>2, <1>3

\* The elements of a set of numbers, each once.
LEMMA AscendingIs ==
  ASSUME NEW S, S \subseteq Int, IsFiniteSet(S)
  PROVE  /\ Ascending(S) \in Seq(S)
         /\ DOMAIN Ascending(S) = 1 .. Cardinality(S)
         /\ \A x \in S : \E i \in DOMAIN Ascending(S) : Ascending(S)[i] = x
         /\ \A i, j \in DOMAIN Ascending(S) : Ascending(S)[i] = Ascending(S)[j] => i = j
<1> DEFINE n == Cardinality(S)
           place == [x \in S |-> Smaller(S, x) + 1]
<1>1. n \in Nat
  BY FS_CardinalityType
<1>0. /\ \A x \in S : x \in Int /\ Smaller(S, x) \in Nat /\ Smaller(S, x) < n
      /\ \A x, y \in S : x < y => Smaller(S, x) < Smaller(S, y)
  BY SmallerRises
<1> HIDE DEF n
<1>2. IsFiniteSet(1 .. n) /\ Cardinality(1 .. n) = n
  BY <1>1, FS_Interval
<1>3. place \in [S -> 1 .. n]
  BY <1>1, <1>0
<1>4. ASSUME NEW x \in S, NEW y \in S, place[x] = place[y] PROVE x = y
  <2>1. Smaller(S, x) = Smaller(S, y)
    BY <1>4, <1>0
  <2>2. ~(x < y) /\ ~(y < x)
    BY <2>1, <1>0
  <2> QED BY <2>2
<1>5. place \in Injection(S, 1 .. n)
  BY <1>3, <1>4 DEF Injection, IsInjective
<1>6. place \in Surjection(S, 1 .. n)
  <2>1. Cardinality(S) = Cardinality(1 .. n)
    BY <1>2 DEF n
  <2> HIDE DEF place
  <2> QED BY <2>1, <1>2, <1>5, FS_Injection
<1>7. \A i \in 1 .. n : \E x \in S : place[x] = i
  <2> HIDE DEF place
  <2> QED BY <1>6 DEF Surjection
<1>8. \A i \in 1 .. n : \E x \in S : Smaller(S, x) = i - 1
  BY <1>7, <1>0
<1>9. DOMAIN Ascending(S) = 1 .. n
  BY DEF Ascending, n
<1>10. ASSUME NEW i \in 1 .. n
       PROVE  Ascending(S)[i] \in S /\ Smaller(S, Ascending(S)[i]) = i - 1
  <2>1. Ascending(S)[i] = CHOOSE x \in S : Cardinality({y \in S : y < x}) = i - 1
    BY <1>9 DEF Ascending
  <2>2. \E x \in S : Cardinality({y \in S : y < x}) = i - 1
    BY <1>8 DEF Smaller
  <2> QED BY <2>1, <2>2 DEF Smaller
<1>11. Ascending(S) \in Seq(S)
  <2>1. Ascending(S) = [i \in 1 .. n |-> Ascending(S)[i]]
    <3> DEFINE e(i) == CHOOSE x \in S : Cardinality({y \in S : y < x}) = i - 1
    <3>1. Ascending(S) = [i \in 1 .. n |-> e(i)]
      BY DEF Ascending, n
    <3> HIDE DEF e
    <3> QED BY <3>1
  <2>2. Ascending(S) \in [1 .. n -> S]
    BY <2>1, <1>10
  <2> QED BY <2>2, <1>1
<1>12. ASSUME NEW x \in S PROVE \E i \in 1 .. n : Ascending(S)[i] = x
  <2> DEFINE i == Smaller(S, x) + 1
  <2>1. i \in 1 .. n
    BY <1>0, <1>1
  <2>2. PICK y \in S : y = Ascending(S)[i] /\ Smaller(S, y) = i - 1
    BY <2>1, <1>10
  <2>3. Smaller(S, y) = Smaller(S, x) /\ Smaller(S, x) \in Nat
    BY <2>2, <1>0
  <2>4. ~(x < y) /\ ~(y < x) /\ x \in Int /\ y \in Int
    BY <2>3, <1>0
  <2>5. x = y
    BY <2>4
  <2> QED BY <2>1, <2>2, <2>5
<1>13. \A i, j \in 1 .. n : Ascending(S)[i] = Ascending(S)[j] => i = j
  BY <1>10
<1> QED BY <1>9, <1>11, <1>12, <1>13 DEF n

-----------------------------------------------------------------------------
(***************************************************************************)
(* The rows recorded for a column.                                         *)
(***************************************************************************)
Recorded(s, c) == {r \in ToSet(s.incidence[c]) : Live(s, c, r)}

Kept(s, c) ==
  {i \in DOMAIN s.incidence[c] : /\ Live(s, c, s.incidence[c][i])
                                 /\ \A j \in 1 .. i - 1 : s.incidence[c][j] # s.incidence[c][i]}

LEMMA LiveRowsAre ==
  ASSUME NEW R, NEW s, NEW c, s.incidence[c] \in Seq(R)
  PROVE  /\ LiveRows(s, c) \in Seq(R)
         /\ ToSet(LiveRows(s, c)) = Recorded(s, c)
         /\ \A i, j \in DOMAIN LiveRows(s, c) :
              LiveRows(s, c)[i] = LiveRows(s, c)[j] => i = j
<1> DEFINE record == s.incidence[c]
           K == Kept(s, c)
           kept == Ascending(K)
           rows == LiveRows(s, c)
<1>1. PICK n \in Nat : DOMAIN record = 1 .. n /\ \A i \in 1 .. n : record[i] \in R
  BY Z3
<1>2. K \subseteq 1 .. n /\ \A i \in K : i \in Int
  BY <1>1 DEF Kept
<1>3. IsFiniteSet(K) /\ K \subseteq Int
  <2>1. IsFiniteSet(1 .. n)
    BY FS_Interval
  <2> HIDE DEF K
  <2> QED BY <2>1, <1>2, FS_Subset
<1>4. rows = [k \in DOMAIN kept |-> record[kept[k]]]
  BY DEF LiveRows, Kept
<1>5. /\ kept \in Seq(K) /\ DOMAIN kept = 1 .. Cardinality(K) /\ Cardinality(K) \in Nat
      /\ \A i \in DOMAIN kept : kept[i] \in K
      /\ \A x \in K : \E i \in DOMAIN kept : kept[i] = x
      /\ \A i, j \in DOMAIN kept : kept[i] = kept[j] => i = j
  <2> HIDE DEF K
  <2>1. Cardinality(K) \in Nat
    BY <1>3, FS_CardinalityType
  <2>2. kept \in Seq(K) /\ DOMAIN kept = 1 .. Cardinality(K)
    BY <1>3, AscendingIs
  <2>3. \A x \in K : \E i \in DOMAIN kept : kept[i] = x
    BY <1>3, AscendingIs
  <2>4. \A i, j \in DOMAIN kept : kept[i] = kept[j] => i = j
    BY <1>3, AscendingIs
  <2>5. \A i \in DOMAIN kept : kept[i] \in K
    BY <2>2, SequenceIs
  <2> QED BY <2>1, <2>2, <2>3, <2>4, <2>5
<1>6. \A i \in K : i \in 1 .. n /\ record[i] \in R /\ Live(s, c, record[i])
                   /\ \A j \in 1 .. i - 1 : record[j] # record[i]
  BY <1>1 DEF Kept
<1> HIDE DEF K, kept, rows, record
<1>7. rows \in Seq(R)
  <2>1. rows \in [1 .. Cardinality(K) -> R]
    BY <1>4, <1>5, <1>6
  <2> QED BY <2>1, <1>5
<1>8. \A i, j \in DOMAIN rows : rows[i] = rows[j] => i = j
  <2>1. SUFFICES ASSUME NEW i \in DOMAIN kept, NEW j \in DOMAIN kept,
                        record[kept[i]] = record[kept[j]]
                 PROVE  i = j
    BY <1>4
  <2>2. PICK a \in K, b \in K : a = kept[i] /\ b = kept[j]
    BY <1>5
  <2>3. a \in 1 .. n /\ b \in 1 .. n /\ record[a] = record[b]
    BY <2>1, <2>2, <1>6
  <2>4. ~(a \in 1 .. b - 1) /\ ~(b \in 1 .. a - 1)
    BY <2>3, <1>6
  <2>5. a = b
    BY <2>3, <2>4
  <2> QED BY <2>2, <2>5, <1>5
<1>9. ASSUME NEW r \in Recorded(s, c) PROVE r \in ToSet(rows)
  <2> DEFINE T == {i \in 1 .. n : record[i] = r}
  <2>1. T \subseteq Nat /\ T # {}
    BY <1>9, <1>1 DEF Recorded, ToSet, record
  <2>2. PICK i \in T : \A j \in T : i <= j
    BY <2>1, Least
  <2>3. i \in 1 .. n /\ record[i] = r /\ Live(s, c, record[i])
    BY <1>9, <2>2 DEF Recorded
  <2>4. \A j \in 1 .. i - 1 : record[j] # record[i]
    <3>1. SUFFICES ASSUME NEW j \in 1 .. i - 1, record[j] = r PROVE FALSE
      BY <2>3
    <3>2. j \in T /\ j < i
      BY <3>1, <2>3
    <3> QED BY <3>2, <2>2, <2>3
  <2>5. i \in K
    BY <2>3, <2>4, <1>1 DEF K, Kept, record
  <2>6. PICK k \in DOMAIN kept : kept[k] = i
    BY <2>5, <1>5
  <2>7. k \in DOMAIN rows /\ rows[k] = r
    BY <2>6, <2>3, <1>4
  <2> QED BY <2>7 DEF ToSet
<1>10. ASSUME NEW r \in ToSet(rows) PROVE r \in Recorded(s, c)
  <2>1. PICK k \in DOMAIN kept : r = record[kept[k]]
    BY <1>4 DEF ToSet
  <2>2. PICK i \in K : i = kept[k]
    BY <1>5
  <2>3. r = record[i] /\ i \in DOMAIN record /\ Live(s, c, r)
    BY <2>1, <2>2, <1>6, <1>1
  <2> QED BY <2>3 DEF Recorded, ToSet, record
<1> QED BY <1>7, <1>8, <1>9, <1>10 DEF rows

(***************************************************************************)
(* What a number of members becomes when some are lost and some gained.    *)
(***************************************************************************)
LEMMA Balance ==
  ASSUME NEW O, IsFiniteSet(O), NEW L, L \subseteq O, NEW G, IsFiniteSet(G), G \cap O = {},
         NEW N, N = (O \ L) \cup G
  PROVE  /\ Cardinality(N) = Cardinality(O) + Cardinality(G) - Cardinality(L)
         /\ IsFiniteSet(N)
         /\ Cardinality(N) \in Nat /\ Cardinality(O) \in Nat
         /\ Cardinality(G) \in Nat /\ Cardinality(L) \in Nat
<1>1. IsFiniteSet(L)
  BY FS_Subset
<1>2. IsFiniteSet(O \ L) /\ Cardinality(O \ L) = Cardinality(O) - Cardinality(O \cap L)
  BY FS_Difference
<1>3. O \cap L = L /\ (O \ L) \cap G = {}
  OBVIOUS
<1> DEFINE M == O \ L
<1>4. /\ IsFiniteSet(M \cup G)
      /\ Cardinality(M \cup G) = Cardinality(M) + Cardinality(G) - Cardinality(M \cap G)
  <2>1. IsFiniteSet(M)
    BY <1>2
  <2> HIDE DEF M
  <2> QED BY <2>1, FS_Union
<1>5. Cardinality(M \cap G) = 0
  BY <1>3, FS_EmptySet
<1>6. /\ Cardinality(O) \in Nat /\ Cardinality(G) \in Nat /\ Cardinality(L) \in Nat
      /\ Cardinality(M) \in Nat /\ Cardinality(M \cup G) \in Nat
  BY <1>1, <1>2, <1>4, FS_CardinalityType
<1>7. Cardinality(M) = Cardinality(O) - Cardinality(L)
  BY <1>2, <1>3
<1>8. N = M \cup G
  OBVIOUS
<1>9. IsFiniteSet(N) /\ Cardinality(N) = Cardinality(M \cup G)
  BY <1>4, <1>8
<1> HIDE DEF M
<1>10. Cardinality(N) = Cardinality(O) + Cardinality(G) - Cardinality(L)
  BY <1>4, <1>5, <1>6, <1>7, <1>9
<1> QED BY <1>6, <1>9, <1>10

-----------------------------------------------------------------------------
(***************************************************************************)
(* The rows of a pivot, one after the other.                               *)
(***************************************************************************)
SerialStep(t, choice, task) ==
  Committed(Eliminated(t, choice, task), choice, Noted(t, choice, task))

\* The step of eliminate_serial_row, and that of the ordered commit.
RowStep(t, choice, task, how) ==
  IF how = "alone" THEN SerialStep(t, choice, task) ELSE Committed(t, choice, task)

\* What the folds of this development do with one element.
StepOf(t, choice, x, how) ==
  IF how = "plus" THEN t + choice[x]
  ELSE IF how = "sum" THEN (t + choice.factors[x] * Entry(choice.columns[x], choice.row)) % Prime
  ELSE IF how = "column"
    THEN EchelonColumn(t, x, choice.basis, choice.rowGroup, choice.columnGroup[x])
  ELSE RowStep(t, choice, x, how)

FoldOf(it, base, choice, seq, how) ==
  [T \in SUBSET DOMAIN seq |->
     IF T = {} THEN base ELSE StepOf(it[T \ {Max(T)}], choice, seq[Max(T)], how)]

IsFold(it, base, choice, seq, how) == it = FoldOf(it, base, choice, seq, how)

FoldAt(it, base, choice, seq, how, T) ==
  it[T] = IF T = {} THEN base ELSE StepOf(it[T \ {Max(T)}], choice, seq[Max(T)], how)

LEMMA MaxIs ==
  ASSUME NEW n \in Nat, NEW T \in SUBSET (1 .. n), T # {}
  PROVE  Max(T) \in T /\ \A y \in T : Max(T) >= y
<1> DEFINE U == {k \in Nat : n - k \in T}
<1>1. U # {}
  <2>1. PICK x \in T : TRUE
    OBVIOUS
  <2>2. x \in Nat /\ x <= n
    BY <2>1
  <2>3. n - x \in Nat /\ n - (n - x) = x
    BY <2>2
  <2> QED BY <2>1, <2>3
<1>2. PICK k \in U : \A l \in U : k <= l
  BY <1>1, Least
<1>3. \A y \in T : n - k >= y
  <2> SUFFICES ASSUME NEW y \in T PROVE n - k >= y
    OBVIOUS
  <2>1. n - y \in Nat /\ n - (n - y) = y
    OBVIOUS
  <2>2. n - y \in U
    BY <2>1
  <2>3. k <= n - y
    BY <1>2, <2>2
  <2> QED BY <2>1, <2>3
<1>4. \E x \in T : \A y \in T : x >= y
  BY <1>2, <1>3
<1> QED BY <1>4 DEF Max

LEMMA OneLess ==
  ASSUME NEW T, IsFiniteSet(T), NEW x \in T, NEW k \in Nat, Cardinality(T) <= k + 1
  PROVE  Cardinality(T \ {x}) <= k
<1>1. IsFiniteSet(T \ {x}) /\ Cardinality(T \ {x}) = Cardinality(T) - 1
  BY FS_RemoveElement
<1>2. Cardinality(T) \in Nat
  BY FS_CardinalityType
<1> QED BY <1>1, <1>2

LEMMA FoldExists ==
  ASSUME NEW base, NEW choice, NEW seq, NEW how, NEW n \in Nat, DOMAIN seq = 1 .. n
  PROVE  \E it : IsFold(it, base, choice, seq, how)
<1> DEFINE D == DOMAIN seq
           At(it, T) == FoldAt(it, base, choice, seq, how, T)
           Solves(it, k) == \A T \in SUBSET D : Cardinality(T) <= k => At(it, T)
           K == {k \in Nat : \E it : it = [T \in SUBSET D |-> it[T]] /\ Solves(it, k)}
<1>1. \A T \in SUBSET D : IsFiniteSet(T)
  BY FS_Interval, FS_Subset
<1>2. 0 \in K
  <2> DEFINE it == [T \in SUBSET D |-> base]
  <2>1. \A T \in SUBSET D : Cardinality(T) <= 0 => T = {}
    BY <1>1, FS_EmptySet, FS_CardinalityType
  <2>2. Solves(it, 0)
    BY <2>1 DEF FoldAt
  <2> QED BY <2>2
<1>3. ASSUME NEW k \in Nat, k \in K PROVE k + 1 \in K
  <2>1. PICK it : Solves(it, k)
    BY <1>3
  <2> DEFINE u == FoldOf(it, base, choice, seq, how)
  <2>2. \A T \in SUBSET D : u[T] = IF T = {} THEN base
                     ELSE StepOf(it[T \ {Max(T)}], choice, seq[Max(T)], how)
    BY DEF FoldOf
  <2>3. \A T \in SUBSET D : Cardinality(T) <= k => u[T] = it[T]
    BY <2>1, <2>2 DEF FoldAt
  <2>4. u = [T \in SUBSET D |-> u[T]]
    <3> DEFINE e(T) == IF T = {} THEN base
                       ELSE StepOf(it[T \ {Max(T)}], choice, seq[Max(T)], how)
    <3>1. u = [T \in SUBSET D |-> e(T)]
      BY DEF FoldOf
    <3> HIDE DEF e, u
    <3> QED BY <3>1
  <2> HIDE DEF u
  <2>5. ASSUME NEW T \in SUBSET D, Cardinality(T) <= k + 1
        PROVE  At(u, T)
    <3>1. CASE T = {}
      BY <2>2, <3>1 DEF FoldAt
    <3>2. CASE T # {}
      <4>1. Max(T) \in T
        BY <3>2, MaxIs
      <4>2. T \ {Max(T)} \in SUBSET D /\ Cardinality(T \ {Max(T)}) <= k
        BY <1>1, <2>5, <4>1, OneLess
      <4>3. u[T \ {Max(T)}] = it[T \ {Max(T)}]
        BY <2>3, <4>2
      <4> QED BY <2>2, <3>2, <4>3 DEF FoldAt
    <3> QED BY <3>1, <3>2
  <2>6. Solves(u, k + 1)
    BY <2>5
  <2>7. \E v : v = [T \in SUBSET D |-> v[T]] /\ Solves(v, k + 1)
    BY <2>4, <2>6
  <2>8. k + 1 \in Nat
    OBVIOUS
  <2> HIDE DEF Solves
  <2> QED BY <2>7, <2>8
<1>4. Cardinality(D) \in K
  <2>1. Cardinality(D) \in Nat
    BY <1>1, FS_CardinalityType
  <2> HIDE DEF K
  <2> QED BY <2>1, <1>2, <1>3, SetInduction
<1>5. PICK it : it = [T \in SUBSET D |-> it[T]] /\ Solves(it, Cardinality(D))
  BY <1>4
<1>6. \A T \in SUBSET D : Cardinality(T) <= Cardinality(D)
  BY <1>1, FS_Subset
<1>7. \A T \in SUBSET D : At(it, T)
  BY <1>5, <1>6
<1> DEFINE e(T) == IF T = {} THEN base
                   ELSE StepOf(it[T \ {Max(T)}], choice, seq[Max(T)], how)
<1>8. \A T \in SUBSET D : it[T] = e(T)
  BY <1>7 DEF FoldAt
<1>9. FoldOf(it, base, choice, seq, how) = [T \in SUBSET D |-> e(T)]
  BY DEF FoldOf
<1>10. it = [T \in SUBSET D |-> e(T)]
  <2> HIDE DEF e
  <2> QED BY <1>5, <1>8
<1> QED BY <1>9, <1>10 DEF IsFold

Folded(base, choice, seq, how) ==
  (CHOOSE it : IsFold(it, base, choice, seq, how))[DOMAIN seq]

\* The results from row to row.
Chain(f, base, choice, seq, how) ==
  /\ f[0] = base
  /\ \A i \in DOMAIN seq : f[i] = StepOf(f[i - 1], choice, seq[i], how)

LEMMA FoldChain ==
  ASSUME NEW base, NEW choice, NEW seq, NEW how, NEW n \in Nat, DOMAIN seq = 1 .. n
  PROVE  \E f : Chain(f, base, choice, seq, how) /\ f[n] = Folded(base, choice, seq, how)
<1> DEFINE it == CHOOSE it : IsFold(it, base, choice, seq, how)
           f == [i \in 0 .. n |-> it[1 .. i]]
<1>1. IsFold(it, base, choice, seq, how)
  BY FoldExists
<1> HIDE DEF it
<1>2. \A T \in SUBSET DOMAIN seq : FoldAt(it, base, choice, seq, how, T)
  BY <1>1 DEF IsFold, FoldOf, FoldAt
<1>3. f[0] = base
  <2>1. 1 .. 0 = {} /\ 0 \in 0 .. n
    OBVIOUS
  <2>2. f[0] = it[{}]
    BY <2>1
  <2> QED BY <2>2, <1>2 DEF FoldAt
<1>4. ASSUME NEW i \in 1 .. n PROVE f[i] = StepOf(f[i - 1], choice, seq[i], how)
  <2> DEFINE T == 1 .. i
  <2>1. T \in SUBSET (1 .. n) /\ T # {} /\ i \in T
    OBVIOUS
  <2>2. Max(T) \in T /\ Max(T) >= i
    BY <2>1, MaxIs
  <2>3. Max(T) = i
    BY <2>2
  <2>4. T \ {i} = 1 .. (i - 1)
    OBVIOUS
  <2>6. i \in 0 .. n /\ i - 1 \in 0 .. n
    OBVIOUS
  <2>5. f[i] = it[T] /\ f[i - 1] = it[T \ {i}]
    BY <2>4, <2>6
  <2> HIDE DEF T, f
  <2> QED BY <2>1, <2>3, <2>5, <1>2 DEF FoldAt
<1>5. f[n] = it[DOMAIN seq]
  OBVIOUS
<1> QED BY <1>3, <1>4, <1>5 DEF Chain, Folded, it

LEMMA SeriallyIs ==
  ASSUME NEW s, NEW choice
  PROVE  Serially(s, choice) = Folded(s, choice, Tasks(s, choice), "alone")
BY DEF Folded, Serially, FoldLeft, MapThenFoldSet, IsFold, FoldOf, StepOf, RowStep, SerialStep

CommittedAll(s, choice, tasks) ==
  FoldLeft(LAMBDA t, task : Committed(t, choice, task), s, tasks)

LEMMA CommittedAllIs ==
  ASSUME NEW s, NEW choice, NEW tasks
  PROVE  CommittedAll(s, choice, tasks) = Folded(s, choice, tasks, "ordered")
BY DEF Folded, CommittedAll, FoldLeft, MapThenFoldSet, IsFold, FoldOf, StepOf, RowStep

-----------------------------------------------------------------------------
(***************************************************************************)
(* The fields of the elimination after each of its operations.             *)
(***************************************************************************)
FieldNames ==
  {"matrix", "rhs", "rhsNonzeros", "residual", "incidence", "rowNonzeros", "columnNonzeros",
   "active", "used", "rowMap", "columns", "group", "dirty", "dirtyList", "operations"}

Fields(s) == s = [f \in FieldNames |-> s[f]]

LEMMA SameFields ==
  ASSUME NEW m, NEW s, Fields(m), Fields(s),
         m.matrix = s.matrix, m.rhs = s.rhs, m.rhsNonzeros = s.rhsNonzeros,
         m.residual = s.residual, m.incidence = s.incidence,
         m.rowNonzeros = s.rowNonzeros, m.columnNonzeros = s.columnNonzeros,
         m.active = s.active, m.used = s.used, m.rowMap = s.rowMap,
         m.columns = s.columns, m.group = s.group, m.dirty = s.dirty,
         m.dirtyList = s.dirtyList, m.operations = s.operations
  PROVE  m = s
BY DEF Fields, FieldNames

\* The columns that mark_dirty marks.
Marked(s, changed) ==
  {c \in changed \intersect s.active : system.columnGroup[c] = s.group /\ c \notin s.dirty}

LEMMA MarkDirtyIs ==
  ASSUME NEW s, Fields(s), NEW changed, NEW m, m = MarkDirty(s, changed)
  PROVE  /\ Fields(m)
         /\ m.matrix = s.matrix /\ m.rhs = s.rhs /\ m.rhsNonzeros = s.rhsNonzeros
         /\ m.residual = s.residual /\ m.incidence = s.incidence
         /\ m.rowNonzeros = s.rowNonzeros /\ m.columnNonzeros = s.columnNonzeros
         /\ m.active = s.active /\ m.used = s.used /\ m.rowMap = s.rowMap
         /\ m.columns = s.columns /\ m.group = s.group
         /\ m.operations = s.operations
         /\ m.dirty = s.dirty \union Marked(s, changed)
         /\ m.dirtyList = s.dirtyList \union Marked(s, changed)
<1> DEFINE k == Marked(s, changed)
<1>1. m = [s EXCEPT !.dirty = @ \union k, !.dirtyList = @ \union k]
  BY DEF MarkDirty, Marked
<1> HIDE DEF k
<1>2. /\ Fields(m)
         /\ m.matrix = s.matrix /\ m.rhs = s.rhs /\ m.rhsNonzeros = s.rhsNonzeros
         /\ m.residual = s.residual /\ m.incidence = s.incidence
         /\ m.rowNonzeros = s.rowNonzeros /\ m.columnNonzeros = s.columnNonzeros
         /\ m.active = s.active /\ m.used = s.used /\ m.rowMap = s.rowMap
         /\ m.columns = s.columns /\ m.group = s.group
         /\ m.operations = s.operations
         /\ m.dirty = s.dirty \union k /\ m.dirtyList = s.dirtyList \union k
  BY <1>1 DEF Fields, FieldNames
<1> QED BY <1>2 DEF k

LEMMA EliminatedIs ==
  ASSUME NEW s, Fields(s), NEW choice, NEW task, NEW m, m = Eliminated(s, choice, task)
  PROVE  /\ Fields(m)
         /\ m.rhsNonzeros = s.rhsNonzeros /\ m.residual = s.residual
         /\ m.incidence = s.incidence /\ m.rowNonzeros = s.rowNonzeros
         /\ m.columnNonzeros = s.columnNonzeros /\ m.active = s.active
         /\ m.used = s.used /\ m.rowMap = s.rowMap /\ m.columns = s.columns
         /\ m.group = s.group /\ m.dirty = s.dirty /\ m.dirtyList = s.dirtyList
         /\ m.operations = s.operations
         /\ m.matrix = [s.matrix EXCEPT ![task.row] = MergedRow(s, choice, task)]
         /\ m.rhs = [s.rhs EXCEPT ![task.row] = MergedRhs(s, choice, task)]
<1> DEFINE a == [s.matrix EXCEPT ![task.row] = MergedRow(s, choice, task)]
           b == [s.rhs EXCEPT ![task.row] = MergedRhs(s, choice, task)]
<1>1. m = [s EXCEPT !.matrix = a, !.rhs = b]
  BY DEF Eliminated, Fields, FieldNames
<1> HIDE DEF a, b
<1>2. /\ Fields(m)
         /\ m.rhsNonzeros = s.rhsNonzeros /\ m.residual = s.residual
         /\ m.incidence = s.incidence /\ m.rowNonzeros = s.rowNonzeros
         /\ m.columnNonzeros = s.columnNonzeros /\ m.active = s.active
         /\ m.used = s.used /\ m.rowMap = s.rowMap /\ m.columns = s.columns
         /\ m.group = s.group /\ m.dirty = s.dirty /\ m.dirtyList = s.dirtyList
         /\ m.operations = s.operations
      /\ m.matrix = a /\ m.rhs = b
  BY <1>1 DEF Fields, FieldNames
<1> QED BY <1>2 DEF a, b

\* What the metadata of a row become.
IsCommitted(m, s, choice, task) ==
  /\ Fields(m)
  /\ m.matrix = s.matrix /\ m.rhs = s.rhs /\ m.active = s.active
  /\ m.used = s.used /\ m.rowMap = s.rowMap /\ m.columns = s.columns
  /\ m.group = s.group
  /\ m.operations = Append(s.operations, [destination |-> task.row,
                                          source |-> choice.row, factor |-> task.factor])
  /\ m.incidence = [c \in DOMAIN s.incidence |->
                      IF c \in task.fresh THEN Append(s.incidence[c], task.row)
                      ELSE s.incidence[c]]
  /\ m.columnNonzeros = Counted(s, task)
  /\ m.rowNonzeros = [s.rowNonzeros EXCEPT
                        ![task.row] = Cardinality(DOMAIN s.matrix[task.row])]
  /\ m.rhsNonzeros = [s.rhsNonzeros EXCEPT ![task.row] = task.rhsNonzeros]
  /\ m.residual = s.residual + ResidualChange(s.rhsNonzeros[task.row], task.rhsNonzeros)
  /\ m.dirty = s.dirty \union Marked(s, AffectedColumns(s, task))
  /\ m.dirtyList = s.dirtyList \union Marked(s, AffectedColumns(s, task))

LEMMA CommittedIs ==
  ASSUME NEW s, Fields(s), NEW choice, NEW task, NEW m, m = Committed(s, choice, task)
  PROVE  IsCommitted(m, s, choice, task)
<1> DEFINE o == Append(s.operations, [destination |-> task.row, source |-> choice.row,
                                      factor |-> task.factor])
           i == [c \in DOMAIN s.incidence |->
                   IF c \in task.fresh THEN Append(s.incidence[c], task.row)
                   ELSE s.incidence[c]]
           n == Counted(s, task)
           w == [s.rowNonzeros EXCEPT ![task.row] = Cardinality(DOMAIN s.matrix[task.row])]
           h == [s.rhsNonzeros EXCEPT ![task.row] = task.rhsNonzeros]
           e == s.residual + ResidualChange(s.rhsNonzeros[task.row], task.rhsNonzeros)
           u == [s EXCEPT !.operations = o, !.incidence = i, !.columnNonzeros = n,
                          !.rowNonzeros = w, !.rhsNonzeros = h, !.residual = e]
           k == AffectedColumns(s, task)
<1>1. m = MarkDirty(u, k)
  BY DEF Committed, Fields, FieldNames
<1> HIDE DEF o, i, n, w, h, e
<1>2. /\ Fields(u)
      /\ u.operations = o /\ u.incidence = i /\ u.columnNonzeros = n /\ u.rowNonzeros = w
      /\ u.rhsNonzeros = h /\ u.residual = e
      /\ u.matrix = s.matrix /\ u.rhs = s.rhs /\ u.active = s.active
      /\ u.used = s.used /\ u.rowMap = s.rowMap /\ u.columns = s.columns
      /\ u.group = s.group /\ u.dirty = s.dirty /\ u.dirtyList = s.dirtyList
  BY DEF Fields, FieldNames
<1> HIDE DEF u, k
<1>3. Marked(u, k) = Marked(s, k)
  BY <1>2 DEF Marked
<1>4. /\ Fields(m)
      /\ m.matrix = u.matrix /\ m.rhs = u.rhs /\ m.rhsNonzeros = u.rhsNonzeros
      /\ m.residual = u.residual /\ m.incidence = u.incidence
      /\ m.rowNonzeros = u.rowNonzeros /\ m.columnNonzeros = u.columnNonzeros
      /\ m.active = u.active /\ m.used = u.used /\ m.rowMap = u.rowMap
      /\ m.columns = u.columns /\ m.group = u.group
      /\ m.operations = u.operations
      /\ m.dirty = u.dirty \union Marked(u, k)
      /\ m.dirtyList = u.dirtyList \union Marked(u, k)
  BY <1>1, <1>2, MarkDirtyIs
<1> QED BY <1>2, <1>3, <1>4 DEF IsCommitted, k, o, i, n, w, h, e

\* The system when the rows of a column are listed.
IsScanned(m, s, c) ==
  /\ Fields(m)
  /\ m.matrix = s.matrix /\ m.rhs = s.rhs /\ m.rhsNonzeros = s.rhsNonzeros
  /\ m.residual = s.residual /\ m.rowNonzeros = s.rowNonzeros
  /\ m.columnNonzeros = s.columnNonzeros /\ m.active = s.active
  /\ m.used = s.used /\ m.rowMap = s.rowMap /\ m.columns = s.columns
  /\ m.group = s.group /\ m.dirty = s.dirty /\ m.dirtyList = s.dirtyList
  /\ m.operations = s.operations
  /\ m.incidence = [s.incidence EXCEPT ![c] = LiveRows(s, c)]

LEMMA ScannedIs ==
  ASSUME NEW s, Fields(s), NEW c, NEW m, m = Scanned(s, c)
  PROVE  IsScanned(m, s, c)
<1> DEFINE k == [s.incidence EXCEPT ![c] = LiveRows(s, c)]
<1>1. m = [s EXCEPT !.incidence = k]
  BY DEF Scanned, Fields, FieldNames
<1> HIDE DEF k
<1>2. /\ Fields(m) /\ m.incidence = k
         /\ m.matrix = s.matrix /\ m.rhs = s.rhs /\ m.rhsNonzeros = s.rhsNonzeros
         /\ m.residual = s.residual /\ m.rowNonzeros = s.rowNonzeros
         /\ m.columnNonzeros = s.columnNonzeros /\ m.active = s.active
         /\ m.used = s.used /\ m.rowMap = s.rowMap /\ m.columns = s.columns
         /\ m.group = s.group /\ m.dirty = s.dirty /\ m.dirtyList = s.dirtyList
         /\ m.operations = s.operations
  BY <1>1 DEF Fields, FieldNames
<1> QED BY <1>2 DEF k, IsScanned

\* The system when some columns are scored again.
IsRescored(m, s, requested) ==
  /\ Fields(m)
  /\ m.matrix = s.matrix /\ m.rhs = s.rhs /\ m.rhsNonzeros = s.rhsNonzeros
  /\ m.residual = s.residual /\ m.rowNonzeros = s.rowNonzeros
  /\ m.columnNonzeros = s.columnNonzeros /\ m.active = s.active
  /\ m.used = s.used /\ m.rowMap = s.rowMap /\ m.columns = s.columns
  /\ m.group = s.group /\ m.dirtyList = s.dirtyList
  /\ m.operations = s.operations
  /\ m.incidence = [c \in DOMAIN s.incidence |->
                      IF c \in requested /\ OfColumn(s, c)
                        THEN LiveRows(s, c) ELSE s.incidence[c]]
  /\ m.dirty = s.dirty \ requested

LEMMA RescoredIs ==
  ASSUME NEW s, Fields(s), NEW requested, NEW m, m = Rescored(s, requested)
  PROVE  IsRescored(m, s, requested)
<1> DEFINE k == [c \in DOMAIN s.incidence |-> IF c \in requested /\ OfColumn(s, c)
                                                THEN LiveRows(s, c) ELSE s.incidence[c]]
<1>1. m = [s EXCEPT !.dirty = @ \ requested, !.incidence = k]
  BY DEF Rescored, Fields, FieldNames
<1> HIDE DEF k
<1>2. /\ Fields(m) /\ m.incidence = k /\ m.dirty = s.dirty \ requested
         /\ m.matrix = s.matrix /\ m.rhs = s.rhs /\ m.rhsNonzeros = s.rhsNonzeros
         /\ m.residual = s.residual /\ m.rowNonzeros = s.rowNonzeros
         /\ m.columnNonzeros = s.columnNonzeros /\ m.active = s.active
         /\ m.used = s.used /\ m.rowMap = s.rowMap /\ m.columns = s.columns
         /\ m.group = s.group /\ m.dirtyList = s.dirtyList
         /\ m.operations = s.operations
  BY <1>1 DEF Fields, FieldNames
<1> QED BY <1>2 DEF k, IsRescored

\* The system when a column is done.
IsFinished(m, s, c) ==
  /\ Fields(m)
  /\ m.matrix = s.matrix /\ m.rhs = s.rhs /\ m.rhsNonzeros = s.rhsNonzeros
  /\ m.residual = s.residual /\ m.rowNonzeros = s.rowNonzeros
  /\ m.used = s.used /\ m.rowMap = s.rowMap /\ m.columns = s.columns
  /\ m.group = s.group /\ m.dirty = s.dirty /\ m.dirtyList = s.dirtyList
  /\ m.operations = s.operations
  /\ m.active = s.active \ {c}
  /\ m.columnNonzeros = [s.columnNonzeros EXCEPT ![c] = 0]
  /\ m.incidence = [s.incidence EXCEPT ![c] = <<>>]

LEMMA FinishedIs ==
  ASSUME NEW s, Fields(s), NEW c, NEW m, m = Finished(s, c)
  PROVE  IsFinished(m, s, c)
BY DEF Finished, IsFinished, Fields, FieldNames

\* The columns of a row that are not done.
Touched(s, r) == DOMAIN s.matrix[r] \intersect s.active

\* What the system becomes when the pivot row leaves the counts.
IsNormalized(m, s, choice) ==
  /\ Fields(m)
  /\ m.rhsNonzeros = s.rhsNonzeros /\ m.incidence = s.incidence
  /\ m.active = s.active /\ m.group = s.group
  /\ m.residual = IF s.rhsNonzeros[choice.row] # 0 THEN s.residual - 1 ELSE s.residual
  /\ m.used = s.used \union {choice.row}
  /\ m.rowMap = Append(s.rowMap, choice.row)
  /\ m.columns = Append(s.columns, choice.column)
  /\ \E row : /\ m.matrix = [s.matrix EXCEPT ![choice.row] = row]
              /\ DOMAIN row = DOMAIN s.matrix[choice.row]
  /\ \E row : /\ m.rhs = [s.rhs EXCEPT ![choice.row] = row]
              /\ DOMAIN row = DOMAIN s.rhs[choice.row]
  /\ m.columnNonzeros = [c \in DOMAIN s.columnNonzeros |->
                           IF c \in Touched(s, choice.row) THEN s.columnNonzeros[c] - 1
                           ELSE s.columnNonzeros[c]]
  /\ m.rowNonzeros = [s.rowNonzeros EXCEPT ![choice.row] = 0]
  /\ m.dirty = s.dirty \union Marked(s, Touched(s, choice.row))
  /\ m.dirtyList = s.dirtyList \union Marked(s, Touched(s, choice.row))

LEMMA NormalizedIs ==
  ASSUME NEW s, Fields(s), NEW choice, NEW m, m = Normalized(s, choice)
  PROVE  IsNormalized(m, s, choice)
<1> DEFINE r == choice.row
           k == Touched(s, r)
           inverse == Reciprocal(s.matrix[r][choice.column])
           e == IF s.rhsNonzeros[r] # 0 THEN s.residual - 1 ELSE s.residual
           o == Append(s.operations, [destination |-> r, source |-> r, factor |-> inverse])
           a == Scaled(s.matrix[r], s.active, inverse)
           b == Scaled(s.rhs[r], DOMAIN s.rhs[r], inverse)
           n == [c \in DOMAIN s.columnNonzeros |-> IF c \in k THEN s.columnNonzeros[c] - 1
                                                   ELSE s.columnNonzeros[c]]
           u == [s EXCEPT !.residual = e, !.used = s.used \union {r},
                          !.rowMap = Append(s.rowMap, r),
                          !.columns = Append(s.columns, choice.column),
                          !.operations = o,
                          !.matrix = [s.matrix EXCEPT ![r] = a],
                          !.rhs = [s.rhs EXCEPT ![r] = b],
                          !.columnNonzeros = n,
                          !.rowNonzeros = [s.rowNonzeros EXCEPT ![r] = 0]]
<1>1. m = MarkDirty(u, k)
  BY DEF Normalized, Fields, FieldNames, Touched
<1>2. DOMAIN a = DOMAIN s.matrix[r] /\ DOMAIN b = DOMAIN s.rhs[r]
  BY DEF Scaled
<1> HIDE DEF e, o, a, b, n, k
<1>3. /\ Fields(u)
      /\ u.residual = e /\ u.used = s.used \union {r} /\ u.rowMap = Append(s.rowMap, r)
      /\ u.columns = Append(s.columns, choice.column)
      /\ u.matrix = [s.matrix EXCEPT ![r] = a] /\ u.rhs = [s.rhs EXCEPT ![r] = b]
      /\ u.columnNonzeros = n /\ u.rowNonzeros = [s.rowNonzeros EXCEPT ![r] = 0]
      /\ u.rhsNonzeros = s.rhsNonzeros /\ u.incidence = s.incidence
      /\ u.active = s.active /\ u.group = s.group /\ u.dirty = s.dirty
      /\ u.dirtyList = s.dirtyList
  BY DEF Fields, FieldNames
<1> HIDE DEF u
<1>4. Marked(u, k) = Marked(s, k)
  BY <1>3 DEF Marked
<1>5. /\ Fields(m)
      /\ m.matrix = u.matrix /\ m.rhs = u.rhs /\ m.rhsNonzeros = u.rhsNonzeros
      /\ m.residual = u.residual /\ m.incidence = u.incidence
      /\ m.rowNonzeros = u.rowNonzeros /\ m.columnNonzeros = u.columnNonzeros
      /\ m.active = u.active /\ m.used = u.used /\ m.rowMap = u.rowMap
      /\ m.columns = u.columns /\ m.group = u.group
      /\ m.operations = u.operations
      /\ m.dirty = u.dirty \union Marked(u, k)
      /\ m.dirtyList = u.dirtyList \union Marked(u, k)
  BY <1>1, <1>3, MarkDirtyIs
<1> QED BY <1>2, <1>3, <1>4, <1>5 DEF IsNormalized, e, n, k

-----------------------------------------------------------------------------
(***************************************************************************)
(* Threads on the rows of one pivot.                                       *)
(***************************************************************************)

\* The rows of some tasks are those of different rows, none of them that of the pivot.
Apart(R, choice, tasks) ==
  /\ choice.row \in R
  /\ \A i \in DOMAIN tasks : tasks[i].row \in R /\ tasks[i].row # choice.row
  /\ \A i, j \in DOMAIN tasks : tasks[i].row = tasks[j].row => i = j

\* m is s after the rows of the tasks of D, with no more than rows changed.
Merged(R, s, choice, tasks, D, m) ==
  /\ D \subseteq DOMAIN tasks /\ m.active = s.active
  /\ m.matrix = [r \in R |-> m.matrix[r]]
  /\ m.rhs = [r \in R |-> m.rhs[r]]
  /\ \A i \in D : /\ m.matrix[tasks[i].row] = MergedRow(s, choice, tasks[i])
                  /\ m.rhs[tasks[i].row] = MergedRhs(s, choice, tasks[i])
  /\ \A r \in R : (\A i \in D : tasks[i].row # r) => /\ m.matrix[r] = s.matrix[r]
                                                     /\ m.rhs[r] = s.rhs[r]

\* All other fields agree.
SameCounts(m, s) ==
  /\ Fields(m) /\ Fields(s)
  /\ m.rhsNonzeros = s.rhsNonzeros /\ m.residual = s.residual
  /\ m.incidence = s.incidence /\ m.rowNonzeros = s.rowNonzeros
  /\ m.columnNonzeros = s.columnNonzeros /\ m.active = s.active
  /\ m.used = s.used /\ m.rowMap = s.rowMap /\ m.columns = s.columns
  /\ m.group = s.group /\ m.dirty = s.dirty /\ m.dirtyList = s.dirtyList
  /\ m.operations = s.operations

\* A row that is still to be done is eliminated as if it were the first.
LEMMA NextRow ==
  ASSUME NEW R, NEW s, NEW choice, NEW tasks, NEW D, NEW m,
         Apart(R, choice, tasks), Merged(R, s, choice, tasks, D, m),
         NEW i \in DOMAIN tasks, i \notin D
  PROVE  /\ MergedRow(m, choice, tasks[i]) = MergedRow(s, choice, tasks[i])
         /\ MergedRhs(m, choice, tasks[i]) = MergedRhs(s, choice, tasks[i])
         /\ Noted(m, choice, tasks[i]) = Noted(s, choice, tasks[i])
<1>1. m.matrix[choice.row] = s.matrix[choice.row] /\ m.rhs[choice.row] = s.rhs[choice.row]
  BY DEF Apart, Merged
<1>2. /\ m.matrix[tasks[i].row] = s.matrix[tasks[i].row]
      /\ m.rhs[tasks[i].row] = s.rhs[tasks[i].row]
  BY DEF Apart, Merged
<1>3. MergedRow(m, choice, tasks[i]) = MergedRow(s, choice, tasks[i])
  BY <1>1, <1>2 DEF MergedRow, Merged
<1>4. MergedRhs(m, choice, tasks[i]) = MergedRhs(s, choice, tasks[i])
  BY <1>1, <1>2 DEF MergedRhs
<1>5. Noted(m, choice, tasks[i]) = Noted(s, choice, tasks[i])
  <2> DEFINE task == tasks[i]
             note(old, row, x, y) ==
               [task EXCEPT !.fresh = DOMAIN x \ (DOMAIN row \ {choice.column}),
                  !.removed = ((DOMAIN row \ {choice.column}) \intersect s.active) \ DOMAIN x,
                  !.rhsNonzeros = @ + Cardinality({t \in DOMAIN old : old[t] = 0 /\ y[t] # 0})
                                    - Cardinality({t \in DOMAIN old : old[t] # 0 /\ y[t] = 0})]
  <2>1. Noted(s, choice, task) = note(s.rhs[task.row], s.matrix[task.row],
                                      MergedRow(s, choice, task), MergedRhs(s, choice, task))
    BY DEF Noted
  <2>2. m.active = s.active
    BY DEF Merged
  <2>3. Noted(m, choice, task) = note(m.rhs[task.row], m.matrix[task.row],
                                      MergedRow(m, choice, task), MergedRhs(m, choice, task))
    BY <2>2 DEF Noted
  <2> HIDE DEF note
  <2> QED BY <1>2, <1>3, <1>4, <2>1, <2>3
<1> QED BY <1>3, <1>4, <1>5

LEMMA OneMoreRow ==
  ASSUME NEW R, NEW s, NEW choice, NEW tasks, NEW D, NEW m,
         Apart(R, choice, tasks), Merged(R, s, choice, tasks, D, m), Fields(m),
         NEW i \in DOMAIN tasks, i \notin D, NEW n, n = Eliminated(m, choice, tasks[i])
  PROVE  Merged(R, s, choice, tasks, D \union {i}, n) /\ SameCounts(n, m)
<1> DEFINE a == MergedRow(s, choice, tasks[i])
           b == MergedRhs(s, choice, tasks[i])
           r == tasks[i].row
<1>1. MergedRow(m, choice, tasks[i]) = a /\ MergedRhs(m, choice, tasks[i]) = b
  BY NextRow
<1>2. /\ SameCounts(n, m)
      /\ n.matrix = [m.matrix EXCEPT ![r] = a] /\ n.rhs = [m.rhs EXCEPT ![r] = b]
  BY <1>1, EliminatedIs DEF SameCounts
<1>3. r \in R /\ \A j \in D : tasks[j].row # r
  BY DEF Apart, Merged
<1>4. m.matrix = [q \in R |-> m.matrix[q]] /\ m.rhs = [q \in R |-> m.rhs[q]]
  BY DEF Merged
<1> HIDE DEF a, b, r
<1>5. /\ n.matrix = [q \in R |-> n.matrix[q]] /\ n.matrix[r] = a
      /\ \A q \in R : q # r => n.matrix[q] = m.matrix[q]
  BY <1>2, <1>3, <1>4
<1>6. /\ n.rhs = [q \in R |-> n.rhs[q]] /\ n.rhs[r] = b
      /\ \A q \in R : q # r => n.rhs[q] = m.rhs[q]
  BY <1>2, <1>3, <1>4
<1>7. ASSUME NEW j \in D \union {i}
      PROVE  /\ n.matrix[tasks[j].row] = MergedRow(s, choice, tasks[j])
             /\ n.rhs[tasks[j].row] = MergedRhs(s, choice, tasks[j])
  <2>1. CASE j = i
    BY <2>1, <1>5, <1>6 DEF a, b, r
  <2>2. CASE j \in D
    <3>1. tasks[j].row \in R /\ tasks[j].row # r
      BY <2>2, <1>3 DEF Apart, Merged
    <3>2. /\ m.matrix[tasks[j].row] = MergedRow(s, choice, tasks[j])
          /\ m.rhs[tasks[j].row] = MergedRhs(s, choice, tasks[j])
      BY <2>2 DEF Merged
    <3> QED BY <3>1, <3>2, <1>5, <1>6
  <2> QED BY <2>1, <2>2
<1>8. ASSUME NEW q \in R, \A j \in D \union {i} : tasks[j].row # q
      PROVE  n.matrix[q] = s.matrix[q] /\ n.rhs[q] = s.rhs[q]
  <2>1. q # r /\ \A j \in D : tasks[j].row # q
    BY <1>8 DEF r
  <2>2. m.matrix[q] = s.matrix[q] /\ m.rhs[q] = s.rhs[q]
    BY <2>1 DEF Merged
  <2> QED BY <2>1, <2>2, <1>5, <1>6
<1>9. n.active = s.active
  BY <1>2 DEF Merged, SameCounts
<1>10. D \union {i} \subseteq DOMAIN tasks
  BY DEF Merged
<1> QED BY <1>2, <1>5, <1>6, <1>7, <1>8, <1>9, <1>10 DEF Merged

\* When all rows are done, it does not matter how.
LEMMA MergedAlike ==
  ASSUME NEW R, NEW s, NEW choice, NEW tasks, NEW m, NEW n,
         Merged(R, s, choice, tasks, DOMAIN tasks, m), Merged(R, s, choice, tasks, DOMAIN tasks, n)
  PROVE  m.matrix = n.matrix /\ m.rhs = n.rhs
<1>1. ASSUME NEW r \in R PROVE m.matrix[r] = n.matrix[r] /\ m.rhs[r] = n.rhs[r]
  <2>1. CASE \E i \in DOMAIN tasks : tasks[i].row = r
    BY <2>1 DEF Merged
  <2>2. CASE \A i \in DOMAIN tasks : tasks[i].row # r
    BY <2>2 DEF Merged
  <2> QED BY <2>1, <2>2
<1>2. /\ m.matrix = [r \in R |-> m.matrix[r]] /\ n.matrix = [r \in R |-> n.matrix[r]]
      /\ m.rhs = [r \in R |-> m.rhs[r]] /\ n.rhs = [r \in R |-> n.rhs[r]]
  BY DEF Merged
<1> QED BY <1>1, <1>2

\* The metadata of a row depend on the other rows no more than these do.
LEMMA CommittedAlike ==
  ASSUME NEW s, NEW t, NEW choice, NEW task, SameCounts(s, t),
         s.matrix[task.row] = t.matrix[task.row],
         NEW m, m = Committed(s, choice, task), NEW n, n = Committed(t, choice, task)
  PROVE  /\ SameCounts(m, n)
         /\ m.matrix = s.matrix /\ m.rhs = s.rhs /\ n.matrix = t.matrix /\ n.rhs = t.rhs
         /\ m.active = s.active
<1>1. Fields(s) /\ Fields(t)
  BY DEF SameCounts
<1>2. Counted(s, task) = Counted(t, task) /\ AffectedColumns(s, task) = AffectedColumns(t, task)
  BY DEF SameCounts, Counted, AffectedColumns
<1>3. \A k : Marked(s, k) = Marked(t, k)
  BY DEF SameCounts, Marked
<1>4. /\ s.rhsNonzeros = t.rhsNonzeros /\ s.residual = t.residual
      /\ s.incidence = t.incidence /\ s.rowNonzeros = t.rowNonzeros
      /\ s.active = t.active
      /\ s.used = t.used /\ s.rowMap = t.rowMap /\ s.columns = t.columns
      /\ s.group = t.group /\ s.dirty = t.dirty /\ s.dirtyList = t.dirtyList
      /\ s.operations = t.operations
  BY DEF SameCounts
<1>5. IsCommitted(m, s, choice, task) /\ IsCommitted(n, t, choice, task)
  BY <1>1, CommittedIs
<1>7. m.incidence = n.incidence
  BY <1>4, <1>5 DEF IsCommitted
<1>8. m.rowNonzeros = n.rowNonzeros /\ m.rhsNonzeros = n.rhsNonzeros /\ m.residual = n.residual
  BY <1>4, <1>5 DEF IsCommitted
<1>9. m.dirty = n.dirty /\ m.dirtyList = n.dirtyList
  BY <1>2, <1>3, <1>4, <1>5 DEF IsCommitted
<1>10. m.operations = n.operations /\ m.columnNonzeros = n.columnNonzeros
  BY <1>2, <1>4, <1>5 DEF IsCommitted
<1> QED BY <1>4, <1>5, <1>7, <1>8, <1>9, <1>10 DEF SameCounts, IsCommitted

\* The same row, eliminated and committed by one thread or committed only.
LEMMA SerialRow ==
  ASSUME NEW R, NEW s, NEW choice, NEW tasks, NEW D, NEW u, NEW v,
         Apart(R, choice, tasks), Merged(R, s, choice, tasks, D, u),
         SameCounts(u, v), NEW k \in DOMAIN tasks, k \notin D,
         v.matrix[tasks[k].row] = MergedRow(s, choice, tasks[k]),
         NEW task, task = Noted(s, choice, tasks[k]), task.row = tasks[k].row,
         NEW a, NEW b, SerialStep(u, choice, tasks[k]) = a, Committed(v, choice, task) = b
  PROVE  SameCounts(a, b) /\ Merged(R, s, choice, tasks, D \union {k}, a)
<1>1. Noted(u, choice, tasks[k]) = task
  BY NextRow
<1>2. PICK w : w = Eliminated(u, choice, tasks[k])
  OBVIOUS
<1>3. a = Committed(w, choice, task)
  BY <1>1, <1>2 DEF SerialStep
<1>4. Merged(R, s, choice, tasks, D \union {k}, w) /\ SameCounts(w, u)
  <2>1. Fields(u)
    BY DEF SameCounts
  <2> QED BY <2>1, <1>2, OneMoreRow
<1>5. SameCounts(w, v)
  BY <1>4 DEF SameCounts
<1>6. w.matrix[task.row] = v.matrix[task.row]
  BY <1>4 DEF Merged
<1>7. /\ SameCounts(a, b) /\ a.matrix = w.matrix /\ a.rhs = w.rhs
      /\ b.matrix = v.matrix /\ b.rhs = v.rhs /\ a.active = w.active
  BY <1>3, <1>5, <1>6, CommittedAlike
<1> QED BY <1>4, <1>5, <1>7 DEF Merged

\* Rows that threads have eliminated, committed in order, are those of one thread.
LEMMA InOrderAsSerially ==
  ASSUME NEW R, NEW s, NEW choice, NEW n \in Nat, DOMAIN Tasks(s, choice) = 1 .. n,
         Apart(R, choice, Tasks(s, choice)), Fields(s),
         s.matrix = [r \in R |-> s.matrix[r]], s.rhs = [r \in R |-> s.rhs[r]],
         NEW m, SameCounts(m, s), Merged(R, s, choice, Tasks(s, choice), 1 .. n, m),
         NEW noted, DOMAIN noted = 1 .. n,
         \A i \in 1 .. n : noted[i] = Noted(s, choice, Tasks(s, choice)[i])
  PROVE  CommittedAll(m, choice, noted) = Serially(s, choice)
<1> DEFINE T == Tasks(s, choice)
<1> HIDE DEF T
<1>0. /\ DOMAIN T = 1 .. n /\ Apart(R, choice, T) /\ Merged(R, s, choice, T, 1 .. n, m)
      /\ \A i \in 1 .. n : noted[i] = Noted(s, choice, T[i])
  BY DEF T
<1>1. PICK f : Chain(f, s, choice, T, "alone") /\ f[n] = Folded(s, choice, T, "alone")
  BY <1>0, FoldChain
<1>2. PICK g : Chain(g, m, choice, noted, "ordered") /\ g[n] = Folded(m, choice, noted, "ordered")
  BY FoldChain
<1>3. f[n] = Serially(s, choice) /\ g[n] = CommittedAll(m, choice, noted)
  BY <1>1, <1>2, SeriallyIs, CommittedAllIs DEF T
<1> DEFINE Follows(i) == /\ SameCounts(f[i], g[i])
                         /\ g[i].matrix = m.matrix /\ g[i].rhs = m.rhs
                         /\ Merged(R, s, choice, T, 1 .. i, f[i])
           K == {i \in Nat : i <= n => Follows(i)}
<1>4. 0 \in K
  <2>1. f[0] = s /\ g[0] = m
    BY <1>1, <1>2 DEF Chain
  <2>2. SameCounts(s, m)
    BY DEF SameCounts
  <2>3. Merged(R, s, choice, T, 1 .. 0, s)
    BY DEF Merged
  <2> QED BY <2>1, <2>2, <2>3
<1>5. ASSUME NEW i \in Nat, i \in K PROVE i + 1 \in K
  <2>1. SUFFICES ASSUME i + 1 <= n PROVE Follows(i + 1)
    BY <1>5
  <2>2. Follows(i)
    BY <1>5, <2>1
  <2> DEFINE k == i + 1
             D == 1 .. i
  <2>3. /\ k \in 1 .. n /\ k - 1 = i /\ D \in SUBSET DOMAIN T /\ k \in DOMAIN T /\ k \notin D
        /\ D \union {k} = 1 .. k
    BY <2>1, <1>0
  <2>4. /\ Merged(R, s, choice, T, D, f[i])
        /\ SameCounts(f[i], g[i]) /\ g[i].matrix = m.matrix /\ g[i].rhs = m.rhs
    BY <2>2
  <2> HIDE DEF k, D, Follows
  <2>5. SerialStep(f[i], choice, T[k]) = f[k]
    BY <2>3, <1>0, <1>1 DEF Chain, StepOf, RowStep
  <2>6. Committed(g[i], choice, noted[k]) = g[k] /\ noted[k] = Noted(s, choice, T[k])
    BY <2>3, <1>0, <1>2 DEF Chain, StepOf, RowStep
  <2>7. noted[k].row = T[k].row
    <3> DEFINE rows == LiveRows(s, choice.column)
    <3>1. k \in DOMAIN rows
      BY <2>3 DEF T, Tasks
    <3> HIDE DEF rows
    <3>2. T[k] = Task(s, choice, rows[k])
      BY <3>1 DEF T, Tasks, rows
    <3> QED BY <3>2, <2>6 DEF Noted, Task
  <2>8. g[i].matrix[T[k].row] = MergedRow(s, choice, T[k])
    BY <1>0, <2>3, <2>4 DEF Merged
  <2>9. /\ SameCounts(f[k], g[k]) /\ g[k].matrix = g[i].matrix /\ g[k].rhs = g[i].rhs
        /\ Merged(R, s, choice, T, D \union {k}, f[k])
    <3> HIDE DEF T
    <3>1. PICK u, v, a, b, task :
             u = f[i] /\ v = g[i] /\ a = f[k] /\ b = g[k] /\ task = noted[k]
      OBVIOUS
    <3>2. /\ Merged(R, s, choice, T, D, u)
          /\ SameCounts(u, v) /\ v.matrix[T[k].row] = MergedRow(s, choice, T[k])
      BY <2>4, <2>8, <3>1
    <3>3. SerialStep(u, choice, T[k]) = a /\ Committed(v, choice, task) = b
      BY <2>5, <2>6, <3>1
    <3>4. task = Noted(s, choice, T[k]) /\ task.row = T[k].row
      BY <2>6, <2>7, <3>1
    <3>5. Apart(R, choice, T) /\ D \in SUBSET DOMAIN T /\ k \in DOMAIN T /\ k \notin D
      BY <2>3, <1>0
    <3>6. SameCounts(a, b)
      BY <3>2, <3>3, <3>4, <3>5, SerialRow
    <3>7. Merged(R, s, choice, T, D \union {k}, a)
      BY <3>2, <3>3, <3>4, <3>5, SerialRow
    <3>8. b.matrix = v.matrix /\ b.rhs = v.rhs
      <4>1. Fields(v)
        BY <3>2 DEF SameCounts
      <4>2. IsCommitted(b, v, choice, task)
        BY <3>3, <4>1, CommittedIs
      <4> QED BY <4>2 DEF IsCommitted
    <3> QED BY <3>1, <3>6, <3>7, <3>8
  <2>10. Follows(k)
    BY <2>3, <2>4, <2>9 DEF Follows
  <2> QED BY <2>10 DEF k
<1>6. Follows(n)
  <2> HIDE DEF Follows
  <2>1. n \in K
    BY <1>4, <1>5, SetInduction
  <2> QED BY <2>1
<1>7. f[n].matrix = g[n].matrix /\ f[n].rhs = g[n].rhs
  <2>1. Merged(R, s, choice, T, DOMAIN T, f[n])
    BY <1>0, <1>6
  <2>2. Merged(R, s, choice, T, DOMAIN T, m)
    BY <1>0
  <2>3. f[n].matrix = m.matrix /\ f[n].rhs = m.rhs
    BY <2>1, <2>2, MergedAlike
  <2> QED BY <2>3, <1>6
<1>8. f[n] = g[n]
  BY <1>6, <1>7, SameFields DEF SameCounts
<1> QED BY <1>3, <1>8

-----------------------------------------------------------------------------
(***************************************************************************)
(* Types.                                                                  *)
(***************************************************************************)
Typed(R, C, s) ==
  /\ Fields(s)
  /\ s.matrix = [r \in R |-> s.matrix[r]] /\ s.rhs = [r \in R |-> s.rhs[r]]
  /\ \A r \in R : DOMAIN s.matrix[r] \subseteq C /\ IsFiniteSet(DOMAIN s.rhs[r])
  /\ s.rowNonzeros \in [R -> Int] /\ s.rhsNonzeros \in [R -> Int]
  /\ s.columnNonzeros \in [C -> Int] /\ s.residual \in Int
  /\ s.incidence \in [C -> Seq(R)]
  /\ s.active \subseteq C /\ s.dirty \subseteq C /\ s.dirtyList \subseteq C
  /\ s.rowMap \in Seq(R) /\ s.used \subseteq R /\ ToSet(s.rowMap) = s.used

LEMMA AppendIs ==
  ASSUME NEW R, NEW s \in Seq(R), NEW r \in R
  PROVE  /\ Append(s, r) \in Seq(R) /\ ToSet(Append(s, r)) = ToSet(s) \union {r}
         /\ Len(Append(s, r)) = Len(s) + 1 /\ Append(s, r)[Len(s) + 1] = r
         /\ \A i \in DOMAIN s : Append(s, r)[i] = s[i]
<1>1. Append(s, r) \in Seq(R)
  OBVIOUS
<1>2. /\ Len(Append(s, r)) = Len(s) + 1 /\ Append(s, r)[Len(s) + 1] = r
      /\ \A i \in DOMAIN s : Append(s, r)[i] = s[i]
  OBVIOUS
<1>3. /\ DOMAIN s = 1 .. Len(s) /\ DOMAIN Append(s, r) = 1 .. Len(s) + 1 /\ Len(s) \in Nat
      /\ 1 .. Len(s) + 1 = (1 .. Len(s)) \union {Len(s) + 1}
  OBVIOUS
<1>4. ToSet(Append(s, r)) = ToSet(s) \union {r}
  BY <1>2, <1>3 DEF ToSet
<1> QED BY <1>1, <1>2, <1>4

LEMMA SetOfSequence ==
  ASSUME NEW R, NEW s \in Seq(R)
  PROVE  ToSet(s) \subseteq R /\ IsFiniteSet(ToSet(s))
<1>1. DOMAIN s = 1 .. Len(s) /\ Len(s) \in Nat /\ \A i \in DOMAIN s : s[i] \in R
  OBVIOUS
<1>2. ToSet(s) \subseteq R
  BY <1>1 DEF ToSet
<1>3. IsFiniteSet(DOMAIN s)
  BY <1>1, FS_Interval
<1>4. s \in Surjection(DOMAIN s, ToSet(s))
  BY <1>1 DEF Surjection, ToSet
<1>5. IsFiniteSet(ToSet(s))
  BY <1>3, <1>4, FS_Surjection
<1> QED BY <1>2, <1>5

LEMMA ScannedTyped ==
  ASSUME NEW R, NEW C, NEW s, Typed(R, C, s), NEW c \in C, NEW m, m = Scanned(s, c)
  PROVE  Typed(R, C, m)
<1>1. Fields(s) /\ s.incidence[c] \in Seq(R) /\ s.incidence \in [C -> Seq(R)]
  BY DEF Typed
<1>2. LiveRows(s, c) \in Seq(R)
  BY <1>1, LiveRowsAre
<1>3. IsScanned(m, s, c)
  BY <1>1, ScannedIs
<1>4. m.incidence \in [C -> Seq(R)]
  BY <1>1, <1>2, <1>3 DEF IsScanned
<1> QED BY <1>3, <1>4 DEF Typed, IsScanned

LEMMA NormalizedTyped ==
  ASSUME NEW R, NEW C, NEW s, Typed(R, C, s), NEW choice, choice.row \in R,
         NEW m, m = Normalized(s, choice)
  PROVE  Typed(R, C, m)
<1>1. Fields(s)
  BY DEF Typed
<1>2. IsNormalized(m, s, choice)
  BY <1>1, NormalizedIs
<1>3. PICK row : /\ m.matrix = [s.matrix EXCEPT ![choice.row] = row]
                 /\ DOMAIN row = DOMAIN s.matrix[choice.row]
  BY <1>2 DEF IsNormalized
<1>4. PICK rhs : /\ m.rhs = [s.rhs EXCEPT ![choice.row] = rhs]
                 /\ DOMAIN rhs = DOMAIN s.rhs[choice.row]
  BY <1>2 DEF IsNormalized
<1>5. /\ s.matrix = [r \in R |-> s.matrix[r]] /\ s.rhs = [r \in R |-> s.rhs[r]]
      /\ \A r \in R : DOMAIN s.matrix[r] \subseteq C /\ IsFiniteSet(DOMAIN s.rhs[r])
      /\ s.rowNonzeros \in [R -> Int] /\ s.rhsNonzeros \in [R -> Int]
      /\ s.columnNonzeros \in [C -> Int] /\ s.residual \in Int
      /\ s.active \subseteq C /\ s.dirty \subseteq C /\ s.dirtyList \subseteq C
      /\ s.rowMap \in Seq(R) /\ s.used \subseteq R /\ ToSet(s.rowMap) = s.used
      /\ s.incidence \in [C -> Seq(R)]
  BY DEF Typed
<1>6. m.matrix = [r \in R |-> m.matrix[r]] /\ \A r \in R : DOMAIN m.matrix[r] \subseteq C
  BY <1>3, <1>5
<1>7. m.rhs = [r \in R |-> m.rhs[r]] /\ \A r \in R : IsFiniteSet(DOMAIN m.rhs[r])
  BY <1>4, <1>5
<1>8. m.rowNonzeros \in [R -> Int] /\ m.columnNonzeros \in [C -> Int] /\ m.residual \in Int
  BY <1>2, <1>5 DEF IsNormalized
<1>9. m.dirty \subseteq C /\ m.dirtyList \subseteq C
  BY <1>2, <1>5 DEF IsNormalized, Marked
<1>10. m.rowMap \in Seq(R) /\ m.used \subseteq R /\ ToSet(m.rowMap) = m.used
  BY <1>2, <1>5, AppendIs DEF IsNormalized
<1> QED BY <1>2, <1>5, <1>6, <1>7, <1>8, <1>9, <1>10 DEF Typed, IsNormalized

LEMMA EliminatedTyped ==
  ASSUME NEW R, NEW C, NEW s, Typed(R, C, s), NEW choice, NEW task, task.row \in R,
         NEW m, m = Eliminated(s, choice, task)
  PROVE  Typed(R, C, m)
<1>1. Fields(s)
  BY DEF Typed
<1>2. /\ Fields(m)
      /\ m.rhsNonzeros = s.rhsNonzeros /\ m.residual = s.residual
      /\ m.incidence = s.incidence /\ m.rowNonzeros = s.rowNonzeros
      /\ m.columnNonzeros = s.columnNonzeros /\ m.active = s.active
      /\ m.used = s.used /\ m.rowMap = s.rowMap
      /\ m.dirty = s.dirty /\ m.dirtyList = s.dirtyList
      /\ m.matrix = [s.matrix EXCEPT ![task.row] = MergedRow(s, choice, task)]
      /\ m.rhs = [s.rhs EXCEPT ![task.row] = MergedRhs(s, choice, task)]
  BY <1>1, EliminatedIs
<1>3. /\ s.matrix = [r \in R |-> s.matrix[r]] /\ s.rhs = [r \in R |-> s.rhs[r]]
      /\ \A r \in R : DOMAIN s.matrix[r] \subseteq C /\ IsFiniteSet(DOMAIN s.rhs[r])
      /\ s.active \subseteq C
  BY DEF Typed
<1>4. DOMAIN MergedRow(s, choice, task) \subseteq C
  BY <1>3 DEF MergedRow
<1>5. DOMAIN MergedRhs(s, choice, task) = DOMAIN s.rhs[task.row]
  BY DEF MergedRhs
<1>6. m.matrix = [r \in R |-> m.matrix[r]] /\ \A r \in R : DOMAIN m.matrix[r] \subseteq C
  BY <1>2, <1>3, <1>4
<1>7. m.rhs = [r \in R |-> m.rhs[r]] /\ \A r \in R : IsFiniteSet(DOMAIN m.rhs[r])
  BY <1>2, <1>3, <1>5
<1> QED BY <1>2, <1>6, <1>7 DEF Typed

TaskTyped(R, task) == task.row \in R /\ task.rhsNonzeros \in Int

LEMMA CommittedTyped ==
  ASSUME NEW R, NEW C, IsFiniteSet(C), NEW s, Typed(R, C, s), NEW choice, NEW task,
         TaskTyped(R, task), NEW m, m = Committed(s, choice, task)
  PROVE  Typed(R, C, m)
<1>1. Fields(s)
  BY DEF Typed
<1>2. IsCommitted(m, s, choice, task)
  BY <1>1, CommittedIs
<1>3. /\ \A r \in R : DOMAIN s.matrix[r] \subseteq C
      /\ s.rowNonzeros \in [R -> Int] /\ s.rhsNonzeros \in [R -> Int]
      /\ s.columnNonzeros \in [C -> Int] /\ s.residual \in Int
      /\ s.active \subseteq C /\ s.dirty \subseteq C /\ s.dirtyList \subseteq C
      /\ s.incidence \in [C -> Seq(R)]
      /\ task.row \in R /\ task.rhsNonzeros \in Int
  BY DEF Typed, TaskTyped
<1>4. Cardinality(DOMAIN s.matrix[task.row]) \in Int
  BY <1>3, FS_Subset, FS_CardinalityType
<1>5. m.rowNonzeros \in [R -> Int]
  BY <1>2, <1>3, <1>4 DEF IsCommitted
<1>6. m.rhsNonzeros \in [R -> Int]
  BY <1>2, <1>3 DEF IsCommitted
<1>7. m.residual \in Int
  <2>1. s.rhsNonzeros[task.row] \in Int
    BY <1>3
  <2>2. ResidualChange(s.rhsNonzeros[task.row], task.rhsNonzeros) \in Int
    BY DEF ResidualChange
  <2> QED BY <1>2, <1>3, <2>2 DEF IsCommitted
<1>8. m.columnNonzeros \in [C -> Int]
  <2>1. Counted(s, task) \in [C -> Int]
    BY <1>3 DEF Counted
  <2> QED BY <1>2, <2>1 DEF IsCommitted
<1>9. m.incidence \in [C -> Seq(R)]
  <2>1. \A c \in C : s.incidence[c] \in Seq(R) /\ Append(s.incidence[c], task.row) \in Seq(R)
    BY <1>3, AppendIs
  <2> QED BY <1>2, <1>3, <2>1 DEF IsCommitted
<1>10. m.dirty \subseteq C /\ m.dirtyList \subseteq C
  BY <1>2, <1>3 DEF IsCommitted, Marked
<1> QED BY <1>2, <1>5, <1>6, <1>7, <1>8, <1>9, <1>10 DEF Typed, IsCommitted

LEMMA FinishedTyped ==
  ASSUME NEW R, NEW C, NEW s, Typed(R, C, s), NEW c \in C, NEW m, m = Finished(s, c)
  PROVE  Typed(R, C, m)
<1>1. Fields(s) /\ s.columnNonzeros \in [C -> Int] /\ s.incidence \in [C -> Seq(R)]
      /\ s.active \subseteq C
  BY DEF Typed
<1>2. IsFinished(m, s, c)
  BY <1>1, FinishedIs
<1>3. <<>> \in Seq(R)
  OBVIOUS
<1>4. m.columnNonzeros \in [C -> Int] /\ m.incidence \in [C -> Seq(R)] /\ m.active \subseteq C
  BY <1>1, <1>2, <1>3 DEF IsFinished
<1> QED BY <1>2, <1>4 DEF Typed, IsFinished

LEMMA RescoredTyped ==
  ASSUME NEW R, NEW C, NEW s, Typed(R, C, s), NEW requested, NEW m, m = Rescored(s, requested)
  PROVE  Typed(R, C, m)
<1>1. Fields(s) /\ s.incidence \in [C -> Seq(R)] /\ s.dirty \subseteq C
  BY DEF Typed
<1>2. IsRescored(m, s, requested)
  BY <1>1, RescoredIs
<1>3. \A c \in C : LiveRows(s, c) \in Seq(R) /\ s.incidence[c] \in Seq(R)
  BY <1>1, LiveRowsAre
<1>4. m.incidence \in [C -> Seq(R)] /\ m.dirty \subseteq C
  BY <1>1, <1>2, <1>3 DEF IsRescored
<1> QED BY <1>2, <1>4 DEF Typed, IsRescored

LEMMA TasksAre ==
  ASSUME NEW R, NEW C, NEW s, Typed(R, C, s), NEW choice, choice.column \in C
  PROVE  /\ LiveRows(s, choice.column) \in Seq(R)
         /\ DOMAIN Tasks(s, choice) = 1 .. Len(LiveRows(s, choice.column))
         /\ Len(LiveRows(s, choice.column)) \in Nat
         /\ Len(Tasks(s, choice)) = Len(LiveRows(s, choice.column))
         /\ \A i \in DOMAIN Tasks(s, choice) :
              /\ LiveRows(s, choice.column)[i] \in R
              /\ Tasks(s, choice)[i] = Task(s, choice, LiveRows(s, choice.column)[i])
<1> DEFINE rows == LiveRows(s, choice.column)
<1>1. s.incidence[choice.column] \in Seq(R)
  BY DEF Typed
<1>2. rows \in Seq(R)
  BY <1>1, LiveRowsAre
<1>3. Tasks(s, choice) = [i \in DOMAIN rows |-> Task(s, choice, rows[i])]
  BY DEF Tasks
<1> HIDE DEF rows
<1>4. DOMAIN rows = 1 .. Len(rows) /\ Len(rows) \in Nat /\ \A i \in DOMAIN rows : rows[i] \in R
  BY <1>2, SequenceIs
<1>5. Len(Tasks(s, choice)) = Len(rows)
  BY <1>3, <1>4
<1> QED BY <1>2, <1>3, <1>4, <1>5 DEF rows

\* A task is a record of its changes.
TaskFields(task) ==
  task = [row |-> task.row, factor |-> task.factor, fresh |-> task.fresh,
          removed |-> task.removed, rhsNonzeros |-> task.rhsNonzeros]

LEMMA TaskIs ==
  ASSUME NEW R, NEW C, NEW s, Typed(R, C, s), NEW choice, NEW r \in R
  PROVE  /\ TaskFields(Task(s, choice, r)) /\ TaskTyped(R, Task(s, choice, r))
         /\ Task(s, choice, r).row = r
         /\ Task(s, choice, r).rhsNonzeros = s.rhsNonzeros[r]
BY DEF Typed, TaskFields, TaskTyped, Task

\* The entries of a right-hand side that are no longer zero, and those that are now.
Gained(old, new) == {k \in DOMAIN old : old[k] = 0 /\ new[k] # 0}
Lost(old, new) == {k \in DOMAIN old : old[k] # 0 /\ new[k] = 0}

\* The columns of a row besides that of the pivot, before it is eliminated.
Former(s, choice, task) == DOMAIN s.matrix[task.row] \ {choice.column}

\* What a thread notes.
IsNoted(t, s, choice, task) ==
  /\ TaskFields(t) /\ t.row = task.row /\ t.factor = task.factor
  /\ t.fresh = DOMAIN MergedRow(s, choice, task) \ Former(s, choice, task)
  /\ t.removed = (Former(s, choice, task) \intersect s.active)
                    \ DOMAIN MergedRow(s, choice, task)
  /\ t.rhsNonzeros =
       task.rhsNonzeros + Cardinality(Gained(s.rhs[task.row], MergedRhs(s, choice, task)))
                        - Cardinality(Lost(s.rhs[task.row], MergedRhs(s, choice, task)))

LEMMA NotedIs ==
  ASSUME NEW s, NEW choice, NEW task, TaskFields(task), NEW t, t = Noted(s, choice, task)
  PROVE  IsNoted(t, s, choice, task)
<1> DEFINE old == s.rhs[task.row]
           new == MergedRhs(s, choice, task)
           a == DOMAIN MergedRow(s, choice, task) \ Former(s, choice, task)
           b == (Former(s, choice, task) \intersect s.active) \ DOMAIN MergedRow(s, choice, task)
           gained == Cardinality(Gained(old, new))
           lost == Cardinality(Lost(old, new))
<1>1. t = [task EXCEPT !.fresh = a, !.removed = b, !.rhsNonzeros = @ + gained - lost]
  BY DEF Noted, Former, Gained, Lost
<1> HIDE DEF a, b, gained, lost
<1>2. /\ TaskFields(t) /\ t.row = task.row /\ t.factor = task.factor
      /\ t.fresh = a /\ t.removed = b /\ t.rhsNonzeros = task.rhsNonzeros + gained - lost
  BY <1>1 DEF TaskFields
<1> QED BY <1>2 DEF IsNoted, a, b, gained, lost

LEMMA NotedTyped ==
  ASSUME NEW R, NEW C, NEW s, Typed(R, C, s), NEW choice, NEW task, TaskFields(task),
         TaskTyped(R, task), NEW t, t = Noted(s, choice, task)
  PROVE  TaskFields(t) /\ TaskTyped(R, t)
<1> DEFINE old == s.rhs[task.row]
           gained == Gained(old, MergedRhs(s, choice, task))
           lost == Lost(old, MergedRhs(s, choice, task))
<1>1. IsFiniteSet(DOMAIN old) /\ task.row \in R /\ task.rhsNonzeros \in Int
  BY DEF Typed, TaskTyped
<1>2. gained \subseteq DOMAIN old /\ lost \subseteq DOMAIN old
  BY DEF Gained, Lost
<1>3. IsNoted(t, s, choice, task)
  BY NotedIs
<1>4. /\ TaskFields(t) /\ t.row = task.row
      /\ t.rhsNonzeros = task.rhsNonzeros + Cardinality(gained) - Cardinality(lost)
  BY <1>3 DEF IsNoted
<1> HIDE DEF gained, lost, old
<1>5. Cardinality(gained) \in Nat /\ Cardinality(lost) \in Nat
  BY <1>1, <1>2, FS_Subset, FS_CardinalityType
<1> QED BY <1>1, <1>4, <1>5 DEF TaskTyped

LEMMA RowStepTyped ==
  ASSUME NEW R, NEW C, IsFiniteSet(C), NEW s, Typed(R, C, s), NEW choice, NEW task,
         TaskFields(task), TaskTyped(R, task), NEW how, NEW m,
         m = RowStep(s, choice, task, how)
  PROVE  Typed(R, C, m)
<1>1. CASE how # "alone"
  <2>1. m = Committed(s, choice, task)
    BY <1>1 DEF RowStep
  <2> QED BY <2>1, CommittedTyped
<1>2. CASE how = "alone"
  <2>1. PICK u, t : u = Eliminated(s, choice, task) /\ t = Noted(s, choice, task)
    OBVIOUS
  <2>2. m = Committed(u, choice, t)
    BY <1>2, <2>1 DEF RowStep, SerialStep
  <2>3. task.row \in R
    BY DEF TaskTyped
  <2>4. Typed(R, C, u)
    BY <2>1, <2>3, EliminatedTyped
  <2>5. TaskTyped(R, t)
    BY <2>1, NotedTyped
  <2> QED BY <2>2, <2>4, <2>5, CommittedTyped
<1> QED BY <1>1, <1>2

LEMMA FoldTyped ==
  ASSUME NEW R, NEW C, IsFiniteSet(C), NEW s, Typed(R, C, s), NEW choice, NEW seq,
         NEW n \in Nat, DOMAIN seq = 1 .. n,
         \A i \in 1 .. n : TaskFields(seq[i]) /\ TaskTyped(R, seq[i]),
         NEW how \in {"alone", "ordered"}, NEW m, m = Folded(s, choice, seq, how)
  PROVE  Typed(R, C, m)
<1>1. PICK f : Chain(f, s, choice, seq, how) /\ f[n] = Folded(s, choice, seq, how)
  BY FoldChain
<1> DEFINE K == {i \in Nat : i <= n => Typed(R, C, f[i])}
<1>2. 0 \in K
  BY <1>1 DEF Chain
<1>3. ASSUME NEW i \in Nat, i \in K PROVE i + 1 \in K
  <2>1. SUFFICES ASSUME i + 1 <= n PROVE Typed(R, C, f[i + 1])
    BY <1>3
  <2>2. i + 1 \in 1 .. n /\ (i + 1) - 1 = i /\ Typed(R, C, f[i])
    BY <1>3, <2>1
  <2>3. PICK k \in 1 .. n : k = i + 1 /\ k - 1 = i
    BY <2>2
  <2>4. f[k] = RowStep(f[i], choice, seq[k], how)
    BY <1>1, <2>3 DEF Chain, StepOf
  <2>5. TaskFields(seq[k]) /\ TaskTyped(R, seq[k])
    OBVIOUS
  <2>6. Typed(R, C, f[k])
    BY <2>2, <2>4, <2>5, RowStepTyped
  <2> QED BY <2>3, <2>6
<1>4. n \in K
  BY <1>2, <1>3, SetInduction
<1> QED BY <1>1, <1>4

LEMMA SeriallyTyped ==
  ASSUME NEW R, NEW C, IsFiniteSet(C), NEW s, Typed(R, C, s), NEW choice, choice.column \in C,
         NEW m, m = Serially(s, choice)
  PROVE  Typed(R, C, m)
<1> DEFINE T == Tasks(s, choice)
<1>1. PICK n \in Nat : DOMAIN T = 1 .. n
  BY TasksAre
<1>2. ASSUME NEW i \in 1 .. n PROVE TaskFields(T[i]) /\ TaskTyped(R, T[i])
  <2>1. PICK r \in R : T[i] = Task(s, choice, r)
    BY <1>1, TasksAre
  <2> HIDE DEF T
  <2> QED BY <2>1, TaskIs
<1>3. m = Folded(s, choice, T, "alone")
  BY SeriallyIs
<1> HIDE DEF T
<1> QED BY <1>1, <1>2, <1>3, FoldTyped

LEMMA CommittedAllTyped ==
  ASSUME NEW R, NEW C, IsFiniteSet(C), NEW s, Typed(R, C, s), NEW choice, NEW tasks,
         NEW n \in Nat, DOMAIN tasks = 1 .. n,
         \A i \in 1 .. n : TaskFields(tasks[i]) /\ TaskTyped(R, tasks[i]),
         NEW m, m = CommittedAll(s, choice, tasks)
  PROVE  Typed(R, C, m)
BY FoldTyped, CommittedAllIs

-----------------------------------------------------------------------------
(***************************************************************************)
(* The order of choices.                                                   *)
(***************************************************************************)
Lower(x, y) == \E i \in 1 .. 7 : x[i] < y[i] /\ \A j \in 1 .. i - 1 : x[j] = y[j]

LEMMA LowerOrders ==
  ASSUME NEW x \in [1 .. 7 -> Int], NEW y \in [1 .. 7 -> Int], NEW z \in [1 .. 7 -> Int]
  PROVE  /\ ~Lower(x, x)
         /\ Lower(x, y) /\ Lower(y, z) => Lower(x, z)
         /\ (\E i \in 1 .. 7 : x[i] # y[i]) => Lower(x, y) \/ Lower(y, x)
<1>0. \A i \in 1 .. 7 : x[i] \in Int /\ y[i] \in Int /\ z[i] \in Int
  OBVIOUS
<1>1. ~Lower(x, x)
  BY <1>0 DEF Lower
<1>2. ASSUME Lower(x, y), Lower(y, z) PROVE Lower(x, z)
  <2>1. PICK i \in 1 .. 7 : x[i] < y[i] /\ \A j \in 1 .. i - 1 : x[j] = y[j]
    BY <1>2 DEF Lower
  <2>2. PICK k \in 1 .. 7 : y[k] < z[k] /\ \A j \in 1 .. k - 1 : y[j] = z[j]
    BY <1>2 DEF Lower
  <2>3. CASE i < k
    <3>1. i \in 1 .. k - 1 /\ \A j \in 1 .. i - 1 : j \in 1 .. k - 1
      BY <2>3
    <3>2. x[i] < z[i] /\ \A j \in 1 .. i - 1 : x[j] = z[j]
      BY <2>1, <2>2, <3>1
    <3> QED BY <3>2 DEF Lower
  <2>4. CASE k < i
    <3>1. k \in 1 .. i - 1 /\ \A j \in 1 .. k - 1 : j \in 1 .. i - 1
      BY <2>4
    <3>2. x[k] < z[k] /\ \A j \in 1 .. k - 1 : x[j] = z[j]
      BY <2>1, <2>2, <3>1
    <3> QED BY <3>2 DEF Lower
  <2>5. CASE i = k
    <3>1. x[i] < z[i] /\ \A j \in 1 .. i - 1 : x[j] = z[j]
      BY <2>1, <2>2, <2>5, <1>0
    <3> QED BY <3>1 DEF Lower
  <2> QED BY <2>3, <2>4, <2>5
<1>3. ASSUME NEW k \in 1 .. 7, x[k] # y[k] PROVE Lower(x, y) \/ Lower(y, x)
  <2> DEFINE T == {i \in 1 .. 7 : x[i] # y[i]}
  <2>1. T \subseteq Nat /\ T # {}
    BY <1>3
  <2>2. PICK i \in T : \A j \in T : i <= j
    BY <2>1, Least
  <2>3. \A j \in 1 .. i - 1 : x[j] = y[j]
    <3>1. SUFFICES ASSUME NEW j \in 1 .. i - 1, x[j] # y[j] PROVE FALSE
      OBVIOUS
    <3>2. j \in T /\ j < i
      BY <3>1, <2>2
    <3> QED BY <3>2, <2>2
  <2>4. x[i] < y[i] \/ y[i] < x[i]
    BY <2>2, <1>0
  <2> QED BY <2>2, <2>3, <2>4 DEF Lower
<1> QED BY <1>1, <1>2, <1>3

\* A finite set has a minimal element for an order.
LEMMA MinimalElement ==
  ASSUME NEW U, IsFiniteSet(U), U # {}, NEW G,
         \A a \in U : <<a, a>> \notin G,
         \A a, b, c \in U : <<a, b>> \in G /\ <<b, c>> \in G => <<a, c>> \in G
  PROVE  \E e \in U : \A f \in U : <<f, e>> \notin G
<1> DEFINE Minimal(E) == \E e \in E : \A f \in E : <<f, e>> \notin G
           K == {n \in Nat : \A E \in SUBSET U : E # {} /\ Cardinality(E) <= n => Minimal(E)}
<1>1. \A E \in SUBSET U : IsFiniteSet(E) /\ Cardinality(E) \in Nat
  BY FS_Subset, FS_CardinalityType
<1>2. 0 \in K
  <2>1. \A E \in SUBSET U : Cardinality(E) <= 0 => E = {}
    BY <1>1, FS_EmptySet
  <2> HIDE DEF Minimal
  <2> QED BY <2>1
<1>3. ASSUME NEW n \in Nat, n \in K PROVE n + 1 \in K
  <2>1. SUFFICES ASSUME NEW E \in SUBSET U, E # {}, Cardinality(E) <= n + 1 PROVE Minimal(E)
    OBVIOUS
  <2>2. PICK x \in E : TRUE
    BY <2>1
  <2> DEFINE F == E \ {x}
  <2>3. F \in SUBSET U /\ Cardinality(F) <= n
    <3>1. IsFiniteSet(E) /\ F \in SUBSET U
      BY <1>1
    <3>2. Cardinality(F) <= n
      BY <2>1, <2>2, <3>1, OneLess
    <3> QED BY <3>1, <3>2
  <2>4. CASE F = {}
    <3>1. E = {x}
      BY <2>4
    <3> QED BY <3>1
  <2>5. CASE F # {}
    <3>1. Minimal(F)
      <4> HIDE DEF F, Minimal
      <4> QED BY <1>3, <2>3, <2>5
    <3>2. PICK e \in F : \A f \in F : <<f, e>> \notin G
      BY <3>1
    <3>3. CASE <<x, e>> \in G
      <4>1. ASSUME NEW f \in E PROVE <<f, x>> \notin G
        <5>1. CASE f = x
          BY <5>1
        <5>2. CASE f # x
          BY <3>2, <3>3, <5>2
        <5> QED BY <5>1, <5>2
      <4> QED BY <4>1
    <3>4. CASE <<x, e>> \notin G
      BY <3>2, <3>4
    <3> QED BY <3>3, <3>4
  <2> QED BY <2>4, <2>5
<1>4. Cardinality(U) \in K
  <2>1. Cardinality(U) \in Nat
    BY FS_CardinalityType
  <2> HIDE DEF K
  <2> QED BY <2>1, <1>2, <1>3, SetInduction
<1>5. Minimal(U)
  <2>1. U \in SUBSET U /\ Cardinality(U) \in Nat /\ Cardinality(U) <= Cardinality(U)
    BY FS_CardinalityType
  <2> HIDE DEF Minimal
  <2> QED BY <2>1, <1>4
<1> QED BY <1>5

ChoiceTyped(R, C, k) ==
  /\ k.column \in C /\ k.row \in R
  /\ k.markowitz \in Int /\ k.columnNonzeros \in Int /\ k.rowNonzeros \in Int

\* What a score is made of.
ScoresTyped(R, C) ==
  /\ R \subseteq Int /\ C \subseteq Int
  /\ system.order \in {"Ignore", "Ascending", "Descending"}
  /\ system.complexity \in [C -> Int] /\ system.priority \in [C -> Int]

LEMMA ScoreIs ==
  ASSUME NEW R, NEW C, ScoresTyped(R, C), NEW k, ChoiceTyped(R, C, k)
  PROVE  /\ Score(k) \in [1 .. 7 -> Int] /\ Score(k)[6] = k.column /\ Score(k)[7] = k.row
<1>1. Complexity(k.column) \in Int
  BY DEF Complexity, ScoresTyped, ChoiceTyped
<1>2. /\ system.priority[k.column] \in Int /\ k.column \in Int /\ k.row \in Int
      /\ k.markowitz \in Int /\ k.columnNonzeros \in Int /\ k.rowNonzeros \in Int
  BY DEF ScoresTyped, ChoiceTyped
<1>3. Score(k) = <<Complexity(k.column), k.markowitz, k.columnNonzeros, k.rowNonzeros,
                   system.priority[k.column], k.column, k.row>>
  BY DEF Score
<1> QED BY <1>1, <1>2, <1>3

LEMMA BetterOrders ==
  ASSUME NEW R, NEW C, ScoresTyped(R, C), NEW a, NEW b, NEW c, ChoiceTyped(R, C, a),
         ChoiceTyped(R, C, b), ChoiceTyped(R, C, c)
  PROVE  /\ ~Better(a, a)
         /\ Better(a, b) /\ Better(b, c) => Better(a, c)
         /\ a.column # b.column \/ a.row # b.row => Better(a, b) \/ Better(b, a)
<1>1. /\ Score(a) \in [1 .. 7 -> Int] /\ Score(a)[6] = a.column /\ Score(a)[7] = a.row
      /\ Score(b) \in [1 .. 7 -> Int] /\ Score(b)[6] = b.column /\ Score(b)[7] = b.row
      /\ Score(c) \in [1 .. 7 -> Int]
  BY ScoreIs
<1>2. \A k, l : Better(k, l) <=> Lower(Score(k), Score(l))
  BY DEF Better, Lower
<1>3. 6 \in 1 .. 7 /\ 7 \in 1 .. 7
  OBVIOUS
<1> QED BY <1>1, <1>2, <1>3, LowerOrders

\* Some entries of a queue, each with a typed choice.
EntriesTyped(R, C, entries) ==
  IsFiniteSet(entries) /\ \A e \in entries : ChoiceTyped(R, C, e.pivot)

LEMMA TopIs ==
  ASSUME NEW R, NEW C, ScoresTyped(R, C), NEW entries, EntriesTyped(R, C, entries), entries # {}
  PROVE  /\ Top(entries) \in entries /\ ChoiceTyped(R, C, Top(entries).pivot)
         /\ \A f \in entries : ~Better(f.pivot, Top(entries).pivot)
<1> DEFINE G == {p \in entries \X entries : Better(p[1].pivot, p[2].pivot)}
<1>0. \A a \in entries : ChoiceTyped(R, C, a.pivot)
  BY DEF EntriesTyped
<1>1. \A a, b \in entries : <<a, b>> \in G <=> Better(a.pivot, b.pivot)
  OBVIOUS
<1>2. \A a \in entries : <<a, a>> \notin G
  BY <1>0, <1>1, BetterOrders
<1>3. \A a, b, c \in entries : <<a, b>> \in G /\ <<b, c>> \in G => <<a, c>> \in G
  BY <1>0, <1>1, BetterOrders
<1> HIDE DEF G
<1>4. \E e \in entries : \A f \in entries : <<f, e>> \notin G
  BY <1>2, <1>3, MinimalElement DEF EntriesTyped
<1>5. \E e \in entries : \A f \in entries : ~Better(f.pivot, e.pivot)
  BY <1>1, <1>4
<1>6. Top(entries) \in entries /\ \A f \in entries : ~Better(f.pivot, Top(entries).pivot)
  BY <1>5 DEF Top
<1> QED BY <1>0, <1>6

-----------------------------------------------------------------------------
(***************************************************************************)
(* Queues.                                                                 *)
(***************************************************************************)
QueueNames == {"matching", "fallback", "version", "activeColumns", "since"}
QueueFields(q) == q = [f \in QueueNames |-> q[f]]
Kinds == {"matching", "fallback"}

\* The entries have versions that their column has had.
QueueTyped(R, C, q) ==
  /\ QueueFields(q)
  /\ q.version \in [C -> Int]
  /\ \A kind \in Kinds :
       /\ EntriesTyped(R, C, q[kind])
       /\ \A e \in q[kind] : e.version \in Int /\ e.version <= q.version[e.pivot.column]

LEMMA CandidatesAre ==
  ASSUME NEW R, NEW C, IsFiniteSet(R), NEW s, Typed(R, C, s), NEW c \in C
  PROVE  /\ IsFiniteSet(Candidates(s, c))
         /\ \A k \in Candidates(s, c) :
              \E r \in R : /\ r \in Recorded(s, c) /\ s.rowNonzeros[r] # 0
                           /\ k = Candidate(s, c, r)
         /\ \A r \in Recorded(s, c) :
              s.rowNonzeros[r] # 0 => Candidate(s, c, r) \in Candidates(s, c)
<1> DEFINE S == {r \in ToSet(LiveRows(s, c)) : s.rowNonzeros[r] # 0}
           f == [r \in S |-> Candidate(s, c, r)]
<1>1. s.incidence[c] \in Seq(R)
  BY DEF Typed
<1>2. ToSet(LiveRows(s, c)) = Recorded(s, c) /\ LiveRows(s, c) \in Seq(R)
  BY <1>1, LiveRowsAre
<1>3. IsFiniteSet(ToSet(LiveRows(s, c))) /\ ToSet(LiveRows(s, c)) \subseteq R
  BY <1>2, SetOfSequence
<1>4. IsFiniteSet(S) /\ S \subseteq R
  <2>1. S \subseteq ToSet(LiveRows(s, c))
    OBVIOUS
  <2> HIDE DEF S
  <2> QED BY <2>1, <1>3, FS_Subset
<1>5. Candidates(s, c) = {Candidate(s, c, r) : r \in S}
  BY DEF Candidates
<1>6. S = {r \in Recorded(s, c) : s.rowNonzeros[r] # 0}
  BY <1>2
<1> HIDE DEF S
<1>7. f \in Surjection(S, Candidates(s, c))
  BY <1>5 DEF Surjection
<1>8. IsFiniteSet(Candidates(s, c))
  BY <1>4, <1>7, FS_Surjection
<1> QED BY <1>4, <1>5, <1>6, <1>8

LEMMA CandidateTyped ==
  ASSUME NEW R, NEW C, NEW s, Typed(R, C, s), NEW c \in C, NEW r \in R
  PROVE  /\ ChoiceTyped(R, C, Candidate(s, c, r))
         /\ Candidate(s, c, r).column = c /\ Candidate(s, c, r).row = r
<1>1. s.rowNonzeros[r] \in Int /\ s.columnNonzeros[c] \in Int
  BY DEF Typed
<1>2. (s.rowNonzeros[r] - 1) * (s.columnNonzeros[c] - 1) \in Int
  BY <1>1
<1> QED BY <1>1, <1>2 DEF ChoiceTyped, Candidate

LEMMA BestChoiceIs ==
  ASSUME NEW R, NEW C, IsFiniteSet(R), NEW s, Typed(R, C, s), NEW c \in C, NEW kind,
         NEW k \in BestChoice(s, kind, c)
  PROVE  /\ ChoiceTyped(R, C, k) /\ k.column = c
         /\ k \in Candidates(s, c)
         /\ k = Candidate(s, c, k.row) /\ k.row \in R
         /\ k.row \in Recorded(s, c) /\ s.rowNonzeros[k.row] # 0
<1>1. k \in Candidates(s, c)
  BY DEF BestChoice, Best
<1>2. PICK r \in R : r \in Recorded(s, c) /\ s.rowNonzeros[r] # 0 /\ k = Candidate(s, c, r)
  BY <1>1, CandidatesAre
<1> QED BY <1>1, <1>2, CandidateTyped

LEMMA VersionedIs ==
  ASSUME NEW q, QueueFields(q), NEW columns, NEW m, m = Versioned(q, columns)
  PROVE  /\ QueueFields(m)
         /\ m.matching = q.matching /\ m.fallback = q.fallback
         /\ m.activeColumns = q.activeColumns /\ m.since = q.since
         /\ m.version = [c \in DOMAIN q.version |-> IF c \in columns THEN q.version[c] + 1
                                                    ELSE q.version[c]]
<1> DEFINE v == [c \in DOMAIN q.version |-> IF c \in columns THEN q.version[c] + 1
                                            ELSE q.version[c]]
<1>1. m = [q EXCEPT !.version = v]
  BY DEF Versioned, QueueFields, QueueNames
<1> HIDE DEF v
<1>2. /\ QueueFields(m)
      /\ m.matching = q.matching /\ m.fallback = q.fallback
      /\ m.activeColumns = q.activeColumns /\ m.since = q.since
      /\ m.version = v
  BY <1>1 DEF QueueFields, QueueNames
<1> QED BY <1>2 DEF v

LEMMA RequeuedIs ==
  ASSUME NEW s, NEW q, QueueFields(q), NEW columns, NEW m, m = Requeued(s, q, columns)
  PROVE  /\ QueueFields(m) /\ m.version = q.version
         /\ m.matching =
              Compacted(s, q, q.matching \union NewEntries(s, q, "matching", columns))
         /\ m.fallback =
              Compacted(s, q, q.fallback \union NewEntries(s, q, "fallback", columns))
<1> DEFINE a == Compacted(s, q, q.matching \union NewEntries(s, q, "matching", columns))
           b == Compacted(s, q, q.fallback \union NewEntries(s, q, "fallback", columns))
<1>1. m = [q EXCEPT !.matching = a, !.fallback = b]
  BY DEF Requeued, QueueFields, QueueNames
<1> HIDE DEF a, b
<1>2. QueueFields(m) /\ m.version = q.version /\ m.matching = a /\ m.fallback = b
  BY <1>1 DEF QueueFields, QueueNames
<1> QED BY <1>2 DEF a, b

LEMMA CompactedIs ==
  ASSUME NEW s, NEW q, NEW entries
  PROVE  /\ Compacted(s, q, entries) \subseteq entries
         /\ \A e \in entries : Current(s, q, e) => e \in Compacted(s, q, entries)
BY DEF Compacted

LEMMA NewEntriesAre ==
  ASSUME NEW R, NEW C, IsFiniteSet(R), IsFiniteSet(C), NEW s, Typed(R, C, s),
         NEW q, NEW kind, NEW columns, columns \subseteq C
  PROVE  /\ EntriesTyped(R, C, NewEntries(s, q, kind, columns))
         /\ \A e \in NewEntries(s, q, kind, columns) :
              \E c \in columns : /\ e.pivot \in BestChoice(s, kind, c)
                                 /\ e.pivot.column = c /\ e.version = q.version[c]
         /\ \A c \in columns : \A k \in BestChoice(s, kind, c) :
              [pivot |-> k, version |-> q.version[c]] \in NewEntries(s, q, kind, columns)
<1> DEFINE N == NewEntries(s, q, kind, columns)
           entry(c, k) == [pivot |-> k, version |-> q.version[c]]
           F == [p \in C \X R |-> entry(p[1], Candidate(s, p[1], p[2]))]
           I == {F[p] : p \in C \X R}
<1>1. N = UNION {{entry(c, k) : k \in BestChoice(s, kind, c)} : c \in columns}
  BY DEF NewEntries
<1>2. \A e \in N : \E c \in columns : \E k \in BestChoice(s, kind, c) : e = entry(c, k)
  BY <1>1
<1>3. \A c \in columns : \A k \in BestChoice(s, kind, c) : entry(c, k) \in N
  BY <1>1
<1>4. \A c \in columns : \A k \in BestChoice(s, kind, c) :
        /\ ChoiceTyped(R, C, k) /\ k.column = c /\ k.row \in R
        /\ k = Candidate(s, c, k.row)
  BY BestChoiceIs
<1>5. IsFiniteSet(C \X R)
  BY FS_Product
<1>6. F \in Surjection(C \X R, I)
  BY DEF Surjection
<1>7. IsFiniteSet(I)
  <2> HIDE DEF F, I
  <2> QED BY <1>5, <1>6, FS_Surjection
<1>8. N \subseteq I
  <2>1. SUFFICES ASSUME NEW e \in N PROVE e \in I
    OBVIOUS
  <2>2. PICK c \in columns : \E k \in BestChoice(s, kind, c) : e = entry(c, k)
    BY <1>2
  <2>4. PICK k \in BestChoice(s, kind, c) : e = entry(c, k)
    BY <2>2
  <2>3. <<c, k.row>> \in C \X R /\ F[<<c, k.row>>] = entry(c, k)
    BY <1>4
  <2> QED BY <2>4, <2>3
<1>9. IsFiniteSet(N)
  <2> HIDE DEF I, N
  <2> QED BY <1>7, <1>8, FS_Subset
<1>10. \A c, k : entry(c, k).pivot = k /\ entry(c, k).version = q.version[c]
  OBVIOUS
<1> HIDE DEF N, entry
<1>11. \A e \in N : ChoiceTyped(R, C, e.pivot)
  BY <1>2, <1>4, <1>10
<1>12. \A e \in N : \E c \in columns : /\ e.pivot \in BestChoice(s, kind, c)
                                       /\ e.pivot.column = c /\ e.version = q.version[c]
  BY <1>2, <1>4, <1>10
<1> QED BY <1>3, <1>9, <1>11, <1>12 DEF EntriesTyped, N, entry

LEMMA RequeuedTyped ==
  ASSUME NEW R, NEW C, IsFiniteSet(R), IsFiniteSet(C), NEW s, Typed(R, C, s),
         NEW q, QueueTyped(R, C, q), NEW columns, columns \subseteq C,
         NEW m, m = Requeued(s, Versioned(q, columns), columns)
  PROVE  QueueTyped(R, C, m)
<1>1. PICK v : v = Versioned(q, columns)
  OBVIOUS
<1>2. QueueFields(q) /\ q.version \in [C -> Int]
  BY DEF QueueTyped
<1>3. /\ QueueFields(v) /\ v.matching = q.matching /\ v.fallback = q.fallback
      /\ v.version = [c \in DOMAIN q.version |-> IF c \in columns THEN q.version[c] + 1
                                                 ELSE q.version[c]]
  BY <1>1, <1>2, VersionedIs
<1>4. v.version \in [C -> Int] /\ \A c \in C : q.version[c] <= v.version[c]
  BY <1>2, <1>3
<1>5. m = Requeued(s, v, columns)
  BY <1>1
<1>6. /\ QueueFields(m) /\ m.version = v.version
      /\ m.matching = Compacted(s, v, q.matching \union NewEntries(s, v, "matching", columns))
      /\ m.fallback = Compacted(s, v, q.fallback \union NewEntries(s, v, "fallback", columns))
  BY <1>3, <1>5, RequeuedIs
<1>7. ASSUME NEW kind \in Kinds, NEW old, old = q[kind], NEW new,
             new = Compacted(s, v, old \union NewEntries(s, v, kind, columns))
      PROVE  /\ EntriesTyped(R, C, new)
             /\ \A e \in new : e.version \in Int /\ e.version <= v.version[e.pivot.column]
  <2> DEFINE N == NewEntries(s, v, kind, columns)
  <2>1. new \subseteq old \union N
    BY <1>7, CompactedIs
  <2>2. /\ EntriesTyped(R, C, N)
        /\ \A e \in N : e.version = v.version[e.pivot.column] /\ e.pivot.column \in C
    BY NewEntriesAre
  <2>3. EntriesTyped(R, C, old)
        /\ \A e \in old : e.version \in Int /\ e.version <= q.version[e.pivot.column]
    BY <1>7 DEF QueueTyped
  <2> HIDE DEF N
  <2>4. IsFiniteSet(new)
    <3>1. IsFiniteSet(old \union N)
      BY <2>2, <2>3, FS_Union DEF EntriesTyped
    <3> QED BY <2>1, <3>1, FS_Subset
  <2>5. EntriesTyped(R, C, new)
    BY <2>1, <2>2, <2>3, <2>4 DEF EntriesTyped
  <2>6. \A e \in old : e.version \in Int /\ e.version <= v.version[e.pivot.column]
    <3>1. ASSUME NEW e \in old
          PROVE e.version \in Int /\ e.version <= v.version[e.pivot.column]
      <4>1. PICK c \in C : c = e.pivot.column
        BY <2>3 DEF EntriesTyped, ChoiceTyped
      <4>2. /\ e.version \in Int /\ e.version <= q.version[c] /\ q.version[c] <= v.version[c]
            /\ q.version[c] \in Int /\ v.version[c] \in Int
        BY <4>1, <2>3, <1>2, <1>4
      <4> QED BY <4>1, <4>2
    <3> QED BY <3>1
  <2>7. \A e \in N : e.version \in Int /\ e.version <= v.version[e.pivot.column]
    <3>1. ASSUME NEW e \in N
          PROVE e.version \in Int /\ e.version <= v.version[e.pivot.column]
      <4>1. PICK c \in C : c = e.pivot.column
        BY <2>2
      <4>2. e.version = v.version[c] /\ v.version[c] \in Int
        BY <4>1, <2>2, <1>4
      <4> QED BY <4>1, <4>2
    <3> QED BY <3>1
  <2> QED BY <2>1, <2>5, <2>6, <2>7
<1>8. ASSUME NEW kind \in Kinds
      PROVE  /\ EntriesTyped(R, C, m[kind])
             /\ \A e \in m[kind] : e.version \in Int /\ e.version <= v.version[e.pivot.column]
  <2>1. CASE kind = "matching"
    BY <2>1, <1>6, <1>7
  <2>2. CASE kind = "fallback"
    BY <2>2, <1>6, <1>7
  <2> QED BY <2>1, <2>2 DEF Kinds
<1> QED BY <1>4, <1>6, <1>8 DEF QueueTyped

-----------------------------------------------------------------------------
(***************************************************************************)
(* The elimination, step by step: types, and the rows of a batch.          *)
(***************************************************************************)

\* A system that can be eliminated.
WellFormed(y) ==
  /\ DOMAIN y.matrix \subseteq Int /\ IsFiniteSet(DOMAIN y.matrix)
  /\ y.matrix = [r \in DOMAIN y.matrix |-> y.matrix[r]]
  /\ y.rhs = [r \in DOMAIN y.matrix |-> y.rhs[r]]
  /\ \A r \in DOMAIN y.matrix : /\ DOMAIN y.matrix[r] \subseteq DOMAIN y.columnGroup
                                /\ IsFiniteSet(DOMAIN y.rhs[r])
  /\ \E n \in Nat : DOMAIN y.columnGroup = 1 .. n /\ y.basis \in 0 .. n
  /\ y.order \in {"Ignore", "Ascending", "Descending"}
  /\ y.complexity \in [DOMAIN y.columnGroup -> Int]
  /\ y.priority \in [DOMAIN y.columnGroup -> Int]
  /\ DOMAIN y.groups = 1 .. Len(y.groups) /\ Len(y.groups) \in Nat

BatchFields(b) == b = [tasks |-> b.tasks, choice |-> b.choice, done |-> b.done,
                       before |-> b.before]

\* What the threads have done so far: some rows, each as the first would have been.
BatchTyped(R, C, s, b) ==
  /\ BatchFields(b)
  /\ b.choice.row \in R /\ b.choice.column \in C
  /\ Typed(R, C, b.before) /\ b.choice.row \in b.before.used
  /\ DOMAIN b.tasks = DOMAIN Tasks(b.before, b.choice)
  /\ Len(b.tasks) = Len(Tasks(b.before, b.choice))
  /\ b.done \in Seq(DOMAIN b.tasks)
  /\ \A i, j \in DOMAIN b.done : b.done[i] = b.done[j] => i = j
  /\ SameCounts(s, b.before)
  /\ Merged(R, b.before, b.choice, Tasks(b.before, b.choice), ToSet(b.done), s)
  /\ \A i \in DOMAIN b.tasks :
       b.tasks[i] = IF i \in ToSet(b.done)
                      THEN Noted(b.before, b.choice, Tasks(b.before, b.choice)[i])
                      ELSE Tasks(b.before, b.choice)[i]

EliminationTyped ==
  step # "done" =>
    /\ WellFormed(system)
    /\ Typed(Rows, Columns, elim)
    /\ QueueTyped(Rows, Columns, queue)
    /\ turn \in Nat \ {0}
    /\ step = "rows" => BatchTyped(Rows, Columns, elim, batch)

LEMMA SystemIs ==
  ASSUME WellFormed(system)
  PROVE  /\ IsFiniteSet(Rows) /\ Rows \subseteq Int
         /\ IsFiniteSet(Columns) /\ Columns \subseteq Int
         /\ ScoresTyped(Rows, Columns)
         /\ system.basis \in Nat
         /\ \A t \in Nat \ {0} : t <= system.basis => t \in Columns
<1>1. PICK n \in Nat : Columns = 1 .. n /\ system.basis \in 0 .. n
  BY DEF WellFormed, Columns
<1>2. IsFiniteSet(Columns)
  BY <1>1, FS_Interval
<1> QED BY <1>1, <1>2 DEF WellFormed, ScoresTyped, Rows, Columns

LEMMA TasksApart ==
  ASSUME NEW R, NEW C, NEW s, Typed(R, C, s), NEW choice, choice.column \in C,
         choice.row \in R, choice.row \in s.used
  PROVE  Apart(R, choice, Tasks(s, choice))
<1> DEFINE rows == LiveRows(s, choice.column)
           T == Tasks(s, choice)
<1>1. s.incidence[choice.column] \in Seq(R)
  BY DEF Typed
<1>2. ToSet(rows) = Recorded(s, choice.column) /\ rows \in Seq(R)
      /\ \A i, j \in DOMAIN rows : rows[i] = rows[j] => i = j
  BY <1>1, LiveRowsAre
<1>3. /\ DOMAIN T = DOMAIN rows
      /\ \A i \in DOMAIN T : rows[i] \in R /\ T[i] = Task(s, choice, rows[i])
  BY TasksAre DEF Tasks
<1> HIDE DEF rows, T
<1>4. \A i \in DOMAIN T : T[i].row = rows[i]
  BY <1>3 DEF Task
<1>5. \A i \in DOMAIN T : rows[i] \notin s.used
  BY <1>2, <1>3 DEF ToSet, Recorded, Live
<1> QED BY <1>2, <1>3, <1>4, <1>5 DEF Apart, T

LEMMA PivotTyped ==
  ASSUME WellFormed(system), NEW s, Typed(Rows, Columns, s),
         NEW choice, ChoiceTyped(Rows, Columns, choice), Pivot(s, choice)
  PROVE  /\ Typed(Rows, Columns, elim')
         /\ step' \in {"rows", "basis", "matching"}
         /\ step' = "rows" => BatchTyped(Rows, Columns, elim', batch')
<1> DEFINE R == Rows
           C == Columns
<1>0. IsFiniteSet(C) /\ choice.row \in R /\ choice.column \in C
  BY SystemIs DEF ChoiceTyped
<1> HIDE DEF R, C
<1>1. PICK u : u = Normalized(s, choice)
  OBVIOUS
<1>2. PICK n : n = Scanned(u, choice.column)
  OBVIOUS
<1>3. Typed(R, C, u)
  BY <1>0, <1>1, NormalizedTyped DEF R, C
<1>4. Typed(R, C, n)
  BY <1>0, <1>2, <1>3, ScannedTyped
<1>5. choice.row \in n.used
  <2>1. Fields(s) /\ Fields(u)
    BY <1>3 DEF Typed, R, C
  <2>2. IsNormalized(u, s, choice)
    BY <2>1, <1>1, NormalizedIs
  <2>3. IsScanned(n, u, choice.column)
    BY <2>1, <1>2, ScannedIs
  <2> QED BY <2>2, <2>3 DEF IsNormalized, IsScanned
<1>6. \/ /\ elim' = Finished(Serially(n, choice), choice.column)
         /\ step' = Resumed
      \/ /\ elim' = n /\ step' = "rows"
         /\ batch' = [tasks |-> Tasks(n, choice), choice |-> choice, done |-> <<>>,
                      before |-> n]
  BY <1>1, <1>2 DEF Pivot
<1>7. Resumed \in {"basis", "matching"}
  BY DEF Resumed
<1>8. CASE elim' = Finished(Serially(n, choice), choice.column) /\ step' = Resumed
  <2>1. PICK t : t = Serially(n, choice)
    OBVIOUS
  <2>2. Typed(R, C, t)
    BY <2>1, <1>0, <1>4, SeriallyTyped
  <2>3. PICK m : m = Finished(t, choice.column)
    OBVIOUS
  <2>4. Typed(R, C, m)
    BY <2>2, <2>3, <1>0, FinishedTyped
  <2> QED BY <2>1, <2>3, <2>4, <1>7, <1>8 DEF R, C
<1>9. CASE /\ elim' = n /\ step' = "rows"
           /\ batch' = [tasks |-> Tasks(n, choice), choice |-> choice, done |-> <<>>,
                        before |-> n]
  <2>1. PICK b : b = [tasks |-> Tasks(n, choice), choice |-> choice, done |-> <<>>,
                      before |-> n]
    OBVIOUS
  <2>2. /\ BatchFields(b) /\ b.tasks = Tasks(n, choice) /\ b.choice = choice
        /\ b.done = <<>> /\ b.before = n
    BY <2>1 DEF BatchFields
  <2>3. /\ b.done \in Seq(DOMAIN b.tasks) /\ DOMAIN b.done = {} /\ ToSet(b.done) = {}
    BY <2>2 DEF ToSet
  <2>4. SameCounts(n, n)
    BY <1>4 DEF Typed, SameCounts
  <2>5. Merged(R, n, choice, Tasks(n, choice), {}, n)
    BY <1>4 DEF Typed, Merged
  <2>6. BatchTyped(R, C, n, b)
    BY <2>2, <2>3, <2>4, <2>5, <1>0, <1>4, <1>5 DEF BatchTyped
  <2> QED BY <2>1, <2>6, <1>4, <1>9 DEF R, C
<1> QED BY <1>6, <1>8, <1>9

\* The tasks of a batch are those of T, each taken once at most and noted when it is.
TasksTaken(b, T) ==
  /\ DOMAIN b.tasks = DOMAIN T /\ Len(b.tasks) = Len(T)
  /\ b.done \in Seq(DOMAIN b.tasks)
  /\ \A k, l \in DOMAIN b.done : b.done[k] = b.done[l] => k = l
  /\ \A k \in DOMAIN b.tasks :
       b.tasks[k] = IF k \in ToSet(b.done) THEN Noted(b.before, b.choice, T[k]) ELSE T[k]

LEMMA BatchIsTyped ==
  ASSUME NEW R, NEW C, NEW s, NEW b, NEW T,
         BatchFields(b) /\ b.choice.row \in R /\ b.choice.column \in C,
         Typed(R, C, b.before) /\ b.choice.row \in b.before.used /\ SameCounts(s, b.before),
         T = Tasks(b.before, b.choice),
         TasksTaken(b, T), Merged(R, b.before, b.choice, T, ToSet(b.done), s)
  PROVE  BatchTyped(R, C, s, b)
BY DEF BatchTyped, TasksTaken

\* A thread takes a row.
LEMMA RowTaken ==
  ASSUME NEW R, NEW C, NEW s, NEW b, BatchTyped(R, C, s, b), Typed(R, C, s),
         NEW i \in DOMAIN b.tasks, i \notin ToSet(b.done),
         NEW m, m = Eliminated(s, b.choice, b.tasks[i]),
         NEW d, d = [b EXCEPT !.tasks[i] = Noted(s, b.choice, b.tasks[i]),
                              !.done = Append(b.done, i)]
  PROVE  BatchTyped(R, C, m, d) /\ Typed(R, C, m)
<1> DEFINE T == Tasks(b.before, b.choice)
           D == ToSet(b.done)
<1>1. /\ BatchFields(b) /\ b.choice.row \in R /\ b.choice.column \in C
      /\ Typed(R, C, b.before) /\ b.choice.row \in b.before.used
      /\ DOMAIN b.tasks = DOMAIN T /\ Len(b.tasks) = Len(T)
      /\ b.done \in Seq(DOMAIN b.tasks)
      /\ \A k, l \in DOMAIN b.done : b.done[k] = b.done[l] => k = l
      /\ SameCounts(s, b.before) /\ Merged(R, b.before, b.choice, T, D, s)
      /\ \A k \in DOMAIN b.tasks :
           b.tasks[k] = IF k \in D THEN Noted(b.before, b.choice, T[k]) ELSE T[k]
  BY DEF BatchTyped
<1>2. Apart(R, b.choice, T)
  BY <1>1, TasksApart
<1>3. b.tasks[i] = T[i] /\ i \in DOMAIN T /\ i \notin D
  BY <1>1
<1>4. D \in SUBSET DOMAIN T
  BY <1>1, SetOfSequence
<1>5. DOMAIN b.tasks = 1 .. Len(b.tasks) /\ Len(b.tasks) \in Nat
  BY <1>1, TasksAre
<1> HIDE DEF T, D
<1>6. Noted(s, b.choice, T[i]) = Noted(b.before, b.choice, T[i])
  BY <1>1, <1>2, <1>3, <1>4, NextRow
<1>7. Fields(s)
  BY <1>1 DEF SameCounts
<1>8. m = Eliminated(s, b.choice, T[i])
  BY <1>3
<1>9. Merged(R, b.before, b.choice, T, D \union {i}, m) /\ SameCounts(m, s)
  BY <1>1, <1>2, <1>3, <1>4, <1>7, <1>8, OneMoreRow
<1>10. SameCounts(m, b.before)
  BY <1>1, <1>9 DEF SameCounts
<1>11. PICK t : t = Noted(b.before, b.choice, T[i])
  OBVIOUS
<1>12. d = [b EXCEPT !.tasks[i] = t, !.done = Append(b.done, i)]
  BY <1>3, <1>6, <1>11
<1>13. /\ BatchFields(d) /\ d.choice = b.choice /\ d.before = b.before
       /\ d.done = Append(b.done, i) /\ d.tasks = [b.tasks EXCEPT ![i] = t]
  BY <1>1, <1>12 DEF BatchFields
<1>14. /\ d.done \in Seq(DOMAIN b.tasks) /\ ToSet(d.done) = D \union {i}
       /\ \A k, l \in DOMAIN d.done : d.done[k] = d.done[l] => k = l
  <2>1. PICK S : S = DOMAIN b.tasks
    OBVIOUS
  <2>2. /\ d.done \in Seq(S) /\ ToSet(d.done) = D \union {i}
        /\ Len(d.done) = Len(b.done) + 1 /\ d.done[Len(b.done) + 1] = i
        /\ \A k \in DOMAIN b.done : d.done[k] = b.done[k]
    BY <2>1, <1>1, <1>13, AppendIs DEF D
  <2>3. /\ DOMAIN b.done = 1 .. Len(b.done) /\ Len(b.done) \in Nat
        /\ DOMAIN d.done = 1 .. Len(d.done)
    BY <2>1, <2>2, <1>1, SequenceIs
  <2>4. \A k \in DOMAIN b.done : d.done[k] # i
    BY <2>2 DEF D, ToSet
  <2>5. ASSUME NEW k \in DOMAIN d.done, NEW l \in DOMAIN d.done, d.done[k] = d.done[l]
        PROVE  k = l
    <3>1. k \in DOMAIN b.done \/ k = Len(b.done) + 1
      BY <2>2, <2>3
    <3>2. l \in DOMAIN b.done \/ l = Len(b.done) + 1
      BY <2>2, <2>3
    <3> QED BY <3>1, <3>2, <2>2, <2>4, <2>5, <1>1
  <2> QED BY <2>1, <2>2, <2>5
<1>15. DOMAIN d.tasks = DOMAIN b.tasks /\ Len(d.tasks) = Len(b.tasks)
  BY <1>5, <1>13
<1>16. ASSUME NEW k \in DOMAIN d.tasks
       PROVE  d.tasks[k] = IF k \in D \union {i} THEN Noted(b.before, b.choice, T[k]) ELSE T[k]
  <2>1. CASE k = i
    BY <2>1, <1>11, <1>13, <1>15
  <2>2. CASE k # i
    BY <2>2, <1>1, <1>13, <1>15
  <2> QED BY <2>1, <2>2
<1>17. BatchTyped(R, C, m, d)
  <2>1. BatchFields(d) /\ d.choice.row \in R /\ d.choice.column \in C
    BY <1>1, <1>13
  <2>2. Typed(R, C, d.before) /\ d.choice.row \in d.before.used /\ SameCounts(m, d.before)
    BY <1>1, <1>10, <1>13
  <2>3. T = Tasks(d.before, d.choice)
    BY <1>13 DEF T
  <2>4. DOMAIN d.tasks = DOMAIN T /\ Len(d.tasks) = Len(T)
    BY <1>1, <1>15
  <2>5. /\ d.done \in Seq(DOMAIN d.tasks)
        /\ \A k, l \in DOMAIN d.done : d.done[k] = d.done[l] => k = l
    BY <1>14, <1>15
  <2>6. Merged(R, d.before, d.choice, T, ToSet(d.done), m)
    BY <1>9, <1>13, <1>14
  <2>7. \A k \in DOMAIN d.tasks :
          d.tasks[k] = IF k \in ToSet(d.done) THEN Noted(d.before, d.choice, T[k]) ELSE T[k]
    BY <1>13, <1>14, <1>16
  <2>8. TasksTaken(d, T)
    BY <2>4, <2>5, <2>7 DEF TasksTaken
  <2> QED BY <2>1, <2>2, <2>3, <2>6, <2>8, BatchIsTyped
<1>18. Typed(R, C, m)
  <2>1. T[i].row \in R
    BY <1>2, <1>3 DEF Apart
  <2> QED BY <2>1, <1>8, EliminatedTyped
<1> QED BY <1>17, <1>18

\* When all rows are done, they and what is committed are those of one thread.
LEMMA BatchAsSerially ==
  ASSUME NEW R, NEW C, IsFiniteSet(C), NEW s, NEW b, BatchTyped(R, C, s, b), Typed(R, C, s),
         Len(b.done) = Len(b.tasks),
         NEW m, m = CommittedAll(s, b.choice, b.tasks)
  PROVE  m = Serially(b.before, b.choice) /\ Typed(R, C, m)
<1> DEFINE T == Tasks(b.before, b.choice)
           D == ToSet(b.done)
<1>1. /\ b.choice.row \in R /\ b.choice.column \in C
      /\ Typed(R, C, b.before) /\ b.choice.row \in b.before.used
      /\ DOMAIN b.tasks = DOMAIN T /\ Len(b.tasks) = Len(T)
      /\ b.done \in Seq(DOMAIN b.tasks)
      /\ \A k, l \in DOMAIN b.done : b.done[k] = b.done[l] => k = l
      /\ SameCounts(s, b.before) /\ Merged(R, b.before, b.choice, T, D, s)
      /\ \A k \in DOMAIN b.tasks :
           b.tasks[k] = IF k \in D THEN Noted(b.before, b.choice, T[k]) ELSE T[k]
  BY DEF BatchTyped
<1>2. Apart(R, b.choice, T)
  BY <1>1, TasksApart
<1>3. PICK n \in Nat : n = Len(T) /\ DOMAIN T = 1 .. n
  BY <1>1, TasksAre
<1>4. D = 1 .. n
  <2>0. b.done \in Seq(1 .. n) /\ Len(b.done) = n
    BY <1>1, <1>3
  <2>1. DOMAIN b.done = 1 .. n /\ \A k \in 1 .. n : b.done[k] \in 1 .. n
    BY <2>0, SequenceIs
  <2>2. IsFiniteSet(1 .. n)
    BY <1>3, FS_Interval
  <2>3. b.done \in [1 .. n -> 1 .. n]
    <3>1. b.done = [k \in DOMAIN b.done |-> b.done[k]]
      BY <1>1
    <3> QED BY <3>1, <2>1
  <2>4. b.done \in Injection(1 .. n, 1 .. n)
    BY <1>1, <2>1, <2>3 DEF Injection, IsInjective
  <2>5. b.done \in Surjection(1 .. n, 1 .. n)
    BY <2>2, <2>4, FS_Injection
  <2>6. \A i \in 1 .. n : \E k \in 1 .. n : b.done[k] = i
    BY <2>5 DEF Surjection
  <2> QED BY <2>1, <2>6 DEF D, ToSet
<1>5. /\ Fields(b.before) /\ b.before.matrix = [r \in R |-> b.before.matrix[r]]
      /\ b.before.rhs = [r \in R |-> b.before.rhs[r]]
  BY <1>1 DEF Typed
<1>6. m = Serially(b.before, b.choice)
  <2>1. DOMAIN Tasks(b.before, b.choice) = 1 .. n
    BY <1>3
  <2>2. Apart(R, b.choice, Tasks(b.before, b.choice))
    BY <1>2
  <2>3. SameCounts(s, b.before) /\ Merged(R, b.before, b.choice, Tasks(b.before, b.choice), 1 .. n, s)
    BY <1>1, <1>4
  <2>4. DOMAIN b.tasks = 1 .. n
    BY <1>1, <1>3
  <2>5. \A i \in 1 .. n : b.tasks[i] = Noted(b.before, b.choice, Tasks(b.before, b.choice)[i])
    BY <1>1, <1>3, <1>4
  <2>6. CommittedAll(s, b.choice, b.tasks) = Serially(b.before, b.choice)
    BY <2>1, <2>2, <2>3, <2>4, <2>5, <1>5, InOrderAsSerially
  <2> QED BY <2>6
<1>7. Typed(R, C, m)
  BY <1>1, <1>6, SeriallyTyped
<1> QED BY <1>6, <1>7

LEMMA QueueSmaller ==
  ASSUME NEW R, NEW C, NEW q, QueueTyped(R, C, q), NEW m, QueueFields(m),
         m.version = q.version, m.matching \subseteq q.matching, m.fallback \subseteq q.fallback
  PROVE  QueueTyped(R, C, m)
<1>1. ASSUME NEW kind \in Kinds, NEW old, old = q[kind], NEW new, new = m[kind],
             new \subseteq old
      PROVE  /\ EntriesTyped(R, C, new)
             /\ \A e \in new : e.version \in Int /\ e.version <= q.version[e.pivot.column]
  <2>1. EntriesTyped(R, C, old)
        /\ \A e \in old : e.version \in Int /\ e.version <= q.version[e.pivot.column]
    BY <1>1 DEF QueueTyped
  <2>2. IsFiniteSet(new)
    BY <1>1, <2>1, FS_Subset DEF EntriesTyped
  <2> QED BY <1>1, <2>1, <2>2 DEF EntriesTyped
<1>2. \A kind \in Kinds : m[kind] \subseteq q[kind]
  BY DEF Kinds
<1>3. \A kind \in Kinds :
        /\ EntriesTyped(R, C, m[kind])
        /\ \A e \in m[kind] : e.version \in Int /\ e.version <= q.version[e.pivot.column]
  BY <1>1, <1>2
<1> QED BY <1>3 DEF QueueTyped

LEMMA RefreshTyped ==
  ASSUME WellFormed(system), NEW s, Typed(Rows, Columns, s), NEW q,
         QueueTyped(Rows, Columns, q), NEW requested, Refresh(s, q, requested)
  PROVE  Typed(Rows, Columns, elim') /\ QueueTyped(Rows, Columns, queue')
<1> DEFINE R == Rows
           C == Columns
           columns == {c \in requested : OfColumn(s, c)}
<1>1. IsFiniteSet(R) /\ IsFiniteSet(C)
  BY SystemIs
<1>2. Typed(R, C, s) /\ QueueTyped(R, C, q)
  OBVIOUS
<1>3. elim' = Rescored(s, requested) /\ queue' = Requeued(s, Versioned(q, columns), columns)
  BY DEF Refresh
<1>4. columns \subseteq C
  BY DEF Typed, OfColumn
<1> HIDE DEF R, C, columns
<1>5. \A m : m = Rescored(s, requested) => Typed(R, C, m)
  BY <1>2, RescoredTyped
<1>6. \A m : m = Requeued(s, Versioned(q, columns), columns) => QueueTyped(R, C, m)
  BY <1>1, <1>2, <1>4, RequeuedTyped
<1> QED BY <1>3, <1>5, <1>6 DEF R, C

LEMMA PivotBasisColumnTyped ==
  ASSUME EliminationTyped, PivotBasisColumn
  PROVE  EliminationTyped'
<1> DEFINE R == Rows
           C == Columns
<1>1. /\ step = "basis" /\ turn <= system.basis /\ turn' = turn + 1
      /\ system' = system /\ queue' = queue
  BY DEF PivotBasisColumn
<1>2. /\ WellFormed(system) /\ Typed(R, C, elim) /\ QueueTyped(R, C, queue)
      /\ turn \in Nat \ {0}
  BY <1>1 DEF EliminationTyped
<1>3. turn \in C /\ IsFiniteSet(R)
  BY <1>1, <1>2, SystemIs
<1>4. PICK s : s = Scanned(elim, turn)
  OBVIOUS
<1>5. Typed(R, C, s)
  BY <1>2, <1>3, <1>4, ScannedTyped
<1>6. \/ elim' = Dismissed(s, turn) /\ step' = step
      \/ \E kind : \E choice \in BestChoice(s, kind, turn) : Pivot(s, choice)
  BY <1>4 DEF PivotBasisColumn
<1>7. /\ Typed(R, C, elim')
      /\ step' = "rows" => BatchTyped(R, C, elim', batch')
  <2>1. CASE elim' = Dismissed(s, turn) /\ step' = step
    <3>1. \A m : m = Dismissed(s, turn) => Typed(R, C, m)
      <4> SUFFICES ASSUME NEW m, m = Dismissed(s, turn) PROVE Typed(R, C, m)
        OBVIOUS
      <4> DEFINE a == s.active \ {turn}
                 i == [s.incidence EXCEPT ![turn] = <<>>]
      <4>1. /\ Fields(s) /\ s.incidence \in [C -> Seq(R)] /\ s.active \subseteq C
        BY <1>5 DEF Typed
      <4>2. i \in [C -> Seq(R)] /\ a \subseteq C
        <5>1. <<>> \in Seq(R)
          OBVIOUS
        <5> QED BY <4>1, <5>1
      <4>3. m = [s EXCEPT !.active = a, !.incidence = i]
        BY <4>1 DEF Dismissed, Fields, FieldNames
      <4> HIDE DEF a, i, R, C
      <4>4. /\ Fields(m) /\ m.active = a /\ m.incidence = i
            /\ m.matrix = s.matrix /\ m.rhs = s.rhs /\ m.rhsNonzeros = s.rhsNonzeros
            /\ m.residual = s.residual /\ m.rowNonzeros = s.rowNonzeros
            /\ m.columnNonzeros = s.columnNonzeros /\ m.used = s.used /\ m.rowMap = s.rowMap
            /\ m.dirty = s.dirty /\ m.dirtyList = s.dirtyList
        BY <4>1, <4>3 DEF Fields, FieldNames
      <4> QED BY <4>2, <4>4, <1>5 DEF Typed
    <3> QED BY <2>1, <3>1, <1>1
  <2>2. ASSUME NEW kind, NEW choice \in BestChoice(s, kind, turn), Pivot(s, choice)
        PROVE  /\ Typed(R, C, elim')
               /\ step' = "rows" => BatchTyped(R, C, elim', batch')
    <3>1. ChoiceTyped(R, C, choice)
      <4> HIDE DEF R, C
      <4> QED BY <1>3, <1>5, BestChoiceIs
    <3> QED BY <2>2, <3>1, <1>2, <1>5, PivotTyped
  <2> QED BY <2>1, <2>2, <1>6
<1> QED BY <1>1, <1>2, <1>7 DEF EliminationTyped, Rows, Columns

LEMMA StartGroupTyped ==
  ASSUME EliminationTyped, StartGroup
  PROVE  EliminationTyped'
<1> DEFINE R == Rows
           C == Columns
           s == [elim EXCEPT !.group = system.groups[turn], !.dirtyList = {}]
           columns == {c \in Columns : OfColumn(s, c) /\ c > system.basis}
           q == [queue EXCEPT !.matching = {}, !.fallback = {}, !.since = 0,
                              !.activeColumns = Cardinality(columns)]
<1>1. /\ step = "group" /\ step' = "matching" /\ system' = system /\ turn' = turn
      /\ Refresh(s, q, columns)
  BY DEF StartGroup
<1>2. /\ WellFormed(system) /\ Typed(R, C, elim) /\ QueueTyped(R, C, queue)
      /\ turn \in Nat \ {0}
  BY <1>1 DEF EliminationTyped
<1> HIDE DEF columns, q
<1>3. Typed(R, C, s)
  BY <1>2 DEF Typed, Fields, FieldNames
<1>4. QueueTyped(R, C, q)
  <2>1. /\ QueueFields(q) /\ q.matching = {} /\ q.fallback = {} /\ q.version = queue.version
    BY <1>2 DEF QueueTyped, QueueFields, QueueNames, q
  <2> HIDE DEF R, C
  <2> QED BY <2>1, <1>2, QueueSmaller
<1> HIDE DEF s
<1>5. Typed(R, C, elim') /\ QueueTyped(R, C, queue')
  BY <1>1, <1>2, <1>3, <1>4, RefreshTyped
<1> QED BY <1>1, <1>2, <1>5 DEF EliminationTyped, Rows, Columns

LEMMA RefreshMarkedTyped ==
  ASSUME WellFormed(system), Typed(Rows, Columns, elim), QueueTyped(Rows, Columns, queue),
         RefreshMarked
  PROVE  Typed(Rows, Columns, elim') /\ QueueTyped(Rows, Columns, queue')
<1> DEFINE s == [elim EXCEPT !.dirtyList = {}]
           q == [queue EXCEPT !.since = 0]
           requested == elim.dirtyList \intersect elim.dirty
<1>1. Refresh(s, q, requested)
  BY DEF RefreshMarked
<1>2. Typed(Rows, Columns, s)
  BY DEF Typed, Fields, FieldNames
<1>3. QueueTyped(Rows, Columns, q)
  <2>1. /\ QueueFields(q) /\ q.matching = queue.matching /\ q.fallback = queue.fallback
        /\ q.version = queue.version
    BY DEF QueueTyped, QueueFields, QueueNames
  <2> HIDE DEF q
  <2> QED BY <2>1, QueueSmaller
<1> HIDE DEF s, q, requested
<1> QED BY <1>1, <1>2, <1>3, RefreshTyped

LEMMA DiscardTyped ==
  ASSUME WellFormed(system), Typed(Rows, Columns, elim), QueueTyped(Rows, Columns, queue),
         NEW kind \in Kinds, Discard(kind)
  PROVE  Typed(Rows, Columns, elim') /\ QueueTyped(Rows, Columns, queue')
<1> DEFINE top == Top(queue[kind])
           q == [queue EXCEPT ![kind] = @ \ {top}]
<1>1. \/ Refresh(elim, q, {top.pivot.column})
      \/ queue' = q /\ elim' = elim
  BY DEF Discard
<1>2. QueueTyped(Rows, Columns, q)
  <2>1. /\ QueueFields(q) /\ q.matching \subseteq queue.matching
        /\ q.fallback \subseteq queue.fallback /\ q.version = queue.version
    BY DEF QueueTyped, QueueFields, QueueNames, Kinds
  <2> HIDE DEF q
  <2> QED BY <2>1, QueueSmaller
<1> HIDE DEF q, top
<1> QED BY <1>1, <1>2, RefreshTyped

LEMMA DrainGroupTyped ==
  ASSUME EliminationTyped, DrainGroup
  PROVE  EliminationTyped'
<1> DEFINE R == Rows
           C == Columns
           columns == {c \in Columns : OfColumn(elim, c) /\ c > system.basis}
           live(r) == {c \in columns : r \in ToSet(LiveRows(elim, c))}
           w == [r \in DOMAIN elim.rowNonzeros |-> elim.rowNonzeros[r] - Cardinality(live(r))]
           a == elim.active \ columns
           n == [c \in DOMAIN elim.columnNonzeros |->
                   IF c \in columns THEN 0 ELSE elim.columnNonzeros[c]]
           i == [c \in DOMAIN elim.incidence |->
                   IF c \in columns THEN <<>> ELSE elim.incidence[c]]
<1>1. /\ step \in {"matching", "fallback"} /\ step' = "group" /\ turn' = turn + 1
      /\ system' = system /\ queue' = queue
  BY DEF DrainGroup, BothSettled, MatchingSettled, Undecided
<1>2. /\ WellFormed(system) /\ Typed(R, C, elim) /\ QueueTyped(R, C, queue)
      /\ turn \in Nat \ {0}
  BY <1>1 DEF EliminationTyped
<1>3. Fields(elim)
  BY <1>2 DEF Typed
<1>4. elim' = [elim EXCEPT !.rowNonzeros = w, !.active = a, !.columnNonzeros = n,
                           !.incidence = i]
  BY <1>3 DEF DrainGroup, Fields, FieldNames
<1>5. \A r : Cardinality(live(r)) \in Int
  <2>1. IsFiniteSet(C)
    BY <1>2, SystemIs
  <2>2. \A r : live(r) \subseteq C
    OBVIOUS
  <2> HIDE DEF live, C
  <2> QED BY <2>1, <2>2, FS_Subset, FS_CardinalityType
<1>6. w \in [R -> Int] /\ n \in [C -> Int] /\ i \in [C -> Seq(R)] /\ a \subseteq C
  <2>1. /\ elim.rowNonzeros \in [R -> Int] /\ elim.columnNonzeros \in [C -> Int]
        /\ elim.incidence \in [C -> Seq(R)] /\ elim.active \subseteq C
    BY <1>2 DEF Typed
  <2> HIDE DEF R, C, columns, live
  <2>2. <<>> \in Seq(R)
    OBVIOUS
  <2>3. w \in [R -> Int]
    BY <2>1, <1>5
  <2>4. n \in [C -> Int]
    BY <2>1
  <2>5. i \in [C -> Seq(R)]
    BY <2>1, <2>2
  <2> QED BY <2>1, <2>3, <2>4, <2>5
<1>7. Typed(R, C, elim')
  <2> HIDE DEF w, a, n, i, R, C
  <2>1. \A m : m = [elim EXCEPT !.rowNonzeros = w, !.active = a, !.columnNonzeros = n,
                                !.incidence = i] => Typed(R, C, m)
    <3> SUFFICES ASSUME NEW m, m = [elim EXCEPT !.rowNonzeros = w, !.active = a,
                                                !.columnNonzeros = n, !.incidence = i]
                 PROVE  Typed(R, C, m)
      OBVIOUS
    <3>1. /\ Fields(m) /\ m.rowNonzeros = w /\ m.active = a /\ m.columnNonzeros = n
          /\ m.incidence = i
          /\ m.matrix = elim.matrix /\ m.rhs = elim.rhs /\ m.rhsNonzeros = elim.rhsNonzeros
          /\ m.residual = elim.residual /\ m.used = elim.used /\ m.rowMap = elim.rowMap
          /\ m.dirty = elim.dirty /\ m.dirtyList = elim.dirtyList
      BY <1>3 DEF Fields, FieldNames
    <3> QED BY <3>1, <1>2, <1>6 DEF Typed
  <2> QED BY <2>1, <1>4
<1> QED BY <1>1, <1>2, <1>7 DEF EliminationTyped, Rows, Columns

LEMMA ChoosePivotTyped ==
  ASSUME EliminationTyped, ChoosePivot
  PROVE  EliminationTyped'
<1> DEFINE entries == IF queue.matching # {} THEN queue.matching ELSE queue.fallback
           q == [queue EXCEPT !.activeColumns = @ - 1, !.since = @ + 1]
<1>1. /\ step \in {"matching", "fallback"} /\ Pivot(elim, Top(entries).pivot)
      /\ entries # {} /\ queue' = q /\ system' = system /\ turn' = turn
  BY DEF ChoosePivot, BothSettled, MatchingSettled, Undecided, NoChoice
<1>2. /\ WellFormed(system) /\ Typed(Rows, Columns, elim) /\ QueueTyped(Rows, Columns, queue)
      /\ turn \in Nat \ {0}
  BY <1>1 DEF EliminationTyped
<1>3. QueueTyped(Rows, Columns, q)
  <2>1. /\ QueueFields(q) /\ q.matching = queue.matching /\ q.fallback = queue.fallback
        /\ q.version = queue.version
    BY <1>2 DEF QueueTyped, QueueFields, QueueNames
  <2> HIDE DEF q
  <2> QED BY <2>1, <1>2, QueueSmaller
<1>4. EntriesTyped(Rows, Columns, entries)
  BY <1>2 DEF QueueTyped, Kinds
<1> HIDE DEF entries, q
<1>5. ChoiceTyped(Rows, Columns, Top(entries).pivot)
  BY <1>1, <1>2, <1>4, SystemIs, TopIs
<1>6. Typed(Rows, Columns, elim') /\ (step' = "rows" => BatchTyped(Rows, Columns, elim', batch'))
  BY <1>1, <1>2, <1>5, PivotTyped
<1> QED BY <1>1, <1>2, <1>3, <1>6 DEF EliminationTyped, Rows, Columns

LEMMA EliminateRowTyped ==
  ASSUME EliminationTyped, NEW i, EliminateRow(i)
  PROVE  EliminationTyped'
<1>1. /\ step = "rows" /\ step' = step /\ i \in DOMAIN batch.tasks
      /\ i \notin ToSet(batch.done)
      /\ elim' = Eliminated(elim, batch.choice, batch.tasks[i])
      /\ batch' = [batch EXCEPT !.tasks[i] = Noted(elim, batch.choice, batch.tasks[i]),
                                !.done = Append(batch.done, i)]
      /\ system' = system /\ queue' = queue /\ turn' = turn
  BY DEF EliminateRow
<1>2. /\ WellFormed(system) /\ Typed(Rows, Columns, elim) /\ QueueTyped(Rows, Columns, queue)
      /\ turn \in Nat \ {0} /\ BatchTyped(Rows, Columns, elim, batch)
  BY <1>1 DEF EliminationTyped
<1>3. BatchTyped(Rows, Columns, elim', batch') /\ Typed(Rows, Columns, elim')
  BY <1>1, <1>2, RowTaken
<1> QED BY <1>1, <1>2, <1>3 DEF EliminationTyped, Rows, Columns

LEMMA CommitRowsIs ==
  ASSUME EliminationTyped, CommitRows
  PROVE  /\ EliminationTyped'
         /\ elim' = Finished(Serially(batch.before, batch.choice), batch.choice.column)
<1>1. PICK m : m = CommittedAll(elim, batch.choice, batch.tasks)
  OBVIOUS
<1>2. /\ step = "rows" /\ step' = Resumed /\ Len(batch.done) = Len(batch.tasks)
      /\ elim' = Finished(m, batch.choice.column)
      /\ system' = system /\ queue' = queue /\ turn' = turn
  BY <1>1 DEF CommitRows, InOrder, CommittedAll
<1>3. /\ WellFormed(system) /\ Typed(Rows, Columns, elim) /\ QueueTyped(Rows, Columns, queue)
      /\ turn \in Nat \ {0} /\ BatchTyped(Rows, Columns, elim, batch)
  BY <1>2 DEF EliminationTyped
<1>4. m = Serially(batch.before, batch.choice) /\ Typed(Rows, Columns, m)
  BY <1>1, <1>2, <1>3, SystemIs, BatchAsSerially
<1>5. batch.choice.column \in Columns
  BY <1>3 DEF BatchTyped
<1>6. \A f : f = Finished(m, batch.choice.column) => Typed(Rows, Columns, f)
  BY <1>4, <1>5, FinishedTyped
<1>7. step' # "rows"
  BY <1>2 DEF Resumed
<1> QED BY <1>2, <1>3, <1>4, <1>6, <1>7 DEF EliminationTyped, Rows, Columns

LEMMA EliminateTyped ==
  ASSUME EliminationTyped, Eliminate
  PROVE  EliminationTyped'
<1>1. CASE LeaveBasis \/ SolvedEarly
  BY <1>1 DEF LeaveBasis, SolvedEarly, EliminationTyped, Rows, Columns
<1>2. CASE RefreshDue \/ RefreshRest \/ DiscardMatching \/ DiscardFallback
  <2>1. /\ step # "done" /\ step' # "rows" /\ system' = system /\ turn' = turn
        /\ RefreshMarked \/ Discard("matching") \/ Discard("fallback")
    BY <1>2 DEF RefreshDue, RefreshRest, DiscardMatching, DiscardFallback, Undecided,
                BothSettled, MatchingSettled
  <2>2. /\ WellFormed(system) /\ Typed(Rows, Columns, elim)
        /\ QueueTyped(Rows, Columns, queue) /\ turn \in Nat \ {0}
    BY <2>1 DEF EliminationTyped
  <2>3. "matching" \in Kinds /\ "fallback" \in Kinds
    BY DEF Kinds
  <2>4. Typed(Rows, Columns, elim') /\ QueueTyped(Rows, Columns, queue')
    BY <2>1, <2>2, <2>3, RefreshMarkedTyped, DiscardTyped
  <2> QED BY <2>1, <2>2, <2>4 DEF EliminationTyped, Rows, Columns
<1>3. CASE Finish
  BY <1>3 DEF Finish, EliminationTyped
<1> QED BY <1>1, <1>2, <1>3, PivotBasisColumnTyped, StartGroupTyped, DrainGroupTyped,
           ChoosePivotTyped, EliminateRowTyped, CommitRowsIs DEF Eliminate

-----------------------------------------------------------------------------
(***************************************************************************)
(* The planner.                                                            *)
(***************************************************************************)
LEMMA PartOfFinite ==
  ASSUME NEW S, IsFiniteSet(S), NEW T, T \subseteq S
  PROVE  IsFiniteSet(T) /\ Cardinality(T) \in Int
<1>1. IsFiniteSet(T)
  BY FS_Subset
<1>2. Cardinality(T) \in Nat
  BY <1>1, FS_CardinalityType
<1> QED BY <1>1, <1>2

LEMMA StartedTyped ==
  ASSUME NEW input, WellFormed(input)
  PROVE  /\ Typed(DOMAIN input.matrix, DOMAIN input.columnGroup,
                  Started(input.matrix, input.rhs, DOMAIN input.columnGroup))
         /\ QueueTyped(DOMAIN input.matrix, DOMAIN input.columnGroup,
                       NoQueue(DOMAIN input.columnGroup))
<1> DEFINE R == DOMAIN input.matrix
           C == DOMAIN input.columnGroup
           with(c) == {r \in R : c \in DOMAIN input.matrix[r]}
           a == [r \in R |-> Nonzeros(input.rhs[r])]
           b == Cardinality({r \in R : Nonzeros(input.rhs[r]) # 0})
           i == [c \in C |-> Ascending(with(c))]
           w == [r \in R |-> Cardinality(DOMAIN input.matrix[r])]
           n == [c \in C |-> Cardinality(with(c))]
<1>2. /\ IsFiniteSet(R) /\ R \subseteq Int
      /\ input.matrix = [r \in R |-> input.matrix[r]] /\ input.rhs = [r \in R |-> input.rhs[r]]
      /\ \A r \in R : DOMAIN input.matrix[r] \subseteq C /\ IsFiniteSet(DOMAIN input.rhs[r])
  BY DEF WellFormed
<1>3. IsFiniteSet(C)
  BY FS_Interval DEF WellFormed
<1>4. \A c : with(c) \subseteq R /\ IsFiniteSet(with(c))
  <2>1. \A c : with(c) \subseteq R
    OBVIOUS
  <2> HIDE DEF with, R
  <2> QED BY <2>1, <1>2, FS_Subset
<1>5. i \in [C -> Seq(R)] /\ n \in [C -> Int]
  <2> HIDE DEF with, R, C
  <2>1. ASSUME NEW c \in C PROVE Ascending(with(c)) \in Seq(R) /\ Cardinality(with(c)) \in Int
    <3>1. with(c) \subseteq Int
      BY <1>2, <1>4
    <3>2. Ascending(with(c)) \in Seq(with(c))
      BY <3>1, <1>4, AscendingIs
    <3>3. Cardinality(with(c)) \in Int
      BY <1>4, FS_CardinalityType
    <3> QED BY <3>2, <3>3, <1>4
  <2> QED BY <2>1
<1>6. a \in [R -> Int] /\ b \in Int
  <2>1. \A r \in R : Nonzeros(input.rhs[r]) \in Int
    <3> SUFFICES ASSUME NEW r \in R PROVE Nonzeros(input.rhs[r]) \in Int
      OBVIOUS
    <3> DEFINE T == {t \in DOMAIN input.rhs[r] : input.rhs[r][t] # 0}
    <3>1. T \subseteq DOMAIN input.rhs[r] /\ IsFiniteSet(DOMAIN input.rhs[r])
      BY <1>2
    <3> HIDE DEF T
    <3>2. Cardinality(T) \in Int
      BY <3>1, PartOfFinite
    <3> QED BY <3>2 DEF Nonzeros, T
  <2>2. b \in Int
    <3> DEFINE T == {r \in R : Nonzeros(input.rhs[r]) # 0}
    <3>1. T \subseteq R
      OBVIOUS
    <3> HIDE DEF T, R
    <3>2. Cardinality(T) \in Int
      BY <3>1, <1>2, PartOfFinite
    <3> QED BY <3>2 DEF T
  <2> HIDE DEF R, b
  <2> QED BY <2>1, <2>2
<1>7. w \in [R -> Int]
  <2>1. \A r \in R : Cardinality(DOMAIN input.matrix[r]) \in Int
    <3> HIDE DEF R, C
    <3> QED BY <1>2, <1>3, PartOfFinite
  <2> HIDE DEF R
  <2> QED BY <2>1
<1>8. PICK s : s = Started(input.matrix, input.rhs, C)
  OBVIOUS
<1>9. /\ Fields(s) /\ s.matrix = input.matrix /\ s.rhs = input.rhs /\ s.rhsNonzeros = a
      /\ s.residual = b /\ s.incidence = i /\ s.rowNonzeros = w /\ s.columnNonzeros = n
      /\ s.active = C /\ s.used = {} /\ s.rowMap = <<>> /\ s.dirty = {} /\ s.dirtyList = {}
  <2>1. s = [matrix |-> input.matrix, rhs |-> input.rhs, rhsNonzeros |-> a, residual |-> b,
             incidence |-> i, rowNonzeros |-> w, columnNonzeros |-> n, active |-> C,
             used |-> {}, rowMap |-> <<>>, columns |-> <<>>, group |-> 0, dirty |-> {},
             dirtyList |-> {}, operations |-> <<>>]
    BY <1>8 DEF Started
  <2> HIDE DEF a, b, i, w, n, C
  <2> QED BY <2>1 DEF Fields, FieldNames
<1>10. Typed(R, C, s)
  <2>1. s.rowMap \in Seq(R) /\ ToSet(s.rowMap) = s.used
    BY <1>9 DEF ToSet
  <2> HIDE DEF a, b, i, w, n, R, C
  <2> QED BY <2>1, <1>2, <1>5, <1>6, <1>7, <1>9 DEF Typed
<1>11. PICK q : q = NoQueue(C)
  OBVIOUS
<1>12. QueueTyped(R, C, q)
  <2>1. /\ QueueFields(q) /\ q.matching = {} /\ q.fallback = {}
        /\ q.version = [c \in C |-> 0]
    BY <1>11 DEF NoQueue, QueueFields, QueueNames
  <2>2. IsFiniteSet({})
    BY FS_EmptySet
  <2> QED BY <2>1, <2>2 DEF QueueTyped, EntriesTyped, Kinds
<1> QED BY <1>8, <1>10, <1>11, <1>12

LEMMA LoadTyped ==
  ASSUME NEW input, WellFormed(input), Load(input)
  PROVE  EliminationTyped' /\ step' = "basis"
<1>1. /\ system' = input /\ step' = "basis" /\ turn' = 1 /\ batch' = NoBatch
      /\ elim' = Started(input.matrix, input.rhs, DOMAIN input.columnGroup)
      /\ queue' = NoQueue(DOMAIN input.columnGroup)
  BY DEF Load
<1> QED BY <1>1, StartedTyped DEF EliminationTyped, Rows, Columns

LEMMA InputWellFormed ==
  ASSUME NEW src, SourceTyped(src), NEW project
  PROVE  WellFormed(MarkowitzInput(src, project))
<1> DEFINE order == AllRelations(src)
           n == Basis(src)
           C == ColumnsOf(src, order)
           R == DOMAIN src.rowGroup
           groups == ColumnGroups(src, order)
           K == {k \in DOMAIN src.groups : \E c \in C : c > n /\ groups[c] = src.groups[k]}
           kept == Ascending(K)
           ordered == [k \in DOMAIN kept |-> src.groups[kept[k]]]
           priority == [c \in C |-> IF c <= n THEN c ELSE n + RankAmong(src, c - n)]
           complexity == [c \in C |-> IF c <= n THEN 0 ELSE src.relations[c - n].dots]
<1>1. PICK y : y = MarkowitzInput(src, project)
  OBVIOUS
<1>2. y = [matrix |-> ProbeMatrix(src, order), rhs |-> ProbeRhs(src, project), basis |-> n,
           rowGroup |-> src.rowGroup, columnGroup |-> groups, groups |-> ordered,
           priority |-> priority, complexity |-> complexity, order |-> src.order]
  BY <1>1 DEF MarkowitzInput
<1>3. PICK l \in Nat : l = Len(src.relations) /\ DOMAIN src.relations = 1 .. l
  BY DEF SourceTyped, IsSequence
<1>4. n \in Nat
  BY DEF SourceTyped, IsSequence, Basis
<1>5. Len(order) = l
  BY <1>3 DEF AllRelations
<1>6. C = 1 .. n + l /\ n + l \in Nat
  BY <1>3, <1>4, <1>5 DEF ColumnsOf
<1> HIDE DEF order, n, C
<1>7. /\ DOMAIN groups = C
      /\ ProbeMatrix(src, order) = [r \in R |-> ProbeMatrix(src, order)[r]]
      /\ \A r \in R : DOMAIN ProbeMatrix(src, order)[r] \subseteq C
  BY DEF ColumnGroups, ProbeMatrix, C
<1>8. /\ ProbeRhs(src, project) = [r \in R |-> ProbeRhs(src, project)[r]]
      /\ \A r \in R : ProbeRhs(src, project)[r] = TargetValues(src, r, project)
  BY DEF ProbeRhs
<1>9. \A r \in R : IsFiniteSet(DOMAIN TargetValues(src, r, project))
  <2>1. PICK t \in Nat : DOMAIN src.targets = 1 .. t
    BY DEF SourceTyped, IsSequence
  <2>2. IsFiniteSet(1 .. t)
    BY FS_Interval
  <2>4. 1 \in Int /\ 2 \in Int
    OBVIOUS
  <2>5. IsFiniteSet(1 .. 2)
    BY <2>4, FS_Interval
  <2>3. \A r : DOMAIN TargetValues(src, r, project) = 1 .. t
                  \/ DOMAIN TargetValues(src, r, project) = 1 .. 2
    BY <2>1 DEF TargetValues
  <2> QED BY <2>2, <2>3, <2>5
<1>10. priority \in [C -> Int]
  <2>1. \A j : RankAmong(src, j) \in Int
    <3> SUFFICES ASSUME NEW j PROVE RankAmong(src, j) \in Int
      OBVIOUS
    <3> DEFINE T == {k \in DOMAIN src.relations :
                       src.relations[k].rank <= src.relations[j].rank}
    <3>1. T \subseteq 1 .. l /\ IsFiniteSet(1 .. l)
      BY <1>3, FS_Interval
    <3> HIDE DEF T
    <3>2. Cardinality(T) \in Int
      BY <3>1, PartOfFinite
    <3> QED BY <3>2 DEF RankAmong, T
  <2> QED BY <2>1, <1>4, <1>6
<1>11. complexity \in [C -> Int]
  <2>1. ASSUME NEW c \in C PROVE (IF c <= n THEN 0 ELSE src.relations[c - n].dots) \in Int
    <3>1. CASE c <= n
      BY <3>1
    <3>2. CASE ~(c <= n)
      <4>1. c - n \in DOMAIN src.relations
        BY <3>2, <1>3, <1>4, <1>6
      <4> QED BY <3>2, <4>1 DEF SourceTyped
    <3> QED BY <3>1, <3>2
  <2> QED BY <2>1
<1>12. /\ DOMAIN ordered = 1 .. Len(ordered) /\ Len(ordered) \in Nat
  <2>1. PICK g \in Nat : DOMAIN src.groups = 1 .. g
    BY DEF SourceTyped, IsSequence
  <2>2. K \subseteq 1 .. g /\ IsFiniteSet(1 .. g)
    BY <2>1, FS_Interval
  <2> HIDE DEF K
  <2>9. IsFiniteSet(K)
    BY <2>2, PartOfFinite
  <2>5. K \subseteq Int /\ IsFiniteSet(K)
    BY <2>1, <2>2, <2>9
  <2>6. kept \in Seq(K)
    BY <2>5, AscendingIs
  <2> HIDE DEF kept
  <2>7. DOMAIN kept = 1 .. Len(kept) /\ Len(kept) \in Nat
    BY <2>6, SequenceIs
  <2>10. DOMAIN ordered = 1 .. Len(ordered) /\ Len(ordered) = Len(kept)
    BY <2>7
  <2> QED BY <2>7, <2>10
<1> HIDE DEF groups, ordered, priority, complexity, K, kept
<1>13. /\ y.matrix = ProbeMatrix(src, order) /\ y.rhs = ProbeRhs(src, project) /\ y.basis = n
       /\ y.columnGroup = groups /\ y.groups = ordered /\ y.priority = priority
       /\ y.complexity = complexity /\ y.order = src.order
  BY <1>2
<1>14. /\ DOMAIN y.matrix = R /\ DOMAIN y.columnGroup = C
  BY <1>7, <1>13
<1>15. /\ R \subseteq Int /\ IsFiniteSet(R)
       /\ src.order \in {"Ignore", "Ascending", "Descending"}
  BY DEF SourceTyped
<1>16. \A r \in R : DOMAIN y.matrix[r] \subseteq C /\ IsFiniteSet(DOMAIN y.rhs[r])
  BY <1>7, <1>8, <1>9, <1>13
<1>17. y.matrix = [r \in R |-> y.matrix[r]] /\ y.rhs = [r \in R |-> y.rhs[r]]
  BY <1>7, <1>8, <1>13
<1>18. n \in 0 .. n + l
  BY <1>4, <1>3
<1> HIDE DEF R
<1>19. WellFormed(y)
  BY <1>6, <1>10, <1>11, <1>12, <1>13, <1>14, <1>15, <1>16, <1>17, <1>18 DEF WellFormed
<1> QED BY <1>1, <1>19

PlannerTyped ==
  /\ SourceTyped(source) /\ SourceTyped(whole)
  /\ phase \in {"plan", "local"} \/ step = "done"
  /\ EliminationTyped

LEMMA LocalSourceTyped ==
  ASSUME NEW src, SourceTyped(src), NEW order, NEW ids, ids = WithinRows(src, Envelope(src, order))
  PROVE  SourceTyped(LocalSource(src, Envelope(src, order), Ascending(ids)))
<1> DEFINE rows == Envelope(src, order)
           kept == Ascending(ids)
           relations == [j \in DOMAIN kept |-> src.relations[kept[j]]]
           rowGroup == [r \in rows |-> src.rowGroup[r]]
<1>1. PICK m : m = LocalSource(src, rows, kept)
  OBVIOUS
<1>2. /\ DOMAIN src = SourceNames
      /\ IsFiniteSet(DOMAIN src.rowGroup) /\ DOMAIN src.rowGroup \subseteq Int
      /\ AreColumns(src.basis) /\ AreColumns(src.targets)
      /\ IsSequence(src.relations) /\ IsSequence(src.groups)
      /\ \A i \in DOMAIN src.relations :
           src.relations[i].dots \in Int /\ IsColumn(src.relations[i].terms)
      /\ \A k \in DOMAIN src.groups : src.groups[k] # 0
      /\ src.order \in {"Ignore", "Ascending", "Descending"}
  BY DEF SourceTyped
<1>3. rows \subseteq DOMAIN src.rowGroup /\ ids \subseteq DOMAIN src.relations
  BY DEF Envelope, WithinRows
<1>4. PICK l \in Nat : DOMAIN src.relations = 1 .. l
  BY <1>2 DEF IsSequence
<1>5. IsFiniteSet(ids) /\ ids \subseteq Int
  <2>1. IsFiniteSet(1 .. l)
    BY FS_Interval
  <2> QED BY <2>1, <1>3, <1>4, FS_Subset
<1>6. kept \in Seq(ids)
  BY <1>5, AscendingIs
<1>7. m = [src EXCEPT !.relations = relations, !.rowGroup = rowGroup, !.check = FALSE,
                      !.capture = FALSE]
  BY <1>1 DEF LocalSource
<1> HIDE DEF rows, kept
<1>8. DOMAIN kept = 1 .. Len(kept) /\ Len(kept) \in Nat /\ \A k \in DOMAIN kept : kept[k] \in ids
  BY <1>6, SequenceIs
<1>9. /\ IsSequence(relations)
      /\ \A i \in DOMAIN relations :
           relations[i].dots \in Int /\ IsColumn(relations[i].terms)
  <2>1. Len(relations) = Len(kept) /\ DOMAIN relations = 1 .. Len(kept)
    BY <1>8
  <2> QED BY <2>1, <1>2, <1>3, <1>8 DEF IsSequence
<1>10. DOMAIN rowGroup = rows /\ IsFiniteSet(rows) /\ rows \subseteq Int
  BY <1>2, <1>3, FS_Subset
<1> HIDE DEF relations, rowGroup
<1>11. /\ DOMAIN m = SourceNames /\ m.relations = relations /\ m.rowGroup = rowGroup
       /\ m.basis = src.basis /\ m.targets = src.targets /\ m.groups = src.groups
       /\ m.order = src.order
  BY <1>2, <1>7 DEF SourceNames
<1>12. SourceTyped(m)
  BY <1>2, <1>9, <1>10, <1>11 DEF SourceTyped
<1> QED BY <1>1, <1>12 DEF rows, kept

LEMMA PlannerStepTyped ==
  ASSUME PlannerTyped, [Next]_vars
  PROVE  PlannerTyped'
<1>0. /\ SourceTyped(source) /\ SourceTyped(whole)
      /\ phase \in {"plan", "local"} \/ step = "done"
      /\ EliminationTyped
  BY DEF PlannerTyped
<1>1. CASE EliminateStep
  <2>1. /\ Eliminate /\ source' = source /\ whole' = whole /\ phase \in {"plan", "local"}
        /\ phase' = phase
    BY <1>1 DEF EliminateStep
  <2> QED BY <2>1, <1>0, EliminateTyped DEF PlannerTyped
<1>2. CASE Conclude
  <2>1. /\ step = "done" /\ phase \in {"plan", "local"} /\ source' = source /\ whole' = whole
        /\ \/ \E result : Return(result)
           \/ PlanInFull
    BY <1>2 DEF Conclude, EliminationDone
  <2>2. CASE \E result : Return(result)
    BY <2>1, <2>2, <1>0 DEF Return, elimVars, PlannerTyped, EliminationTyped
  <2>3. CASE PlanInFull
    <3>1. Load(MarkowitzInput(source, FALSE)) /\ phase' = phase
      BY <2>3 DEF PlanInFull
    <3>2. EliminationTyped'
      BY <3>1, <1>0, InputWellFormed, LoadTyped
    <3> QED BY <2>1, <3>1, <3>2, <1>0 DEF PlannerTyped
  <2> QED BY <2>1, <2>2, <2>3
<1>3. CASE Reuse
  <2>1. /\ phase = "planned" /\ phase' = "reused" /\ whole' = source'
        /\ system' = system /\ elim' = elim /\ queue' = queue /\ batch' = batch
        /\ step' = step /\ turn' = turn
    BY <1>3 DEF Reuse, elimVars
  <2>2. PICK basis \in LaterBases, targets \in LaterTargets, check \in BOOLEAN :
          source' = [source EXCEPT !.basis = basis, !.targets = targets, !.check = check,
                                   !.capture = FALSE]
    BY <1>3 DEF Reuse
  <2>3. AreColumns(basis) /\ AreColumns(targets)
    BY SourcesAssumption
  <2>4. SourceTyped(source')
    BY <2>2, <2>3, <1>0 DEF SourceTyped, SourceNames
  <2>5. step = "done"
    BY <2>1, <1>0
  <2> QED BY <2>1, <2>4, <2>5 DEF PlannerTyped, EliminationTyped
<1>4. CASE Reselect
  <2> DEFINE rows == Envelope(source, answer.order)
             ids == WithinRows(source, rows)
  <2>1. /\ source' = LocalSource(source, rows, Ascending(ids))
        /\ Load(MarkowitzInput(source', projected')) /\ phase' = "local" /\ whole' = whole
    BY <1>4 DEF Reselect
  <2>2. SourceTyped(source')
    BY <2>1, <1>0, LocalSourceTyped
  <2>3. EliminationTyped'
    BY <2>1, <2>2, InputWellFormed, LoadTyped
  <2> QED BY <2>1, <2>2, <2>3, <1>0 DEF PlannerTyped
<1>5. CASE FallBack
  <2>1. /\ source' = whole /\ whole' = whole /\ phase' = "plan"
        /\ Load(MarkowitzInput(whole, projected'))
    BY <1>5 DEF FallBack
  <2>2. EliminationTyped'
    BY <2>1, <1>0, InputWellFormed, LoadTyped
  <2> QED BY <2>1, <2>2, <1>0 DEF PlannerTyped
<1>6. CASE Rest \/ UNCHANGED vars
  <2>1. /\ source' = source /\ whole' = whole /\ phase' = phase
        /\ system' = system /\ elim' = elim /\ queue' = queue /\ batch' = batch
        /\ step' = step /\ turn' = turn
    BY <1>6 DEF Rest, vars, elimVars
  <2> QED BY <2>1, <1>0 DEF PlannerTyped, EliminationTyped, Rows, Columns
<1> QED BY <1>1, <1>2, <1>3, <1>4, <1>5, <1>6 DEF Next

LEMMA PlannerStarts ==
  ASSUME Init
  PROVE  PlannerTyped
<1>1. /\ source \in Sources /\ whole = source /\ phase = "plan" /\ step = "basis" /\ turn = 1
      /\ system = MarkowitzInput(source, projected) /\ batch = NoBatch
      /\ elim = Started(system.matrix, system.rhs, DOMAIN system.columnGroup)
      /\ queue = NoQueue(DOMAIN system.columnGroup)
  BY DEF Init
<1>2. SourceTyped(source) /\ SourceTyped(whole)
  BY <1>1, SourcesAssumption
<1>3. WellFormed(system)
  BY <1>1, <1>2, InputWellFormed
<1>4. EliminationTyped
  BY <1>1, <1>3, StartedTyped DEF EliminationTyped, Rows, Columns
<1> QED BY <1>1, <1>2, <1>4 DEF PlannerTyped

-----------------------------------------------------------------------------
(***************************************************************************)
(* What the counters count.                                                *)
(***************************************************************************)
\* The rows that are left and have an entry in a column, or a right-hand side.
Holders(R, s, c) == {r \in R \ s.used : c \in DOMAIN s.matrix[r]}
Unsolved(R, s) == {r \in R \ s.used : Nonzeros(s.rhs[r]) # 0}

RowCounted(s, r) ==
  /\ DOMAIN s.matrix[r] \subseteq s.active
  /\ s.rowNonzeros[r] = Cardinality(DOMAIN s.matrix[r])
  /\ s.rhsNonzeros[r] = Nonzeros(s.rhs[r])

ColumnCounted(R, s, c) ==
  /\ s.columnNonzeros[c] = Cardinality(Holders(R, s, c))
  /\ Holders(R, s, c) \subseteq ToSet(s.incidence[c])

\* CountersFollow but for some columns.
Counts(R, s, done) ==
  /\ s.residual = Cardinality(Unsolved(R, s))
  /\ \A r \in R \ s.used : RowCounted(s, r)
  /\ \A c \in s.active \ done : ColumnCounted(R, s, c)

\* While the rows of a pivot are eliminated: those that are still to come.
Midway(R, s, choice, rest) ==
  /\ choice.row \in s.used /\ choice.column \in s.active
  /\ Counts(R, s, {choice.column})
  /\ Holders(R, s, choice.column) = rest
  /\ system.columnGroup[choice.column] = s.group => choice.column \in s.dirty

\* The columns of the group whose choices are up to date.
Unmarked(s) == {c \in s.active \ s.dirty : system.columnGroup[c] = s.group}

\* The choices of a column are what they were.
Alike(m, s, c) ==
  /\ m.columnNonzeros[c] = s.columnNonzeros[c]
  /\ Recorded(m, c) = Recorded(s, c)
  /\ \A r \in Recorded(s, c) : m.rowNonzeros[r] = s.rowNonzeros[r]

\* What changes the choices of a column marks it.
Marks(m, s) ==
  /\ m.group = s.group /\ m.active \subseteq s.active
  /\ s.dirty \subseteq m.dirty /\ s.dirtyList \subseteq m.dirtyList
  /\ m.dirty \ s.dirty \subseteq m.dirtyList
  /\ \A c \in Unmarked(m) : Alike(m, s, c)

LEMMA MarksChain ==
  ASSUME NEW m, NEW s, NEW p, Marks(m, s), Marks(s, p)
  PROVE  Marks(m, p)
<1>1. \A c \in Unmarked(m) : c \in Unmarked(s)
  BY DEF Marks, Unmarked
<1>2. \A c \in Unmarked(m) : Alike(m, p, c)
  <2> SUFFICES ASSUME NEW c \in Unmarked(m) PROVE Alike(m, p, c)
    OBVIOUS
  <2>1. Alike(m, s, c) /\ Alike(s, p, c)
    BY <1>1 DEF Marks
  <2> QED BY <2>1 DEF Alike
<1> QED BY <1>2 DEF Marks

LEMMA MarksSelf ==
  ASSUME NEW s
  PROVE  Marks(s, s)
BY DEF Marks, Alike

\* The choices of a column depend on nothing else.
LEMMA SameChoices ==
  ASSUME NEW R, NEW C, NEW s, NEW m, Typed(R, C, s), Typed(R, C, m), NEW c \in C, Alike(m, s, c),
         NEW kind
  PROVE  BestChoice(m, kind, c) = BestChoice(s, kind, c)
<1>1. s.incidence[c] \in Seq(R) /\ m.incidence[c] \in Seq(R)
  BY DEF Typed
<1>2. ToSet(LiveRows(m, c)) = Recorded(m, c) /\ ToSet(LiveRows(s, c)) = Recorded(s, c)
  BY <1>1, LiveRowsAre
<1>3. \A r \in Recorded(s, c) : /\ Candidate(m, c, r) = Candidate(s, c, r)
                                /\ m.rowNonzeros[r] = s.rowNonzeros[r]
  BY DEF Alike, Candidate
<1>4. Candidates(m, c) = Candidates(s, c)
  <2>1. Recorded(m, c) = Recorded(s, c)
    BY DEF Alike
  <2>2. /\ Candidates(m, c) = {Candidate(m, c, r) : r \in {q \in Recorded(s, c) : m.rowNonzeros[q] # 0}}
        /\ Candidates(s, c) = {Candidate(s, c, r) : r \in {q \in Recorded(s, c) : s.rowNonzeros[q] # 0}}
    BY <1>2, <2>1 DEF Candidates
  <2> QED BY <2>2, <1>3
<1> QED BY <1>4 DEF BestChoice

\* A column with a row that is left has a choice.
LEMMA ChoiceExists ==
  ASSUME NEW R, NEW C, IsFiniteSet(R), IsFiniteSet(C), ScoresTyped(R, C), NEW s, Typed(R, C, s),
         NEW c \in C, BestChoice(s, "fallback", c) = {}, \A r \in Holders(R, s, c) : RowCounted(s, r),
         Holders(R, s, c) \subseteq ToSet(s.incidence[c])
  PROVE  Holders(R, s, c) = {}
<1> DEFINE U == Candidates(s, c)
           G == {e \in U \X U : Better(e[1], e[2])}
<1>1. /\ IsFiniteSet(U)
      /\ \A k \in U : \E r \in R : r \in Recorded(s, c) /\ k = Candidate(s, c, r)
      /\ \A r \in Recorded(s, c) : s.rowNonzeros[r] # 0 => Candidate(s, c, r) \in U
  BY CandidatesAre
<1>2. \A k \in U : /\ ChoiceTyped(R, C, k) /\ k.column = c /\ k.row \in R
                   /\ k = Candidate(s, c, k.row)
  BY <1>1, CandidateTyped
<1>3. Best(U) = {}
  BY DEF BestChoice, Best
<1> HIDE DEF U
<1>4. U = {}
  <2>1. SUFFICES ASSUME U # {} PROVE FALSE
    OBVIOUS
  <2>2. \A a \in U : <<a, a>> \notin G
    BY <1>2, BetterOrders
  <2>3. ASSUME NEW a \in U, NEW b \in U, NEW d \in U, <<a, b>> \in G, <<b, d>> \in G
        PROVE  <<a, d>> \in G
    <3>1. Better(a, b) /\ Better(b, d)
      BY <2>3
    <3>2. ChoiceTyped(R, C, a) /\ ChoiceTyped(R, C, b) /\ ChoiceTyped(R, C, d)
      BY <1>2
    <3>3. Better(a, d)
      BY <3>1, <3>2, BetterOrders
    <3> QED BY <3>3
  <2>4. PICK e \in U : \A f \in U : <<f, e>> \notin G
    <3> HIDE DEF G
    <3> QED BY <1>1, <2>1, <2>2, <2>3, MinimalElement
  <2>5. ASSUME NEW f \in U, f # e PROVE Better(e, f)
    <3>1. ~Better(f, e)
      BY <2>4
    <3>2. f.row # e.row
      BY <1>2, <2>5
    <3>3. ChoiceTyped(R, C, f) /\ ChoiceTyped(R, C, e)
      BY <1>2
    <3> QED BY <3>1, <3>2, <3>3, BetterOrders
  <2> QED BY <2>5, <1>3 DEF Best
<1>5. ASSUME NEW r \in Holders(R, s, c) PROVE FALSE
  <2>1. r \in Recorded(s, c)
    BY DEF Recorded, Live, Holders
  <2>2. s.rowNonzeros[r] = 0
    BY <2>1, <1>1, <1>4
  <2>3. /\ s.rowNonzeros[r] = Cardinality(DOMAIN s.matrix[r]) /\ c \in DOMAIN s.matrix[r]
        /\ DOMAIN s.matrix[r] \subseteq C
    BY DEF RowCounted, Holders, Typed
  <2>4. IsFiniteSet(DOMAIN s.matrix[r])
    BY <2>3, PartOfFinite
  <2>5. DOMAIN s.matrix[r] = {}
    BY <2>2, <2>3, <2>4, FS_EmptySet
  <2> QED BY <2>3, <2>5
<1> QED BY <1>5

-----------------------------------------------------------------------------
(***************************************************************************)
(* One row of a pivot.                                                     *)
(***************************************************************************)
\* What a row does to the system, in terms of the columns it gains and loses.
IsRowStep(m, s, choice, task, fresh, removed, after, nonzeros) ==
  /\ after = DOMAIN m.matrix[task.row] /\ after \subseteq s.active \ {choice.column}
  /\ fresh = after \ (DOMAIN s.matrix[task.row] \ {choice.column})
  /\ removed = ((DOMAIN s.matrix[task.row] \ {choice.column}) \intersect s.active) \ after
  /\ m.active = s.active /\ m.used = s.used /\ m.group = s.group /\ m.rowMap = s.rowMap
  /\ m.columns = s.columns
  /\ \A r : r # task.row => m.matrix[r] = s.matrix[r] /\ m.rhs[r] = s.rhs[r]
  /\ DOMAIN m.rhs[task.row] = DOMAIN s.rhs[task.row]
  /\ m.incidence = [c \in DOMAIN s.incidence |->
                      IF c \in fresh THEN Append(s.incidence[c], task.row) ELSE s.incidence[c]]
  /\ m.columnNonzeros = [c \in DOMAIN s.columnNonzeros |->
                           CASE c \in fresh   -> s.columnNonzeros[c] + 1
                             [] c \in removed -> s.columnNonzeros[c] - 1
                             [] OTHER         -> s.columnNonzeros[c]]
  /\ m.rowNonzeros = [s.rowNonzeros EXCEPT ![task.row] = Cardinality(after)]
  /\ m.rhsNonzeros = [s.rhsNonzeros EXCEPT ![task.row] = nonzeros]
  /\ m.residual = s.residual + ResidualChange(s.rhsNonzeros[task.row], nonzeros)
  /\ m.dirty = s.dirty \union Marked(s, fresh \union removed \union after)
  /\ m.dirtyList = s.dirtyList \union Marked(s, fresh \union removed \union after)
  /\ nonzeros = task.rhsNonzeros
                  + Cardinality(Gained(s.rhs[task.row], m.rhs[task.row]))
                  - Cardinality(Lost(s.rhs[task.row], m.rhs[task.row]))

\* The system when the row of a task is merged.
IsEliminated(m, s, choice, task) ==
  /\ Fields(m)
  /\ m.rhsNonzeros = s.rhsNonzeros /\ m.residual = s.residual
  /\ m.incidence = s.incidence /\ m.rowNonzeros = s.rowNonzeros
  /\ m.columnNonzeros = s.columnNonzeros /\ m.active = s.active
  /\ m.used = s.used /\ m.rowMap = s.rowMap /\ m.columns = s.columns /\ m.group = s.group
  /\ m.dirty = s.dirty /\ m.dirtyList = s.dirtyList
  /\ m.matrix = [s.matrix EXCEPT ![task.row] = MergedRow(s, choice, task)]
  /\ m.rhs = [s.rhs EXCEPT ![task.row] = MergedRhs(s, choice, task)]

LEMMA EliminationIs ==
  ASSUME NEW s, Fields(s), NEW choice, NEW task, NEW m, m = Eliminated(s, choice, task)
  PROVE  IsEliminated(m, s, choice, task)
BY EliminatedIs DEF IsEliminated

LEMMA RowStepIs ==
  ASSUME NEW R, NEW C, NEW s, Typed(R, C, s), NEW choice, NEW task, TaskFields(task),
         task.row \in R, NEW m, m = SerialStep(s, choice, task)
  PROVE  \E fresh, removed, after, nonzeros :
           IsRowStep(m, s, choice, task, fresh, removed, after, nonzeros)
<1> DEFINE row == MergedRow(s, choice, task)
           rhs == MergedRhs(s, choice, task)
<1>1. PICK e, t : e = Eliminated(s, choice, task) /\ t = Noted(s, choice, task)
  OBVIOUS
<1>2. m = Committed(e, choice, t)
  BY <1>1 DEF SerialStep
<1>3. Fields(s) /\ s.matrix = [r \in R |-> s.matrix[r]] /\ s.rhs = [r \in R |-> s.rhs[r]]
  BY DEF Typed
<1>4. DOMAIN row \subseteq s.active \ {choice.column} /\ DOMAIN rhs = DOMAIN s.rhs[task.row]
  BY DEF MergedRow, MergedRhs
<1> HIDE DEF row, rhs
<1>5. /\ Fields(e)
      /\ e.rhsNonzeros = s.rhsNonzeros /\ e.residual = s.residual
      /\ e.incidence = s.incidence /\ e.rowNonzeros = s.rowNonzeros
      /\ e.columnNonzeros = s.columnNonzeros /\ e.active = s.active
      /\ e.used = s.used /\ e.rowMap = s.rowMap /\ e.columns = s.columns /\ e.group = s.group
      /\ e.dirty = s.dirty /\ e.dirtyList = s.dirtyList
      /\ e.matrix = [s.matrix EXCEPT ![task.row] = row]
      /\ e.rhs = [s.rhs EXCEPT ![task.row] = rhs]
  <2>1. IsEliminated(e, s, choice, task)
    BY <1>1, <1>3, EliminationIs
  <2> QED BY <2>1 DEF IsEliminated, row, rhs
<1>6. IsNoted(t, s, choice, task)
  BY <1>1, NotedIs
<1>7. IsCommitted(m, e, choice, t)
  BY <1>2, <1>5, CommittedIs
<1>8. e.matrix[task.row] = row /\ e.rhs[task.row] = rhs
  BY <1>3, <1>5
<1>9. /\ t.row = task.row /\ t.fresh = DOMAIN row \ (DOMAIN s.matrix[task.row] \ {choice.column})
      /\ t.removed = ((DOMAIN s.matrix[task.row] \ {choice.column}) \intersect s.active)
                       \ DOMAIN row
      /\ t.rhsNonzeros = task.rhsNonzeros + Cardinality(Gained(s.rhs[task.row], rhs))
                                          - Cardinality(Lost(s.rhs[task.row], rhs))
  BY <1>6 DEF IsNoted, Former, row, rhs
<1>10. PICK fresh, removed, after, nonzeros :
         fresh = t.fresh /\ removed = t.removed /\ after = DOMAIN row /\ nonzeros = t.rhsNonzeros
  OBVIOUS
<1>11. /\ m.matrix = e.matrix /\ m.rhs = e.rhs /\ m.active = e.active /\ m.used = e.used
       /\ m.rowMap = e.rowMap /\ m.columns = e.columns /\ m.group = e.group
       /\ m.incidence = [c \in DOMAIN e.incidence |->
                           IF c \in fresh THEN Append(e.incidence[c], task.row)
                           ELSE e.incidence[c]]
       /\ m.rowNonzeros = [e.rowNonzeros EXCEPT ![task.row] = Cardinality(after)]
       /\ m.rhsNonzeros = [e.rhsNonzeros EXCEPT ![task.row] = nonzeros]
       /\ m.residual = e.residual + ResidualChange(e.rhsNonzeros[task.row], nonzeros)
  BY <1>7, <1>8, <1>9, <1>10 DEF IsCommitted
<1>12. m.columnNonzeros = [c \in DOMAIN s.columnNonzeros |->
                             CASE c \in fresh   -> s.columnNonzeros[c] + 1
                               [] c \in removed -> s.columnNonzeros[c] - 1
                               [] OTHER         -> s.columnNonzeros[c]]
  BY <1>5, <1>7, <1>10 DEF IsCommitted, Counted
<1>13. /\ m.dirty = s.dirty \union Marked(s, fresh \union removed \union after)
       /\ m.dirtyList = s.dirtyList \union Marked(s, fresh \union removed \union after)
  <2>1. AffectedColumns(e, t) = fresh \union removed \union after
    BY <1>8, <1>9, <1>10 DEF AffectedColumns
  <2>2. Marked(e, AffectedColumns(e, t)) = Marked(s, fresh \union removed \union after)
    BY <2>1, <1>5 DEF Marked
  <2> QED BY <2>2, <1>5, <1>7 DEF IsCommitted
<1>14. /\ \A r : r # task.row => m.matrix[r] = s.matrix[r] /\ m.rhs[r] = s.rhs[r]
       /\ m.matrix[task.row] = row /\ m.rhs[task.row] = rhs
  BY <1>3, <1>5, <1>8, <1>11
<1>15. IsRowStep(m, s, choice, task, fresh, removed, after, nonzeros)
  BY <1>4, <1>5, <1>9, <1>10, <1>11, <1>12, <1>13, <1>14 DEF IsRowStep
<1> QED BY <1>15

\* A row that was eliminated leaves the counts as they should be, and its columns marked.
RowIsDone(R, m, s, choice, rest, task) ==
  /\ Midway(R, m, choice, rest \ {task.row})
  /\ Marks(m, s) /\ m.rowMap = s.rowMap
  /\ \A r \in R : r # task.row => m.rhsNonzeros[r] = s.rhsNonzeros[r]

LEMMA HoldersChange ==
  ASSUME NEW R, IsFiniteSet(R), NEW C, NEW s, Typed(R, C, s), NEW choice, NEW task, NEW m,
         task.row \in R \ s.used,
         NEW fresh, NEW removed, NEW after, NEW nonzeros,
         IsRowStep(m, s, choice, task, fresh, removed, after, nonzeros),
         DOMAIN s.matrix[task.row] \subseteq s.active,
         NEW c \in s.active, c # choice.column, ColumnCounted(R, s, c)
  PROVE  ColumnCounted(R, m, c)
<1> DEFINE before == DOMAIN s.matrix[task.row]
           O == Holders(R, s, c)
           N == Holders(R, m, c)
<1>1. /\ c \in C /\ s.incidence \in [C -> Seq(R)] /\ s.columnNonzeros \in [C -> Int]
      /\ O \subseteq R
  BY DEF Typed, Holders
<1>2. /\ after = DOMAIN m.matrix[task.row] /\ after \subseteq s.active \ {choice.column}
      /\ fresh = after \ (before \ {choice.column})
      /\ removed = ((before \ {choice.column}) \intersect s.active) \ after
      /\ m.used = s.used
      /\ \A r : r # task.row => m.matrix[r] = s.matrix[r]
      /\ m.incidence[c] = IF c \in fresh THEN Append(s.incidence[c], task.row) ELSE s.incidence[c]
      /\ m.columnNonzeros[c] = CASE c \in fresh   -> s.columnNonzeros[c] + 1
                                 [] c \in removed -> s.columnNonzeros[c] - 1
                                 [] OTHER         -> s.columnNonzeros[c]
  <2>1. /\ m.incidence = [k \in DOMAIN s.incidence |->
                           IF k \in fresh THEN Append(s.incidence[k], task.row) ELSE s.incidence[k]]
        /\ m.columnNonzeros = [k \in DOMAIN s.columnNonzeros |->
                                CASE k \in fresh   -> s.columnNonzeros[k] + 1
                                  [] k \in removed -> s.columnNonzeros[k] - 1
                                  [] OTHER         -> s.columnNonzeros[k]]
    BY DEF IsRowStep
  <2>2. c \in DOMAIN s.incidence /\ c \in DOMAIN s.columnNonzeros
    BY <1>1
  <2>3. /\ after = DOMAIN m.matrix[task.row] /\ after \subseteq s.active \ {choice.column}
        /\ fresh = after \ (before \ {choice.column})
        /\ removed = ((before \ {choice.column}) \intersect s.active) \ after
        /\ m.used = s.used
        /\ \A r : r # task.row => m.matrix[r] = s.matrix[r]
    BY DEF IsRowStep
  <2> QED BY <2>1, <2>2, <2>3
<1>3. /\ c \in fresh <=> c \in after /\ c \notin before
      /\ c \in removed <=> c \in before /\ c \notin after
  BY <1>2
<1>4. IsFiniteSet(O)
  BY <1>1, PartOfFinite
<1>5. Cardinality(O) \in Nat
  BY <1>4, FS_CardinalityType
<1>6. s.columnNonzeros[c] = Cardinality(O) /\ O \subseteq ToSet(s.incidence[c])
  BY DEF ColumnCounted
<1>7. CASE c \in fresh
  <2>1. N = O \union {task.row} /\ task.row \notin O
    BY <1>2, <1>3, <1>7 DEF Holders
  <2>2. Cardinality(N) = Cardinality(O) + 1
    BY <2>1, <1>4, FS_AddElement
  <2>3. ToSet(m.incidence[c]) = ToSet(s.incidence[c]) \union {task.row}
    <3>1. s.incidence[c] \in Seq(R) /\ task.row \in R
      BY <1>1
    <3> QED BY <3>1, <1>2, <1>7, AppendIs
  <2> HIDE DEF O, N
  <2>4. m.columnNonzeros[c] = Cardinality(N)
    BY <2>2, <1>2, <1>6, <1>7
  <2> QED BY <2>1, <2>3, <2>4, <1>6 DEF ColumnCounted, N
<1>8. CASE c \in removed
  <2>1. N = O \ {task.row} /\ task.row \in O
    BY <1>2, <1>3, <1>8 DEF Holders
  <2>2. Cardinality(N) = Cardinality(O) - 1
    BY <2>1, <1>4, FS_RemoveElement
  <2>3. c \notin fresh
    BY <1>3, <1>8
  <2> HIDE DEF O, N
  <2>4. m.columnNonzeros[c] = Cardinality(N)
    BY <2>2, <2>3, <1>2, <1>6, <1>8
  <2> QED BY <2>1, <2>3, <2>4, <1>2, <1>6 DEF ColumnCounted, N
<1>9. CASE c \notin fresh /\ c \notin removed
  <2>1. N = O
    BY <1>2, <1>3, <1>9 DEF Holders
  <2> HIDE DEF O, N
  <2> QED BY <2>1, <1>2, <1>6, <1>9 DEF ColumnCounted, N
<1> QED BY <1>7, <1>8, <1>9

LEMMA RhsChange ==
  ASSUME NEW R, IsFiniteSet(R), NEW C, NEW s, Typed(R, C, s), NEW choice, NEW task, NEW m,
         task.row \in R \ s.used,
         NEW fresh, NEW removed, NEW after, NEW nonzeros,
         IsRowStep(m, s, choice, task, fresh, removed, after, nonzeros),
         task.rhsNonzeros = s.rhsNonzeros[task.row],
         s.rhsNonzeros[task.row] = Nonzeros(s.rhs[task.row]),
         s.residual = Cardinality(Unsolved(R, s))
  PROVE  /\ m.rhsNonzeros[task.row] = Nonzeros(m.rhs[task.row])
         /\ m.residual = Cardinality(Unsolved(R, m))
<1> DEFINE old == s.rhs[task.row]
           new == m.rhs[task.row]
           O == {t \in DOMAIN old : old[t] # 0}
           L == Lost(old, new)
           G == Gained(old, new)
           N == {t \in DOMAIN new : new[t] # 0}
<1>1. /\ IsFiniteSet(DOMAIN old) /\ task.row \in R /\ s.rhsNonzeros \in [R -> Int]
      /\ s.rhsNonzeros[task.row] = Cardinality(O)
  BY DEF Typed, Nonzeros
<1>2. /\ DOMAIN new = DOMAIN old /\ m.used = s.used
      /\ \A r : r # task.row => m.rhs[r] = s.rhs[r]
      /\ m.rhsNonzeros = [s.rhsNonzeros EXCEPT ![task.row] = nonzeros]
      /\ m.residual = s.residual + ResidualChange(s.rhsNonzeros[task.row], nonzeros)
      /\ nonzeros = task.rhsNonzeros + Cardinality(G) - Cardinality(L)
  BY DEF IsRowStep
<1>3. /\ O \subseteq DOMAIN old /\ G \subseteq DOMAIN old /\ L \subseteq O
      /\ G \cap O = {} /\ N = (O \ L) \cup G
  BY <1>2 DEF Lost, Gained
<1> HIDE DEF O, L, G
<1>4. IsFiniteSet(O) /\ IsFiniteSet(G)
  BY <1>1, <1>3, PartOfFinite
<1>5. /\ Cardinality(N) = Cardinality(O) + Cardinality(G) - Cardinality(L)
      /\ Cardinality(N) \in Nat /\ Cardinality(O) \in Nat /\ IsFiniteSet(N)
  <2> HIDE DEF N
  <2>1. Cardinality(N) = Cardinality(O) + Cardinality(G) - Cardinality(L)
    BY <1>3, <1>4, Balance
  <2>2. IsFiniteSet(N)
    BY <1>3, <1>4, Balance
  <2>3. Cardinality(N) \in Nat /\ Cardinality(O) \in Nat
    BY <2>2, <1>4, FS_CardinalityType
  <2> QED BY <2>1, <2>2, <2>3
<1>6. nonzeros = Cardinality(N)
  BY <1>1, <1>2, <1>5
<1>7. m.rhsNonzeros[task.row] = nonzeros
  BY <1>1, <1>2
<1>8. Nonzeros(new) = nonzeros /\ Nonzeros(old) = Cardinality(O)
  BY <1>6 DEF Nonzeros, O
<1> DEFINE A == Unsolved(R, s)
           B == Unsolved(R, m)
           change == ResidualChange(Cardinality(O), nonzeros)
<1>9. IsFiniteSet(A) /\ Cardinality(A) \in Nat
  <2>1. A \subseteq R
    BY DEF Unsolved
  <2>2. IsFiniteSet(A)
    BY <2>1, PartOfFinite
  <2> QED BY <2>2, FS_CardinalityType
<1>10. m.residual = Cardinality(A) + change
  BY <1>1, <1>2
<1>11. /\ task.row \in A <=> Cardinality(O) # 0
       /\ task.row \in B <=> nonzeros # 0
       /\ \A r : r # task.row => (r \in A <=> r \in B)
  BY <1>2, <1>8 DEF Unsolved
<1>12. m.residual = Cardinality(B)
  <2> HIDE DEF A, B
  <2>1. CASE Cardinality(O) = 0 /\ nonzeros # 0
    <3>1. B = A \union {task.row} /\ task.row \notin A
      BY <2>1, <1>11
    <3>2. Cardinality(B) = Cardinality(A) + 1
      BY <3>1, <1>9, FS_AddElement
    <3> QED BY <2>1, <3>2, <1>10 DEF ResidualChange
  <2>2. CASE Cardinality(O) # 0 /\ nonzeros = 0
    <3>1. B = A \ {task.row} /\ task.row \in A
      BY <2>2, <1>11
    <3>2. Cardinality(B) = Cardinality(A) - 1
      BY <3>1, <1>9, FS_RemoveElement
    <3> QED BY <2>2, <3>2, <1>9, <1>10 DEF ResidualChange
  <2>3. CASE (Cardinality(O) = 0) <=> (nonzeros = 0)
    <3>1. B = A
      BY <2>3, <1>11
    <3>2. change = 0
      BY <2>3 DEF ResidualChange
    <3> QED BY <3>1, <3>2, <1>9, <1>10
  <2> QED BY <2>1, <2>2, <2>3
<1> QED BY <1>7, <1>8, <1>12

LEMMA RowEliminated ==
  ASSUME NEW R, IsFiniteSet(R), NEW C, NEW s, Typed(R, C, s), NEW choice, NEW rest,
         Midway(R, s, choice, rest), NEW task, TaskFields(task), task.row \in rest,
         task.rhsNonzeros = s.rhsNonzeros[task.row],
         NEW m, m = SerialStep(s, choice, task)
  PROVE  RowIsDone(R, m, s, choice, rest, task)
<1>1. /\ choice.row \in s.used /\ choice.column \in s.active
      /\ s.residual = Cardinality(Unsolved(R, s))
      /\ \A r \in R \ s.used : RowCounted(s, r)
      /\ \A c \in s.active \ {choice.column} : ColumnCounted(R, s, c)
      /\ Holders(R, s, choice.column) = rest
      /\ system.columnGroup[choice.column] = s.group => choice.column \in s.dirty
  BY DEF Midway, Counts
<1>2. task.row \in R \ s.used /\ choice.column \in DOMAIN s.matrix[task.row]
  BY <1>1 DEF Holders
<1>3. PICK fresh, removed, after, nonzeros :
        IsRowStep(m, s, choice, task, fresh, removed, after, nonzeros)
  BY <1>2, RowStepIs
<1> DEFINE before == DOMAIN s.matrix[task.row]
<1>4. /\ before \subseteq s.active /\ s.rhsNonzeros[task.row] = Nonzeros(s.rhs[task.row])
      /\ s.rowNonzeros \in [R -> Int] /\ s.rhsNonzeros \in [R -> Int]
  BY <1>1, <1>2 DEF RowCounted, Typed
<1>5. /\ after = DOMAIN m.matrix[task.row] /\ after \subseteq s.active \ {choice.column}
      /\ m.active = s.active /\ m.used = s.used /\ m.group = s.group /\ m.rowMap = s.rowMap
      /\ \A r : r # task.row => m.matrix[r] = s.matrix[r] /\ m.rhs[r] = s.rhs[r]
      /\ m.rowNonzeros = [s.rowNonzeros EXCEPT ![task.row] = Cardinality(after)]
      /\ m.rhsNonzeros = [s.rhsNonzeros EXCEPT ![task.row] = nonzeros]
  BY <1>3 DEF IsRowStep
<1>6. /\ m.rhsNonzeros[task.row] = Nonzeros(m.rhs[task.row])
      /\ m.residual = Cardinality(Unsolved(R, m))
  BY <1>1, <1>2, <1>3, <1>4, RhsChange
<1>7. ASSUME NEW r \in R \ m.used PROVE RowCounted(m, r)
  <2>1. CASE r = task.row
    BY <2>1, <1>2, <1>4, <1>5, <1>6 DEF RowCounted
  <2>2. CASE r # task.row
    <3>1. RowCounted(s, r)
      BY <1>1, <1>5, <1>7
    <3> QED BY <2>2, <3>1, <1>4, <1>5 DEF RowCounted
  <2> QED BY <2>1, <2>2
<1>8. ASSUME NEW c \in m.active \ {choice.column} PROVE ColumnCounted(R, m, c)
  <2>1. c \in s.active /\ c # choice.column /\ ColumnCounted(R, s, c)
    BY <1>1, <1>5
  <2> QED BY <2>1, <1>2, <1>3, <1>4, HoldersChange
<1>9. Holders(R, m, choice.column) = rest \ {task.row}
  BY <1>1, <1>2, <1>5 DEF Holders
<1>10. /\ m.dirty = s.dirty \union Marked(s, fresh \union removed \union after)
       /\ m.dirtyList = s.dirtyList \union Marked(s, fresh \union removed \union after)
  BY <1>3 DEF IsRowStep
<1>11. Midway(R, m, choice, rest \ {task.row})
  BY <1>1, <1>5, <1>6, <1>7, <1>8, <1>9, <1>10 DEF Midway, Counts
<1>12. ASSUME NEW c \in Unmarked(m) PROVE Alike(m, s, c)
  <2>1. /\ c \in s.active /\ c \notin s.dirty /\ system.columnGroup[c] = s.group
        /\ c \notin fresh \union removed \union after
    BY <1>5, <1>10 DEF Unmarked, Marked
  <2>2. c # choice.column
    BY <2>1, <1>1
  <2>3. c \notin before /\ c \notin after
    BY <2>1, <2>2, <1>3, <1>4 DEF IsRowStep
  <2>4. m.incidence[c] = s.incidence[c] /\ m.columnNonzeros[c] = s.columnNonzeros[c]
    <3>1. c \in DOMAIN s.incidence /\ c \in DOMAIN s.columnNonzeros
      BY <2>1 DEF Typed
    <3> QED BY <2>1, <3>1, <1>3 DEF IsRowStep
  <2>5. Recorded(m, c) = Recorded(s, c)
    BY <2>3, <2>4, <1>5 DEF Recorded, Live
  <2>6. \A r \in Recorded(s, c) : m.rowNonzeros[r] = s.rowNonzeros[r]
    <3>1. \A r \in Recorded(s, c) : r # task.row
      BY <2>3 DEF Recorded, Live
    <3> QED BY <3>1, <1>5
  <2> QED BY <2>4, <2>5, <2>6 DEF Alike
<1>13. Marks(m, s)
  BY <1>5, <1>10, <1>12 DEF Marks
<1>14. \A r \in R : r # task.row => m.rhsNonzeros[r] = s.rhsNonzeros[r]
  BY <1>4, <1>5
<1> QED BY <1>5, <1>11, <1>13, <1>14 DEF RowIsDone

-----------------------------------------------------------------------------
(***************************************************************************)
(* A pivot: its row leaves the counts, its column is scanned, the rows are *)
(* eliminated and the column is done.                                      *)
(***************************************************************************)
\* All rows of the pivot are found.
RowsFound(R, s, choice) ==
  /\ Midway(R, s, choice, Holders(R, s, choice.column))
  /\ Holders(R, s, choice.column) \subseteq ToSet(s.incidence[choice.column])

LEMMA RowsLeave ==
  ASSUME NEW R, IsFiniteSet(R), NEW C, NEW s, Typed(R, C, s), Counts(R, s, {}),
         NEW choice, choice.row \in R, choice.row \notin s.used,
         choice.column \in DOMAIN s.matrix[choice.row],
         NEW u, u = Normalized(s, choice)
  PROVE  RowsFound(R, u, choice) /\ Marks(u, s) /\ u.rowMap = Append(s.rowMap, choice.row)
<1> DEFINE p == choice.row
<1>1. /\ s.residual = Cardinality(Unsolved(R, s))
      /\ \A r \in R \ s.used : RowCounted(s, r)
      /\ \A c \in s.active : ColumnCounted(R, s, c)
  BY DEF Counts
<1>2. /\ Fields(s) /\ s.matrix = [r \in R |-> s.matrix[r]] /\ s.rhs = [r \in R |-> s.rhs[r]]
      /\ s.rowNonzeros \in [R -> Int] /\ s.columnNonzeros \in [C -> Int]
      /\ s.active \subseteq C
  BY DEF Typed
<1>3. DOMAIN s.matrix[p] \subseteq s.active /\ s.rhsNonzeros[p] = Nonzeros(s.rhs[p])
  BY <1>1 DEF RowCounted
<1>4. Touched(s, p) = DOMAIN s.matrix[p]
  BY <1>3 DEF Touched
<1>5. IsNormalized(u, s, choice)
  BY <1>2, NormalizedIs
<1>6. /\ u.rhsNonzeros = s.rhsNonzeros /\ u.incidence = s.incidence
      /\ u.active = s.active /\ u.group = s.group
      /\ u.residual = IF s.rhsNonzeros[p] # 0 THEN s.residual - 1 ELSE s.residual
      /\ u.used = s.used \union {p} /\ u.rowMap = Append(s.rowMap, p)
      /\ u.columnNonzeros = [c \in DOMAIN s.columnNonzeros |->
                               IF c \in DOMAIN s.matrix[p] THEN s.columnNonzeros[c] - 1
                               ELSE s.columnNonzeros[c]]
      /\ u.rowNonzeros = [s.rowNonzeros EXCEPT ![p] = 0]
      /\ u.dirty = s.dirty \union Marked(s, DOMAIN s.matrix[p])
      /\ u.dirtyList = s.dirtyList \union Marked(s, DOMAIN s.matrix[p])
  BY <1>4, <1>5 DEF IsNormalized
<1>7. \A r : r # p => u.matrix[r] = s.matrix[r] /\ u.rhs[r] = s.rhs[r]
  <2>1. /\ \E row : u.matrix = [s.matrix EXCEPT ![p] = row]
        /\ \E row : u.rhs = [s.rhs EXCEPT ![p] = row]
    BY <1>5 DEF IsNormalized
  <2> QED BY <2>1
<1> HIDE DEF p
<1>8. u.residual = Cardinality(Unsolved(R, u))
  <2>1. IsFiniteSet(Unsolved(R, s))
    <3>1. Unsolved(R, s) \subseteq R
      BY DEF Unsolved
    <3> QED BY <3>1, PartOfFinite
  <2>2. Unsolved(R, u) = Unsolved(R, s) \ {p}
    BY <1>6, <1>7 DEF Unsolved
  <2>3. p \in Unsolved(R, s) <=> s.rhsNonzeros[p] # 0
    BY <1>3 DEF Unsolved, p
  <2>4. CASE p \in Unsolved(R, s)
    <3>1. Cardinality(Unsolved(R, u)) = Cardinality(Unsolved(R, s)) - 1
      BY <2>1, <2>2, <2>4, FS_RemoveElement
    <3> QED BY <3>1, <2>3, <2>4, <1>1, <1>6
  <2>5. CASE p \notin Unsolved(R, s)
    <3>1. Unsolved(R, u) = Unsolved(R, s)
      BY <2>2, <2>5
    <3> QED BY <3>1, <2>3, <2>5, <1>1, <1>6
  <2> QED BY <2>4, <2>5
<1>9. ASSUME NEW r \in R \ u.used PROVE RowCounted(u, r)
  <2>1. r # p /\ RowCounted(s, r)
    BY <1>1, <1>6
  <2> QED BY <2>1, <1>2, <1>6, <1>7 DEF RowCounted
<1>10. \A c : Holders(R, u, c) = Holders(R, s, c) \ {p}
  BY <1>6, <1>7 DEF Holders
<1>11. ASSUME NEW c \in u.active PROVE ColumnCounted(R, u, c)
  <2>1. ColumnCounted(R, s, c) /\ c \in C
    BY <1>1, <1>2, <1>6
  <2>2. Holders(R, s, c) \subseteq R
    BY DEF Holders
  <2>3. IsFiniteSet(Holders(R, s, c))
    BY <2>2, PartOfFinite
  <2>4. CASE c \in DOMAIN s.matrix[p]
    <3>1. p \in Holders(R, s, c)
      BY <2>4 DEF Holders, p
    <3>2. Cardinality(Holders(R, u, c)) = Cardinality(Holders(R, s, c)) - 1
      BY <3>1, <2>3, <1>10, FS_RemoveElement
    <3>3. u.columnNonzeros[c] = s.columnNonzeros[c] - 1
      BY <2>1, <2>4, <1>2, <1>6
    <3> QED BY <3>2, <3>3, <2>1, <1>6, <1>10 DEF ColumnCounted
  <2>5. CASE c \notin DOMAIN s.matrix[p]
    <3>1. Holders(R, u, c) = Holders(R, s, c)
      BY <2>5, <1>10 DEF Holders
    <3>2. u.columnNonzeros[c] = s.columnNonzeros[c]
      BY <2>1, <2>5, <1>2, <1>6
    <3> QED BY <3>1, <3>2, <2>1, <1>6 DEF ColumnCounted
  <2> QED BY <2>4, <2>5
<1>12. choice.column \in DOMAIN s.matrix[p] /\ choice.column \in s.active
  BY <1>3 DEF p
<1>13. RowsFound(R, u, choice)
  <2>1. system.columnGroup[choice.column] = u.group => choice.column \in u.dirty
    BY <1>6, <1>12 DEF Marked
  <2>2. choice.row \in u.used /\ choice.column \in u.active
    BY <1>6, <1>12 DEF p
  <2>3. Counts(R, u, {choice.column})
    BY <1>8, <1>9, <1>11 DEF Counts
  <2>4. Holders(R, u, choice.column) \subseteq ToSet(u.incidence[choice.column])
    BY <2>2, <1>11 DEF ColumnCounted
  <2> QED BY <2>1, <2>2, <2>3, <2>4 DEF RowsFound, Midway
<1>14. ASSUME NEW c \in Unmarked(u) PROVE Alike(u, s, c)
  <2>1. /\ c \in s.active /\ system.columnGroup[c] = s.group
        /\ c \notin DOMAIN s.matrix[p] /\ c \in C
    BY <1>2, <1>6 DEF Unmarked, Marked
  <2>2. u.columnNonzeros[c] = s.columnNonzeros[c]
    BY <2>1, <1>2, <1>6
  <2>3. Recorded(u, c) = Recorded(s, c)
    BY <2>1, <1>6, <1>7 DEF Recorded, Live
  <2>4. \A r \in Recorded(s, c) : u.rowNonzeros[r] = s.rowNonzeros[r]
    BY <2>1, <1>6 DEF Recorded, Live
  <2> QED BY <2>2, <2>3, <2>4 DEF Alike
<1>15. Marks(u, s)
  BY <1>6, <1>14 DEF Marks
<1> QED BY <1>6, <1>13, <1>15 DEF p

\* A scan leaves out only what is gone.
LEMMA ScanKeeps ==
  ASSUME NEW R, NEW C, NEW s, Typed(R, C, s), NEW c \in C, NEW m, m = Scanned(s, c)
  PROVE  /\ \A k : Recorded(m, k) = Recorded(s, k)
         /\ \A k : Holders(R, m, k) = Holders(R, s, k)
         /\ \A k : Holders(R, s, k) \subseteq ToSet(s.incidence[k])
                     => Holders(R, m, k) \subseteq ToSet(m.incidence[k])
<1>1. Fields(s) /\ s.incidence \in [C -> Seq(R)]
  BY DEF Typed
<1>2. IsScanned(m, s, c)
  BY <1>1, ScannedIs
<1>3. /\ m.matrix = s.matrix /\ m.used = s.used
      /\ m.incidence = [s.incidence EXCEPT ![c] = LiveRows(s, c)]
  BY <1>2 DEF IsScanned
<1>4. ToSet(LiveRows(s, c)) = Recorded(s, c)
  <2>1. s.incidence[c] \in Seq(R)
    BY <1>1
  <2> QED BY <2>1, LiveRowsAre
<1>5. /\ ToSet(m.incidence[c]) = Recorded(s, c)
      /\ \A k : k # c => m.incidence[k] = s.incidence[k]
  BY <1>1, <1>3, <1>4
<1>6. \A k, r : Live(m, k, r) <=> Live(s, k, r)
  BY <1>3 DEF Live
<1>7. ASSUME NEW k PROVE Recorded(m, k) = Recorded(s, k)
  BY <1>5, <1>6 DEF Recorded
<1>8. \A k : Holders(R, m, k) = Holders(R, s, k)
  BY <1>3 DEF Holders
<1>9. ASSUME NEW k, Holders(R, s, k) \subseteq ToSet(s.incidence[k])
      PROVE  Holders(R, m, k) \subseteq ToSet(m.incidence[k])
  <2>1. CASE k # c
    BY <2>1, <1>5, <1>8, <1>9
  <2>2. CASE k = c
    BY <2>2, <1>5, <1>8, <1>9 DEF Recorded, Live, Holders
  <2> QED BY <2>1, <2>2
<1> QED BY <1>7, <1>8, <1>9

\* A scan changes neither the counts nor the marks.
LEMMA ScanCounts ==
  ASSUME NEW R, NEW C, NEW s, Typed(R, C, s), NEW c \in C, NEW m, m = Scanned(s, c)
  PROVE  /\ \A done : Counts(R, s, done) => Counts(R, m, done)
         /\ Marks(m, s) /\ m.rowMap = s.rowMap
         /\ m.used = s.used /\ m.matrix = s.matrix
<1>1. Fields(s)
  BY DEF Typed
<1>2. IsScanned(m, s, c)
  BY <1>1, ScannedIs
<1>3. /\ m.matrix = s.matrix /\ m.rhs = s.rhs /\ m.rhsNonzeros = s.rhsNonzeros
      /\ m.residual = s.residual /\ m.rowNonzeros = s.rowNonzeros
      /\ m.columnNonzeros = s.columnNonzeros /\ m.active = s.active
      /\ m.used = s.used /\ m.rowMap = s.rowMap
      /\ m.group = s.group /\ m.dirty = s.dirty /\ m.dirtyList = s.dirtyList
  BY <1>2 DEF IsScanned
<1>4. ASSUME NEW k PROVE /\ Recorded(m, k) = Recorded(s, k)
                         /\ ColumnCounted(R, s, k) => ColumnCounted(R, m, k)
  <2>1. Recorded(m, k) = Recorded(s, k)
    BY ScanKeeps
  <2>2. Holders(R, m, k) = Holders(R, s, k)
    BY ScanKeeps
  <2>3. Holders(R, s, k) \subseteq ToSet(s.incidence[k])
          => Holders(R, m, k) \subseteq ToSet(m.incidence[k])
    BY ScanKeeps
  <2> QED BY <2>1, <2>2, <2>3, <1>3 DEF ColumnCounted
<1>5. Unsolved(R, m) = Unsolved(R, s)
  BY <1>3 DEF Unsolved
<1>6. \A r : RowCounted(s, r) => RowCounted(m, r)
  BY <1>3 DEF RowCounted
<1>7. ASSUME NEW done, Counts(R, s, done) PROVE Counts(R, m, done)
  BY <1>3, <1>4, <1>5, <1>6, <1>7 DEF Counts
<1>8. Marks(m, s)
  BY <1>3, <1>4 DEF Marks, Unmarked, Alike
<1> QED BY <1>3, <1>7, <1>8

\* After the first i of n rows.
RowsToCome(rows, i, n) == {rows[j] : j \in i + 1 .. n}

PartWay(R, C, m, s, choice, rows, i, n) ==
  /\ Typed(R, C, m)
  /\ Midway(R, m, choice, RowsToCome(rows, i, n))
  /\ Marks(m, s) /\ m.rowMap = s.rowMap
  /\ \A j \in i + 1 .. n : m.rhsNonzeros[rows[j]] = s.rhsNonzeros[rows[j]]

LEMMA NextPart ==
  ASSUME NEW R, IsFiniteSet(R), NEW C, IsFiniteSet(C), NEW s, NEW choice, NEW rows,
         NEW n \in Nat, DOMAIN rows = 1 .. n, \A k \in 1 .. n : rows[k] \in R,
         \A k, l \in 1 .. n : rows[k] = rows[l] => k = l,
         NEW i \in Nat, NEW k \in 1 .. n, k = i + 1,
         NEW t, PartWay(R, C, t, s, choice, rows, i, n),
         NEW task, TaskFields(task), TaskTyped(R, task), task.row = rows[k],
         task.rhsNonzeros = s.rhsNonzeros[rows[k]],
         NEW m, m = RowStep(t, choice, task, "alone")
  PROVE  PartWay(R, C, m, s, choice, rows, k, n)
<1> DEFINE rest == RowsToCome(rows, i, n)
<1>1. /\ Typed(R, C, t) /\ Midway(R, t, choice, rest) /\ Marks(t, s) /\ t.rowMap = s.rowMap
      /\ \A j \in i + 1 .. n : t.rhsNonzeros[rows[j]] = s.rhsNonzeros[rows[j]]
  BY DEF PartWay
<1>2. m = SerialStep(t, choice, task)
  BY DEF RowStep
<1>3. k \in i + 1 .. n /\ \A j \in k + 1 .. n : j \in i + 1 .. n /\ j \in 1 .. n /\ j # k
  OBVIOUS
<1>4. task.row \in rest /\ task.rhsNonzeros = t.rhsNonzeros[task.row]
  BY <1>1, <1>3 DEF RowsToCome
<1>5. RowsToCome(rows, k, n) = rest \ {task.row}
  <2>1. ASSUME NEW r \in rest, r # task.row PROVE r \in RowsToCome(rows, k, n)
    <3>1. PICK j \in i + 1 .. n : r = rows[j]
      BY DEF RowsToCome
    <3>2. j # k
      BY <2>1, <3>1
    <3>3. j \in k + 1 .. n
      BY <3>1, <3>2
    <3> QED BY <3>1, <3>3 DEF RowsToCome
  <2>2. ASSUME NEW r \in RowsToCome(rows, k, n) PROVE r \in rest /\ r # task.row
    <3>1. PICK j \in k + 1 .. n : r = rows[j]
      BY DEF RowsToCome
    <3>2. j \in i + 1 .. n /\ j \in 1 .. n /\ j # k
      BY <1>3, <3>1
    <3> QED BY <3>1, <3>2 DEF RowsToCome
  <2> QED BY <2>1, <2>2
<1>6. RowIsDone(R, m, t, choice, rest, task)
  <2> HIDE DEF rest
  <2> QED BY <1>1, <1>2, <1>4, RowEliminated
<1>7. Typed(R, C, m)
  BY <1>1, RowStepTyped
<1>8. Marks(m, s) /\ m.rowMap = s.rowMap
  <2>1. Marks(m, t) /\ m.rowMap = t.rowMap
    BY <1>6 DEF RowIsDone
  <2> QED BY <2>1, <1>1, MarksChain
<1>9. ASSUME NEW j \in k + 1 .. n PROVE m.rhsNonzeros[rows[j]] = s.rhsNonzeros[rows[j]]
  <2>1. rows[j] \in R /\ rows[j] # task.row /\ j \in i + 1 .. n
    BY <1>3
  <2> QED BY <2>1, <1>1, <1>6 DEF RowIsDone
<1>10. Midway(R, m, choice, RowsToCome(rows, k, n))
  BY <1>5, <1>6 DEF RowIsDone
<1> QED BY <1>7, <1>8, <1>9, <1>10 DEF PartWay

\* The rows of a pivot, all of them.
LEMMA AllRowsEliminated ==
  ASSUME NEW R, IsFiniteSet(R), NEW C, IsFiniteSet(C), NEW s, Typed(R, C, s), NEW choice,
         choice.column \in C, RowsFound(R, s, choice), NEW m, m = Serially(s, choice)
  PROVE  Typed(R, C, m) /\ Midway(R, m, choice, {}) /\ Marks(m, s) /\ m.rowMap = s.rowMap
<1> DEFINE rows == LiveRows(s, choice.column)
           T == Tasks(s, choice)
<1>1. s.incidence[choice.column] \in Seq(R)
  BY DEF Typed
<1>2. /\ ToSet(rows) = Holders(R, s, choice.column)
      /\ \A k, l \in DOMAIN rows : rows[k] = rows[l] => k = l
  <2>1. ToSet(rows) = Recorded(s, choice.column)
    BY <1>1, LiveRowsAre
  <2>2. \A k, l \in DOMAIN rows : rows[k] = rows[l] => k = l
    BY <1>1, LiveRowsAre
  <2>3. Recorded(s, choice.column) \subseteq R
    <3>1. ToSet(s.incidence[choice.column]) \subseteq R
      BY <1>1, SetOfSequence
    <3> QED BY <3>1 DEF Recorded
  <2>4. Recorded(s, choice.column) = Holders(R, s, choice.column)
    BY <2>3 DEF Recorded, Live, Holders, RowsFound
  <2> QED BY <2>1, <2>2, <2>4
<1>3. PICK n \in Nat : n = Len(rows)
  BY TasksAre
<1>4. DOMAIN rows = 1 .. n /\ DOMAIN T = 1 .. n
  <2>1. rows \in Seq(R) /\ DOMAIN T = 1 .. Len(rows)
    BY TasksAre
  <2>2. DOMAIN rows = 1 .. Len(rows)
    BY <2>1, SequenceIs
  <2> QED BY <2>1, <2>2, <1>3
<1>5. ASSUME NEW k \in 1 .. n
      PROVE  rows[k] \in R /\ T[k] = Task(s, choice, rows[k])
  BY <1>4, TasksAre
<1>6. m = Folded(s, choice, T, "alone")
  BY SeriallyIs
<1> HIDE DEF rows, T
<1>7. ASSUME NEW k \in 1 .. n
      PROVE  /\ TaskFields(T[k]) /\ TaskTyped(R, T[k]) /\ T[k].row = rows[k]
             /\ T[k].rhsNonzeros = s.rhsNonzeros[rows[k]]
  BY <1>5, TaskIs
<1>8. PICK f : Chain(f, s, choice, T, "alone") /\ f[n] = m
  BY <1>4, <1>6, FoldChain
<1>9. PartWay(R, C, s, s, choice, rows, 0, n)
  <2>1. RowsToCome(rows, 0, n) = Holders(R, s, choice.column)
    BY <1>2, <1>4 DEF RowsToCome, ToSet
  <2>2. Marks(s, s)
    BY MarksSelf
  <2> QED BY <2>1, <2>2 DEF PartWay, RowsFound
<1> DEFINE K == {i \in Nat : i <= n => PartWay(R, C, f[i], s, choice, rows, i, n)}
<1>10. 0 \in K
  BY <1>8, <1>9 DEF Chain
<1>11. ASSUME NEW i \in Nat, i \in K PROVE i + 1 \in K
  <2>1. SUFFICES ASSUME i + 1 <= n PROVE PartWay(R, C, f[i + 1], s, choice, rows, i + 1, n)
    BY <1>11
  <2>2. PartWay(R, C, f[i], s, choice, rows, i, n)
    BY <1>11, <2>1
  <2>3. PICK k \in 1 .. n : k = i + 1 /\ k - 1 = i
    BY <2>1
  <2>4. f[k] = RowStep(f[i], choice, T[k], "alone")
    BY <1>4, <1>8, <2>3 DEF Chain, StepOf
  <2>5. /\ TaskFields(T[k]) /\ TaskTyped(R, T[k]) /\ T[k].row = rows[k]
        /\ T[k].rhsNonzeros = s.rhsNonzeros[rows[k]]
    BY <1>7
  <2>6. /\ \A j \in 1 .. n : rows[j] \in R
        /\ \A j, l \in 1 .. n : rows[j] = rows[l] => j = l
    BY <1>2, <1>4, <1>5
  <2>7. PartWay(R, C, f[k], s, choice, rows, k, n)
    BY <1>4, <2>2, <2>3, <2>4, <2>5, <2>6, NextPart
  <2> QED BY <2>3, <2>7
<1>12. n \in K
  <2> HIDE DEF K
  <2> QED BY <1>10, <1>11, SetInduction
<1>13. PartWay(R, C, m, s, choice, rows, n, n)
  BY <1>8, <1>12
<1>14. RowsToCome(rows, n, n) = {}
  BY DEF RowsToCome
<1> QED BY <1>13, <1>14 DEF PartWay

\* The column is done.
LEMMA ColumnDone ==
  ASSUME NEW R, NEW C, NEW s, Typed(R, C, s), NEW choice, choice.column \in C,
         Midway(R, s, choice, {}), NEW m, m = Finished(s, choice.column)
  PROVE  Counts(R, m, {}) /\ Marks(m, s) /\ m.rowMap = s.rowMap
<1> DEFINE x == choice.column
<1>1. /\ s.residual = Cardinality(Unsolved(R, s))
      /\ \A r \in R \ s.used : RowCounted(s, r)
      /\ \A c \in s.active \ {x} : ColumnCounted(R, s, c)
      /\ Holders(R, s, x) = {}
  BY DEF Midway, Counts
<1>2. Fields(s) /\ s.incidence \in [C -> Seq(R)] /\ s.columnNonzeros \in [C -> Int]
      /\ s.active \subseteq C
  BY DEF Typed
<1>3. IsFinished(m, s, x)
  BY <1>2, FinishedIs
<1>4. /\ m.matrix = s.matrix /\ m.rhs = s.rhs /\ m.rhsNonzeros = s.rhsNonzeros
      /\ m.residual = s.residual /\ m.rowNonzeros = s.rowNonzeros
      /\ m.used = s.used /\ m.rowMap = s.rowMap
      /\ m.group = s.group /\ m.dirty = s.dirty /\ m.dirtyList = s.dirtyList
      /\ m.active = s.active \ {x}
      /\ \A c \in C : c # x => /\ m.columnNonzeros[c] = s.columnNonzeros[c]
                               /\ m.incidence[c] = s.incidence[c]
  BY <1>2, <1>3 DEF IsFinished
<1> HIDE DEF x
<1>5. ASSUME NEW r \in R \ m.used PROVE RowCounted(m, r)
  <2>1. RowCounted(s, r) /\ x \notin DOMAIN s.matrix[r]
    BY <1>1, <1>4 DEF Holders
  <2> QED BY <2>1, <1>4 DEF RowCounted
<1>6. ASSUME NEW c \in m.active PROVE ColumnCounted(R, m, c)
  <2>1. ColumnCounted(R, s, c) /\ c # x /\ c \in C
    BY <1>1, <1>2, <1>4
  <2>2. Holders(R, m, c) = Holders(R, s, c)
    BY <1>4 DEF Holders
  <2> QED BY <2>1, <2>2, <1>4 DEF ColumnCounted
<1>7. Unsolved(R, m) = Unsolved(R, s)
  BY <1>4 DEF Unsolved
<1>8. Counts(R, m, {})
  BY <1>1, <1>4, <1>5, <1>6, <1>7 DEF Counts
<1>9. ASSUME NEW c \in Unmarked(m) PROVE Alike(m, s, c)
  <2>1. c # x /\ c \in C
    BY <1>2, <1>4 DEF Unmarked
  <2>2. Recorded(m, c) = Recorded(s, c)
    BY <2>1, <1>4 DEF Recorded, Live
  <2> QED BY <2>1, <2>2, <1>4 DEF Alike
<1>10. Marks(m, s)
  BY <1>4, <1>9 DEF Marks
<1> QED BY <1>4, <1>8, <1>10

-----------------------------------------------------------------------------
(***************************************************************************)
(* Each row is a pivot once.                                               *)
(***************************************************************************)
LEMMA OnceBefore ==
  ASSUME NEW R, NEW s \in Seq(R), NEW r \in R, IsInjective(Append(s, r))
  PROVE  IsInjective(s) /\ r \notin ToSet(s)
<1>1. PICK m : m = Append(s, r)
  OBVIOUS
<1>2. PICK n \in Nat : n = Len(s) /\ DOMAIN s = 1 .. n
  BY SequenceIs
<1>3. m \in Seq(R) /\ Len(m) = n + 1 /\ m[n + 1] = r /\ \A i \in 1 .. n : m[i] = s[i]
  BY <1>1, <1>2, AppendIs
<1>4. DOMAIN m = 1 .. n + 1
  BY <1>3, SequenceIs
<1>5. \A i, j \in 1 .. n + 1 : m[i] = m[j] => i = j
  BY <1>1, <1>4 DEF IsInjective
<1>6. \A i \in 1 .. n : i \in 1 .. n + 1 /\ n + 1 \in 1 .. n + 1 /\ i # n + 1
  OBVIOUS
<1>7. \A i \in 1 .. n : s[i] # r
  BY <1>3, <1>5, <1>6
<1>8. \A i, j \in 1 .. n : s[i] = s[j] => i = j
  BY <1>3, <1>5, <1>6
<1> QED BY <1>2, <1>7, <1>8 DEF IsInjective, ToSet

\* The pivots so far and what may follow.
SamePivots(m, s) ==
  m.rowMap = s.rowMap /\ m.columns = s.columns /\ m.active = s.active /\ m.group = s.group

LEMMA SeriallyNoPivot ==
  ASSUME NEW R, NEW C, IsFiniteSet(C), NEW s, Typed(R, C, s), NEW choice, choice.column \in C,
         NEW m, m = Serially(s, choice)
  PROVE  SamePivots(m, s)
<1> DEFINE T == Tasks(s, choice)
<1>1. PICK n \in Nat : DOMAIN T = 1 .. n
  BY TasksAre
<1>2. ASSUME NEW i \in 1 .. n PROVE TaskFields(T[i]) /\ TaskTyped(R, T[i])
  <2>1. PICK r \in R : T[i] = Task(s, choice, r)
    BY <1>1, TasksAre
  <2> HIDE DEF T
  <2> QED BY <2>1, TaskIs
<1>3. m = Folded(s, choice, T, "alone")
  BY SeriallyIs
<1> HIDE DEF T
<1>4. PICK f : Chain(f, s, choice, T, "alone") /\ f[n] = m
  BY <1>1, <1>3, FoldChain
<1> DEFINE K == {i \in Nat : i <= n => Typed(R, C, f[i]) /\ SamePivots(f[i], s)}
<1>5. 0 \in K
  BY <1>4 DEF Chain, SamePivots
<1>6. ASSUME NEW i \in Nat, i \in K PROVE i + 1 \in K
  <2>1. SUFFICES ASSUME i + 1 <= n PROVE Typed(R, C, f[i + 1]) /\ SamePivots(f[i + 1], s)
    BY <1>6
  <2>2. Typed(R, C, f[i]) /\ SamePivots(f[i], s)
    BY <1>6, <2>1
  <2>3. PICK k \in 1 .. n : k = i + 1 /\ k - 1 = i
    BY <2>1
  <2>4. f[k] = RowStep(f[i], choice, T[k], "alone")
    BY <1>1, <1>4, <2>3 DEF Chain, StepOf
  <2>5. Typed(R, C, f[k])
    BY <1>2, <2>2, <2>4, RowStepTyped
  <2>6. f[k] = SerialStep(f[i], choice, T[k]) /\ TaskFields(T[k]) /\ T[k].row \in R
    BY <1>2, <2>4 DEF RowStep, TaskTyped
  <2>7. PICK fresh, removed, after, nonzeros :
          IsRowStep(f[k], f[i], choice, T[k], fresh, removed, after, nonzeros)
    BY <2>2, <2>6, RowStepIs
  <2>8. SamePivots(f[k], s)
    BY <2>2, <2>7 DEF IsRowStep, SamePivots
  <2> QED BY <2>3, <2>5, <2>8
<1>7. n \in K
  <2> HIDE DEF K
  <2> QED BY <1>5, <1>6, SetInduction
<1> QED BY <1>4, <1>7

\* What a pivot adds to the row map.
LEMMA PivotMapped ==
  ASSUME WellFormed(system), NEW s, Typed(Rows, Columns, s),
         NEW choice, ChoiceTyped(Rows, Columns, choice), Pivot(s, choice),
         IsInjective(elim'.rowMap)
  PROVE  IsInjective(s.rowMap) /\ choice.row \notin s.used
<1> DEFINE R == Rows
           C == Columns
<1>0. IsFiniteSet(R) /\ IsFiniteSet(C) /\ choice.row \in R /\ choice.column \in C
  BY SystemIs DEF ChoiceTyped
<1>1. PICK u : u = Normalized(s, choice)
  OBVIOUS
<1>2. PICK n : n = Scanned(u, choice.column)
  OBVIOUS
<1>3. PICK t : t = Serially(n, choice)
  OBVIOUS
<1>4. PICK m : m = Finished(t, choice.column)
  OBVIOUS
<1>5. elim' = m \/ elim' = n
  BY <1>1, <1>2, <1>3, <1>4 DEF Pivot
<1> HIDE DEF R, C
<1>6. Typed(R, C, s)
  BY DEF R, C
<1>7. Typed(R, C, u)
  BY <1>0, <1>1, <1>6, NormalizedTyped
<1>8. Typed(R, C, n)
  BY <1>0, <1>2, <1>7, ScannedTyped
<1>9. Typed(R, C, t)
  BY <1>0, <1>3, <1>8, SeriallyTyped
<1>10. t.rowMap = n.rowMap
  BY <1>0, <1>3, <1>8, SeriallyNoPivot DEF SamePivots
<1>11. Fields(s) /\ Fields(u) /\ Fields(t)
  BY <1>6, <1>7, <1>9 DEF Typed
<1>12. IsNormalized(u, s, choice)
  BY <1>1, <1>11, NormalizedIs
<1>13. IsScanned(n, u, choice.column)
  BY <1>2, <1>11, ScannedIs
<1>14. IsFinished(m, t, choice.column)
  BY <1>4, <1>11, FinishedIs
<1>15. n.rowMap = Append(s.rowMap, choice.row) /\ m.rowMap = n.rowMap
  BY <1>10, <1>12, <1>13, <1>14 DEF IsNormalized, IsScanned, IsFinished
<1>16. elim'.rowMap = Append(s.rowMap, choice.row)
  BY <1>5, <1>15
<1>17. s.rowMap \in Seq(R) /\ ToSet(s.rowMap) = s.used
  BY <1>6 DEF Typed
<1> QED BY <1>0, <1>16, <1>17, OnceBefore

-----------------------------------------------------------------------------
(***************************************************************************)
(* Marks and queues.                                                       *)
(***************************************************************************)
\* A marked column of the group waits to be scored.
Noticed(s) ==
  \A c \in s.dirty \intersect s.active :
    system.columnGroup[c] = s.group /\ c > system.basis => c \in s.dirtyList

\* QueuesFollow, for a column.
FollowsAt(s, q, c) ==
  \A kind \in Kinds :
    {e.pivot : e \in {f \in q[kind] : f.pivot.column = c /\ Current(s, q, f)}}
      = BestChoice(s, kind, c)

Follows(s, q) == \A c \in Unmarked(s) : c > system.basis => FollowsAt(s, q, c)

LEMMA NoticedOn ==
  ASSUME NEW s, NEW m, Noticed(s), Marks(m, s)
  PROVE  Noticed(m)
BY DEF Noticed, Marks

LEMMA FollowsOn ==
  ASSUME NEW R, NEW C, NEW s, NEW m, Typed(R, C, s), Typed(R, C, m), Marks(m, s),
         NEW q, NEW p, Follows(s, q), p.version = q.version, p.matching = q.matching,
         p.fallback = q.fallback
  PROVE  Follows(m, p)
<1>1. SUFFICES ASSUME NEW c \in Unmarked(m), c > system.basis, NEW kind \in Kinds
               PROVE  {e.pivot : e \in {f \in p[kind] : f.pivot.column = c /\ Current(m, p, f)}}
                        = BestChoice(m, kind, c)
  BY DEF Follows, FollowsAt
<1>2. c \in Unmarked(s) /\ c \in m.active /\ c \in s.active /\ c \in C /\ Alike(m, s, c)
  BY <1>1 DEF Marks, Unmarked, Typed
<1>3. BestChoice(m, kind, c) = BestChoice(s, kind, c)
  BY <1>2, SameChoices
<1>4. {e.pivot : e \in {f \in q[kind] : f.pivot.column = c /\ Current(s, q, f)}}
        = BestChoice(s, kind, c)
  BY <1>1, <1>2 DEF Follows, FollowsAt
<1>5. p[kind] = q[kind]
  BY DEF Kinds
<1>6. \A f : f.pivot.column = c => (Current(m, p, f) <=> Current(s, q, f))
  BY <1>2 DEF Current
<1> QED BY <1>3, <1>4, <1>5, <1>6

\* Scoring columns again changes no counts.
LEMMA RescoredCounts ==
  ASSUME NEW R, NEW C, NEW s, Typed(R, C, s), NEW requested, NEW m, m = Rescored(s, requested)
  PROVE  /\ Counts(R, s, {}) => Counts(R, m, {})
         /\ \A c \in C : Alike(m, s, c)
         /\ m.rowMap = s.rowMap /\ m.group = s.group /\ m.active = s.active
         /\ m.dirty = s.dirty \ requested /\ m.dirtyList = s.dirtyList
<1>1. Fields(s) /\ s.incidence \in [C -> Seq(R)] /\ s.active \subseteq C
  BY DEF Typed
<1>2. IsRescored(m, s, requested)
  BY <1>1, RescoredIs
<1>3. /\ m.matrix = s.matrix /\ m.rhs = s.rhs /\ m.rhsNonzeros = s.rhsNonzeros
      /\ m.residual = s.residual /\ m.rowNonzeros = s.rowNonzeros
      /\ m.columnNonzeros = s.columnNonzeros /\ m.active = s.active
      /\ m.used = s.used /\ m.rowMap = s.rowMap
      /\ m.group = s.group /\ m.dirtyList = s.dirtyList /\ m.dirty = s.dirty \ requested
  BY <1>2 DEF IsRescored
<1>4. \A c, r : Live(m, c, r) <=> Live(s, c, r)
  BY <1>3 DEF Live
<1>5. ASSUME NEW c \in C
      PROVE  \/ m.incidence[c] = s.incidence[c]
             \/ ToSet(m.incidence[c]) = Recorded(s, c)
  <2>1. m.incidence[c] = LiveRows(s, c) \/ m.incidence[c] = s.incidence[c]
    BY <1>1, <1>2 DEF IsRescored
  <2>2. ToSet(LiveRows(s, c)) = Recorded(s, c)
    <3>1. s.incidence[c] \in Seq(R)
      BY <1>1
    <3> QED BY <3>1, LiveRowsAre
  <2> QED BY <2>1, <2>2
<1>6. ASSUME NEW c \in C PROVE Recorded(m, c) = Recorded(s, c)
  BY <1>4, <1>5 DEF Recorded
<1>7. \A c \in C : Alike(m, s, c)
  BY <1>3, <1>6 DEF Alike
<1>8. ASSUME NEW c \in C, ColumnCounted(R, s, c) PROVE ColumnCounted(R, m, c)
  <2>1. Holders(R, m, c) = Holders(R, s, c)
    BY <1>3 DEF Holders
  <2>2. Holders(R, s, c) \subseteq ToSet(s.incidence[c])
    BY <1>8 DEF ColumnCounted
  <2>3. Holders(R, s, c) \subseteq Recorded(s, c)
    BY <2>2 DEF Holders, Recorded, Live
  <2>4. Holders(R, s, c) \subseteq ToSet(m.incidence[c])
    BY <2>2, <2>3, <1>5
  <2> QED BY <2>1, <2>4, <1>3, <1>8 DEF ColumnCounted
<1>9. ASSUME Counts(R, s, {}) PROVE Counts(R, m, {})
  <2>1. Unsolved(R, m) = Unsolved(R, s)
    BY <1>3 DEF Unsolved
  <2>2. \A r : RowCounted(s, r) => RowCounted(m, r)
    BY <1>3 DEF RowCounted
  <2> QED BY <2>1, <2>2, <1>1, <1>3, <1>8, <1>9 DEF Counts
<1> QED BY <1>3, <1>7, <1>9

\* What is scored again replaces what was queued for its columns.
LEMMA RefreshFollows ==
  ASSUME WellFormed(system), NEW s, Typed(Rows, Columns, s), NEW q,
         QueueTyped(Rows, Columns, q), NEW requested,
         \A c \in Unmarked(s) \ requested : c > system.basis => FollowsAt(s, q, c),
         Refresh(s, q, requested)
  PROVE  Follows(elim', queue')
<1> DEFINE R == Rows
           C == Columns
           columns == {c \in requested : OfColumn(s, c)}
<1>0. IsFiniteSet(R) /\ IsFiniteSet(C)
  BY SystemIs
<1>1. PICK m : m = Rescored(s, requested)
  OBVIOUS
<1>2. PICK v : v = Versioned(q, columns)
  OBVIOUS
<1>3. PICK p : p = Requeued(s, v, columns)
  OBVIOUS
<1>4. elim' = m /\ queue' = p
  BY <1>1, <1>2, <1>3 DEF Refresh
<1> HIDE DEF R, C
<1>5. Typed(R, C, s) /\ QueueTyped(R, C, q)
  BY DEF R, C
<1>6. columns \subseteq C
  BY <1>5 DEF OfColumn, Typed
<1>7. /\ \A c \in C : Alike(m, s, c)
      /\ m.group = s.group /\ m.active = s.active /\ m.dirty = s.dirty \ requested
  BY <1>1, <1>5, RescoredCounts
<1>8. Typed(R, C, m)
  BY <1>1, <1>5, RescoredTyped
<1>9. QueueFields(q) /\ q.version \in [C -> Int]
  BY <1>5 DEF QueueTyped
<1> HIDE DEF columns
<1>10. /\ QueueFields(v) /\ v.matching = q.matching /\ v.fallback = q.fallback
       /\ v.version = [c \in DOMAIN q.version |-> IF c \in columns THEN q.version[c] + 1
                                                  ELSE q.version[c]]
  BY <1>2, <1>9, VersionedIs
<1>11. /\ p.version = v.version
       /\ p.matching = Compacted(s, v, v.matching \union NewEntries(s, v, "matching", columns))
       /\ p.fallback = Compacted(s, v, v.fallback \union NewEntries(s, v, "fallback", columns))
  BY <1>3, <1>10, RequeuedIs
<1>12. SUFFICES ASSUME NEW c \in Unmarked(m), c > system.basis, NEW kind \in Kinds
                PROVE  {e.pivot : e \in {f \in p[kind] : f.pivot.column = c /\ Current(m, p, f)}}
                         = BestChoice(m, kind, c)
  BY <1>4 DEF Follows, FollowsAt
<1> DEFINE new == NewEntries(s, v, kind, columns)
           all == q[kind] \union new
<1>13. p[kind] = Compacted(s, v, all)
  BY <1>10, <1>11 DEF Kinds
<1>14. /\ c \in s.active /\ c \in m.active /\ c \in C /\ system.columnGroup[c] = s.group
       /\ c \notin s.dirty \/ c \in requested
  BY <1>5, <1>7, <1>12 DEF Unmarked, Typed
<1>15. BestChoice(m, kind, c) = BestChoice(s, kind, c)
  BY <1>5, <1>7, <1>8, <1>14, SameChoices
<1>16. \A e : e.pivot.column = c => (Current(m, p, e) <=> v.version[c] = e.version)
  BY <1>11, <1>14 DEF Current
<1>17. \A e : e.pivot.column = c => (Current(s, v, e) <=> v.version[c] = e.version)
  BY <1>14 DEF Current
<1>18. \A e \in q[kind] : e.version \in Int /\ e.version <= q.version[e.pivot.column]
  BY <1>5, <1>12 DEF QueueTyped
<1>19. /\ \A e \in new : \E k \in columns : /\ e.pivot \in BestChoice(s, kind, k)
                                            /\ e.pivot.column = k /\ e.version = v.version[k]
       /\ \A k \in columns : \A b \in BestChoice(s, kind, k) :
            [pivot |-> b, version |-> v.version[k]] \in new
  <2>1. \A e \in new : \E k \in columns : /\ e.pivot \in BestChoice(s, kind, k)
                                          /\ e.pivot.column = k /\ e.version = v.version[k]
    BY <1>0, <1>5, <1>6, NewEntriesAre
  <2>2. \A k \in columns : \A b \in BestChoice(s, kind, k) :
            [pivot |-> b, version |-> v.version[k]] \in new
    BY <1>0, <1>5, <1>6, NewEntriesAre
  <2> QED BY <2>1, <2>2
<1>20. \A e \in p[kind] : e \in all
  BY <1>13, CompactedIs
<1>21. \A e \in all : Current(s, v, e) => e \in p[kind]
  BY <1>13, CompactedIs
<1> HIDE DEF new
<1>22. CASE c \in requested
  <2>1. c \in columns
    BY <1>14, <1>22 DEF columns, OfColumn
  <2>2. v.version[c] = q.version[c] + 1 /\ q.version[c] \in Int
    BY <2>1, <1>9, <1>10, <1>14
  <2>3. ASSUME NEW e \in p[kind], e.pivot.column = c, v.version[c] = e.version
        PROVE  e.pivot \in BestChoice(s, kind, c)
    <3>1. e \notin q[kind]
      BY <2>2, <2>3, <1>18
    <3>2. e \in new
      BY <3>1, <1>20
    <3> QED BY <3>2, <2>3, <1>19
  <2>4. ASSUME NEW b \in BestChoice(s, kind, c)
        PROVE  \E e \in p[kind] : e.pivot.column = c /\ v.version[c] = e.version /\ e.pivot = b
    <3>1. b.column = c
      BY <1>0, <1>5, <1>14, BestChoiceIs
    <3>2. PICK e : e = [pivot |-> b, version |-> v.version[c]]
      OBVIOUS
    <3>3. e \in all /\ e.pivot = b /\ e.version = v.version[c]
      BY <3>2, <2>1, <1>19
    <3>4. e \in p[kind]
      BY <3>1, <3>3, <1>17, <1>21
    <3> QED BY <3>1, <3>3, <3>4
  <2> QED BY <2>3, <2>4, <1>15, <1>16
<1>23. CASE c \notin requested
  <2>1. c \notin columns
    BY <1>23 DEF columns
  <2>2. v.version[c] = q.version[c]
    BY <2>1, <1>9, <1>10, <1>14
  <2>3. c \in Unmarked(s) \ requested
    BY <1>14, <1>23 DEF Unmarked
  <2>4. {e.pivot : e \in {f \in q[kind] : f.pivot.column = c /\ Current(s, q, f)}}
          = BestChoice(s, kind, c)
    BY <2>3, <1>12 DEF FollowsAt
  <2>5. \A e : e.pivot.column = c => (Current(s, q, e) <=> v.version[c] = e.version)
    BY <2>2, <1>14 DEF Current
  <2>6. \A e \in p[kind] : e.pivot.column = c => e \in q[kind]
    BY <2>1, <1>19, <1>20
  <2>7. \A e \in q[kind] : e.pivot.column = c /\ v.version[c] = e.version => e \in p[kind]
    BY <1>17, <1>21
  <2> QED BY <2>4, <2>5, <2>6, <2>7, <1>15, <1>16
<1> QED BY <1>22, <1>23

-----------------------------------------------------------------------------
(***************************************************************************)
(* A pivot and the counts.                                                 *)
(***************************************************************************)
LEMMA PivotReady ==
  ASSUME NEW R, IsFiniteSet(R), NEW C, IsFiniteSet(C), NEW s, Typed(R, C, s), Counts(R, s, {}),
         NEW choice, choice.row \in R, choice.row \notin s.used, choice.column \in C,
         choice.column \in DOMAIN s.matrix[choice.row],
         NEW n, n = Scanned(Normalized(s, choice), choice.column)
  PROVE  Typed(R, C, n) /\ RowsFound(R, n, choice) /\ Marks(n, s)
<1>1. PICK u : u = Normalized(s, choice)
  OBVIOUS
<1>2. n = Scanned(u, choice.column)
  BY <1>1
<1>3. Typed(R, C, u)
  BY <1>1, NormalizedTyped
<1>4. Typed(R, C, n)
  BY <1>2, <1>3, ScannedTyped
<1>5. RowsFound(R, u, choice) /\ Marks(u, s)
  BY <1>1, RowsLeave
<1>6. Marks(n, u) /\ n.used = u.used
  BY <1>2, <1>3, ScanCounts
<1>7. Counts(R, u, {choice.column}) => Counts(R, n, {choice.column})
  BY <1>2, <1>3, ScanCounts
<1>8. Fields(u)
  BY <1>3 DEF Typed
<1>9. IsScanned(n, u, choice.column)
  BY <1>2, <1>8, ScannedIs
<1>10. n.active = u.active /\ n.dirty = u.dirty /\ n.group = u.group
  BY <1>9 DEF IsScanned
<1>11. Holders(R, u, choice.column) \subseteq ToSet(u.incidence[choice.column])
  BY <1>5 DEF RowsFound
<1>12. Holders(R, n, choice.column) \subseteq ToSet(n.incidence[choice.column])
  BY <1>2, <1>3, <1>11, ScanKeeps
<1>13. RowsFound(R, n, choice)
  BY <1>5, <1>6, <1>7, <1>10, <1>12 DEF RowsFound, Midway
<1> QED BY <1>4, <1>5, <1>6, <1>13, MarksChain

LEMMA PivotEnds ==
  ASSUME NEW R, IsFiniteSet(R), NEW C, IsFiniteSet(C), NEW s, Typed(R, C, s), NEW choice,
         choice.column \in C, RowsFound(R, s, choice),
         NEW m, m = Finished(Serially(s, choice), choice.column)
  PROVE  Typed(R, C, m) /\ Counts(R, m, {}) /\ Marks(m, s) /\ m.rowMap = s.rowMap
<1>1. PICK t : t = Serially(s, choice)
  OBVIOUS
<1>2. Typed(R, C, t) /\ Midway(R, t, choice, {}) /\ Marks(t, s) /\ t.rowMap = s.rowMap
  BY <1>1, AllRowsEliminated
<1>3. m = Finished(t, choice.column)
  BY <1>1
<1>4. Counts(R, m, {}) /\ Marks(m, t) /\ m.rowMap = t.rowMap
  BY <1>2, <1>3, ColumnDone
<1>5. Typed(R, C, m)
  BY <1>2, <1>3, FinishedTyped
<1> QED BY <1>2, <1>4, <1>5, MarksChain

\* Either the pivot is done, or threads start on its rows.
PivotTaken(s, choice) ==
  \/ step' = Resumed /\ Counts(Rows, elim', {}) /\ Marks(elim', s)
  \/ /\ step' = "rows" /\ batch'.before = elim' /\ batch'.choice = choice
     /\ RowsFound(Rows, elim', choice) /\ Marks(elim', s)

LEMMA PivotCounts ==
  ASSUME WellFormed(system), NEW s, Typed(Rows, Columns, s), Counts(Rows, s, {}),
         NEW choice, ChoiceTyped(Rows, Columns, choice), Pivot(s, choice),
         choice.row \notin s.used
  PROVE  PivotTaken(s, choice)
<1> DEFINE R == Rows
           C == Columns
<1>0. IsFiniteSet(R) /\ IsFiniteSet(C) /\ choice.row \in R /\ choice.column \in C
  BY SystemIs DEF ChoiceTyped
<1>1. PICK n : n = Scanned(Normalized(s, choice), choice.column)
  OBVIOUS
<1>2. PICK m : m = Finished(Serially(n, choice), choice.column)
  OBVIOUS
<1>3. /\ choice.column \in DOMAIN s.matrix[choice.row]
      /\ \/ elim' = m /\ step' = Resumed
         \/ /\ elim' = n /\ step' = "rows"
            /\ batch' = [tasks |-> Tasks(n, choice), choice |-> choice, done |-> <<>>,
                         before |-> n]
  BY <1>1, <1>2 DEF Pivot, PivotThere
<1>4. Typed(R, C, n) /\ RowsFound(R, n, choice) /\ Marks(n, s)
  BY <1>0, <1>1, <1>3, PivotReady
<1>5. Counts(R, m, {}) /\ Marks(m, n)
  BY <1>0, <1>2, <1>4, PivotEnds
<1>6. Marks(m, s)
  BY <1>4, <1>5, MarksChain
<1>7. CASE elim' = m /\ step' = Resumed
  BY <1>5, <1>6, <1>7 DEF PivotTaken
<1>8. CASE /\ elim' = n /\ step' = "rows"
           /\ batch' = [tasks |-> Tasks(n, choice), choice |-> choice, done |-> <<>>,
                        before |-> n]
  <2>1. batch'.before = n /\ batch'.choice = choice
    BY <1>8
  <2> QED BY <2>1, <1>4, <1>8 DEF PivotTaken
<1> QED BY <1>3, <1>7, <1>8

-----------------------------------------------------------------------------
(***************************************************************************)
(* No step overlooks a pivot.                                              *)
(***************************************************************************)
\* What holds at a step of the elimination of s with the queues q and the batch b.
UpToDate(R, s, q, b, at) ==
  /\ at = "basis" => s.group = 0
  /\ at \in {"basis", "group", "matching", "fallback", "finish"} => Counts(R, s, {}) /\ Noticed(s)
  /\ at \in {"matching", "fallback"} => Follows(s, q)
  /\ at = "rows" => /\ RowsFound(R, b.before, b.choice) /\ Noticed(b.before)
                    /\ b.before.group # 0 => Follows(b.before, q)

PivotsNoticed == RowsPivotOnce => UpToDate(Rows, elim, queue, batch, step)

LEMMA PivotGoesOn ==
  ASSUME WellFormed(system), NEW s, Typed(Rows, Columns, s), Counts(Rows, s, {}), Noticed(s),
         s.group = elim.group, NEW choice, ChoiceTyped(Rows, Columns, choice), Pivot(s, choice),
         choice.row \notin s.used, NEW q, NEW p, s.group # 0 => Follows(s, q),
         p.version = q.version, p.matching = q.matching, p.fallback = q.fallback
  PROVE  UpToDate(Rows, elim', p, batch', step')
<1>1. PivotTaken(s, choice)
  BY PivotCounts
<1>2. Typed(Rows, Columns, elim')
  BY PivotTyped
<1>3. PICK m, b : m = elim' /\ b = batch'
  OBVIOUS
<1>4. /\ Typed(Rows, Columns, m) /\ Marks(m, s)
      /\ \/ step' = Resumed /\ Counts(Rows, m, {})
         \/ step' = "rows" /\ b.before = m /\ b.choice = choice /\ RowsFound(Rows, m, choice)
  BY <1>1, <1>2, <1>3 DEF PivotTaken
<1>5. Noticed(m)
  BY <1>4, NoticedOn
<1>6. s.group # 0 => Follows(m, p)
  BY <1>4, FollowsOn
<1>7. m.group = s.group
  BY <1>4 DEF Marks
<1>8. CASE step' = Resumed /\ Counts(Rows, m, {})
  BY <1>3, <1>5, <1>6, <1>7, <1>8 DEF UpToDate, Resumed
<1>9. CASE step' = "rows" /\ b.before = m /\ b.choice = choice /\ RowsFound(Rows, m, choice)
  BY <1>3, <1>5, <1>6, <1>7, <1>9 DEF UpToDate
<1> QED BY <1>4, <1>8, <1>9

\* A basis column without a choice has no row.
LEMMA DismissedCounts ==
  ASSUME NEW R, NEW C, NEW s, Typed(R, C, s), Counts(R, s, {}), NEW c \in C,
         Holders(R, s, c) = {}, NEW m, m = Dismissed(s, c)
  PROVE  Counts(R, m, {}) /\ Marks(m, s) /\ m.rowMap = s.rowMap
<1> DEFINE a == s.active \ {c}
           i == [s.incidence EXCEPT ![c] = <<>>]
<1>1. Fields(s) /\ s.incidence \in [C -> Seq(R)] /\ s.active \subseteq C
  BY DEF Typed
<1>2. m = [s EXCEPT !.active = a, !.incidence = i]
  BY <1>1 DEF Dismissed, Fields, FieldNames
<1>3. /\ \A k \in C : k # c => i[k] = s.incidence[k]
  BY <1>1
<1> HIDE DEF a, i
<1>4. /\ m.active = a /\ m.incidence = i
      /\ m.matrix = s.matrix /\ m.rhs = s.rhs /\ m.rhsNonzeros = s.rhsNonzeros
      /\ m.residual = s.residual /\ m.rowNonzeros = s.rowNonzeros
      /\ m.columnNonzeros = s.columnNonzeros /\ m.used = s.used /\ m.rowMap = s.rowMap
      /\ m.group = s.group /\ m.dirty = s.dirty /\ m.dirtyList = s.dirtyList
  BY <1>1, <1>2 DEF Fields, FieldNames
<1>5. Unsolved(R, m) = Unsolved(R, s) /\ \A k : Holders(R, m, k) = Holders(R, s, k)
  BY <1>4 DEF Unsolved, Holders
<1>6. ASSUME NEW r \in R \ m.used PROVE RowCounted(m, r)
  <2>1. RowCounted(s, r) /\ c \notin DOMAIN s.matrix[r]
    BY <1>4 DEF Counts, Holders
  <2> QED BY <2>1, <1>4 DEF RowCounted, a
<1>7. ASSUME NEW k \in m.active PROVE ColumnCounted(R, m, k)
  <2>1. k \in C /\ k # c /\ ColumnCounted(R, s, k)
    BY <1>1, <1>4 DEF Counts, a
  <2> QED BY <2>1, <1>3, <1>4, <1>5 DEF ColumnCounted
<1>8. Counts(R, m, {})
  BY <1>4, <1>5, <1>6, <1>7 DEF Counts
<1>9. ASSUME NEW k \in Unmarked(m) PROVE Alike(m, s, k)
  <2>1. k \in C /\ k # c
    BY <1>1, <1>4 DEF Unmarked, a
  <2>2. Recorded(m, k) = Recorded(s, k)
    BY <2>1, <1>3, <1>4 DEF Recorded, Live
  <2> QED BY <2>2, <1>4 DEF Alike
<1>10. Marks(m, s)
  BY <1>4, <1>9 DEF Marks, a
<1> QED BY <1>4, <1>8, <1>10

LEMMA PivotBasisColumnNotices ==
  ASSUME EliminationTyped, PivotsNoticed, PivotBasisColumn, IsInjective(elim'.rowMap)
  PROVE  UpToDate(Rows, elim', queue', batch', step')
<1> DEFINE R == Rows
           C == Columns
<1>1. step = "basis" /\ turn <= system.basis /\ queue' = queue
  BY DEF PivotBasisColumn
<1>2. WellFormed(system) /\ Typed(R, C, elim) /\ turn \in Nat \ {0}
  BY <1>1 DEF EliminationTyped
<1>3. turn \in C /\ IsFiniteSet(R) /\ IsFiniteSet(C) /\ ScoresTyped(R, C)
  BY <1>1, <1>2, SystemIs
<1>4. PICK s : s = Scanned(elim, turn)
  OBVIOUS
<1>5. \/ /\ elim' = Dismissed(s, turn) /\ step' = step
         /\ BestChoice(s, "fallback", turn) = {}
      \/ \E kind : \E choice \in BestChoice(s, kind, turn) : Pivot(s, choice)
  BY <1>4 DEF PivotBasisColumn
<1>6. RowsPivotOnce => Counts(R, elim, {}) /\ Noticed(elim) /\ elim.group = 0
  BY <1>1 DEF PivotsNoticed, UpToDate
<1> HIDE DEF R, C
<1>7. Typed(R, C, s)
  BY <1>2, <1>3, <1>4, ScannedTyped
<1>8. /\ Marks(s, elim) /\ s.rowMap = elim.rowMap
      /\ Counts(R, elim, {}) => Counts(R, s, {})
  BY <1>2, <1>3, <1>4, ScanCounts
<1>9. RowsPivotOnce => Counts(R, s, {}) /\ Noticed(s) /\ s.group = 0 /\ elim.group = 0
  <2>1. Noticed(elim) => Noticed(s)
    BY <1>8, NoticedOn
  <2> QED BY <2>1, <1>6, <1>8 DEF Marks
<1>10. CASE /\ elim' = Dismissed(s, turn) /\ step' = step
            /\ BestChoice(s, "fallback", turn) = {}
  <2>1. PICK m : m = Dismissed(s, turn)
    OBVIOUS
  <2>2. m.rowMap = s.rowMap
    <3>1. Fields(s)
      BY <1>7 DEF Typed
    <3> QED BY <2>1, <3>1 DEF Dismissed, Fields, FieldNames
  <2>3. Counts(R, s, {}) /\ Noticed(s) /\ s.group = 0
    BY <2>1, <2>2, <1>8, <1>9, <1>10 DEF RowsPivotOnce
  <2>4. /\ \A r \in Holders(R, s, turn) : RowCounted(s, r)
        /\ \A r \in Holders(R, s, turn) : turn \in s.active
        /\ turn \in s.active => Holders(R, s, turn) \subseteq ToSet(s.incidence[turn])
    BY <2>3 DEF Counts, Holders, RowCounted, ColumnCounted
  <2>5. Holders(R, s, turn) = {}
    <3>1. CASE turn \in s.active
      BY <3>1, <2>4, <1>3, <1>7, <1>10, ChoiceExists
    <3>2. CASE turn \notin s.active
      BY <3>2, <2>4
    <3> QED BY <3>1, <3>2
  <2>6. Counts(R, m, {}) /\ Marks(m, s)
    BY <2>1, <2>3, <2>5, <1>3, <1>7, DismissedCounts
  <2>7. Noticed(m) /\ m.group = 0
    <3>1. Noticed(m)
      BY <2>3, <2>6, NoticedOn
    <3> QED BY <3>1, <2>3, <2>6 DEF Marks
  <2>8. elim' = m /\ step' = "basis"
    BY <2>1, <1>1, <1>10
  <2> QED BY <2>6, <2>7, <2>8 DEF UpToDate, R
<1>11. ASSUME NEW kind, NEW choice \in BestChoice(s, kind, turn), Pivot(s, choice)
       PROVE  UpToDate(Rows, elim', queue', batch', step')
  <2>1. ChoiceTyped(R, C, choice)
    BY <1>3, <1>7, BestChoiceIs
  <2>2. Typed(Rows, Columns, s) /\ ChoiceTyped(Rows, Columns, choice)
    BY <2>1, <1>7 DEF R, C
  <2>3. IsInjective(s.rowMap) /\ choice.row \notin s.used
    BY <2>2, <1>2, <1>11, PivotMapped
  <2>4. Counts(Rows, s, {}) /\ Noticed(s) /\ s.group = 0 /\ elim.group = 0
    BY <2>3, <1>8, <1>9 DEF RowsPivotOnce, R
  <2>5. UpToDate(Rows, elim', queue, batch', step')
    BY <2>2, <2>3, <2>4, <1>2, <1>11, PivotGoesOn
  <2> QED BY <2>5, <1>1
<1> QED BY <1>5, <1>10, <1>11

LEMMA StartGroupNotices ==
  ASSUME EliminationTyped, PivotsNoticed, StartGroup, IsInjective(elim'.rowMap)
  PROVE  UpToDate(Rows, elim', queue', batch', step')
<1> DEFINE R == Rows
           C == Columns
           s == [elim EXCEPT !.group = system.groups[turn], !.dirtyList = {}]
           columns == {c \in Columns : OfColumn(s, c) /\ c > system.basis}
           q == [queue EXCEPT !.matching = {}, !.fallback = {}, !.since = 0,
                              !.activeColumns = Cardinality(columns)]
<1>1. step = "group" /\ step' = "matching" /\ Refresh(s, q, columns)
  BY DEF StartGroup
<1>2. WellFormed(system) /\ Typed(R, C, elim) /\ QueueTyped(R, C, queue)
  BY <1>1 DEF EliminationTyped
<1>3. PICK t, p : t = s /\ p = q
  OBVIOUS
<1> HIDE DEF q
<1>4. /\ Typed(R, C, t) /\ t.matrix = elim.matrix /\ t.rhs = elim.rhs
      /\ t.rhsNonzeros = elim.rhsNonzeros
      /\ t.residual = elim.residual /\ t.rowNonzeros = elim.rowNonzeros
      /\ t.columnNonzeros = elim.columnNonzeros /\ t.incidence = elim.incidence
      /\ t.active = elim.active /\ t.used = elim.used /\ t.rowMap = elim.rowMap
      /\ t.dirty = elim.dirty /\ t.dirtyList = {}
  BY <1>2, <1>3 DEF Typed, Fields, FieldNames
<1>5. QueueTyped(R, C, p)
  <2>1. /\ QueueFields(q) /\ q.matching = {} /\ q.fallback = {} /\ q.version = queue.version
    BY <1>2 DEF QueueTyped, QueueFields, QueueNames, q
  <2> HIDE DEF R, C
  <2> QED BY <2>1, <1>2, <1>3, QueueSmaller
<1>6. columns = {c \in Columns : OfColumn(t, c) /\ c > system.basis}
  BY <1>3
<1> HIDE DEF s, columns
<1>7. Refresh(t, p, columns)
  BY <1>1, <1>3
<1>8. \A c \in Unmarked(t) \ columns : c > system.basis => FollowsAt(t, p, c)
  BY <1>4, <1>6 DEF Unmarked, OfColumn, Typed
<1>9. Follows(elim', queue')
  BY <1>2, <1>4, <1>5, <1>7, <1>8, RefreshFollows
<1>10. PICK m : m = Rescored(t, columns)
  OBVIOUS
<1>11. elim' = m
  BY <1>7, <1>10 DEF Refresh
<1>12. /\ Counts(R, t, {}) => Counts(R, m, {})
       /\ m.rowMap = t.rowMap /\ m.group = t.group /\ m.active = t.active
       /\ m.dirty = t.dirty \ columns
  BY <1>4, <1>10, RescoredCounts
<1>13. RowsPivotOnce
  BY <1>4, <1>11, <1>12 DEF RowsPivotOnce
<1>14. Counts(R, elim, {})
  BY <1>1, <1>13 DEF PivotsNoticed, UpToDate
<1>15. Counts(R, t, {})
  BY <1>4, <1>14 DEF Counts, RowCounted, ColumnCounted, Holders, Unsolved
<1>16. Noticed(m)
  BY <1>4, <1>6, <1>12 DEF Noticed, OfColumn, Typed
<1> QED BY <1>1, <1>9, <1>11, <1>12, <1>15, <1>16 DEF UpToDate

\* The marked columns that wait are scored again.
LEMMA RefreshMarkedNotices ==
  ASSUME WellFormed(system), Typed(Rows, Columns, elim), QueueTyped(Rows, Columns, queue),
         RefreshMarked, Noticed(elim), Follows(elim, queue)
  PROVE  /\ Follows(elim', queue') /\ Noticed(elim')
         /\ Counts(Rows, elim, {}) => Counts(Rows, elim', {})
<1> DEFINE R == Rows
           C == Columns
           s == [elim EXCEPT !.dirtyList = {}]
           q == [queue EXCEPT !.since = 0]
           requested == elim.dirtyList \intersect elim.dirty
<1>1. PICK t, p : t = s /\ p = q
  OBVIOUS
<1>2. Refresh(t, p, requested)
  BY <1>1 DEF RefreshMarked
<1>3. /\ Typed(R, C, t) /\ t.matrix = elim.matrix /\ t.rhs = elim.rhs
      /\ t.rhsNonzeros = elim.rhsNonzeros
      /\ t.residual = elim.residual /\ t.rowNonzeros = elim.rowNonzeros
      /\ t.columnNonzeros = elim.columnNonzeros /\ t.incidence = elim.incidence
      /\ t.active = elim.active /\ t.used = elim.used /\ t.rowMap = elim.rowMap
      /\ t.dirty = elim.dirty /\ t.dirtyList = {} /\ t.group = elim.group
  BY <1>1 DEF Typed, Fields, FieldNames
<1>4. /\ QueueFields(p) /\ p.matching = queue.matching /\ p.fallback = queue.fallback
      /\ p.version = queue.version
  BY <1>1 DEF QueueTyped, QueueFields, QueueNames
<1> HIDE DEF s, q, requested
<1>5. QueueTyped(Rows, Columns, p)
  BY <1>4, QueueSmaller
<1>7. \A c \in Unmarked(t) \ requested : c > system.basis => FollowsAt(t, p, c)
  <2> SUFFICES ASSUME NEW c \in Unmarked(t), c > system.basis PROVE FollowsAt(t, p, c)
    OBVIOUS
  <2>1. c \in Unmarked(elim) /\ c \in C
    BY <1>3 DEF Unmarked, Typed
  <2>2. FollowsAt(elim, queue, c)
    BY <2>1 DEF Follows
  <2>3. Alike(t, elim, c)
    BY <1>3 DEF Alike, Recorded, Live
  <2>4. \A kind \in Kinds : BestChoice(t, kind, c) = BestChoice(elim, kind, c)
    BY <2>1, <2>3, <1>3, SameChoices
  <2>5. \A f : Current(t, p, f) <=> Current(elim, queue, f)
    BY <1>3, <1>4 DEF Current
  <2>6. \A kind \in Kinds : p[kind] = queue[kind]
    BY <1>4 DEF Kinds
  <2> QED BY <2>2, <2>4, <2>5, <2>6 DEF FollowsAt
<1>8. Follows(elim', queue')
  BY <1>2, <1>3, <1>5, <1>7, RefreshFollows
<1>9. PICK m : m = Rescored(t, requested)
  OBVIOUS
<1>10. elim' = m
  BY <1>2, <1>9 DEF Refresh
<1>11. /\ Counts(R, t, {}) => Counts(R, m, {})
       /\ m.rowMap = t.rowMap /\ m.group = t.group /\ m.active = t.active
       /\ m.dirty = t.dirty \ requested
  BY <1>3, <1>9, RescoredCounts
<1>12. Noticed(m)
  BY <1>3, <1>11 DEF Noticed, requested
<1>13. ASSUME Counts(R, elim, {}) PROVE Counts(R, t, {})
  <2> HIDE DEF R
  <2>1. Unsolved(R, t) = Unsolved(R, elim) /\ \A c : Holders(R, t, c) = Holders(R, elim, c)
    BY <1>3 DEF Unsolved, Holders
  <2>2. \A r : RowCounted(elim, r) => RowCounted(t, r)
    BY <1>3 DEF RowCounted
  <2>3. \A c : ColumnCounted(R, elim, c) => ColumnCounted(R, t, c)
    BY <2>1, <1>3 DEF ColumnCounted
  <2> QED BY <2>1, <2>2, <2>3, <1>3, <1>13 DEF Counts
<1> QED BY <1>8, <1>10, <1>11, <1>12, <1>13

LEMMA RefreshMarkedMaps ==
  ASSUME Typed(Rows, Columns, elim), RefreshMarked
  PROVE  elim'.rowMap = elim.rowMap
<1>1. PICK t : t = [elim EXCEPT !.dirtyList = {}]
  OBVIOUS
<1>2. PICK requested : requested = elim.dirtyList \intersect elim.dirty
  OBVIOUS
<1>3. PICK m : m = Rescored(t, requested)
  OBVIOUS
<1>4. elim' = m
  BY <1>1, <1>2, <1>3 DEF RefreshMarked, Refresh
<1>5. Fields(t) /\ t.rowMap = elim.rowMap
  BY <1>1 DEF Typed, Fields, FieldNames
<1>6. IsRescored(m, t, requested)
  BY <1>3, <1>5, RescoredIs
<1> QED BY <1>4, <1>5, <1>6 DEF IsRescored

\* Without its top a queue misses choices of the top's column at most.
LEMMA DiscardNotices ==
  ASSUME WellFormed(system), Typed(Rows, Columns, elim), QueueTyped(Rows, Columns, queue),
         NEW kind \in Kinds, Discard(kind), Noticed(elim), Follows(elim, queue)
  PROVE  /\ Follows(elim', queue') /\ Noticed(elim')
         /\ Counts(Rows, elim, {}) => Counts(Rows, elim', {})
<1> DEFINE top == Top(queue[kind])
           q == [queue EXCEPT ![kind] = @ \ {top}]
<1>1. PICK p, column : p = q /\ column = top.pivot.column
  OBVIOUS
<1>2. \/ Refresh(elim, p, {column})
      \/ ~Current(elim, queue, top) /\ queue' = p /\ elim' = elim
  BY <1>1 DEF Discard
<1>3. /\ QueueFields(p) /\ p.version = queue.version
      /\ \A k \in Kinds : p[k] = IF k = kind THEN queue[k] \ {top} ELSE queue[k]
  BY <1>1 DEF QueueTyped, QueueFields, QueueNames, Kinds
<1> HIDE DEF q, top
<1>4. QueueTyped(Rows, Columns, p)
  <2>1. p.matching \subseteq queue.matching /\ p.fallback \subseteq queue.fallback
    BY <1>3 DEF Kinds
  <2> QED BY <2>1, <1>3, QueueSmaller
<1>5. \A f : Current(elim, p, f) <=> Current(elim, queue, f)
  BY <1>3 DEF Current
<1>6. ASSUME NEW c \in Unmarked(elim), c > system.basis,
             c # column \/ ~Current(elim, queue, top)
      PROVE  FollowsAt(elim, p, c)
  <2>1. FollowsAt(elim, queue, c)
    BY <1>6 DEF Follows
  <2>2. ASSUME NEW k \in Kinds, NEW f, f.pivot.column = c, Current(elim, queue, f)
        PROVE  f \in p[k] <=> f \in queue[k]
    <3>1. f # top
      BY <2>2, <1>1, <1>6
    <3> QED BY <3>1, <1>3
  <2>3. \A k \in Kinds :
          {f \in p[k] : f.pivot.column = c /\ Current(elim, p, f)}
            = {f \in queue[k] : f.pivot.column = c /\ Current(elim, queue, f)}
    BY <2>2, <1>5
  <2> QED BY <2>1, <2>3 DEF FollowsAt
<1>7. CASE Refresh(elim, p, {column})
  <2>1. \A c \in Unmarked(elim) \ {column} : c > system.basis => FollowsAt(elim, p, c)
    BY <1>6
  <2>2. Follows(elim', queue')
    BY <2>1, <1>4, <1>7, RefreshFollows
  <2>3. PICK m : m = Rescored(elim, {column})
    OBVIOUS
  <2>4. elim' = m
    BY <2>3, <1>7 DEF Refresh
  <2>5. /\ Counts(Rows, elim, {}) => Counts(Rows, m, {})
        /\ m.group = elim.group /\ m.active = elim.active
        /\ m.dirty = elim.dirty \ {column} /\ m.dirtyList = elim.dirtyList
    BY <2>3, RescoredCounts
  <2>6. Noticed(m)
    BY <2>5 DEF Noticed
  <2> QED BY <2>2, <2>4, <2>5, <2>6
<1>8. CASE ~Current(elim, queue, top) /\ queue' = p /\ elim' = elim
  <2>1. Follows(elim, p)
    BY <1>6, <1>8 DEF Follows
  <2> QED BY <2>1, <1>8
<1> QED BY <1>2, <1>7, <1>8

LEMMA DiscardMaps ==
  ASSUME Typed(Rows, Columns, elim), NEW kind, Discard(kind)
  PROVE  elim'.rowMap = elim.rowMap
<1>1. elim' = elim \/ \E requested : elim' = Rescored(elim, requested)
  BY DEF Discard, Refresh
<1>2. Fields(elim)
  BY DEF Typed
<1>3. ASSUME NEW requested, elim' = Rescored(elim, requested) PROVE elim'.rowMap = elim.rowMap
  <2>1. PICK m : m = Rescored(elim, requested)
    OBVIOUS
  <2>2. IsRescored(m, elim, requested)
    BY <2>1, <1>2, RescoredIs
  <2> QED BY <2>1, <2>2, <1>3 DEF IsRescored
<1> QED BY <1>1, <1>3

LEMMA RefreshNotices ==
  ASSUME EliminationTyped, PivotsNoticed, IsInjective(elim'.rowMap),
         RefreshDue \/ RefreshRest \/ DiscardMatching \/ DiscardFallback
  PROVE  UpToDate(Rows, elim', queue', batch', step')
<1>1. /\ step \in {"matching", "fallback"} /\ step' \in {"matching", "fallback"}
      /\ RefreshMarked \/ Discard("matching") \/ Discard("fallback")
  BY DEF RefreshDue, RefreshRest, DiscardMatching, DiscardFallback, Undecided, BothSettled,
         MatchingSettled
<1>2. /\ WellFormed(system) /\ Typed(Rows, Columns, elim) /\ QueueTyped(Rows, Columns, queue)
  BY <1>1 DEF EliminationTyped
<1>3. "matching" \in Kinds /\ "fallback" \in Kinds
  BY DEF Kinds
<1>4. elim'.rowMap = elim.rowMap
  BY <1>1, <1>2, RefreshMarkedMaps, DiscardMaps
<1>5. Counts(Rows, elim, {}) /\ Noticed(elim) /\ Follows(elim, queue)
  BY <1>1, <1>4 DEF PivotsNoticed, UpToDate, RowsPivotOnce
<1>6. CASE RefreshMarked
  BY <1>1, <1>2, <1>5, <1>6, RefreshMarkedNotices DEF UpToDate
<1>7. ASSUME NEW kind \in Kinds, Discard(kind)
      PROVE  UpToDate(Rows, elim', queue', batch', step')
  <2>1. Follows(elim', queue') /\ Noticed(elim') /\ Counts(Rows, elim', {})
    BY <1>2, <1>5, <1>7, DiscardNotices
  <2> QED BY <2>1, <1>1 DEF UpToDate
<1> QED BY <1>1, <1>3, <1>6, <1>7

\* When the queues are empty and no column waits, no column of the group has a row.
LEMMA NothingLeft ==
  ASSUME WellFormed(system), Typed(Rows, Columns, elim), Counts(Rows, elim, {}), Noticed(elim),
         Follows(elim, queue), NoChoice, AllScored(elim),
         NEW c \in Columns, OfColumn(elim, c), c > system.basis
  PROVE  Holders(Rows, elim, c) = {} /\ Recorded(elim, c) = {}
<1> DEFINE R == Rows
           C == Columns
<1>1. IsFiniteSet(R) /\ IsFiniteSet(C) /\ ScoresTyped(R, C)
  BY SystemIs
<1>2. c \in elim.active /\ c \in Unmarked(elim)
  BY DEF Noticed, AllScored, OfColumn, Unmarked
<1>3. BestChoice(elim, "fallback", c) = {}
  <2>1. FollowsAt(elim, queue, c)
    BY <1>2 DEF Follows
  <2>2. "fallback" \in Kinds /\ queue["fallback"] = {}
    BY DEF Kinds, NoChoice
  <2> QED BY <2>1, <2>2 DEF FollowsAt
<1>4. ColumnCounted(R, elim, c) /\ \A r \in R \ elim.used : RowCounted(elim, r)
  BY <1>2 DEF Counts
<1> HIDE DEF R, C
<1>5. Holders(R, elim, c) = {}
  <2>1. \A r \in Holders(R, elim, c) : RowCounted(elim, r)
    BY <1>4 DEF Holders
  <2>2. Holders(R, elim, c) \subseteq ToSet(elim.incidence[c])
    BY <1>4 DEF ColumnCounted
  <2>3. Typed(R, C, elim) /\ c \in C
    BY DEF R, C
  <2> QED BY <2>1, <2>2, <2>3, <1>1, <1>3, ChoiceExists
<1>6. Recorded(elim, c) \subseteq Holders(R, elim, c)
  <2>1. elim.incidence[c] \in Seq(R)
    BY DEF Typed, R
  <2>2. ToSet(elim.incidence[c]) \subseteq R
    BY <2>1, SetOfSequence
  <2> QED BY <2>2 DEF Recorded, Live, Holders
<1> QED BY <1>5, <1>6 DEF R

LEMMA DrainGroupNotices ==
  ASSUME EliminationTyped, PivotsNoticed, DrainGroup, IsInjective(elim'.rowMap)
  PROVE  UpToDate(Rows, elim', queue', batch', step')
<1> DEFINE R == Rows
           C == Columns
           columns == {c \in Columns : OfColumn(elim, c) /\ c > system.basis}
           live(r) == {c \in columns : r \in ToSet(LiveRows(elim, c))}
           w == [r \in DOMAIN elim.rowNonzeros |-> elim.rowNonzeros[r] - Cardinality(live(r))]
           a == elim.active \ columns
           n == [c \in DOMAIN elim.columnNonzeros |->
                   IF c \in columns THEN 0 ELSE elim.columnNonzeros[c]]
           i == [c \in DOMAIN elim.incidence |->
                   IF c \in columns THEN <<>> ELSE elim.incidence[c]]
<1>1. /\ step \in {"matching", "fallback"} /\ step' = "group" /\ NoChoice /\ AllScored(elim)
  BY DEF DrainGroup, BothSettled, MatchingSettled, Undecided
<1>2. WellFormed(system) /\ Typed(Rows, Columns, elim)
  BY <1>1 DEF EliminationTyped
<1>3. /\ Fields(elim) /\ elim.active \subseteq C /\ elim.rowNonzeros \in [R -> Int]
      /\ elim.columnNonzeros \in [C -> Int] /\ elim.incidence \in [C -> Seq(R)]
  BY <1>2 DEF Typed
<1>4. PICK m : m = [elim EXCEPT !.rowNonzeros = w, !.active = a, !.columnNonzeros = n,
                                !.incidence = i]
  OBVIOUS
<1>5. elim' = m
  BY <1>3, <1>4 DEF DrainGroup, Fields, FieldNames
<1> HIDE DEF w, a, n, i
<1>6. /\ m.rowNonzeros = w /\ m.active = a /\ m.columnNonzeros = n
      /\ m.incidence = i
      /\ m.matrix = elim.matrix /\ m.rhs = elim.rhs /\ m.rhsNonzeros = elim.rhsNonzeros
      /\ m.residual = elim.residual /\ m.used = elim.used /\ m.rowMap = elim.rowMap
      /\ m.group = elim.group /\ m.dirty = elim.dirty /\ m.dirtyList = elim.dirtyList
  BY <1>3, <1>4 DEF Fields, FieldNames
<1>7. Counts(R, elim, {}) /\ Noticed(elim) /\ Follows(elim, queue)
  BY <1>1, <1>5, <1>6 DEF PivotsNoticed, UpToDate, RowsPivotOnce
<1>8. \A c \in columns : Holders(R, elim, c) = {} /\ Recorded(elim, c) = {}
  BY <1>1, <1>2, <1>7, NothingLeft
<1>9. \A r : live(r) = {}
  <2>1. \A c \in columns : ToSet(LiveRows(elim, c)) = {}
    <3> SUFFICES ASSUME NEW c \in columns PROVE ToSet(LiveRows(elim, c)) = {}
      OBVIOUS
    <3>1. elim.incidence[c] \in Seq(R)
      BY <1>3
    <3>2. ToSet(LiveRows(elim, c)) = Recorded(elim, c)
      BY <3>1, LiveRowsAre
    <3> QED BY <3>2, <1>8
  <2> QED BY <2>1
<1> HIDE DEF columns, live, R, C
<1>10. w = elim.rowNonzeros
  <2>1. Cardinality({}) = 0
    BY FS_EmptySet
  <2>2. ASSUME NEW r \in R
        PROVE  elim.rowNonzeros[r] - Cardinality(live(r)) = elim.rowNonzeros[r]
    <3>1. PICK k \in Int : k = elim.rowNonzeros[r]
      BY <1>3
    <3>2. live(r) = {}
      BY <1>9
    <3>3. Cardinality(live(r)) = 0
      BY <2>1, <3>2, Zenon
    <3> QED BY <3>1, <3>3
  <2> QED BY <2>2, <1>3 DEF w
<1>11. Unsolved(R, m) = Unsolved(R, elim) /\ \A c : Holders(R, m, c) = Holders(R, elim, c)
  BY <1>6 DEF Unsolved, Holders
<1>12. ASSUME NEW r \in R \ m.used PROVE RowCounted(m, r)
  <2>1. RowCounted(elim, r)
    BY <1>6, <1>7 DEF Counts
  <2>2. \A c \in columns : c \notin DOMAIN elim.matrix[r]
    BY <1>6, <1>8 DEF Holders
  <2> QED BY <2>1, <2>2, <1>6, <1>10 DEF RowCounted, a
<1>13. ASSUME NEW c \in m.active PROVE ColumnCounted(R, m, c)
  <2>1. c \in C /\ c \notin columns /\ ColumnCounted(R, elim, c)
    BY <1>3, <1>6, <1>7 DEF Counts, a
  <2>2. n[c] = elim.columnNonzeros[c] /\ i[c] = elim.incidence[c]
    BY <2>1, <1>3 DEF n, i
  <2> QED BY <2>1, <2>2, <1>6, <1>11 DEF ColumnCounted
<1>14. Counts(R, m, {})
  BY <1>6, <1>7, <1>11, <1>12, <1>13 DEF Counts
<1>15. Noticed(m)
  BY <1>6, <1>7 DEF Noticed, a
<1> QED BY <1>1, <1>5, <1>14, <1>15 DEF UpToDate, R

LEMMA ChoosePivotNotices ==
  ASSUME EliminationTyped, PivotsNoticed, ChoosePivot, IsInjective(elim'.rowMap)
  PROVE  UpToDate(Rows, elim', queue', batch', step')
<1> DEFINE entries == IF queue.matching # {} THEN queue.matching ELSE queue.fallback
           q == [queue EXCEPT !.activeColumns = @ - 1, !.since = @ + 1]
<1>1. /\ step \in {"matching", "fallback"} /\ Pivot(elim, Top(entries).pivot)
      /\ entries # {} /\ queue' = q
  BY DEF ChoosePivot, BothSettled, MatchingSettled, Undecided, NoChoice
<1>2. /\ WellFormed(system) /\ Typed(Rows, Columns, elim) /\ QueueTyped(Rows, Columns, queue)
  BY <1>1 DEF EliminationTyped
<1>3. q.matching = queue.matching /\ q.fallback = queue.fallback /\ q.version = queue.version
  BY <1>2 DEF QueueTyped, QueueFields, QueueNames
<1>4. EntriesTyped(Rows, Columns, entries)
  BY <1>2 DEF QueueTyped, Kinds
<1> HIDE DEF entries, q
<1>5. ChoiceTyped(Rows, Columns, Top(entries).pivot)
  BY <1>1, <1>2, <1>4, SystemIs, TopIs
<1>6. PICK choice, p : choice = Top(entries).pivot /\ p = q
  OBVIOUS
<1>7. IsInjective(elim.rowMap) /\ choice.row \notin elim.used
  BY <1>1, <1>2, <1>5, <1>6, PivotMapped
<1>8. Counts(Rows, elim, {}) /\ Noticed(elim) /\ Follows(elim, queue)
  BY <1>1, <1>7 DEF PivotsNoticed, UpToDate, RowsPivotOnce
<1>9. UpToDate(Rows, elim', p, batch', step')
  BY <1>1, <1>2, <1>3, <1>5, <1>6, <1>7, <1>8, PivotGoesOn
<1> QED BY <1>1, <1>6, <1>9

LEMMA RowsNotice ==
  ASSUME EliminationTyped, PivotsNoticed, IsInjective(elim'.rowMap),
         CommitRows \/ \E i \in DOMAIN batch.tasks : EliminateRow(i)
  PROVE  UpToDate(Rows, elim', queue', batch', step')
<1> DEFINE R == Rows
           C == Columns
<1>1. step = "rows" /\ queue' = queue
  BY DEF CommitRows, EliminateRow
<1>2. WellFormed(system) /\ Typed(R, C, elim) /\ BatchTyped(R, C, elim, batch)
  BY <1>1 DEF EliminationTyped
<1>3. IsFiniteSet(R) /\ IsFiniteSet(C)
  BY <1>2, SystemIs
<1>4. PICK s, choice : s = batch.before /\ choice = batch.choice
  OBVIOUS
<1>5. /\ Typed(R, C, s) /\ choice.column \in C
      /\ s.rowMap = elim.rowMap /\ s.group = elim.group
  BY <1>2, <1>4 DEF BatchTyped, SameCounts
<1>6. RowsPivotOnce => /\ RowsFound(R, s, choice) /\ Noticed(s)
                       /\ s.group # 0 => Follows(s, queue)
  BY <1>1, <1>4 DEF PivotsNoticed, UpToDate
<1> HIDE DEF R, C
<1>7. CASE \E i \in DOMAIN batch.tasks : EliminateRow(i)
  <2>1. PICK i \in DOMAIN batch.tasks : EliminateRow(i)
    BY <1>7
  <2>2. /\ step' = "rows" /\ elim' = Eliminated(elim, choice, batch.tasks[i])
        /\ batch' = [batch EXCEPT !.tasks[i] = Noted(elim, batch.choice, @),
                                  !.done = Append(@, i)]
    BY <2>1, <1>4 DEF EliminateRow
  <2>3. elim'.rowMap = elim.rowMap
    <3>1. Fields(elim)
      BY <1>2 DEF Typed
    <3> QED BY <2>2, <3>1 DEF Eliminated, Fields, FieldNames
  <2>4. RowsPivotOnce
    BY <2>3 DEF RowsPivotOnce
  <2>5. batch'.before = s /\ batch'.choice = choice
    BY <2>2, <1>2, <1>4 DEF BatchTyped, BatchFields
  <2> QED BY <2>2, <2>4, <2>5, <1>1, <1>6 DEF UpToDate, R
<1>8. CASE CommitRows
  <2>1. PICK m : m = Finished(Serially(s, choice), choice.column)
    OBVIOUS
  <2>2. elim' = m
    BY <2>1, <1>4, <1>8, CommitRowsIs
  <2>3. m.rowMap = s.rowMap
    <3>1. PICK t : t = Serially(s, choice)
      OBVIOUS
    <3>2. t.rowMap = s.rowMap /\ Typed(R, C, t)
      BY <3>1, <1>3, <1>5, SeriallyNoPivot, SeriallyTyped DEF SamePivots
    <3>3. Fields(t) /\ m = Finished(t, choice.column)
      BY <2>1, <3>1, <3>2 DEF Typed
    <3>4. IsFinished(m, t, choice.column)
      BY <3>3, FinishedIs
    <3> QED BY <3>2, <3>4 DEF IsFinished
  <2>4. /\ RowsFound(R, s, choice) /\ Noticed(s)
        /\ s.group # 0 => Follows(s, queue)
    BY <2>2, <2>3, <1>5, <1>6 DEF RowsPivotOnce
  <2>5. Typed(R, C, m) /\ Counts(R, m, {}) /\ Marks(m, s)
    BY <2>1, <2>4, <1>3, <1>5, PivotEnds
  <2>6. Noticed(m) /\ m.group = s.group
    <3>1. Noticed(m)
      BY <2>4, <2>5, NoticedOn
    <3> QED BY <3>1, <2>5 DEF Marks
  <2>7. s.group # 0 => Follows(m, queue)
    BY <2>4, <2>5, <1>5, FollowsOn
  <2>8. step' = Resumed
    BY <1>8 DEF CommitRows
  <2> QED BY <2>2, <2>5, <2>6, <2>7, <2>8, <1>1, <1>5 DEF UpToDate, Resumed, R
<1> QED BY <1>7, <1>8

LEMMA EliminateNotices ==
  ASSUME EliminationTyped, PivotsNoticed, Eliminate, IsInjective(elim'.rowMap)
  PROVE  UpToDate(Rows, elim', queue', batch', step')
<1>1. CASE LeaveBasis \/ SolvedEarly
  <2>1. /\ step \in {"basis", "matching"} /\ step' \in {"group", "finish"} /\ elim' = elim
        /\ queue' = queue /\ batch' = batch
    BY <1>1 DEF LeaveBasis, SolvedEarly
  <2>2. Counts(Rows, elim, {}) /\ Noticed(elim)
    BY <2>1 DEF PivotsNoticed, UpToDate, RowsPivotOnce
  <2> QED BY <2>1, <2>2 DEF UpToDate
<1>2. CASE Finish
  BY <1>2 DEF Finish, UpToDate
<1> QED BY <1>1, <1>2, PivotBasisColumnNotices, StartGroupNotices, RefreshNotices,
           DrainGroupNotices, ChoosePivotNotices, RowsNotice DEF Eliminate

LEMMA StartedCounts ==
  ASSUME NEW input, WellFormed(input), NEW R, R = DOMAIN input.matrix,
         NEW s, s = Started(input.matrix, input.rhs, DOMAIN input.columnGroup)
  PROVE  Counts(R, s, {}) /\ s.group = 0 /\ s.dirty = {}
<1> DEFINE C == DOMAIN input.columnGroup
           with(c) == {r \in R : c \in DOMAIN input.matrix[r]}
           a == [r \in R |-> Nonzeros(input.rhs[r])]
           b == Cardinality({r \in R : Nonzeros(input.rhs[r]) # 0})
           i == [c \in C |-> Ascending(with(c))]
           w == [r \in R |-> Cardinality(DOMAIN input.matrix[r])]
           n == [c \in C |-> Cardinality(with(c))]
<1>1. /\ IsFiniteSet(R) /\ R \subseteq Int
      /\ \A r \in R : DOMAIN input.matrix[r] \subseteq C
  BY DEF WellFormed
<1>2. /\ s.matrix = input.matrix /\ s.rhs = input.rhs /\ s.rhsNonzeros = a
      /\ s.residual = b /\ s.incidence = i /\ s.rowNonzeros = w /\ s.columnNonzeros = n
      /\ s.active = C /\ s.used = {} /\ s.group = 0 /\ s.dirty = {}
  <2>1. s = [matrix |-> input.matrix, rhs |-> input.rhs, rhsNonzeros |-> a, residual |-> b,
             incidence |-> i, rowNonzeros |-> w, columnNonzeros |-> n, active |-> C,
             used |-> {}, rowMap |-> <<>>, columns |-> <<>>, group |-> 0, dirty |-> {},
             dirtyList |-> {}, operations |-> <<>>]
    BY DEF Started
  <2> HIDE DEF a, b, i, w, n, C
  <2> QED BY <2>1
<1>3. Unsolved(R, s) = {r \in R : Nonzeros(input.rhs[r]) # 0}
  BY <1>2 DEF Unsolved
<1>4. \A c : Holders(R, s, c) = with(c)
  BY <1>2 DEF Holders
<1>5. ASSUME NEW r \in R PROVE RowCounted(s, r)
  BY <1>1, <1>2 DEF RowCounted
<1>6. ASSUME NEW c \in C PROVE ColumnCounted(R, s, c)
  <2>1. s.columnNonzeros[c] = Cardinality(with(c)) /\ s.incidence[c] = Ascending(with(c))
    BY <1>2
  <2>2. with(c) \subseteq R
    OBVIOUS
  <2> HIDE DEF with
  <2>3. IsFiniteSet(with(c)) /\ with(c) \subseteq Int
    BY <2>2, <1>1, PartOfFinite
  <2>4. \A x \in with(c) : \E k \in DOMAIN Ascending(with(c)) : Ascending(with(c))[k] = x
    BY <2>3, AscendingIs
  <2>5. with(c) \subseteq ToSet(s.incidence[c])
    BY <2>1, <2>4 DEF ToSet
  <2> QED BY <2>1, <2>5, <1>4 DEF ColumnCounted
<1> QED BY <1>2, <1>3, <1>5, <1>6 DEF Counts

LEMMA LoadNotices ==
  ASSUME NEW input, WellFormed(input), Load(input)
  PROVE  PivotsNoticed'
<1>1. /\ system' = input /\ step' = "basis"
      /\ elim' = Started(input.matrix, input.rhs, DOMAIN input.columnGroup)
  BY DEF Load
<1>2. PICK R, s : R = DOMAIN input.matrix /\ s = elim'
  OBVIOUS
<1>3. Counts(R, s, {}) /\ s.group = 0 /\ s.dirty = {}
  BY <1>1, <1>2, StartedCounts
<1>4. Rows' = R
  BY <1>1, <1>2 DEF Rows
<1>5. Counts(Rows, elim, {})' /\ elim'.group = 0
  BY <1>2, <1>3, <1>4
<1>6. Noticed(elim)'
  BY <1>2, <1>3 DEF Noticed
<1> QED BY <1>1, <1>5, <1>6 DEF PivotsNoticed, UpToDate

\* Scores are those of the system, which a step of the elimination leaves as it is.
LEMMA SameSystem ==
  ASSUME system' = system
  PROVE  UpToDate(Rows, elim, queue, batch, step)'
           <=> UpToDate(Rows, elim', queue', batch', step')
<1>1. \A k : Score(k)' = Score(k)
  BY DEF Score, Complexity
<1>2. \A a, b : Better(a, b)' <=> Better(a, b)
  BY <1>1 DEF Better
<1>3. \A S : Best(S)' = Best(S)
  BY <1>2 DEF Best
<1>4. \A s, kind, c : BestChoice(s, kind, c)' = BestChoice(s, kind, c)
  BY <1>3 DEF BestChoice
<1>5. /\ Follows(elim, queue)' <=> Follows(elim', queue')
      /\ Follows(batch.before, queue)' <=> Follows(batch'.before, queue')
  BY <1>4 DEF Follows, FollowsAt, Unmarked
<1>6. /\ Noticed(elim)' <=> Noticed(elim')
      /\ Noticed(batch.before)' <=> Noticed(batch'.before)
  BY DEF Noticed
<1>7. /\ Counts(Rows, elim, {})' <=> Counts(Rows, elim', {})
      /\ RowsFound(Rows, batch.before, batch.choice)'
           <=> RowsFound(Rows, batch'.before, batch'.choice)
  BY DEF Rows, RowsFound, Midway
<1> QED BY <1>5, <1>6, <1>7 DEF UpToDate

LEMMA PlannerStepNotices ==
  ASSUME PlannerTyped, PivotsNoticed, [Next]_vars
  PROVE  PivotsNoticed'
<1>0. /\ SourceTyped(source) /\ SourceTyped(whole)
      /\ phase \in {"plan", "local"} \/ step = "done"
      /\ EliminationTyped
  BY DEF PlannerTyped
<1>1. ASSUME system' = system,
             IsInjective(elim'.rowMap) => UpToDate(Rows, elim', queue', batch', step')
      PROVE  PivotsNoticed'
  <2>1. RowsPivotOnce' <=> IsInjective(elim'.rowMap)
    BY DEF RowsPivotOnce
  <2>2. UpToDate(Rows, elim, queue, batch, step)'
          <=> UpToDate(Rows, elim', queue', batch', step')
    BY <1>1, SameSystem
  <2> QED BY <2>1, <2>2, <1>1 DEF PivotsNoticed
<1>2. CASE EliminateStep
  <2>1. Eliminate
    BY <1>2 DEF EliminateStep
  <2>2. system' = system
    BY <2>1 DEF Eliminate, PivotBasisColumn, LeaveBasis, StartGroup, SolvedEarly, RefreshDue,
               DiscardMatching, DiscardFallback, RefreshRest, DrainGroup, ChoosePivot,
               EliminateRow, CommitRows, Finish
  <2> QED BY <2>1, <2>2, <1>0, <1>1, EliminateNotices
<1>3. ASSUME NEW input, WellFormed(input), Load(input) PROVE PivotsNoticed'
  BY <1>3, LoadNotices
<1>4. CASE UNCHANGED elimVars
  <2>1. /\ system' = system /\ elim' = elim /\ queue' = queue /\ batch' = batch /\ step' = step
    BY <1>4 DEF elimVars
  <2>2. IsInjective(elim'.rowMap) => UpToDate(Rows, elim', queue', batch', step')
    BY <2>1 DEF PivotsNoticed, RowsPivotOnce
  <2> QED BY <2>1, <2>2, <1>1
<1>5. CASE Conclude
  <2>1. (\E result : Return(result)) \/ PlanInFull
    BY <1>5 DEF Conclude
  <2>2. CASE \E result : Return(result)
    BY <2>2, <1>4 DEF Return
  <2>3. CASE PlanInFull
    BY <2>3, <1>0, <1>3, InputWellFormed DEF PlanInFull
  <2> QED BY <2>1, <2>2, <2>3
<1>6. CASE Reuse
  BY <1>4, <1>6 DEF Reuse
<1>7. CASE Reselect
  <2> DEFINE rows == Envelope(source, answer.order)
             ids == WithinRows(source, rows)
  <2>1. /\ source' = LocalSource(source, rows, Ascending(ids))
        /\ Load(MarkowitzInput(source', projected'))
    BY <1>7 DEF Reselect
  <2>2. SourceTyped(source')
    BY <2>1, <1>0, LocalSourceTyped
  <2> QED BY <2>1, <2>2, <1>3, InputWellFormed
<1>8. CASE FallBack
  BY <1>0, <1>3, <1>8, InputWellFormed DEF FallBack
<1>9. CASE Rest \/ UNCHANGED vars
  BY <1>4, <1>9 DEF Rest, vars
<1> QED BY <1>2, <1>5, <1>6, <1>7, <1>8, <1>9 DEF Next

LEMMA PlannerStartsNoticed ==
  ASSUME Init
  PROVE  PivotsNoticed
<1>1. /\ source \in Sources /\ step = "basis" /\ system = MarkowitzInput(source, projected)
      /\ elim = Started(system.matrix, system.rhs, DOMAIN system.columnGroup)
  BY DEF Init
<1>2. WellFormed(system)
  BY <1>1, SourcesAssumption, InputWellFormed
<1>3. PICK R, s : R = DOMAIN system.matrix /\ s = elim
  OBVIOUS
<1>4. Counts(R, s, {}) /\ s.group = 0 /\ s.dirty = {}
  BY <1>1, <1>2, <1>3, StartedCounts
<1>5. Counts(Rows, elim, {}) /\ Noticed(elim) /\ elim.group = 0
  BY <1>3, <1>4 DEF Rows, Noticed
<1> QED BY <1>1, <1>5 DEF PivotsNoticed, UpToDate

\* What the counters and the queues of the runs' property are.
LEMMA PivotsNoticedShow ==
  ASSUME PivotsNoticed
  PROVE  NoPivotOverlooked
<1>1. Counts(Rows, elim, {}) => CountersFollow
  BY DEF Counts, CountersFollow, Unsolved, RowCounted, ColumnCounted, Holders, UnusedRows
<1>2. Follows(elim, queue) => QueuesFollow
  BY DEF Follows, FollowsAt, QueuesFollow, Unmarked, Kinds, OfColumn
<1> QED BY <1>1, <1>2 DEF PivotsNoticed, UpToDate, NoPivotOverlooked

-----------------------------------------------------------------------------
(***************************************************************************)
(* Arithmetic modulo Prime.                                                *)
(***************************************************************************)
Congruent(a, b) == a % Prime = b % Prime

LEMMA PrimeIs == Prime \in Nat /\ Prime > 1 /\ Prime # 0 /\ 0 \in Field /\ Field \subseteq Int
BY PrimeAssumption DEF Field

LEMMA Quotient ==
  ASSUME NEW a \in Int
  PROVE  \E q \in Int : a = Prime * q + (a % Prime)
<1> DEFINE p == Prime
<1>1. p \in Nat \ {0}
  BY PrimeIs
<1>2. a \div p \in Int /\ a = p * (a \div p) + (a % p)
  BY <1>1
<1> QED BY <1>2

LEMMA RemainderIs ==
  ASSUME NEW a \in Int
  PROVE  a % Prime \in Field
<1> DEFINE p == Prime
<1>1. p \in Nat \ {0}
  BY PrimeIs
<1>2. a % p \in 0 .. p - 1
  BY <1>1
<1> QED BY <1>2 DEF Field

LEMMA OfField ==
  ASSUME NEW a \in Field
  PROVE  a % Prime = a /\ a \in Int
<1> DEFINE p == Prime
<1>1. p \in Nat \ {0} /\ a \in 0 .. p - 1
  BY PrimeIs DEF Field
<1> HIDE DEF p
<1>2. a % p = a
  BY <1>1
<1> QED BY <1>1, <1>2 DEF p

LEMMA SmallMultiple ==
  ASSUME NEW p \in Nat, p > 0, NEW a \in 0 .. p - 1, NEW b \in 0 .. p - 1, NEW k \in Int,
         a - b = p * k
  PROVE  a = b
<1>1. CASE k >= 1
  <2>1. p * k >= p
    BY <1>1
  <2> QED BY <2>1
<1>2. CASE k <= -1
  <2>1. p * k <= -p
    BY <1>2
  <2> QED BY <2>1
<1>3. CASE k = 0
  BY <1>3
<1> QED BY <1>1, <1>2, <1>3

LEMMA CongruentIs ==
  ASSUME NEW a \in Int, NEW b \in Int
  PROVE  Congruent(a, b) <=> \E k \in Int : a = b + Prime * k
<1> DEFINE p == Prime
<1>0. p \in Nat /\ p > 0
  BY PrimeIs
<1>1. PICK q \in Int : a = p * q + (a % p)
  BY Quotient
<1>2. PICK r \in Int : b = p * r + (b % p)
  BY Quotient
<1>3. a % p \in 0 .. p - 1 /\ b % p \in 0 .. p - 1
  BY RemainderIs DEF Field
<1>4. ASSUME Congruent(a, b) PROVE \E k \in Int : a = b + p * k
  <2>1. a = b + p * (q - r)
    <3>1. PICK x : x = a % p /\ x = b % p /\ x \in Int
      BY <1>3, <1>4 DEF Congruent
    <3>2. a = p * q + x /\ b = p * r + x
      BY <1>1, <1>2, <3>1
    <3> HIDE DEF p
    <3>3. p * (q - r) = p * q - p * r
      BY <1>0
    <3>4. p * q \in Int /\ p * r \in Int
      BY <1>0
    <3> QED BY <3>1, <3>2, <3>3, <3>4
  <2>2. q - r \in Int
    OBVIOUS
  <2> QED BY <2>1, <2>2
<1>5. ASSUME NEW k \in Int, a = b + p * k PROVE Congruent(a, b)
  <2>1. PICK x \in 0 .. p - 1, y \in 0 .. p - 1 : x = a % p /\ y = b % p
    BY <1>3
  <2>2. a = p * q + x /\ b = p * r + y
    BY <1>1, <1>2, <2>1
  <2> HIDE DEF p
  <2>3. x - y = p * (r - q + k)
    <3>1. p * (r - q + k) = p * r - p * q + p * k
      BY <1>0
    <3>2. p * q \in Int /\ p * r \in Int /\ p * k \in Int /\ x \in Int /\ y \in Int
      BY <1>0
    <3>3. PICK u \in Int, v \in Int, w \in Int : u = p * q /\ v = p * r /\ w = p * k
      BY <3>2
    <3>4. a = u + x /\ b = v + y /\ a = b + w
      BY <1>5, <2>2, <3>3
    <3>5. x - y = v - u + w
      BY <3>2, <3>4
    <3> QED BY <3>1, <3>3, <3>5
  <2>4. x = y
    BY <1>0, <2>3, SmallMultiple
  <2> QED BY <2>1, <2>4 DEF Congruent, p
<1> HIDE DEF p
<1> QED BY <1>4, <1>5 DEF p

LEMMA CongruentRemainder ==
  ASSUME NEW a \in Int
  PROVE  Congruent(a % Prime, a) /\ Congruent(a, a % Prime)
<1>1. a % Prime \in Field
  BY RemainderIs
<1>2. (a % Prime) % Prime = a % Prime
  BY <1>1, OfField
<1> QED BY <1>2 DEF Congruent

LEMMA CongruentEqual ==
  ASSUME NEW a \in Field, NEW b \in Field, Congruent(a, b)
  PROVE  a = b
BY OfField DEF Congruent

LEMMA CongruentSum ==
  ASSUME NEW a \in Int, NEW b \in Int, NEW c \in Int, NEW d \in Int, Congruent(a, b), Congruent(c, d),
         NEW x, x = a + c, NEW y, y = b + d
  PROVE  Congruent(x, y)
<1> DEFINE p == Prime
<1>0. p \in Int
  BY PrimeIs
<1>1. PICK k \in Int : a = b + p * k
  BY CongruentIs
<1>2. PICK l \in Int : c = d + p * l
  BY CongruentIs
<1> HIDE DEF p
<1>3. x = y + p * (k + l)
  BY <1>0, <1>1, <1>2
<1>4. k + l \in Int /\ x \in Int /\ y \in Int
  OBVIOUS
<1> QED BY <1>3, <1>4, CongruentIs DEF p

LEMMA CongruentMultiple ==
  ASSUME NEW c \in Int, NEW d \in Int, NEW f \in Int, Congruent(c, d),
         NEW x, x = f * c, NEW y, y = f * d
  PROVE  Congruent(x, y)
<1> DEFINE p == Prime
<1>0. p \in Int
  BY PrimeIs
<1>1. PICK l \in Int : c = d + p * l
  BY CongruentIs
<1> HIDE DEF p
<1>2. x = y + p * (f * l)
  <2>1. f * c = f * d + f * (p * l)
    BY <1>0, <1>1
  <2>2. f * (p * l) = p * (f * l)
    BY <1>0
  <2> QED BY <2>1, <2>2
<1>3. f * l \in Int /\ x \in Int /\ y \in Int
  OBVIOUS
<1> QED BY <1>2, <1>3, CongruentIs DEF p

\* a = b and c = d modulo Prime give a + f * c = b + f * d.
LEMMA CongruentLinear ==
  ASSUME NEW a \in Int, NEW b \in Int, NEW c \in Int, NEW d \in Int, NEW f \in Int,
         Congruent(a, b), Congruent(c, d), NEW x, x = a + f * c, NEW y, y = b + f * d
  PROVE  Congruent(x, y)
<1>1. PICK u \in Int, v \in Int : u = f * c /\ v = f * d
  OBVIOUS
<1>2. Congruent(u, v)
  BY <1>1, CongruentMultiple
<1>3. x = a + u /\ y = b + v
  BY <1>1
<1> QED BY <1>2, <1>3, CongruentSum

LEMMA CongruentTrans ==
  ASSUME NEW a, NEW b, NEW c, Congruent(a, b), Congruent(b, c)
  PROVE  Congruent(a, c) /\ Congruent(b, a)
BY DEF Congruent

\* The multiplicative group: what is divided by a pivot can be multiplied by it again.
LEMMA ReciprocalIs ==
  ASSUME NEW a \in Field \ {0}
  PROVE  Reciprocal(a) \in Field /\ (a * Reciprocal(a)) % Prime = 1
BY PrimeAssumption DEF Reciprocal

LEMMA ReciprocalUndone ==
  ASSUME NEW a \in Field \ {0}, NEW b \in Int
  PROVE  Congruent(a * (b * Reciprocal(a)), b)
<1> DEFINE p == Prime
<1>0. p \in Nat /\ p > 1
  BY PrimeIs
<1>1. PICK i \in Field : i = Reciprocal(a) /\ (a * i) % p = 1
  BY ReciprocalIs
<1>2. a \in Int /\ i \in Int
  BY OfField
<1>3. 1 % p = 1
  <2>1. 1 \in Field
    BY <1>0 DEF Field
  <2> QED BY <2>1, OfField
<1>4. Congruent(a * i, 1)
  BY <1>1, <1>3 DEF Congruent
<1>5. PICK x \in Int : x = a * (b * i)
  BY <1>2
<1>6. PICK c \in Int, d \in Int : c = a * i /\ d = 1
  BY <1>2
<1>8. x = b * c /\ b = b * d
  BY <1>2, <1>5, <1>6
<1>7. Congruent(x, b)
  BY <1>4, <1>6, <1>8, CongruentMultiple
<1> QED BY <1>1, <1>5, <1>7

-----------------------------------------------------------------------------

-----------------------------------------------------------------------------
(***************************************************************************)
(* Sums.  Total adds integers; Sum, in which answers are stated, is its    *)
(* remainder.                                                              *)
(***************************************************************************)
Total(f, n) == Folded(0, f, [i \in 1 .. n |-> i], "plus")

Adds(g, f, n) == g[0] = 0 /\ \A i \in 1 .. n : g[i] = g[i - 1] + f[i]

LEMMA TotalChain ==
  ASSUME NEW f, NEW n \in Nat
  PROVE  \E g : Adds(g, f, n) /\ g[n] = Total(f, n)
<1> DEFINE seq == [i \in 1 .. n |-> i]
<1>1. DOMAIN seq = 1 .. n
  OBVIOUS
<1>2. PICK g : Chain(g, 0, f, seq, "plus") /\ g[n] = Folded(0, f, seq, "plus")
  <2> HIDE DEF seq
  <2> QED BY <1>1, FoldChain
<1>3. \A i \in 1 .. n : g[i] = g[i - 1] + f[i]
  BY <1>1, <1>2 DEF Chain, StepOf
<1>4. g[0] = 0
  BY <1>2 DEF Chain
<1> QED BY <1>2, <1>3, <1>4 DEF Adds, Total

LEMMA TotalStep ==
  ASSUME NEW f, NEW n \in Nat
  PROVE  Total(f, 0) = 0 /\ Total(f, n + 1) = Total(f, n) + f[n + 1]
<1>1. Total(f, 0) = 0
  <2>1. PICK g : Adds(g, f, 0) /\ g[0] = Total(f, 0)
    BY TotalChain
  <2> QED BY <2>1 DEF Adds
<1>2. PICK g : Adds(g, f, n) /\ g[n] = Total(f, n)
  BY TotalChain
<1>3. PICK h : Adds(h, f, n + 1) /\ h[n + 1] = Total(f, n + 1)
  <2>1. n + 1 \in Nat
    OBVIOUS
  <2> QED BY <2>1, TotalChain
<1> DEFINE K == {i \in Nat : i <= n => g[i] = h[i]}
<1>4. 0 \in K
  BY <1>2, <1>3 DEF Adds
<1>5. ASSUME NEW i \in Nat, i \in K PROVE i + 1 \in K
  <2>1. SUFFICES ASSUME i + 1 <= n PROVE g[i + 1] = h[i + 1]
    BY <1>5
  <2>2. g[i] = h[i] /\ i + 1 \in 1 .. n /\ i + 1 \in 1 .. n + 1 /\ (i + 1) - 1 = i
    BY <1>5, <2>1
  <2> QED BY <1>2, <1>3, <2>2 DEF Adds
<1>6. n \in K
  <2> HIDE DEF K
  <2> QED BY <1>4, <1>5, SetInduction
<1>7. h[n + 1] = h[n] + f[n + 1]
  <2>1. n + 1 \in 1 .. n + 1 /\ (n + 1) - 1 = n
    OBVIOUS
  <2> QED BY <1>3, <2>1 DEF Adds
<1> QED BY <1>1, <1>2, <1>3, <1>6, <1>7

LEMMA TotalInt ==
  ASSUME NEW n \in Nat, NEW f, \A i \in 1 .. n : f[i] \in Int
  PROVE  Total(f, n) \in Int
<1> DEFINE K == {i \in Nat : i <= n => Total(f, i) \in Int}
<1>1. 0 \in K
  BY TotalStep
<1>2. ASSUME NEW i \in Nat, i \in K PROVE i + 1 \in K
  <2>1. SUFFICES ASSUME i + 1 <= n PROVE Total(f, i + 1) \in Int
    BY <1>2
  <2>2. Total(f, i) \in Int /\ i + 1 \in 1 .. n
    BY <1>2, <2>1
  <2>3. f[i + 1] \in Int /\ Total(f, i + 1) = Total(f, i) + f[i + 1]
    BY <2>2, TotalStep
  <2> QED BY <2>2, <2>3
<1>3. n \in K
  <2> HIDE DEF K
  <2> QED BY <1>1, <1>2, SetInduction
<1> QED BY <1>3

\* The factor is zero where there is none.
LEMMA TotalCongruent ==
  ASSUME NEW n \in Nat, NEW f, NEW g, NEW h, NEW a \in Int,
         \A i \in 1 .. n : /\ f[i] \in Int /\ g[i] \in Int /\ h[i] \in Int
                           /\ Congruent(f[i], g[i] + a * h[i])
  PROVE  Congruent(Total(f, n), Total(g, n) + a * Total(h, n))
<1> DEFINE K == {i \in Nat : i <= n => Congruent(Total(f, i), Total(g, i) + a * Total(h, i))}
<1>1. 0 \in K
  <2>1. Total(f, 0) = 0 /\ Total(g, 0) = 0 /\ Total(h, 0) = 0
    BY TotalStep
  <2>2. Total(g, 0) + a * Total(h, 0) = 0
    BY <2>1
  <2> QED BY <2>1, <2>2 DEF Congruent
<1>2. ASSUME NEW i \in Nat, i \in K PROVE i + 1 \in K
  <2>1. SUFFICES ASSUME i + 1 <= n
                 PROVE Congruent(Total(f, i + 1), Total(g, i + 1) + a * Total(h, i + 1))
    BY <1>2
  <2>2. /\ Total(f, i + 1) = Total(f, i) + f[i + 1] /\ Total(g, i + 1) = Total(g, i) + g[i + 1]
        /\ Total(h, i + 1) = Total(h, i) + h[i + 1]
    BY TotalStep
  <2>3. i + 1 \in 1 .. n /\ \A k \in 1 .. i : k \in 1 .. n
    BY <2>1
  <2>4. PICK x \in Int, y \in Int, z \in Int :
          x = Total(f, i) /\ y = Total(g, i) /\ z = Total(h, i)
    <3>1. \A k \in 1 .. i : f[k] \in Int /\ g[k] \in Int /\ h[k] \in Int
      BY <2>3
    <3> QED BY <3>1, TotalInt
  <2>5. PICK u \in Int, v \in Int, w \in Int : u = f[i + 1] /\ v = g[i + 1] /\ w = h[i + 1]
    BY <2>3
  <2>6. PICK c \in Int, d \in Int : c = y + a * z /\ d = v + a * w
    OBVIOUS
  <2>7. Congruent(x, c)
    <3>1. Congruent(Total(f, i), Total(g, i) + a * Total(h, i))
      BY <1>2, <2>1
    <3> QED BY <3>1, <2>4, <2>6
  <2>8. Congruent(u, d)
    <3>1. Congruent(f[i + 1], g[i + 1] + a * h[i + 1])
      BY <2>3
    <3> QED BY <3>1, <2>5, <2>6
  <2>9. PICK s \in Int, t \in Int : s = x + u /\ t = c + d
    OBVIOUS
  <2>10. Congruent(s, t)
    BY <2>7, <2>8, <2>9, CongruentSum
  <2>11. s = Total(f, i + 1)
    BY <2>2, <2>4, <2>5, <2>9
  <2>12. t = Total(g, i + 1) + a * Total(h, i + 1)
    <3>1. a * (z + w) = a * z + a * w /\ a * z \in Int /\ a * w \in Int
      OBVIOUS
    <3>2. Total(g, i + 1) = y + v /\ Total(h, i + 1) = z + w
      BY <2>2, <2>4, <2>5
    <3> QED BY <3>1, <3>2, <2>6, <2>9
  <2> QED BY <2>10, <2>11, <2>12
<1>3. n \in K
  <2> HIDE DEF K
  <2> QED BY <1>1, <1>2, SetInduction
<1> QED BY <1>3

LEMMA TotalSame ==
  ASSUME NEW n \in Nat, NEW f, NEW g, \A i \in 1 .. n : f[i] = g[i]
  PROVE  Total(f, n) = Total(g, n)
<1> DEFINE K == {i \in Nat : i <= n => Total(f, i) = Total(g, i)}
<1>1. 0 \in K
  BY TotalStep
<1>2. ASSUME NEW i \in Nat, i \in K PROVE i + 1 \in K
  <2>1. SUFFICES ASSUME i + 1 <= n PROVE Total(f, i + 1) = Total(g, i + 1)
    BY <1>2
  <2>2. f[i + 1] = g[i + 1] /\ Total(f, i) = Total(g, i)
    BY <1>2, <2>1
  <2> QED BY <2>2, TotalStep
<1>3. n \in K
  <2> HIDE DEF K
  <2> QED BY <1>1, <1>2, SetInduction
<1> QED BY <1>3

LEMMA TotalZero ==
  ASSUME NEW n \in Nat, NEW f, \A i \in 1 .. n : f[i] = 0
  PROVE  Total(f, n) = 0
<1> DEFINE K == {i \in Nat : i <= n => Total(f, i) = 0}
<1>1. 0 \in K
  BY TotalStep
<1>2. ASSUME NEW i \in Nat, i \in K PROVE i + 1 \in K
  <2>1. SUFFICES ASSUME i + 1 <= n PROVE Total(f, i + 1) = 0
    BY <1>2
  <2>2. f[i + 1] = 0 /\ Total(f, i) = 0
    BY <1>2, <2>1
  <2> QED BY <2>2, TotalStep
<1>3. n \in K
  <2> HIDE DEF K
  <2> QED BY <1>1, <1>2, SetInduction
<1> QED BY <1>3

\* Sums that differ in one summand.
LEMMA TotalOne ==
  ASSUME NEW n \in Nat, NEW j \in 1 .. n, NEW f, NEW g,
         \A i \in 1 .. n : f[i] \in Int /\ g[i] \in Int /\ (i # j => f[i] = g[i])
  PROVE  Total(f, n) = Total(g, n) + (f[j] - g[j])
<1> DEFINE K == {i \in Nat : i <= n => Total(f, i) = IF i < j THEN Total(g, i)
                                                   ELSE Total(g, i) + (f[j] - g[j])}
<1>1. 0 \in K
  BY TotalStep
<1>2. ASSUME NEW i \in Nat, i \in K PROVE i + 1 \in K
  <2>1. SUFFICES ASSUME i + 1 <= n
                 PROVE  Total(f, i + 1) = IF i + 1 < j THEN Total(g, i + 1)
                                          ELSE Total(g, i + 1) + (f[j] - g[j])
    BY <1>2
  <2>2. /\ Total(f, i + 1) = Total(f, i) + f[i + 1] /\ Total(g, i + 1) = Total(g, i) + g[i + 1]
    BY TotalStep
  <2>3. i + 1 \in 1 .. n /\ \A k \in 1 .. i : k \in 1 .. n
    BY <2>1
  <2>4. Total(f, i) \in Int /\ Total(g, i) \in Int
    <3>1. \A k \in 1 .. i : f[k] \in Int /\ g[k] \in Int
      BY <2>3
    <3> QED BY <3>1, TotalInt
  <2>5. Total(f, i) = IF i < j THEN Total(g, i) ELSE Total(g, i) + (f[j] - g[j])
    BY <1>2, <2>1
  <2>6. f[i + 1] \in Int /\ g[i + 1] \in Int /\ f[j] \in Int /\ g[j] \in Int
    BY <2>3
  <2>7. CASE i + 1 < j
    <3>1. f[i + 1] = g[i + 1] /\ i < j
      BY <2>3, <2>7
    <3> QED BY <3>1, <2>2, <2>5, <2>7
  <2>8. CASE i + 1 = j
    <3>1. i < j
      BY <2>8
    <3>2. Total(f, i) = Total(g, i)
      BY <3>1, <2>5
    <3> QED BY <3>2, <2>2, <2>4, <2>6, <2>8
  <2>9. CASE i + 1 > j
    <3>1. f[i + 1] = g[i + 1] /\ ~(i < j)
      BY <2>3, <2>9
    <3>2. Total(f, i) = Total(g, i) + (f[j] - g[j])
      BY <3>1, <2>5
    <3> QED BY <3>1, <3>2, <2>2, <2>4, <2>6, <2>9
  <2> QED BY <2>7, <2>8, <2>9
<1>3. n \in K
  <2> HIDE DEF K
  <2> QED BY <1>1, <1>2, SetInduction
<1> QED BY <1>3

\* Sum is the total modulo Prime, of what is chosen for the terms at a row.
LEMMA SumIs ==
  ASSUME NEW n \in Nat, NEW columns, DOMAIN columns = 1 .. n, NEW factors, NEW r, NEW f,
         \A i \in 1 .. n : f[i] \in Int /\ f[i] = factors[i] * Entry(columns[i], r)
  PROVE  Sum(columns, factors, r) = Total(f, n) % Prime
<1> DEFINE seq == [i \in DOMAIN columns |-> i]
<1>1. PICK q : q.columns = columns /\ q.factors = factors /\ q.row = r
  <2> DEFINE q == [columns |-> columns, factors |-> factors, row |-> r]
  <2>1. q.columns = columns /\ q.factors = factors /\ q.row = r
    OBVIOUS
  <2> HIDE DEF q
  <2> QED BY <2>1
<1>2. DOMAIN seq = 1 .. n /\ \A i \in 1 .. n : seq[i] = i
  OBVIOUS
<1>3. Sum(q.columns, q.factors, q.row) = Folded(0, q, [i \in DOMAIN q.columns |-> i], "sum")
  BY DEF Sum, Folded, FoldLeft, MapThenFoldSet, IsFold, FoldOf, StepOf
<1>4. PICK v : Chain(v, 0, q, seq, "sum") /\ v[n] = Sum(columns, factors, r)
  <2>1. Sum(columns, factors, r) = Folded(0, q, seq, "sum")
    BY <1>1, <1>3
  <2> HIDE DEF seq
  <2> QED BY <2>1, <1>2, FoldChain
<1> HIDE DEF seq
<1>5. v[0] = 0 /\ \A i \in 1 .. n : v[i] = (v[i - 1] + f[i]) % Prime
  <2>1. \A i \in 1 .. n : v[i] = StepOf(v[i - 1], q, i, "sum")
    BY <1>2, <1>4 DEF Chain
  <2>2. \A i \in 1 .. n : v[i] = (v[i - 1] + q.factors[i] * Entry(q.columns[i], q.row)) % Prime
    BY <2>1 DEF StepOf
  <2> QED BY <1>1, <1>4, <2>2 DEF Chain
<1> DEFINE K == {i \in Nat : i <= n => v[i] = Total(f, i) % Prime}
<1>6. 0 \in K
  BY <1>5, TotalStep, PrimeIs, OfField
<1>7. ASSUME NEW i \in Nat, i \in K PROVE i + 1 \in K
  <2>1. SUFFICES ASSUME i + 1 <= n PROVE v[i + 1] = Total(f, i + 1) % Prime
    BY <1>7
  <2>2. v[i] = Total(f, i) % Prime /\ i + 1 \in 1 .. n /\ (i + 1) - 1 = i
    BY <1>7, <2>1
  <2>3. v[i + 1] = (v[i] + f[i + 1]) % Prime
    BY <1>5, <2>2
  <2>4. \A k \in 1 .. i : k \in 1 .. n
    BY <2>1
  <2>5. PICK a \in Int, b \in Int, c \in Int : a = Total(f, i) /\ b = f[i + 1] /\ c = v[i]
    BY <2>2, <2>4, TotalInt, RemainderIs, PrimeIs
  <2>6. Congruent(c, a) /\ Congruent(b, b)
    BY <2>2, <2>5, CongruentRemainder DEF Congruent
  <2>7. PICK x, y : x = c + b /\ y = a + b
    OBVIOUS
  <2>8. Congruent(x, y)
    BY <2>6, <2>7, CongruentSum
  <2> QED BY <2>3, <2>5, <2>7, <2>8, TotalStep DEF Congruent
<1>8. n \in K
  <2> HIDE DEF K
  <2> QED BY <1>6, <1>7, SetInduction
<1> QED BY <1>4, <1>8

-----------------------------------------------------------------------------
(***************************************************************************)
(* sparse_gaussian_elimination: one pivot.                                 *)
(***************************************************************************)
EchelonNames == {"matrix", "rhs", "used", "rowMap", "columns", "stopped"}
EchelonFields(s) == s = [f \in EchelonNames |-> s[f]]

ByRow(R, s) ==
  /\ EchelonFields(s)
  /\ s.matrix = [r \in R |-> s.matrix[r]]
  /\ s.rhs = [r \in R |-> s.rhs[r]]

\* A row o without column c, cleared by the row q of the pivot.
Reduced(o, q, c) ==
  LET v(k) == IF k < c THEN Entry(o, k) ELSE SubtractMultiply(Entry(o, k), o[c], Entry(q, k))
  IN  [k \in {j \in DOMAIN o \union DOMAIN q : j # c /\ v(j) # 0} |-> v(k)]

LEMMA RowWithoutIs ==
  ASSUME NEW s, NEW c, NEW p, NEW r
  PROVE  RowWithout(s, c, p, r) = Reduced(s.matrix[r], s.matrix[p], c)
BY DEF RowWithout, Reduced, Entry

Quotients(b, i) == [t \in DOMAIN b |-> (b[t] * i) % Prime]
Differences(b, f, d) == [t \in DOMAIN b |-> SubtractMultiply(b[t], f, d[t])]

IsDivided(R, s, c, p, i, d) ==
  /\ ByRow(R, d)
  /\ d.used = s.used \union {p} /\ d.rowMap = Append(s.rowMap, p)
  /\ d.columns = Append(s.columns, c) /\ d.stopped = s.stopped
  /\ \A r \in R : r # p => d.matrix[r] = s.matrix[r] /\ d.rhs[r] = s.rhs[r]
  /\ d.matrix[p] = FromColumn(s.matrix[p], c, i)
  /\ d.rhs[p] = Quotients(s.rhs[p], i)

LEMMA DividedIs ==
  ASSUME NEW R, NEW s, ByRow(R, s), NEW c, NEW p \in R, NEW i, NEW d, d = Divided(s, c, p, i)
  PROVE  IsDivided(R, s, c, p, i, d)
<1>1. PICK M, b, q, g : /\ q = FromColumn(s.matrix[p], c, i) /\ M = [s.matrix EXCEPT ![p] = q]
                        /\ g = Quotients(s.rhs[p], i) /\ b = [s.rhs EXCEPT ![p] = g]
  OBVIOUS
<1>2. d = [s EXCEPT !.used = s.used \union {p}, !.rowMap = Append(s.rowMap, p),
                    !.columns = Append(s.columns, c), !.matrix = M, !.rhs = b]
  BY <1>1 DEF Divided, Quotients
<1>3. /\ EchelonFields(d) /\ d.matrix = M /\ d.rhs = b
      /\ d.used = s.used \union {p} /\ d.rowMap = Append(s.rowMap, p)
      /\ d.columns = Append(s.columns, c) /\ d.stopped = s.stopped
  BY <1>2 DEF ByRow, EchelonFields, EchelonNames
<1>4. /\ M = [r \in R |-> M[r]] /\ b = [r \in R |-> b[r]]
      /\ \A r \in R : M[r] = (IF r = p THEN q ELSE s.matrix[r])
      /\ \A r \in R : b[r] = (IF r = p THEN g ELSE s.rhs[r])
  BY <1>1 DEF ByRow
<1>5. ByRow(R, d)
  BY <1>3, <1>4 DEF ByRow
<1> QED BY <1>1, <1>3, <1>4, <1>5 DEF IsDivided

IsBelow(R, s, c, p, rows, m) ==
  /\ ByRow(R, m)
  /\ m.used = s.used /\ m.rowMap = s.rowMap /\ m.columns = s.columns
  /\ m.stopped = s.stopped
  /\ \A r \in R : r \notin rows => m.matrix[r] = s.matrix[r] /\ m.rhs[r] = s.rhs[r]
  /\ \A r \in R : r \in rows =>
       /\ m.matrix[r] = Reduced(s.matrix[r], s.matrix[p], c)
       /\ m.rhs[r] = Differences(s.rhs[r], s.matrix[r][c], s.rhs[p])

LEMMA BelowIs ==
  ASSUME NEW R, NEW s, ByRow(R, s), NEW c, NEW p \in R, NEW rows, NEW m, m = Below(s, c, p, rows)
  PROVE  IsBelow(R, s, c, p, rows, m)
<1>1. PICK M, b :
        /\ M = [r \in DOMAIN s.matrix |-> IF r \in rows THEN RowWithout(s, c, p, r) ELSE s.matrix[r]]
        /\ b = [r \in DOMAIN s.rhs |->
                  IF r \in rows THEN Differences(s.rhs[r], s.matrix[r][c], s.rhs[p])
                  ELSE s.rhs[r]]
  OBVIOUS
<1>2. m = [s EXCEPT !.matrix = M, !.rhs = b]
  BY <1>1 DEF Below, Differences
<1>3. /\ EchelonFields(m) /\ m.matrix = M /\ m.rhs = b
      /\ m.used = s.used /\ m.rowMap = s.rowMap /\ m.columns = s.columns
      /\ m.stopped = s.stopped
  BY <1>2 DEF ByRow, EchelonFields, EchelonNames
<1>4. DOMAIN s.matrix = R /\ DOMAIN s.rhs = R
  BY DEF ByRow
<1>5. /\ M = [r \in R |-> M[r]] /\ b = [r \in R |-> b[r]]
      /\ \A r \in R : M[r] = (IF r \in rows THEN RowWithout(s, c, p, r) ELSE s.matrix[r])
      /\ \A r \in R : b[r] = (IF r \in rows THEN Differences(s.rhs[r], s.matrix[r][c], s.rhs[p])
                              ELSE s.rhs[r])
  BY <1>1, <1>4
<1>6. ByRow(R, m)
  BY <1>3, <1>5 DEF ByRow
<1> QED BY <1>3, <1>5, <1>6, RowWithoutIs DEF IsBelow

\* What a pivot in column c and row p makes of s.
IsPivoted(R, s, c, p, i, n) ==
  LET live == Available(s, c) \ {p}
  IN  /\ ByRow(R, n)
      /\ n.used = s.used \union {p} /\ n.rowMap = Append(s.rowMap, p)
      /\ n.columns = Append(s.columns, c) /\ n.stopped = s.stopped
      /\ n.matrix[p] = FromColumn(s.matrix[p], c, i)
      /\ n.rhs[p] = Quotients(s.rhs[p], i)
      /\ \A r \in live : /\ n.matrix[r] = Reduced(s.matrix[r], n.matrix[p], c)
                         /\ n.rhs[r] = Differences(s.rhs[r], s.matrix[r][c], n.rhs[p])
      /\ \A r \in R \ live : r # p => n.matrix[r] = s.matrix[r] /\ n.rhs[r] = s.rhs[r]

\* A pivot divides its row and takes multiples of it from the rows below.
LEMMA PivotedIs ==
  ASSUME NEW R, NEW s, ByRow(R, s), NEW c, NEW p \in R, NEW n, n = Pivoted(s, c, p)
  PROVE  IsPivoted(R, s, c, p, Reciprocal(s.matrix[p][c]), n)
<1>1. PICK i, d, live : /\ i = Reciprocal(s.matrix[p][c]) /\ d = Divided(s, c, p, i)
                        /\ live = Available(s, c) \ {p}
  OBVIOUS
<1>2. n = Below(d, c, p, live)
  BY <1>1 DEF Pivoted
<1>3. live \subseteq R /\ p \notin live
  BY <1>1 DEF Available, ByRow
<1>4. IsDivided(R, s, c, p, i, d)
  BY <1>1, DividedIs
<1>5. IsBelow(R, d, c, p, live, n)
  <2>1. ByRow(R, d)
    BY <1>4 DEF IsDivided
  <2> QED BY <1>2, <2>1, BelowIs
<1>6. /\ ByRow(R, n)
      /\ n.used = s.used \union {p} /\ n.rowMap = Append(s.rowMap, p)
      /\ n.columns = Append(s.columns, c) /\ n.stopped = s.stopped
  BY <1>4, <1>5 DEF IsDivided, IsBelow
<1>7. n.matrix[p] = d.matrix[p] /\ n.rhs[p] = d.rhs[p]
  BY <1>3, <1>5 DEF IsBelow
<1>8. n.matrix[p] = FromColumn(s.matrix[p], c, i) /\ n.rhs[p] = Quotients(s.rhs[p], i)
  BY <1>4, <1>7 DEF IsDivided
<1>9. ASSUME NEW r \in live
      PROVE  /\ n.matrix[r] = Reduced(s.matrix[r], n.matrix[p], c)
             /\ n.rhs[r] = Differences(s.rhs[r], s.matrix[r][c], n.rhs[p])
  <2>1. r \in R /\ r # p
    BY <1>3
  <2>2. d.matrix[r] = s.matrix[r] /\ d.rhs[r] = s.rhs[r]
    BY <2>1, <1>4 DEF IsDivided
  <2> QED BY <2>1, <2>2, <1>5, <1>7 DEF IsBelow
<1>10. ASSUME NEW r \in R \ live, r # p
       PROVE  n.matrix[r] = s.matrix[r] /\ n.rhs[r] = s.rhs[r]
  BY <1>4, <1>5, <1>10 DEF IsDivided, IsBelow
<1> QED BY <1>1, <1>6, <1>8, <1>9, <1>10 DEF IsPivoted

-----------------------------------------------------------------------------
(***************************************************************************)
(* Rows as equations.                                                      *)
(***************************************************************************)
RowOf(m, row) ==
  /\ row = [k \in DOMAIN row |-> row[k]] /\ DOMAIN row \subseteq 1 .. m
  /\ \A k \in DOMAIN row : row[k] \in Field

LEMMA EntryOfRow ==
  ASSUME NEW m, NEW row, RowOf(m, row), NEW k
  PROVE  Entry(row, k) \in Field /\ Entry(row, k) \in Int
BY PrimeIs DEF Entry, RowOf

Products(row, x, m) == [k \in 1 .. m |-> x[k] * Entry(row, k)]
Value(row, x, m) == Total(Products(row, x, m), m)

IntegersTo(m, x) == \A k \in 1 .. m : x[k] \in Int

\* n is o and f times q, entry by entry.
Combines(n, o, f, q, m) == \A k \in 1 .. m : Congruent(Entry(n, k), Entry(o, k) + f * Entry(q, k))

LEMMA ValueInt ==
  ASSUME NEW m \in Nat, NEW row, RowOf(m, row), NEW x, IntegersTo(m, x)
  PROVE  /\ Value(row, x, m) \in Int
         /\ \A k \in 1 .. m : /\ Products(row, x, m)[k] = x[k] * Entry(row, k)
                              /\ Products(row, x, m)[k] \in Int
<1>1. \A k \in 1 .. m : /\ Products(row, x, m)[k] = x[k] * Entry(row, k)
                        /\ Products(row, x, m)[k] \in Int
  BY EntryOfRow DEF Products, IntegersTo
<1> QED BY <1>1, TotalInt DEF Value

\* The value of a row from which a multiple of another is taken.
LEMMA ValueCombines ==
  ASSUME NEW m \in Nat, NEW n, RowOf(m, n), NEW o, RowOf(m, o), NEW f \in Int, NEW q, RowOf(m, q),
         Combines(n, o, f, q, m), NEW x, IntegersTo(m, x)
  PROVE  Congruent(Value(n, x, m), Value(o, x, m) + f * Value(q, x, m))
<1> DEFINE a == Products(n, x, m)
           b == Products(o, x, m)
           c == Products(q, x, m)
<1>1. ASSUME NEW k \in 1 .. m PROVE a[k] \in Int /\ b[k] \in Int /\ c[k] \in Int
                                    /\ Congruent(a[k], b[k] + f * c[k])
  <2>1. PICK u \in Int, v \in Int, w \in Int, y \in Int :
          u = Entry(n, k) /\ v = Entry(o, k) /\ w = Entry(q, k) /\ y = x[k]
    BY EntryOfRow DEF IntegersTo
  <2>2. a[k] = y * u /\ b[k] = y * v /\ c[k] = y * w
    BY <2>1 DEF Products
  <2>3. PICK z \in Int : z = v + f * w
    OBVIOUS
  <2>4. Congruent(u, z)
    BY <2>1, <2>3 DEF Combines
  <2>5. PICK s \in Int, t \in Int : s = y * u /\ t = y * z
    OBVIOUS
  <2>6. Congruent(s, t)
    BY <2>4, <2>5, CongruentMultiple
  <2>7. t = y * v + f * (y * w)
    BY <2>3, <2>5
  <2> HIDE DEF a, b, c
  <2>8. y * u \in Int /\ y * v \in Int /\ y * w \in Int
    OBVIOUS
  <2>9. s = a[k] /\ t = b[k] + f * c[k]
    BY <2>2, <2>5, <2>7
  <2> QED BY <2>2, <2>6, <2>8, <2>9
<1> HIDE DEF a, b, c
<1>2. Congruent(Total(a, m), Total(b, m) + f * Total(c, m))
  BY <1>1, TotalCongruent
<1> QED BY <1>2 DEF Value, a, b, c

NoEntries == [k \in {} |-> 0]

LEMMA NoEntriesIs ==
  ASSUME NEW m \in Nat, NEW x
  PROVE  RowOf(m, NoEntries) /\ (\A k : Entry(NoEntries, k) = 0)
         /\ (IntegersTo(m, x) => Value(NoEntries, x, m) = 0)
<1>1. RowOf(m, NoEntries) /\ \A k : Entry(NoEntries, k) = 0
  BY DEF NoEntries, RowOf, Entry
<1>2. ASSUME IntegersTo(m, x) PROVE Value(NoEntries, x, m) = 0
  <2> DEFINE f == Products(NoEntries, x, m)
  <2>1. \A k \in 1 .. m : f[k] = 0
    <3>1. \A k \in 1 .. m : f[k] = x[k] * Entry(NoEntries, k) /\ x[k] \in Int
      BY <1>2 DEF Products, IntegersTo
    <3> HIDE DEF f
    <3> QED BY <1>1, <3>1
  <2> HIDE DEF f
  <2>2. Total(f, m) = 0
    BY <2>1, TotalZero
  <2> QED BY <2>2 DEF Value, f
<1> QED BY <1>1, <1>2

\* From column c on.
StartsAt(row, c) == \A k \in DOMAIN row : k >= c
IsQuotient(m, q, o, c, i) ==
  /\ RowOf(m, q) /\ StartsAt(q, c) /\ c \in DOMAIN q /\ q[c] = 1
  /\ Combines(q, NoEntries, i, o, m) /\ Combines(o, NoEntries, o[c], q, m)

LEMMA QuotientIs ==
  ASSUME NEW m \in Nat, NEW c \in 1 .. m, NEW o, RowOf(m, o), c \in DOMAIN o, StartsAt(o, c),
         o[c] # 0, NEW i, i = Reciprocal(o[c]), NEW q, q = FromColumn(o, c, i)
  PROVE  IsQuotient(m, q, o, c, i)
<1>1. o[c] \in Field \ {0}
  BY DEF RowOf
<1>2. i \in Field /\ i \in Int /\ (o[c] * i) % Prime = 1
  BY <1>1, ReciprocalIs, OfField
<1>3. /\ q = [k \in DOMAIN q |-> q[k]] /\ DOMAIN q = DOMAIN o
      /\ \A k \in DOMAIN o : q[k] = (o[k] * i) % Prime
  BY DEF FromColumn, StartsAt
<1>4. \A k \in DOMAIN o : o[k] \in Int
  BY OfField DEF RowOf
<1>5. \A k \in DOMAIN o : o[k] * i \in Int
  BY <1>2, <1>4
<1>6. RowOf(m, q)
  <2>1. \A k \in DOMAIN q : q[k] \in Field
    BY <1>3, <1>5, RemainderIs
  <2> QED BY <2>1, <1>3 DEF RowOf
<1>7. StartsAt(q, c) /\ c \in DOMAIN q /\ q[c] = 1
  BY <1>2, <1>3 DEF StartsAt
<1>8. ASSUME NEW k \in 1 .. m
      PROVE  /\ Congruent(Entry(q, k), Entry(NoEntries, k) + i * Entry(o, k))
             /\ Congruent(Entry(o, k), Entry(NoEntries, k) + o[c] * Entry(q, k))
  <2>1. Entry(NoEntries, k) = 0
    BY NoEntriesIs
  <2>2. CASE k \in DOMAIN o
    <3>1. PICK a \in Field \ {0}, b \in Int, d \in Int :
            a = o[c] /\ b = o[k] /\ d = b * i
      BY <1>1, <1>2, <1>4, <2>2
    <3>2. Entry(o, k) = b /\ Entry(q, k) = d % Prime
      BY <1>3, <2>2, <3>1 DEF Entry
    <3>3. Congruent(d % Prime, d)
      BY <3>1, CongruentRemainder
    <3>4. Congruent(Entry(q, k), Entry(NoEntries, k) + i * Entry(o, k))
      <4>1. Entry(NoEntries, k) + i * Entry(o, k) = d
        BY <1>2, <2>1, <3>1, <3>2
      <4> QED BY <4>1, <3>2, <3>3
    <3>5. Congruent(a * (b * Reciprocal(a)), b)
      BY <3>1, ReciprocalUndone
    <3>6. PICK e \in Int, u \in Int, v \in Int : e = d % Prime /\ u = a * e /\ v = a * d
      BY <3>1, RemainderIs, OfField
    <3>7. Congruent(u, v)
      <4>1. a \in Int
        BY OfField
      <4> QED BY <4>1, <3>3, <3>6, CongruentMultiple
    <3>8. v = a * (b * Reciprocal(a))
      BY <3>1, <3>6
    <3>9. Congruent(b, u)
      BY <3>5, <3>7, <3>8, <3>1 DEF Congruent
    <3>10. Entry(NoEntries, k) + o[c] * Entry(q, k) = u
      BY <2>1, <3>1, <3>2, <3>6
    <3> QED BY <3>2, <3>4, <3>9, <3>10
  <2>3. CASE k \notin DOMAIN o
    <3>1. Entry(o, k) = 0 /\ Entry(q, k) = 0
      BY <1>3, <2>3 DEF Entry
    <3>2. o[c] \in Int
      BY <1>4
    <3>3. i * 0 = 0 /\ o[c] * 0 = 0
      BY <1>2, <3>2
    <3> QED BY <2>1, <3>1, <3>3 DEF Congruent
  <2> QED BY <2>2, <2>3
<1> QED BY <1>6, <1>7, <1>8 DEF IsQuotient, Combines

IsReduced(m, n, o, q, c) ==
  /\ RowOf(m, n) /\ \A k \in DOMAIN n : k > c /\ n[k] # 0
  /\ Combines(n, o, -o[c], q, m) /\ Combines(o, n, o[c], q, m)

LEMMA SubtractCongruent ==
  ASSUME NEW a \in Int, NEW f \in Int, NEW b \in Int, NEW n, n = SubtractMultiply(a, f, b)
  PROVE  /\ n \in Field /\ Congruent(n, a + (-f) * b) /\ Congruent(a, n + f * b)
<1>1. PICK d \in Int, g \in Int : d = a - f * b /\ g = f * b
  OBVIOUS
<1>2. n = d % Prime /\ n \in Field /\ n \in Int
  BY <1>1, RemainderIs, OfField DEF SubtractMultiply
<1>3. Congruent(n, d)
  BY <1>2, CongruentRemainder
<1>4. a + (-f) * b = d
  BY <1>1
<1>5. PICK x \in Int, y \in Int : x = d + g /\ y = n + g
  BY <1>2
<1>6. Congruent(x, y)
  <2>1. Congruent(g, g) /\ Congruent(d, n)
    BY <1>3 DEF Congruent
  <2> QED BY <2>1, <1>2, <1>5, CongruentSum
<1>7. x = a /\ y = n + f * b
  BY <1>1, <1>2, <1>5
<1> QED BY <1>2, <1>3, <1>4, <1>6, <1>7

LEMMA ReducedIs ==
  ASSUME NEW m \in Nat, NEW c \in 1 .. m, NEW o, RowOf(m, o), c \in DOMAIN o, StartsAt(o, c),
         NEW q, RowOf(m, q), StartsAt(q, c), c \in DOMAIN q, q[c] = 1,
         NEW n, n = Reduced(o, q, c)
  PROVE  IsReduced(m, n, o, q, c)
<1> DEFINE v(k) == IF k < c THEN Entry(o, k) ELSE SubtractMultiply(Entry(o, k), o[c], Entry(q, k))
           D == {j \in DOMAIN o \union DOMAIN q : j # c /\ v(j) # 0}
<1>1. n = [k \in D |-> v(k)]
  BY DEF Reduced
<1>2. o[c] \in Int /\ o[c] \in Field
  BY OfField DEF RowOf
<1>3. ASSUME NEW k \in 1 .. m
      PROVE  /\ v(k) \in Field /\ Congruent(v(k), Entry(o, k) + (-o[c]) * Entry(q, k))
             /\ Congruent(Entry(o, k), v(k) + o[c] * Entry(q, k))
             /\ (k <= c \/ k \notin DOMAIN o \union DOMAIN q) => v(k) = 0
  <2>1. PICK a \in Field, b \in Field, f \in Int : a = Entry(o, k) /\ b = Entry(q, k) /\ f = o[c]
    BY <1>2, EntryOfRow
  <2>2. a \in Int /\ b \in Int
    BY OfField
  <2>3. CASE k < c
    <3>1. a = 0 /\ b = 0
      BY <2>1, <2>3 DEF Entry, StartsAt
    <3>2. v(k) = 0 /\ 0 \in Field
      BY <2>1, <2>3, <3>1, PrimeIs
    <3>3. a + (-f) * b = 0 /\ 0 + f * b = 0
      BY <3>1
    <3> QED BY <2>1, <3>1, <3>2, <3>3 DEF Congruent
  <2>4. CASE ~(k < c)
    <3>1. v(k) = SubtractMultiply(a, f, b)
      BY <2>1, <2>4
    <3>2. v(k) \in Field /\ Congruent(v(k), a + (-f) * b) /\ Congruent(a, v(k) + f * b)
      BY <2>2, <3>1, SubtractCongruent
    <3>3. ASSUME k = c \/ k \notin DOMAIN o \union DOMAIN q PROVE v(k) = 0
      <4>1. a - f * b = 0
        <5>1. CASE k = c
          BY <5>1, <2>1, <2>2 DEF Entry
        <5>2. CASE k \notin DOMAIN o \union DOMAIN q
          BY <5>2, <2>1, <2>2 DEF Entry
        <5> QED BY <3>3, <5>1, <5>2
      <4>2. 0 % Prime = 0
        BY PrimeIs, OfField
      <4> QED BY <3>1, <4>1, <4>2 DEF SubtractMultiply
    <3>4. k <= c => k = c
      BY <2>4
    <3> HIDE DEF v
    <3> QED BY <2>1, <3>2, <3>3, <3>4
  <2> QED BY <2>3, <2>4
<1> HIDE DEF v
<1>4. DOMAIN o \subseteq 1 .. m /\ DOMAIN q \subseteq 1 .. m
  BY DEF RowOf
<1>5. /\ n = [k \in DOMAIN n |-> n[k]] /\ DOMAIN n = D /\ \A k \in D : n[k] = v(k)
  BY <1>1
<1>6. RowOf(m, n)
  BY <1>3, <1>4, <1>5 DEF RowOf
<1>7. ASSUME NEW k \in DOMAIN n PROVE k > c /\ n[k] # 0
  <2>1. k \in 1 .. m /\ v(k) # 0
    BY <1>4, <1>5
  <2>2. ~(k <= c)
    BY <1>3, <2>1
  <2> QED BY <1>5, <2>1, <2>2
<1>8. ASSUME NEW k \in 1 .. m PROVE Entry(n, k) = v(k)
  <2>1. CASE k \in D
    BY <1>5, <2>1 DEF Entry
  <2>2. CASE k \notin D
    <3>1. Entry(n, k) = 0
      BY <1>5, <2>2 DEF Entry
    <3>2. k = c \/ k \notin DOMAIN o \union DOMAIN q \/ v(k) = 0
      BY <2>2
    <3> QED BY <1>3, <3>1, <3>2
  <2> QED BY <2>1, <2>2
<1> QED BY <1>3, <1>6, <1>7, <1>8 DEF IsReduced, Combines

-----------------------------------------------------------------------------
(***************************************************************************)
(* Echelon form up to a column.                                            *)
(***************************************************************************)
EchelonRows(R, m, T, s, c) ==
  /\ ByRow(R, s) /\ s.used \subseteq R
  /\ \A r \in R : /\ RowOf(m, s.matrix[r])
                  /\ s.rhs[r] = [t \in T |-> s.rhs[r][t]]
                  /\ \A t \in T : s.rhs[r][t] \in Field
  /\ \A r \in R \ s.used : \A k \in DOMAIN s.matrix[r] : k > c /\ s.matrix[r][k] # 0

IsPivotRow(row, c) == c \in DOMAIN row /\ row[c] = 1 /\ StartsAt(row, c)

EchelonPivots(R, m, s, c) ==
  /\ s.rowMap \in Seq(R) /\ s.columns \in Seq(1 .. m) /\ Len(s.columns) = Len(s.rowMap)
  /\ \A i \in 1 .. Len(s.rowMap) :
       /\ s.rowMap[i] \in s.used /\ s.columns[i] <= c
       /\ IsPivotRow(s.matrix[s.rowMap[i]], s.columns[i])
  /\ \A r \in s.used : \E i \in 1 .. Len(s.rowMap) : s.rowMap[i] = r
  /\ \A i, j \in 1 .. Len(s.rowMap) :
       i < j => s.columns[i] < s.columns[j] /\ s.rowMap[i] # s.rowMap[j]

\* The rows of a state after a pivot, against those before.
PivotRows(R, m, s, c, p, i, n) ==
  /\ IsQuotient(m, n.matrix[p], s.matrix[p], c, i)
  /\ \A r \in Available(s, c) \ {p} : IsReduced(m, n.matrix[r], s.matrix[r], n.matrix[p], c)

LEMMA PivotRowsAre ==
  ASSUME NEW R, NEW m \in Nat, NEW T, NEW c \in 1 .. m, NEW s, EchelonRows(R, m, T, s, c - 1),
         NEW p \in Available(s, c), NEW i, i = Reciprocal(s.matrix[p][c]), NEW n,
         IsPivoted(R, s, c, p, i, n)
  PROVE  PivotRows(R, m, s, c, p, i, n)
<1>1. ASSUME NEW r \in Available(s, c)
      PROVE  /\ r \in R /\ RowOf(m, s.matrix[r]) /\ c \in DOMAIN s.matrix[r]
             /\ StartsAt(s.matrix[r], c) /\ s.matrix[r][c] # 0
  <2>1. r \in R \ s.used /\ c \in DOMAIN s.matrix[r]
    BY DEF Available, EchelonRows, ByRow
  <2>2. \A k \in DOMAIN s.matrix[r] : k > c - 1 /\ s.matrix[r][k] # 0
    BY <2>1 DEF EchelonRows
  <2>3. RowOf(m, s.matrix[r])
    BY <2>1 DEF EchelonRows
  <2>4. \A k \in DOMAIN s.matrix[r] : k \in Int
    BY <2>3 DEF RowOf
  <2>5. StartsAt(s.matrix[r], c)
    BY <2>2, <2>4 DEF StartsAt
  <2> QED BY <2>1, <2>2, <2>3, <2>5
<1>2. n.matrix[p] = FromColumn(s.matrix[p], c, i)
  BY DEF IsPivoted
<1>3. IsQuotient(m, n.matrix[p], s.matrix[p], c, i)
  BY <1>1, <1>2, QuotientIs
<1>4. ASSUME NEW r \in Available(s, c) \ {p}
      PROVE  IsReduced(m, n.matrix[r], s.matrix[r], n.matrix[p], c)
  <2>1. n.matrix[r] = Reduced(s.matrix[r], n.matrix[p], c)
    BY DEF IsPivoted
  <2>2. /\ RowOf(m, n.matrix[p]) /\ StartsAt(n.matrix[p], c) /\ c \in DOMAIN n.matrix[p]
        /\ n.matrix[p][c] = 1
    BY <1>3 DEF IsQuotient
  <2> QED BY <1>1, <2>1, <2>2, ReducedIs
<1> QED BY <1>3, <1>4 DEF PivotRows

\* After a pivot the rows that are left begin behind its column.
LEMMA PivotKeepsRows ==
  ASSUME NEW R, NEW m \in Nat, NEW T, NEW c \in 1 .. m, NEW s, EchelonRows(R, m, T, s, c - 1),
         NEW p \in Available(s, c), NEW i, NEW n, IsPivoted(R, s, c, p, i, n),
         PivotRows(R, m, s, c, p, i, n), i \in Field
  PROVE  EchelonRows(R, m, T, n, c)
<1> DEFINE live == Available(s, c) \ {p}
<1>0. p \in R \ s.used /\ live \subseteq R \ s.used
  BY DEF Available, EchelonRows, ByRow
<1>1. /\ ByRow(R, n) /\ n.used = s.used \union {p} /\ n.used \subseteq R
  BY <1>0 DEF IsPivoted, EchelonRows
<1>2. ASSUME NEW r \in R
      PROVE  /\ RowOf(m, s.matrix[r]) /\ s.rhs[r] = [t \in T |-> s.rhs[r][t]]
             /\ \A t \in T : s.rhs[r][t] \in Field /\ s.rhs[r][t] \in Int
  BY OfField DEF EchelonRows
<1>3. i \in Int
  BY OfField
<1>4. /\ RowOf(m, n.matrix[p]) /\ n.rhs[p] = [t \in T |-> n.rhs[p][t]]
      /\ \A t \in T : n.rhs[p][t] \in Field
  <2>1. RowOf(m, n.matrix[p])
    BY DEF PivotRows, IsQuotient
  <2>2. n.rhs[p] = [t \in T |-> (s.rhs[p][t] * i) % Prime]
    <3>1. DOMAIN s.rhs[p] = T
      BY <1>0, <1>2
    <3> QED BY <3>1 DEF IsPivoted, Quotients
  <2>3. ASSUME NEW t \in T PROVE s.rhs[p][t] * i \in Int
    <3>1. s.rhs[p][t] \in Int
      BY <1>0, <1>2
    <3> QED BY <3>1, <1>3
  <2> QED BY <2>1, <2>2, <2>3, RemainderIs
<1>5. ASSUME NEW r \in live
      PROVE  /\ RowOf(m, n.matrix[r]) /\ n.rhs[r] = [t \in T |-> n.rhs[r][t]]
             /\ \A t \in T : n.rhs[r][t] \in Field
             /\ \A k \in DOMAIN n.matrix[r] : k > c /\ n.matrix[r][k] # 0
  <2>1. /\ RowOf(m, n.matrix[r])
        /\ \A k \in DOMAIN n.matrix[r] : k > c /\ n.matrix[r][k] # 0
    BY DEF PivotRows, IsReduced
  <2>2. r \in R
    BY <1>0
  <2>3. n.rhs[r] = [t \in T |-> SubtractMultiply(s.rhs[r][t], s.matrix[r][c], n.rhs[p][t])]
    <3>1. DOMAIN s.rhs[r] = T
      BY <2>2, <1>2
    <3> QED BY <3>1 DEF IsPivoted, Differences
  <2>4. s.matrix[r][c] \in Int
    <3>1. c \in DOMAIN s.matrix[r]
      BY DEF Available
    <3> QED BY <2>2, <3>1, <1>2, OfField DEF RowOf
  <2>5. \A t \in T : n.rhs[r][t] \in Field
    <3>1. ASSUME NEW t \in T PROVE n.rhs[r][t] \in Field
      <4>1. s.rhs[r][t] \in Int /\ n.rhs[p][t] \in Int
        BY <1>2, <1>4, <2>2, OfField
      <4>2. n.rhs[r][t] = SubtractMultiply(s.rhs[r][t], s.matrix[r][c], n.rhs[p][t])
        BY <2>3
      <4> QED BY <4>1, <4>2, <2>4, SubtractCongruent
    <3> QED BY <3>1
  <2> QED BY <2>1, <2>3, <2>5
<1>6. ASSUME NEW r \in R \ live, r # p
      PROVE  /\ n.matrix[r] = s.matrix[r] /\ n.rhs[r] = s.rhs[r]
             /\ r \in s.used \/ c \notin DOMAIN s.matrix[r]
  BY <1>6 DEF IsPivoted, Available, EchelonRows, ByRow
<1>7. ASSUME NEW r \in R \ n.used, NEW k \in DOMAIN n.matrix[r]
      PROVE  k > c /\ n.matrix[r][k] # 0
  <2>1. CASE r \in live
    BY <2>1, <1>5
  <2>2. CASE r \notin live
    <3>1. r # p /\ r \notin s.used /\ r \in R \ live
      BY <1>1, <2>2
    <3>2. n.matrix[r] = s.matrix[r] /\ c \notin DOMAIN s.matrix[r]
      BY <3>1, <1>6
    <3>3. k > c - 1 /\ s.matrix[r][k] # 0 /\ k # c
      BY <3>1, <3>2 DEF EchelonRows
    <3>4. k \in Int
      <4>1. DOMAIN s.matrix[r] \subseteq 1 .. m
        BY <1>2 DEF RowOf
      <4> QED BY <4>1, <3>2
    <3> QED BY <3>2, <3>3, <3>4
  <2> QED BY <2>1, <2>2
<1>8. ASSUME NEW r \in R
      PROVE  /\ RowOf(m, n.matrix[r])
             /\ n.rhs[r] = [t \in T |-> n.rhs[r][t]]
             /\ \A t \in T : n.rhs[r][t] \in Field
  <2>1. CASE r = p
    BY <2>1, <1>4
  <2>2. CASE r \in live
    BY <2>2, <1>5
  <2>3. CASE r # p /\ r \notin live
    <3>1. n.matrix[r] = s.matrix[r] /\ n.rhs[r] = s.rhs[r]
      BY <2>3, <1>6
    <3> QED BY <3>1, <1>2
  <2> QED BY <2>1, <2>2, <2>3
<1> QED BY <1>1, <1>7, <1>8 DEF EchelonRows

\* A pivot leaves the pivots before it as they are and becomes one.
LEMMA PivotKeepsPivots ==
  ASSUME NEW R, NEW m \in Nat, NEW T, NEW c \in 1 .. m, NEW s, EchelonRows(R, m, T, s, c - 1),
         EchelonPivots(R, m, s, c - 1),
         NEW p \in Available(s, c), NEW i, NEW n, IsPivoted(R, s, c, p, i, n),
         PivotRows(R, m, s, c, p, i, n)
  PROVE  EchelonPivots(R, m, n, c)
<1>0. p \in R \ s.used /\ Available(s, c) \subseteq R \ s.used
  BY DEF Available, EchelonRows, ByRow
<1>1. PICK l \in Nat : /\ l = Len(s.rowMap) /\ l = Len(s.columns)
                       /\ DOMAIN s.rowMap = 1 .. l /\ DOMAIN s.columns = 1 .. l
  BY DEF EchelonPivots
<1>2. /\ n.rowMap = Append(s.rowMap, p) /\ n.columns = Append(s.columns, c)
      /\ n.used = s.used \union {p}
  BY DEF IsPivoted
<1>3. /\ n.rowMap \in Seq(R) /\ n.columns \in Seq(1 .. m)
      /\ Len(n.rowMap) = l + 1 /\ Len(n.columns) = l + 1
      /\ n.rowMap[l + 1] = p /\ n.columns[l + 1] = c
      /\ \A k \in 1 .. l : n.rowMap[k] = s.rowMap[k] /\ n.columns[k] = s.columns[k]
  <2>1. s.rowMap \in Seq(R) /\ s.columns \in Seq(1 .. m) /\ p \in R
    BY <1>0 DEF EchelonPivots
  <2>2. /\ n.rowMap \in Seq(R) /\ Len(n.rowMap) = l + 1 /\ n.rowMap[l + 1] = p
        /\ \A k \in 1 .. l : n.rowMap[k] = s.rowMap[k]
    BY <1>1, <1>2, <2>1, AppendIs
  <2>3. /\ n.columns \in Seq(1 .. m) /\ Len(n.columns) = l + 1 /\ n.columns[l + 1] = c
        /\ \A k \in 1 .. l : n.columns[k] = s.columns[k]
    BY <1>1, <1>2, <2>1, AppendIs
  <2> QED BY <2>2, <2>3
<1>4. ASSUME NEW k \in 1 .. l
      PROVE  /\ n.rowMap[k] \in s.used /\ n.columns[k] \in 1 .. m /\ n.columns[k] <= c - 1
             /\ IsPivotRow(n.matrix[n.rowMap[k]], n.columns[k])
  <2>1. /\ s.rowMap[k] \in s.used /\ s.columns[k] <= c - 1
        /\ IsPivotRow(s.matrix[s.rowMap[k]], s.columns[k])
    BY <1>1 DEF EchelonPivots
  <2>2. s.columns[k] \in 1 .. m
    BY <1>1 DEF EchelonPivots
  <2>3. n.matrix[s.rowMap[k]] = s.matrix[s.rowMap[k]]
    BY <2>1, <1>0 DEF IsPivoted, EchelonRows
  <2> QED BY <2>1, <2>2, <2>3, <1>3
<1>5. IsPivotRow(n.matrix[p], c)
  BY DEF PivotRows, IsQuotient, IsPivotRow
<1>6. ASSUME NEW k \in 1 .. l + 1
      PROVE  /\ n.rowMap[k] \in n.used /\ n.columns[k] <= c
             /\ IsPivotRow(n.matrix[n.rowMap[k]], n.columns[k])
  <2>1. CASE k = l + 1
    BY <2>1, <1>2, <1>3, <1>5
  <2>2. CASE k # l + 1
    <3>1. k \in 1 .. l
      BY <2>2
    <3>2. n.columns[k] <= c
      BY <3>1, <1>4
    <3> QED BY <3>1, <3>2, <1>2, <1>4
  <2> QED BY <2>1, <2>2
<1>7. ASSUME NEW r \in n.used PROVE \E k \in 1 .. l + 1 : n.rowMap[k] = r
  <2>1. CASE r = p
    <3>1. l + 1 \in 1 .. l + 1
      OBVIOUS
    <3> QED BY <2>1, <3>1, <1>3
  <2>2. CASE r # p
    <3>1. PICK k \in 1 .. l : s.rowMap[k] = r
      BY <2>2, <1>1, <1>2 DEF EchelonPivots
    <3>2. k \in 1 .. l + 1
      OBVIOUS
    <3> QED BY <3>1, <3>2, <1>3
  <2> QED BY <2>1, <2>2
<1>8. ASSUME NEW j \in 1 .. l + 1, NEW k \in 1 .. l + 1, j < k
      PROVE  n.columns[j] < n.columns[k] /\ n.rowMap[j] # n.rowMap[k]
  <2>1. j \in 1 .. l
    BY <1>8
  <2>2. CASE k = l + 1
    BY <2>1, <2>2, <1>0, <1>3, <1>4
  <2>3. CASE k # l + 1
    <3>1. k \in 1 .. l
      BY <2>3
    <3>2. s.columns[j] < s.columns[k] /\ s.rowMap[j] # s.rowMap[k]
      BY <1>1, <1>8, <2>1, <3>1 DEF EchelonPivots
    <3> QED BY <2>1, <3>1, <3>2, <1>3
  <2> QED BY <2>2, <2>3
<1> QED BY <1>3, <1>6, <1>7, <1>8 DEF EchelonPivots

-----------------------------------------------------------------------------
(***************************************************************************)
(* What a pivot does to the solutions.                                     *)
(***************************************************************************)
Solves(R, m, s, x, t) == \A r \in R : Congruent(Value(s.matrix[r], x, m), s.rhs[r][t])
Annihilates(R, m, s, x) == \A r \in R : Congruent(Value(s.matrix[r], x, m), 0)

\* Solutions of n solve s, and what vanishes on the rows of s vanishes on those of n.
EquationsOf(R, m, T, s, n) ==
  \A x : IntegersTo(m, x) =>
    /\ \A t \in T : Solves(R, m, n, x, t) => Solves(R, m, s, x, t)
    /\ Annihilates(R, m, s, x) => Annihilates(R, m, n, x)

LEMMA ValueLinear ==
  ASSUME NEW m \in Nat, NEW n, RowOf(m, n), NEW o, RowOf(m, o), NEW f \in Int, NEW q, RowOf(m, q),
         Combines(n, o, f, q, m), NEW x, IntegersTo(m, x),
         NEW a \in Int, Congruent(Value(o, x, m), a), NEW b \in Int, Congruent(Value(q, x, m), b),
         NEW y, y = a + f * b
  PROVE  Congruent(Value(n, x, m), y)
<1>1. PICK u \in Int, v \in Int, w \in Int :
        u = Value(n, x, m) /\ v = Value(o, x, m) /\ w = Value(q, x, m)
  BY ValueInt
<1>2. PICK z : z = v + f * w
  OBVIOUS
<1>3. Congruent(u, z)
  <2>1. Congruent(Value(n, x, m), Value(o, x, m) + f * Value(q, x, m))
    BY ValueCombines
  <2> QED BY <1>1, <1>2, <2>1
<1>4. Congruent(v, a) /\ Congruent(w, b)
  BY <1>1
<1>5. Congruent(z, y)
  BY <1>2, <1>4, CongruentLinear
<1> QED BY <1>1, <1>3, <1>5, CongruentTrans

\* What vanishes on the rows before a pivot vanishes on those after it.
LEMMA PivotAnnihilates ==
  ASSUME NEW R, NEW m \in Nat, NEW T, NEW c \in 1 .. m, NEW s, EchelonRows(R, m, T, s, c - 1),
         NEW p \in Available(s, c), NEW i \in Field, NEW n, IsPivoted(R, s, c, p, i, n),
         PivotRows(R, m, s, c, p, i, n), EchelonRows(R, m, T, n, c),
         NEW x, IntegersTo(m, x), Annihilates(R, m, s, x)
  PROVE  Annihilates(R, m, n, x)
<1>0. p \in R /\ Available(s, c) \subseteq R /\ i \in Int
  BY OfField DEF Available, EchelonRows, ByRow
<1>1. ASSUME NEW r \in R
      PROVE  /\ RowOf(m, s.matrix[r]) /\ RowOf(m, n.matrix[r])
             /\ Congruent(Value(s.matrix[r], x, m), 0)
  BY DEF EchelonRows, Annihilates
<1>2. Congruent(Value(n.matrix[p], x, m), 0)
  <2>1. Combines(n.matrix[p], NoEntries, i, s.matrix[p], m)
    BY DEF PivotRows, IsQuotient
  <2>2. RowOf(m, NoEntries) /\ Congruent(Value(NoEntries, x, m), 0)
    BY NoEntriesIs DEF Congruent
  <2>3. 0 = 0 + i * 0
    BY <1>0
  <2> QED BY <1>0, <1>1, <2>1, <2>2, <2>3, ValueLinear
<1>3. ASSUME NEW r \in Available(s, c) \ {p} PROVE Congruent(Value(n.matrix[r], x, m), 0)
  <2>1. PICK f : f = s.matrix[r][c]
    OBVIOUS
  <2>2. f \in Int
    <3>1. c \in DOMAIN s.matrix[r] /\ RowOf(m, s.matrix[r])
      BY <1>0, <1>1 DEF Available
    <3> QED BY <2>1, <3>1, OfField DEF RowOf
  <2>3. PICK g \in Int : g = -f
    BY <2>2
  <2>4. Combines(n.matrix[r], s.matrix[r], g, n.matrix[p], m)
    BY <2>1, <2>3 DEF PivotRows, IsReduced
  <2>5. 0 = 0 + g * 0
    OBVIOUS
  <2>6. r \in R
    BY <1>0
  <2> QED BY <1>0, <1>1, <1>2, <2>4, <2>5, <2>6, ValueLinear
<1>4. ASSUME NEW r \in R \ (Available(s, c) \ {p}), r # p
      PROVE  Congruent(Value(n.matrix[r], x, m), 0)
  <2>1. n.matrix[r] = s.matrix[r]
    BY <1>4 DEF IsPivoted
  <2> QED BY <1>1, <2>1
<1> QED BY <1>2, <1>3, <1>4 DEF Annihilates

\* What solves the rows after a pivot solves those before it.
LEMMA PivotSolves ==
  ASSUME NEW R, NEW m \in Nat, NEW T, NEW c \in 1 .. m, NEW s, EchelonRows(R, m, T, s, c - 1),
         NEW p \in Available(s, c), NEW i, i = Reciprocal(s.matrix[p][c]), NEW n,
         IsPivoted(R, s, c, p, i, n),
         PivotRows(R, m, s, c, p, i, n), EchelonRows(R, m, T, n, c),
         NEW x, IntegersTo(m, x), NEW t \in T, Solves(R, m, n, x, t)
  PROVE  Solves(R, m, s, x, t)
<1>0. p \in R \ s.used /\ Available(s, c) \subseteq R
  BY DEF Available, EchelonRows, ByRow
<1>1. ASSUME NEW r \in R
      PROVE  /\ RowOf(m, s.matrix[r]) /\ RowOf(m, n.matrix[r])
             /\ Congruent(Value(n.matrix[r], x, m), n.rhs[r][t])
             /\ s.rhs[r][t] \in Int /\ n.rhs[r][t] \in Int /\ DOMAIN s.rhs[r] = T
  <2>1. s.rhs[r][t] \in Field /\ n.rhs[r][t] \in Field
    BY DEF EchelonRows
  <2>2. /\ RowOf(m, s.matrix[r]) /\ RowOf(m, n.matrix[r])
        /\ Congruent(Value(n.matrix[r], x, m), n.rhs[r][t]) /\ DOMAIN s.rhs[r] = T
    BY DEF EchelonRows, Solves
  <2> QED BY <2>1, <2>2, OfField
<1>2. PICK b \in Int : b = n.rhs[p][t] /\ Congruent(Value(n.matrix[p], x, m), b)
  BY <1>0, <1>1
<1>3. Congruent(Value(s.matrix[p], x, m), s.rhs[p][t])
  <2>1. PICK a : a = s.matrix[p][c]
    OBVIOUS
  <2>2. a \in Field \ {0}
    <3>1. c \in DOMAIN s.matrix[p] /\ RowOf(m, s.matrix[p])
      BY <1>0, <1>1 DEF Available
    <3>2. s.matrix[p][c] # 0
      BY <1>0, <3>1 DEF EchelonRows
    <3> QED BY <2>1, <3>1, <3>2 DEF RowOf
  <2>3. a \in Int /\ i = Reciprocal(a) /\ i \in Int
    BY <2>1, <2>2, ReciprocalIs, OfField
  <2>4. Combines(s.matrix[p], NoEntries, a, n.matrix[p], m)
    BY <2>1 DEF PivotRows, IsQuotient
  <2>5. RowOf(m, NoEntries) /\ Congruent(Value(NoEntries, x, m), 0)
    BY NoEntriesIs DEF Congruent
  <2>6. PICK y \in Int : y = 0 + a * b
    BY <2>3
  <2>7. Congruent(Value(s.matrix[p], x, m), y)
    BY <1>0, <1>1, <1>2, <2>3, <2>4, <2>5, <2>6, ValueLinear
  <2>8. PICK d \in Int, e \in Int : d = s.rhs[p][t] /\ e = d * i
    BY <1>0, <1>1, <2>3
  <2>9. b = e % Prime
    <3>1. n.rhs[p] = Quotients(s.rhs[p], i) /\ DOMAIN s.rhs[p] = T
      BY <1>0, <1>1 DEF IsPivoted
    <3>2. n.rhs[p][t] = (s.rhs[p][t] * i) % Prime
      BY <3>1 DEF Quotients
    <3> QED BY <1>2, <2>8, <3>2
  <2>10. Congruent(b, e)
    BY <2>8, <2>9, CongruentRemainder
  <2>11. PICK z \in Int : z = a * e
    BY <2>3
  <2>12. Congruent(y, z)
    <3>1. y = a * b
      BY <2>3, <2>6
    <3> QED BY <3>1, <2>3, <2>10, <2>11, CongruentMultiple
  <2>13. Congruent(z, d)
    <3>1. Congruent(a * (d * Reciprocal(a)), d)
      BY <2>2, ReciprocalUndone
    <3> QED BY <3>1, <2>3, <2>8, <2>11
  <2> QED BY <2>7, <2>8, <2>12, <2>13, CongruentTrans
<1>4. ASSUME NEW r \in Available(s, c) \ {p}
      PROVE  Congruent(Value(s.matrix[r], x, m), s.rhs[r][t])
  <2>0. r \in R
    BY <1>0
  <2>1. PICK f : f = s.matrix[r][c]
    OBVIOUS
  <2>2. f \in Int
    <3>1. c \in DOMAIN s.matrix[r] /\ RowOf(m, s.matrix[r])
      BY <1>0, <1>1 DEF Available
    <3> QED BY <2>1, <3>1, OfField DEF RowOf
  <2>3. Combines(s.matrix[r], n.matrix[r], f, n.matrix[p], m)
    BY <2>1 DEF PivotRows, IsReduced
  <2>4. PICK g \in Int, d \in Int : g = n.rhs[r][t] /\ d = s.rhs[r][t]
    BY <2>0, <1>1
  <2>5. PICK y \in Int : y = g + f * b
    BY <2>2
  <2>6. Congruent(Value(n.matrix[r], x, m), g)
    BY <2>0, <2>4, <1>1
  <2>7. Congruent(Value(s.matrix[r], x, m), y)
    BY <1>0, <1>1, <1>2, <2>0, <2>2, <2>3, <2>4, <2>5, <2>6, ValueLinear
  <2>8. g = SubtractMultiply(d, f, b)
    <3>1. n.rhs[r] = Differences(s.rhs[r], s.matrix[r][c], n.rhs[p])
      BY DEF IsPivoted
    <3>2. DOMAIN s.rhs[r] = T
      BY <2>0, <1>1
    <3>3. n.rhs[r][t] = SubtractMultiply(s.rhs[r][t], s.matrix[r][c], n.rhs[p][t])
      BY <3>1, <3>2 DEF Differences
    <3> QED BY <3>3, <2>1, <2>4, <1>2
  <2>9. Congruent(d, y)
    BY <2>2, <2>5, <2>8, SubtractCongruent
  <2>10. Congruent(y, d)
    BY <2>9 DEF Congruent
  <2> QED BY <2>4, <2>7, <2>10, CongruentTrans
<1>5. ASSUME NEW r \in R \ (Available(s, c) \ {p}), r # p
      PROVE  Congruent(Value(s.matrix[r], x, m), s.rhs[r][t])
  <2>1. n.matrix[r] = s.matrix[r] /\ n.rhs[r] = s.rhs[r]
    BY <1>5 DEF IsPivoted
  <2> QED BY <1>1, <2>1
<1> QED BY <1>3, <1>4, <1>5 DEF Solves

-----------------------------------------------------------------------------
(***************************************************************************)
(* Column by column.                                                       *)
(***************************************************************************)
LEMMA PairsCompare ==
  ASSUME NEW a \in Int, NEW b \in Int, NEW e \in Int, NEW f \in Int,
         ~(b < a \/ (b = a /\ f < e))
  PROVE  a < b \/ (a = b /\ e <= f)
OBVIOUS

\* Numbered rows of finitely many entries.
LEMMA SparsestIs ==
  ASSUME NEW s, NEW rows, rows \subseteq Int, IsFiniteSet(rows), rows # {},
         \A r \in rows : Cardinality(DOMAIN s.matrix[r]) \in Nat
  PROVE  Sparsest(s, rows) \in rows
<1> DEFINE size(r) == Cardinality(DOMAIN s.matrix[r])
           G == {e \in rows \X rows :
                   size(e[1]) < size(e[2]) \/ (size(e[1]) = size(e[2]) /\ e[1] < e[2])}
<1> HIDE DEF size
<1>0. \A r \in rows : size(r) \in Nat /\ r \in Int
  BY DEF size
<1>1. \A a, b \in rows :
        <<a, b>> \in G <=> size(a) < size(b) \/ (size(a) = size(b) /\ a < b)
  OBVIOUS
<1>2. \A a \in rows : <<a, a>> \notin G
  BY <1>0, <1>1
<1>3. \A a, b, c \in rows : <<a, b>> \in G /\ <<b, c>> \in G => <<a, c>> \in G
  BY <1>0, <1>1
<1> HIDE DEF G
<1>4. \E e \in rows : \A f \in rows : <<f, e>> \notin G
  BY <1>2, <1>3, MinimalElement
<1>5. \E e \in rows : \A f \in rows : size(e) < size(f) \/ (size(e) = size(f) /\ e <= f)
  <2>1. PICK e \in rows : \A f \in rows : <<f, e>> \notin G
    BY <1>4
  <2>2. ASSUME NEW f \in rows PROVE size(e) < size(f) \/ (size(e) = size(f) /\ e <= f)
    <3>1. ~(size(f) < size(e) \/ (size(f) = size(e) /\ f < e))
      BY <1>1, <2>1
    <3>2. PICK a \in Int, b \in Int : a = size(e) /\ b = size(f)
      BY <1>0
    <3>3. e \in Int /\ f \in Int
      BY <1>0
    <3>4. ~(b < a \/ (b = a /\ f < e))
      BY <3>1, <3>2
    <3>5. a < b \/ (a = b /\ e <= f)
      BY <3>3, <3>4, PairsCompare
    <3> QED BY <3>2, <3>5
  <2> QED BY <2>1, <2>2
<1> QED BY <1>5 DEF Sparsest, size

LEMMA PivotForIs ==
  ASSUME NEW R, R \subseteq Int, IsFiniteSet(R), NEW m \in Nat, NEW T, NEW b, NEW s,
         EchelonRows(R, m, T, s, b), NEW c, Available(s, c) # {}, NEW rowGroup, NEW group
  PROVE  PivotFor(s, c, rowGroup, group) \in Available(s, c)
<1>1. Available(s, c) \subseteq R
  BY DEF Available, EchelonRows, ByRow
<1>2. ASSUME NEW r \in R PROVE Cardinality(DOMAIN s.matrix[r]) \in Nat
  <2>1. DOMAIN s.matrix[r] \subseteq 1 .. m
    BY DEF EchelonRows, RowOf
  <2>2. IsFiniteSet(1 .. m)
    BY FS_Interval
  <2>3. IsFiniteSet(DOMAIN s.matrix[r])
    BY <2>1, <2>2, FS_Subset
  <2> QED BY <2>3, FS_CardinalityType
<1>3. ASSUME NEW rows \in SUBSET Available(s, c), rows # {} PROVE Sparsest(s, rows) \in rows
  <2>1. rows \subseteq Int /\ IsFiniteSet(rows)
    BY <1>1, PartOfFinite
  <2> QED BY <1>1, <1>2, <1>3, <2>1, SparsestIs
<1> DEFINE own == {r \in Available(s, c) : rowGroup[r] = group}
           rows == IF own # {} THEN own ELSE Available(s, c)
<1>4. PivotFor(s, c, rowGroup, group) = Sparsest(s, rows)
  BY DEF PivotFor
<1>5. rows \in SUBSET Available(s, c) /\ rows # {}
  OBVIOUS
<1> HIDE DEF rows
<1>6. Sparsest(s, rows) \in rows
  BY <1>3, <1>5
<1> QED BY <1>4, <1>5, <1>6

\* The elimination of start when it has come to column c: it may have stopped before.
EchelonAt(R, m, T, start, s, d) ==
  EchelonRows(R, m, T, s, d) /\ EchelonPivots(R, m, s, d) /\ EquationsOf(R, m, T, start, s)

Reached(R, m, T, start, s, c) ==
  \E d \in 0 .. c : EchelonAt(R, m, T, start, s, d) /\ (~s.stopped => d = c)

IsEnded(n, s) ==
  /\ EchelonFields(s) => EchelonFields(n)
  /\ n.matrix = s.matrix /\ n.rhs = s.rhs /\ n.used = s.used
  /\ n.rowMap = s.rowMap /\ n.columns = s.columns

LEMMA EndedIs ==
  ASSUME NEW s, EchelonFields(s), NEW c, NEW basis, NEW n, n = EndedAt(s, c, basis)
  PROVE  IsEnded(n, s)
<1>1. PICK b : n = [s EXCEPT !.stopped = b]
  BY DEF EndedAt
<1> QED BY <1>1 DEF IsEnded, EchelonFields, EchelonNames

LEMMA EndedReached ==
  ASSUME NEW R, NEW m \in Nat, NEW T, NEW start, NEW s, NEW c \in Nat,
         EchelonAt(R, m, T, start, s, c), NEW n, IsEnded(n, s)
  PROVE  Reached(R, m, T, start, n, c)
<1>1. EchelonFields(s) /\ ByRow(R, s)
  BY DEF EchelonAt, EchelonRows, ByRow
<1>2. EchelonRows(R, m, T, n, c)
  BY <1>1 DEF EchelonAt, EchelonRows, ByRow, IsEnded
<1>3. EchelonPivots(R, m, n, c)
  BY DEF EchelonAt, EchelonPivots, IsEnded
<1>4. EquationsOf(R, m, T, start, n)
  BY DEF EchelonAt, EquationsOf, Solves, Annihilates, IsEnded
<1> QED BY <1>2, <1>3, <1>4 DEF EchelonAt, Reached

LEMMA EquationsOn ==
  ASSUME NEW R, NEW m, NEW T, NEW a, NEW b, NEW c, EquationsOf(R, m, T, a, b),
         EquationsOf(R, m, T, b, c)
  PROVE  EquationsOf(R, m, T, a, c)
BY DEF EquationsOf

LEMMA EquationsSelf ==
  ASSUME NEW R, NEW m, NEW T, NEW a
  PROVE  EquationsOf(R, m, T, a, a)
BY DEF EquationsOf

LEMMA NothingAvailable ==
  ASSUME NEW R, NEW m \in Nat, NEW T, NEW start, NEW s, NEW c \in 1 .. m,
         EchelonAt(R, m, T, start, s, c - 1), Available(s, c) = {}
  PROVE  EchelonAt(R, m, T, start, s, c)
<1>1. EchelonRows(R, m, T, s, c)
  <2>1. ASSUME NEW r \in R \ s.used, NEW k \in DOMAIN s.matrix[r] PROVE k > c /\ s.matrix[r][k] # 0
    <3>1. k > c - 1 /\ s.matrix[r][k] # 0
      BY DEF EchelonAt, EchelonRows
    <3>2. k # c
      BY DEF Available, EchelonAt, EchelonRows, ByRow
    <3>3. k \in Int
      <4>1. RowOf(m, s.matrix[r])
        BY DEF EchelonAt, EchelonRows
      <4> QED BY <4>1 DEF RowOf
    <3> QED BY <3>1, <3>2, <3>3
  <2> QED BY <2>1 DEF EchelonAt, EchelonRows
<1>2. EchelonPivots(R, m, s, c)
  <2>1. PICK l \in Nat : l = Len(s.rowMap) /\ l = Len(s.columns)
    BY DEF EchelonAt, EchelonPivots
  <2>2. \A i \in 1 .. l : s.columns[i] \in Int /\ s.columns[i] <= c - 1
    BY <2>1 DEF EchelonAt, EchelonPivots
  <2>3. \A i \in 1 .. l : s.columns[i] <= c
    BY <2>2
  <2> QED BY <2>1, <2>3 DEF EchelonAt, EchelonPivots
<1> QED BY <1>1, <1>2 DEF EchelonAt

LEMMA PivotReached ==
  ASSUME NEW R, NEW m \in Nat, NEW T, NEW start, NEW s, NEW c \in 1 .. m,
         EchelonAt(R, m, T, start, s, c - 1), NEW p \in Available(s, c), NEW n,
         n = Pivoted(s, c, p)
  PROVE  EchelonAt(R, m, T, start, n, c)
<1>1. EchelonRows(R, m, T, s, c - 1) /\ EchelonPivots(R, m, s, c - 1)
  BY DEF EchelonAt
<1>2. p \in R \ s.used /\ c \in DOMAIN s.matrix[p] /\ ByRow(R, s)
  BY <1>1 DEF Available, EchelonRows, ByRow
<1>3. PICK i : i = Reciprocal(s.matrix[p][c])
  OBVIOUS
<1>4. i \in Field
  <2>1. s.matrix[p][c] \in Field \ {0}
    BY <1>1, <1>2 DEF EchelonRows, RowOf
  <2> QED BY <2>1, <1>3, ReciprocalIs
<1>5. IsPivoted(R, s, c, p, i, n)
  BY <1>2, <1>3, PivotedIs
<1>6. PivotRows(R, m, s, c, p, i, n)
  BY <1>1, <1>3, <1>5, PivotRowsAre
<1>7. EchelonRows(R, m, T, n, c)
  BY <1>1, <1>4, <1>5, <1>6, PivotKeepsRows
<1>8. EchelonPivots(R, m, n, c)
  BY <1>1, <1>5, <1>6, PivotKeepsPivots
<1>9. EquationsOf(R, m, T, s, n)
  <2>1. ASSUME NEW x, IntegersTo(m, x), NEW t \in T, Solves(R, m, n, x, t)
        PROVE  Solves(R, m, s, x, t)
    BY <1>1, <1>3, <1>5, <1>6, <1>7, <2>1, PivotSolves
  <2>2. ASSUME NEW x, IntegersTo(m, x), Annihilates(R, m, s, x)
        PROVE  Annihilates(R, m, n, x)
    BY <1>1, <1>4, <1>5, <1>6, <1>7, <2>2, PivotAnnihilates
  <2> QED BY <2>1, <2>2 DEF EquationsOf
<1>10. EquationsOf(R, m, T, start, n)
  <2>1. EquationsOf(R, m, T, start, s)
    BY DEF EchelonAt
  <2> QED BY <2>1, <1>9, EquationsOn
<1> QED BY <1>7, <1>8, <1>10 DEF EchelonAt

\* One more column keeps the echelon form.
LEMMA ColumnReached ==
  ASSUME NEW R, R \subseteq Int, IsFiniteSet(R), NEW m \in Nat, NEW T, NEW start, NEW s,
         NEW c \in 1 .. m, Reached(R, m, T, start, s, c - 1),
         NEW basis, NEW rowGroup, NEW group, NEW n,
         n = EchelonColumn(s, c, basis, rowGroup, group)
  PROVE  Reached(R, m, T, start, n, c)
<1>1. PICK d \in 0 .. c - 1 : EchelonAt(R, m, T, start, s, d) /\ (~s.stopped => d = c - 1)
  BY DEF Reached
<1>2. CASE s.stopped
  <2>1. n = s
    BY <1>2 DEF EchelonColumn
  <2>2. d \in 0 .. c
    BY <1>1
  <2> QED BY <1>1, <1>2, <2>1, <2>2 DEF Reached
<1>3. CASE ~s.stopped /\ Available(s, c) = {}
  <2>1. n = EndedAt(s, c, basis)
    BY <1>3 DEF EchelonColumn
  <2>2. EchelonAt(R, m, T, start, s, c)
    BY <1>1, <1>3, NothingAvailable
  <2>3. IsEnded(n, s)
    <3>1. EchelonFields(s)
      BY <2>2 DEF EchelonAt, EchelonRows, ByRow
    <3> QED BY <2>1, <3>1, EndedIs
  <2> QED BY <2>2, <2>3, EndedReached
<1>4. CASE ~s.stopped /\ Available(s, c) # {}
  <2>1. PICK p, q : p = PivotFor(s, c, rowGroup, group) /\ q = Pivoted(s, c, p)
    OBVIOUS
  <2>2. n = EndedAt(q, c, basis)
    BY <1>4, <2>1 DEF EchelonColumn
  <2>3. EchelonAt(R, m, T, start, s, c - 1)
    BY <1>1, <1>4
  <2>4. p \in Available(s, c)
    BY <1>4, <2>1, <2>3, PivotForIs DEF EchelonAt
  <2>5. EchelonAt(R, m, T, start, q, c)
    BY <2>1, <2>3, <2>4, PivotReached
  <2>6. IsEnded(n, q)
    <3>1. EchelonFields(q)
      BY <2>5 DEF EchelonAt, EchelonRows, ByRow
    <3> QED BY <2>2, <3>1, EndedIs
  <2> QED BY <2>5, <2>6, EndedReached
<1> QED BY <1>2, <1>3, <1>4

-----------------------------------------------------------------------------
(***************************************************************************)
(* sparse_gaussian_elimination as a whole.                                 *)
(***************************************************************************)
IsSystem(R, m, T, matrix, rhs) ==
  /\ matrix = [r \in R |-> matrix[r]] /\ rhs = [r \in R |-> rhs[r]]
  /\ \A r \in R : /\ RowOf(m, matrix[r]) /\ \A k \in DOMAIN matrix[r] : matrix[r][k] # 0
                  /\ rhs[r] = [t \in T |-> rhs[r][t]]
                  /\ \A t \in T : rhs[r][t] \in Field

LEMMA StartReached ==
  ASSUME NEW R, NEW m \in Nat, NEW T, NEW matrix, NEW rhs, IsSystem(R, m, T, matrix, rhs),
         NEW s, s = EchelonStart(matrix, rhs)
  PROVE  Reached(R, m, T, s, s, 0)
<1>1. /\ EchelonFields(s) /\ s.matrix = matrix /\ s.rhs = rhs /\ s.used = {}
      /\ s.rowMap = <<>> /\ s.columns = <<>>
  BY DEF EchelonStart, EchelonFields, EchelonNames
<1>2. EchelonRows(R, m, T, s, 0)
  <2>1. ASSUME NEW r \in R, NEW k \in DOMAIN matrix[r] PROVE k > 0 /\ matrix[r][k] # 0
    <3>1. RowOf(m, matrix[r]) /\ matrix[r][k] # 0
      BY DEF IsSystem
    <3> QED BY <3>1 DEF RowOf
  <2>2. matrix = [r \in R |-> matrix[r]] /\ rhs = [r \in R |-> rhs[r]]
    BY DEF IsSystem
  <2>3. ByRow(R, s) /\ s.used \subseteq R
    BY <1>1, <2>2 DEF ByRow
  <2>4. ASSUME NEW r \in R
        PROVE  /\ RowOf(m, s.matrix[r]) /\ s.rhs[r] = [t \in T |-> s.rhs[r][t]]
               /\ \A t \in T : s.rhs[r][t] \in Field
    BY <1>1 DEF IsSystem
  <2>5. \A r \in R \ s.used : \A k \in DOMAIN s.matrix[r] : k > 0 /\ s.matrix[r][k] # 0
    BY <1>1, <2>1
  <2> QED BY <2>3, <2>4, <2>5 DEF EchelonRows
<1>3. EchelonPivots(R, m, s, 0)
  BY <1>1 DEF EchelonPivots
<1>4. EchelonAt(R, m, T, s, s, 0)
  BY <1>2, <1>3, EquationsSelf DEF EchelonAt
<1> QED BY <1>4 DEF Reached

\* g is s but for the rows that were no pivot.
IsWithUnused(R, g, s) ==
  /\ g.matrix = s.matrix /\ g.rhs = s.rhs /\ g.used = s.used /\ g.columns = s.columns
  /\ g.rowMap = s.rowMap \o Ascending(R \ s.used)

\* Gaussian elimination of a system ends in echelon form.
LEMMA EliminationReached ==
  ASSUME NEW R, R \subseteq Int, IsFiniteSet(R), NEW m \in Nat, NEW T, NEW matrix, NEW rhs,
         IsSystem(R, m, T, matrix, rhs), NEW basis, NEW rowGroup, NEW columnGroup,
         DOMAIN columnGroup = 1 .. m,
         NEW g, g = GaussianElimination(matrix, rhs, basis, rowGroup, columnGroup)
  PROVE  \E s, d : /\ EchelonAt(R, m, T, EchelonStart(matrix, rhs), s, d)
                   /\ d \in Int /\ IsWithUnused(R, g, s)
<1> DEFINE seq == [c \in DOMAIN columnGroup |-> c]
<1>1. PICK start : start = EchelonStart(matrix, rhs)
  OBVIOUS
<1>2. PICK q : q.basis = basis /\ q.rowGroup = rowGroup /\ q.columnGroup = columnGroup
  <2> DEFINE q == [basis |-> basis, rowGroup |-> rowGroup, columnGroup |-> columnGroup]
  <2>1. q.basis = basis /\ q.rowGroup = rowGroup /\ q.columnGroup = columnGroup
    OBVIOUS
  <2> HIDE DEF q
  <2> QED BY <2>1
<1>3. DOMAIN seq = 1 .. m /\ \A i \in 1 .. m : seq[i] = i
  OBVIOUS
<1>4. GaussianElimination(matrix, rhs, q.basis, q.rowGroup, q.columnGroup)
        = WithUnusedRows(Folded(EchelonStart(matrix, rhs), q,
                                [c \in DOMAIN q.columnGroup |-> c], "column"))
  BY DEF GaussianElimination, Folded, FoldLeft, MapThenFoldSet, IsFold, FoldOf, StepOf
<1>5. PICK e : e = Folded(start, q, seq, "column") /\ g = WithUnusedRows(e)
  BY <1>1, <1>2, <1>4
<1>6. PICK v : Chain(v, start, q, seq, "column") /\ v[m] = e
  <2> HIDE DEF seq
  <2> QED BY <1>3, <1>5, FoldChain
<1> HIDE DEF seq
<1>7. v[0] = start
  BY <1>6 DEF Chain
<1>8. ASSUME NEW i \in 1 .. m
      PROVE  v[i] = EchelonColumn(v[i - 1], i, q.basis, q.rowGroup, q.columnGroup[i])
  <2>1. v[i] = StepOf(v[i - 1], q, i, "column")
    BY <1>3, <1>6 DEF Chain
  <2> QED BY <2>1 DEF StepOf
<1> DEFINE K == {i \in Nat : i <= m => Reached(R, m, T, start, v[i], i)}
<1>9. 0 \in K
  BY <1>1, <1>7, StartReached
<1>10. ASSUME NEW i \in Nat, i \in K PROVE i + 1 \in K
  <2>1. SUFFICES ASSUME i + 1 <= m PROVE Reached(R, m, T, start, v[i + 1], i + 1)
    BY <1>10
  <2>2. Reached(R, m, T, start, v[i], i)
    BY <1>10, <2>1
  <2>3. i + 1 \in 1 .. m /\ (i + 1) - 1 = i
    BY <2>1
  <2>4. v[i + 1] = EchelonColumn(v[i], i + 1, q.basis, q.rowGroup, q.columnGroup[i + 1])
    BY <1>8, <2>3
  <2> QED BY <2>2, <2>3, <2>4, ColumnReached
<1>11. m \in K
  <2> HIDE DEF K
  <2> QED BY <1>9, <1>10, SetInduction
<1>12. PICK d \in 0 .. m : EchelonAt(R, m, T, start, e, d)
  BY <1>6, <1>11 DEF Reached
<1>13. EchelonFields(e) /\ DOMAIN e.matrix = R
  BY <1>12 DEF EchelonAt, EchelonRows, ByRow
<1>14. IsWithUnused(R, g, e)
  BY <1>5, <1>13 DEF WithUnusedRows, IsWithUnused, EchelonFields, EchelonNames
<1> QED BY <1>1, <1>12, <1>14

-----------------------------------------------------------------------------
(***************************************************************************)
(* Solving an echelon form.                                                *)
(***************************************************************************)
Assigned(x, c, v) == [x EXCEPT ![c] = v]

ValueShifts(m, row, x, y, c, v) ==
  Value(row, y, m) = Value(row, x, m) + (v * Entry(row, c) - x[c] * Entry(row, c))

LEMMA ValueAssigned ==
  ASSUME NEW m \in Nat, NEW row, RowOf(m, row), NEW x \in [1 .. m -> Field], NEW c \in 1 .. m,
         NEW v \in Field, NEW y, y = Assigned(x, c, v)
  PROVE  y \in [1 .. m -> Field] /\ ValueShifts(m, row, x, y, c, v)
<1>1. y \in [1 .. m -> Field] /\ y[c] = v /\ \A k \in 1 .. m : k # c => y[k] = x[k]
  BY DEF Assigned
<1>2. IntegersTo(m, x) /\ IntegersTo(m, y)
  BY <1>1, OfField DEF IntegersTo
<1>3. PICK f, h : f = Products(row, y, m) /\ h = Products(row, x, m)
  OBVIOUS
<1>4. \A k \in 1 .. m : /\ f[k] = y[k] * Entry(row, k) /\ h[k] = x[k] * Entry(row, k)
                        /\ f[k] \in Int /\ h[k] \in Int
  BY <1>2, <1>3, ValueInt
<1>5. Total(f, m) = Total(h, m) + (f[c] - h[c])
  BY <1>1, <1>4, TotalOne
<1> QED BY <1>1, <1>3, <1>4, <1>5 DEF Value, ValueShifts

SolvedFrom(m, s, t, i, x) ==
  /\ x \in [1 .. m -> Field]
  /\ \A k \in 1 .. m : x[k] # 0 => \E j \in 1 .. Len(s.rowMap) : s.columns[j] = k
  /\ \A j \in 1 .. Len(s.rowMap) :
       j > i => Congruent(Value(s.matrix[s.rowMap[j]], x, m), s.rhs[s.rowMap[j]][t])

LEMMA PivotsTyped ==
  ASSUME NEW R, NEW m \in Nat, NEW T, NEW d, NEW s, EchelonRows(R, m, T, s, d),
         EchelonPivots(R, m, s, d)
  PROVE  /\ Len(s.rowMap) \in Nat
         /\ \A j \in 1 .. Len(s.rowMap) :
              /\ s.rowMap[j] \in R /\ RowOf(m, s.matrix[s.rowMap[j]])
              /\ s.columns[j] \in 1 .. m
              /\ IsPivotRow(s.matrix[s.rowMap[j]], s.columns[j])
              /\ \A t \in T : s.rhs[s.rowMap[j]][t] \in Field
<1>1. Len(s.rowMap) \in Nat
  BY DEF EchelonPivots
<1>2. ASSUME NEW j \in 1 .. Len(s.rowMap)
      PROVE  /\ s.rowMap[j] \in R /\ s.columns[j] \in 1 .. m
             /\ IsPivotRow(s.matrix[s.rowMap[j]], s.columns[j])
  BY DEF EchelonPivots
<1> QED BY <1>1, <1>2 DEF EchelonRows

\* One more pivot, from the last to the first.
LEMMA NextSolved ==
  ASSUME NEW R, NEW m \in Nat, NEW T, NEW d, NEW s, EchelonRows(R, m, T, s, d),
         EchelonPivots(R, m, s, d), NEW t \in T, NEW i \in 1 .. Len(s.rowMap),
         NEW x, SolvedFrom(m, s, t, i, x)
  PROVE  \E y : SolvedFrom(m, s, t, i - 1, y)
<1>1. PICK l \in Nat : l = Len(s.rowMap)
  BY PivotsTyped
<1>2. PICK c, row, b : c = s.columns[i] /\ row = s.matrix[s.rowMap[i]] /\ b = s.rhs[s.rowMap[i]][t]
  OBVIOUS
<1>3. c \in 1 .. m /\ b \in Int /\ RowOf(m, row) /\ IsPivotRow(row, c) /\ Entry(row, c) = 1
  <2>1. c \in 1 .. m /\ b \in Field /\ RowOf(m, row) /\ IsPivotRow(row, c)
    BY <1>2, PivotsTyped
  <2> QED BY <2>1, OfField DEF IsPivotRow, Entry
<1>4. x \in [1 .. m -> Field] /\ x[c] \in Int /\ IntegersTo(m, x)
  BY <1>3, OfField DEF SolvedFrom, IntegersTo
<1>5. PICK w \in Int : w = Value(row, x, m)
  BY <1>3, <1>4, ValueInt
<1>6. PICK a \in Int, e \in Int : a = x[c] /\ e = b - w + a
  BY <1>3, <1>4
<1>7. PICK v \in Field : v = e % Prime
  BY RemainderIs
<1>8. v \in Int /\ Congruent(v, e)
  BY <1>7, OfField, CongruentRemainder
<1>9. PICK y : y = Assigned(x, c, v)
  OBVIOUS
<1>10. y \in [1 .. m -> Field]
  BY <1>3, <1>4, <1>9, ValueAssigned
<1>11. ASSUME NEW k \in 1 .. m, y[k] # 0 PROVE \E j \in 1 .. Len(s.rowMap) : s.columns[j] = k
  <2>1. CASE k = c
    BY <1>2, <2>1
  <2>2. CASE k # c
    <3>1. y[k] = x[k]
      BY <1>4, <1>9, <2>2 DEF Assigned
    <3> QED BY <1>11, <3>1 DEF SolvedFrom
  <2> QED BY <2>1, <2>2
<1>12. Congruent(Value(row, y, m), b)
  <2>1. Value(row, y, m) = Value(row, x, m) + (v * Entry(row, c) - x[c] * Entry(row, c))
    <3>1. ValueShifts(m, row, x, y, c, v)
      BY <1>3, <1>4, <1>9, ValueAssigned
    <3> QED BY <3>1 DEF ValueShifts
  <2>2. Value(row, y, m) = w + (v * 1 - a * 1)
    BY <1>3, <1>5, <1>6, <2>1
  <2>3. PICK f \in Int : f = w - a
    OBVIOUS
  <2>4. Value(row, y, m) = v + f
    BY <1>8, <2>2, <2>3
  <2>5. b = e + f
    BY <1>3, <1>6, <2>3
  <2>6. Congruent(f, f)
    BY DEF Congruent
  <2> QED BY <1>8, <2>4, <2>5, <2>6, CongruentSum
<1>13. ASSUME NEW j \in 1 .. l, j > i
       PROVE  Congruent(Value(s.matrix[s.rowMap[j]], y, m), s.rhs[s.rowMap[j]][t])
  <2>1. PICK o, h : o = s.matrix[s.rowMap[j]] /\ h = s.columns[j]
    OBVIOUS
  <2>2. RowOf(m, o) /\ IsPivotRow(o, h) /\ h \in 1 .. m
    BY <1>1, <2>1, PivotsTyped
  <2>3. c < h
    BY <1>1, <1>2, <1>13, <2>1 DEF EchelonPivots
  <2>4. c \notin DOMAIN o
    BY <1>3, <2>2, <2>3 DEF IsPivotRow, StartsAt
  <2>5. Entry(o, c) = 0
    BY <2>4 DEF Entry
  <2>6. Value(o, y, m) = Value(o, x, m) + (v * Entry(o, c) - x[c] * Entry(o, c))
    <3>1. ValueShifts(m, o, x, y, c, v)
      BY <1>3, <1>4, <1>9, <2>2, ValueAssigned
    <3> QED BY <3>1 DEF ValueShifts
  <2>7. Value(o, x, m) \in Int
    BY <1>4, <2>2, ValueInt
  <2>8. Value(o, y, m) = Value(o, x, m)
    <3>1. v * 0 = 0 /\ a * 0 = 0
      BY <1>8
    <3> QED BY <1>6, <2>5, <2>6, <2>7, <3>1
  <2> QED BY <1>1, <1>13, <2>1, <2>8 DEF SolvedFrom
<1>14. ASSUME NEW j \in 1 .. Len(s.rowMap), j > i - 1
       PROVE  Congruent(Value(s.matrix[s.rowMap[j]], y, m), s.rhs[s.rowMap[j]][t])
  <2>1. j = i \/ j > i
    BY <1>1, <1>14
  <2> QED BY <1>1, <1>2, <1>12, <1>13, <2>1
<1> QED BY <1>10, <1>11, <1>14 DEF SolvedFrom

\* Without a residual, back substitution gives a solution of the echelon form.
LEMMA EchelonSolved ==
  ASSUME NEW R, NEW m \in Nat, NEW T, NEW d \in Int, NEW s, EchelonRows(R, m, T, s, d),
         EchelonPivots(R, m, s, d), NEW t \in T, Residual(s) = {}
  PROVE  \E x \in [1 .. m -> Field] : Solves(R, m, s, x, t)
<1>1. PICK l \in Nat : l = Len(s.rowMap)
  BY PivotsTyped
<1> DEFINE K == {i \in Nat : i <= l => \E x : SolvedFrom(m, s, t, l - i, x)}
<1>2. 0 \in K
  <2> DEFINE x == [k \in 1 .. m |-> 0]
  <2>1. x \in [1 .. m -> Field] /\ \A k \in 1 .. m : x[k] = 0
    BY PrimeIs
  <2>2. \A j \in 1 .. Len(s.rowMap) : ~(j > l - 0)
    BY <1>1
  <2> HIDE DEF x
  <2>3. SolvedFrom(m, s, t, l - 0, x)
    BY <2>1, <2>2 DEF SolvedFrom
  <2> QED BY <2>3
<1>3. ASSUME NEW i \in Nat, i \in K PROVE i + 1 \in K
  <2>1. SUFFICES ASSUME i + 1 <= l PROVE \E x : SolvedFrom(m, s, t, l - (i + 1), x)
    BY <1>3
  <2>2. PICK x : SolvedFrom(m, s, t, l - i, x)
    BY <1>3, <2>1
  <2>3. l - i \in 1 .. Len(s.rowMap) /\ (l - i) - 1 = l - (i + 1)
    BY <1>1, <2>1
  <2> QED BY <2>2, <2>3, NextSolved
<1>4. \E x : SolvedFrom(m, s, t, l - l, x)
  <2> HIDE DEF K
  <2>1. l \in K
    BY <1>2, <1>3, SetInduction
  <2> QED BY <2>1 DEF K
<1>5. PICK x : SolvedFrom(m, s, t, 0, x)
  <2>1. l - l = 0
    OBVIOUS
  <2> QED BY <1>4, <2>1
<1>6. ASSUME NEW r \in s.used PROVE Congruent(Value(s.matrix[r], x, m), s.rhs[r][t])
  <2>1. PICK j \in 1 .. Len(s.rowMap) : s.rowMap[j] = r
    BY DEF EchelonPivots
  <2>2. j > 0
    BY <1>1
  <2> QED BY <1>5, <2>1, <2>2 DEF SolvedFrom
<1>7. ASSUME NEW r \in R \ s.used PROVE Congruent(Value(s.matrix[r], x, m), s.rhs[r][t])
  <2>1. RowOf(m, s.matrix[r]) /\ DOMAIN s.rhs[r] = T
    BY DEF EchelonRows
  <2>2. s.rhs[r][t] = 0
    BY <2>1 DEF Residual, IsZero, EchelonRows, ByRow
  <2>3. x \in [1 .. m -> Field] /\ IntegersTo(m, x)
    BY <1>5, OfField DEF SolvedFrom, IntegersTo
  <2>4. ASSUME NEW k \in 1 .. m PROVE Products(s.matrix[r], x, m)[k] = 0
    <3>1. Products(s.matrix[r], x, m)[k] = x[k] * Entry(s.matrix[r], k)
      BY <2>1, <2>3, ValueInt
    <3>2. CASE x[k] = 0
      <4>1. Entry(s.matrix[r], k) \in Int
        BY <2>1, EntryOfRow
      <4> QED BY <3>1, <3>2, <4>1
    <3>3. CASE x[k] # 0
      <4>1. PICK j \in 1 .. Len(s.rowMap) : s.columns[j] = k
        BY <1>5, <3>3 DEF SolvedFrom
      <4>2. k <= d
        BY <4>1 DEF EchelonPivots
      <4>3. k \notin DOMAIN s.matrix[r]
        <5>1. ~(k > d)
          BY <4>2
        <5> QED BY <5>1 DEF EchelonRows
      <4>4. Entry(s.matrix[r], k) = 0
        BY <4>3 DEF Entry
      <4>5. x[k] \in Int
        BY <2>3 DEF IntegersTo
      <4> QED BY <3>1, <4>4, <4>5
    <3> QED BY <3>2, <3>3
  <2>5. Value(s.matrix[r], x, m) = 0
    BY <2>4, TotalZero DEF Value
  <2> QED BY <2>2, <2>5 DEF Congruent
<1>8. x \in [1 .. m -> Field]
  BY <1>5 DEF SolvedFrom
<1> QED BY <1>6, <1>7, <1>8 DEF Solves

-----------------------------------------------------------------------------
(***************************************************************************)
(* Independence of the basis.                                              *)
(***************************************************************************)
LEMMA PivotAlone ==
  ASSUME NEW m \in Nat, NEW row, RowOf(m, row), NEW c \in 1 .. m, IsPivotRow(row, c),
         NEW x \in [1 .. m -> Field], \A k \in c + 1 .. m : x[k] = 0,
         Congruent(Value(row, x, m), 0)
  PROVE  x[c] = 0
<1>1. PICK f, zero : f = Products(row, x, m) /\ zero = [k \in 1 .. m |-> 0]
  OBVIOUS
<1>2. \A k \in 1 .. m : x[k] \in Int
  BY OfField
<1>3. \A k \in 1 .. m : f[k] = x[k] * Entry(row, k) /\ f[k] \in Int
  BY <1>1, <1>2, ValueInt DEF IntegersTo
<1>4. ASSUME NEW k \in 1 .. m, k # c PROVE f[k] = 0
  <2>1. CASE k < c
    <3>1. k \notin DOMAIN row
      BY <2>1 DEF IsPivotRow, StartsAt
    <3>2. Entry(row, k) = 0
      BY <3>1 DEF Entry
    <3> QED BY <1>2, <1>3, <3>2
  <2>2. CASE k > c
    <3>1. x[k] = 0
      BY <2>2
    <3>2. Entry(row, k) \in Int
      BY EntryOfRow
    <3> QED BY <1>3, <3>1, <3>2
  <2> QED BY <1>4, <2>1, <2>2
<1>5. \A k \in 1 .. m : zero[k] = 0
  BY <1>1
<1>6. Total(zero, m) = 0
  BY <1>5, TotalZero
<1>7. Total(f, m) = Total(zero, m) + (f[c] - zero[c])
  <2>1. ASSUME NEW i \in 1 .. m
        PROVE  f[i] \in Int /\ zero[i] \in Int /\ (i # c => f[i] = zero[i])
    BY <1>3, <1>4, <1>5
  <2> QED BY <2>1, TotalOne, SMTT(60)
<1>8. f[c] = x[c]
  <2>1. Entry(row, c) = 1
    BY DEF IsPivotRow, Entry
  <2> QED BY <1>2, <1>3, <2>1
<1>9. Value(row, x, m) = x[c]
  BY <1>1, <1>2, <1>5, <1>6, <1>7, <1>8 DEF Value
<1> QED BY <1>9, PrimeIs, CongruentEqual

\* When the first n columns are pivots, nothing but zero on them vanishes on all rows.
LEMMA EchelonIndependent ==
  ASSUME NEW R, NEW m \in Nat, NEW T, NEW d, NEW s, EchelonRows(R, m, T, s, d),
         EchelonPivots(R, m, s, d), NEW n \in Nat, n <= m, FullRank(s.columns, n),
         NEW x \in [1 .. m -> Field], \A k \in n + 1 .. m : x[k] = 0, Annihilates(R, m, s, x)
  PROVE  \A k \in 1 .. n : x[k] = 0
<1> DEFINE K == {i \in Nat : i <= n => \A k \in (n - i) + 1 .. m : x[k] = 0}
<1>1. 0 \in K
  OBVIOUS
<1>2. ASSUME NEW i \in Nat, i \in K PROVE i + 1 \in K
  <2>1. SUFFICES ASSUME i + 1 <= n, NEW k \in (n - (i + 1)) + 1 .. m PROVE x[k] = 0
    BY <1>2
  <2>2. \A j \in (n - i) + 1 .. m : x[j] = 0
    BY <1>2, <2>1
  <2>3. CASE k >= (n - i) + 1
    BY <2>2, <2>3
  <2>4. CASE k = n - i
    <3>1. k \in 1 .. n /\ k \in 1 .. m
      BY <2>1, <2>4
    <3>2. k \in 1 .. Len(s.rowMap) /\ s.columns[k] = k
      BY <3>1 DEF FullRank, EchelonPivots
    <3>3. /\ s.rowMap[k] \in R /\ RowOf(m, s.matrix[s.rowMap[k]])
          /\ IsPivotRow(s.matrix[s.rowMap[k]], k)
      BY <3>2, PivotsTyped
    <3>4. Congruent(Value(s.matrix[s.rowMap[k]], x, m), 0)
      BY <3>3 DEF Annihilates
    <3>5. \A j \in k + 1 .. m : x[j] = 0
      BY <2>2, <2>4
    <3> QED BY <3>1, <3>3, <3>4, <3>5, PivotAlone
  <2> QED BY <2>1, <2>3, <2>4
<1>3. n \in K
  <2> HIDE DEF K
  <2> QED BY <1>1, <1>2, SetInduction
<1>4. \A k \in (n - n) + 1 .. m : x[k] = 0
  BY <1>3
<1> QED BY <1>4

LEMMA TotalExtends ==
  ASSUME NEW n \in Nat, NEW m \in Nat, n <= m, NEW f, NEW g, \A i \in 1 .. n : f[i] = g[i],
         \A i \in 1 .. n : f[i] \in Int, \A i \in n + 1 .. m : g[i] = 0
  PROVE  Total(g, m) = Total(f, n)
<1> DEFINE K == {i \in Nat : n + i <= m => Total(g, n + i) = Total(f, n)}
<1>1. 0 \in K
  <2>1. Total(f, n) = Total(g, n)
    BY TotalSame
  <2> QED BY <2>1
<1>2. ASSUME NEW i \in Nat, i \in K PROVE i + 1 \in K
  <2>1. SUFFICES ASSUME n + (i + 1) <= m PROVE Total(g, n + (i + 1)) = Total(f, n)
    BY <1>2
  <2>2. PICK j \in Nat : j = n + i /\ j + 1 = n + (i + 1)
    OBVIOUS
  <2>3. Total(g, j) = Total(f, n) /\ g[j + 1] = 0
    BY <1>2, <2>1, <2>2
  <2>4. Total(g, j + 1) = Total(g, j) + g[j + 1]
    BY TotalStep
  <2>5. Total(f, n) \in Int
    BY TotalInt
  <2> QED BY <2>2, <2>3, <2>4, <2>5
<1>3. m - n \in K /\ n + (m - n) = m
  <2> HIDE DEF K
  <2>1. m - n \in Nat
    OBVIOUS
  <2> QED BY <1>1, <1>2, <2>1, SetInduction
<1> QED BY <1>3

-----------------------------------------------------------------------------
(***************************************************************************)
(* The elimination of selected relations.                                  *)
(***************************************************************************)
\* A selection names relations.
Names(src, order) == IsSequence(order) /\ ToSet(order) \subseteq DOMAIN src.relations

SelectedTerms(src, order) == src.basis \o TermsOf(src, order)

AreTerms(m, W, src, order) ==
  /\ m \in Nat /\ m = Basis(src) + Len(order) /\ ColumnsOf(src, order) = 1 .. m
  /\ DOMAIN W = 1 .. m
  /\ \A k \in 1 .. m : W[k] = Terms(src, order, k) /\ IsColumn(W[k])

LEMMA TermsAre ==
  ASSUME NEW src, SourceTyped(src), NEW order, Names(src, order)
  PROVE  AreTerms(Basis(src) + Len(order), SelectedTerms(src, order), src, order)
<1>1. PICK n \in Nat, l \in Nat : n = Basis(src) /\ l = Len(order)
  BY DEF Names, IsSequence, SourceTyped, AreColumns, Basis
<1>2. PICK B, U : B = src.basis /\ U = TermsOf(src, order)
  OBVIOUS
<1>3. IsSequence(B) /\ Len(B) = n
  BY <1>1, <1>2 DEF SourceTyped, AreColumns, Basis
<1>4. IsSequence(U) /\ Len(U) = l
  BY <1>1, <1>2 DEF Names, IsSequence, TermsOf
<1>5. DOMAIN (B \o U) = 1 .. n + l
  BY <1>3, <1>4 DEF IsSequence
<1>6. \A k \in 1 .. n : (B \o U)[k] = B[k]
  BY <1>3, <1>4 DEF IsSequence
<1>7. \A k \in 1 .. l : (B \o U)[n + k] = U[k]
  BY <1>3, <1>4 DEF IsSequence
<1>8. ASSUME NEW k \in 1 .. n + l
      PROVE  (B \o U)[k] = Terms(src, order, k) /\ IsColumn((B \o U)[k])
  <2>1. CASE k <= n
    <3>1. k \in 1 .. n /\ k \in DOMAIN src.basis
      BY <1>2, <1>3, <2>1 DEF IsSequence
    <3>2. (B \o U)[k] = src.basis[k]
      BY <1>2, <1>6, <3>1
    <3>3. IsColumn(src.basis[k])
      BY <3>1 DEF SourceTyped, AreColumns
    <3>4. Terms(src, order, k) = src.basis[k]
      BY <1>1, <2>1 DEF Terms
    <3> QED BY <3>2, <3>3, <3>4
  <2>2. CASE k > n
    <3>1. PICK i \in 1 .. l : k = n + i /\ i = k - n
      BY <2>2
    <3>2. i \in DOMAIN order
      BY <1>1, <3>1 DEF Names, IsSequence
    <3>3. order[i] \in DOMAIN src.relations
      BY <3>2 DEF Names, ToSet
    <3>4. (B \o U)[k] = src.relations[order[i]].terms
      BY <1>2, <1>7, <3>1, <3>2 DEF TermsOf
    <3>5. Terms(src, order, k) = src.relations[order[i]].terms
      <4>1. ~(k <= Basis(src)) /\ k - Basis(src) = i
        BY <1>1, <2>2, <3>1
      <4> QED BY <4>1 DEF Terms
    <3>6. IsColumn(src.relations[order[i]].terms)
      BY <3>3 DEF SourceTyped
    <3> QED BY <3>4, <3>5, <3>6
  <2>3. k <= n \/ k > n
    OBVIOUS
  <2> QED BY <2>1, <2>2, <2>3
<1>9. ColumnsOf(src, order) = 1 .. n + l
  BY <1>1 DEF ColumnsOf
<1> QED BY <1>1, <1>2, <1>5, <1>8, <1>9 DEF AreTerms, SelectedTerms

LEMMA EntryOfColumn ==
  ASSUME NEW w, IsColumn(w), NEW r
  PROVE  Entry(w, r) \in Field /\ Entry(w, r) \in Int
BY PrimeIs DEF IsColumn, Entry

\* An entry of the probe matrix is the value of a term at a row.
LEMMA ProbeIs ==
  ASSUME NEW src, SourceTyped(src), NEW order, Names(src, order), NEW m, NEW W,
         AreTerms(m, W, src, order), NEW M, M = ProbeMatrix(src, order)
  PROVE  /\ M = [r \in RowsOf(src) |-> M[r]]
         /\ \A r \in RowsOf(src) :
              /\ RowOf(m, M[r]) /\ \A k \in DOMAIN M[r] : M[r][k] # 0
              /\ \A k \in 1 .. m : Entry(M[r], k) = Entry(W[k], r)
<1>1. M = [r \in RowsOf(src) |-> M[r]]
  BY DEF ProbeMatrix, RowsOf
<1>2. ASSUME NEW r \in RowsOf(src)
      PROVE  /\ RowOf(m, M[r]) /\ \A k \in DOMAIN M[r] : M[r][k] # 0
             /\ \A k \in 1 .. m : Entry(M[r], k) = Entry(W[k], r)
  <2> DEFINE D == {k \in 1 .. m : Entry(W[k], r) # 0}
  <2>1. {k \in ColumnsOf(src, order) : Entry(Terms(src, order, k), r) # 0} = D
    BY DEF AreTerms
  <2>2. M[r] = [c \in D |-> Terms(src, order, c)[r]]
    BY <2>1 DEF ProbeMatrix, RowsOf
  <2>3. ASSUME NEW c \in D
        PROVE  c \in 1 .. m /\ Terms(src, order, c)[r] = Entry(W[c], r) /\ Entry(W[c], r) # 0
               /\ Entry(W[c], r) \in Field
    <3>1. W[c] = Terms(src, order, c) /\ IsColumn(W[c])
      BY DEF AreTerms
    <3>2. Entry(W[c], r) \in Field
      BY <3>1, EntryOfColumn
    <3>3. Entry(W[c], r) # 0
      OBVIOUS
    <3>4. r \in DOMAIN W[c]
      BY <3>3 DEF Entry
    <3> QED BY <3>1, <3>2, <3>4 DEF Entry
  <2>4. /\ M[r] = [c \in D |-> M[r][c]] /\ DOMAIN M[r] = D
        /\ \A c \in D : M[r][c] = Entry(W[c], r)
    BY <2>2, <2>3
  <2>5. RowOf(m, M[r]) /\ \A k \in DOMAIN M[r] : M[r][k] # 0
    BY <2>3, <2>4 DEF RowOf
  <2>6. ASSUME NEW k \in 1 .. m PROVE Entry(M[r], k) = Entry(W[k], r)
    <3>1. CASE k \in D
      BY <2>4, <3>1 DEF Entry
    <3>2. CASE k \notin D
      <4>1. Entry(W[k], r) = 0
        BY <3>2
      <4>2. Entry(M[r], k) = 0
        BY <2>4, <3>2 DEF Entry
      <4> QED BY <4>1, <4>2
    <3> QED BY <3>1, <3>2
  <2> QED BY <2>5, <2>6
<1> QED BY <1>1, <1>2

LEMMA CompactSystem ==
  ASSUME NEW src, SourceTyped(src), NEW order, Names(src, order), NEW m, NEW W,
         AreTerms(m, W, src, order), NEW M, M = ProbeMatrix(src, order),
         NEW b, b = ProbeRhs(src, FALSE)
  PROVE  /\ IsSystem(RowsOf(src), m, DOMAIN src.targets, M, b)
         /\ \A r \in RowsOf(src), t \in DOMAIN src.targets : b[r][t] = Entry(src.targets[t], r)
<1>1. b = [r \in RowsOf(src) |-> [t \in DOMAIN src.targets |-> Entry(src.targets[t], r)]]
  BY DEF ProbeRhs, TargetValues, RowsOf
<1>2. \A t \in DOMAIN src.targets : \A r : Entry(src.targets[t], r) \in Field
  <2>1. \A t \in DOMAIN src.targets : IsColumn(src.targets[t])
    BY DEF SourceTyped, AreColumns
  <2> QED BY <2>1, EntryOfColumn
<1>5. b = [r \in RowsOf(src) |-> b[r]]
  BY <1>1
<1>3. ASSUME NEW r \in RowsOf(src)
      PROVE  /\ b[r] = [t \in DOMAIN src.targets |-> b[r][t]]
             /\ \A t \in DOMAIN src.targets : b[r][t] = Entry(src.targets[t], r)
             /\ \A t \in DOMAIN src.targets : b[r][t] \in Field
  <2>1. b[r] = [t \in DOMAIN src.targets |-> Entry(src.targets[t], r)]
    BY <1>1
  <2> QED BY <2>1, <1>2
<1>4. /\ M = [r \in RowsOf(src) |-> M[r]]
      /\ \A r \in RowsOf(src) : RowOf(m, M[r]) /\ \A k \in DOMAIN M[r] : M[r][k] # 0
  BY ProbeIs
<1>6. IsSystem(RowsOf(src), m, DOMAIN src.targets, M, b)
  BY <1>3, <1>4, <1>5 DEF IsSystem
<1> QED BY <1>3, <1>6

\* g is what the selected relations are eliminated to.
CompactDone(src, order, m, g) ==
  \E s, d : /\ EchelonAt(RowsOf(src), m, DOMAIN src.targets,
                         EchelonStart(ProbeMatrix(src, order), ProbeRhs(src, FALSE)), s, d)
            /\ d \in Int /\ IsWithUnused(RowsOf(src), g, s)

LEMMA CompactIs ==
  ASSUME NEW src, SourceTyped(src), NEW order, Names(src, order), NEW m, NEW W,
         AreTerms(m, W, src, order), NEW g, g = Compact(src, order)
  PROVE  CompactDone(src, order, m, g)
<1>1. PICK R, M, b : R = RowsOf(src) /\ M = ProbeMatrix(src, order) /\ b = ProbeRhs(src, FALSE)
  OBVIOUS
<1>2. IsSystem(R, m, DOMAIN src.targets, M, b)
  BY <1>1, CompactSystem
<1>3. R \subseteq Int /\ IsFiniteSet(R) /\ m \in Nat
  BY <1>1 DEF RowsOf, SourceTyped, AreTerms
<1>4. PICK n, G, H : n = Basis(src) /\ G = src.rowGroup /\ H = ColumnGroups(src, order)
  OBVIOUS
<1>5. DOMAIN H = 1 .. m
  BY <1>4 DEF ColumnGroups, AreTerms
<1>6. g = GaussianElimination(M, b, n, G, H)
  BY <1>1, <1>4 DEF Compact
<1>7. \E s, d : EchelonAt(R, m, DOMAIN src.targets, EchelonStart(M, b), s, d)
                /\ d \in Int /\ IsWithUnused(R, g, s)
  BY <1>2, <1>3, <1>5, <1>6, EliminationReached
<1> QED BY <1>1, <1>7 DEF CompactDone

\* A combination of terms at a row is the value of the row of the probe matrix.
LEMMA SumValue ==
  ASSUME NEW src, SourceTyped(src), NEW order, Names(src, order), NEW m, NEW W,
         AreTerms(m, W, src, order), NEW M, M = ProbeMatrix(src, order),
         NEW x \in [1 .. m -> Field], NEW r \in RowsOf(src)
  PROVE  Sum(W, x, r) = Value(M[r], x, m) % Prime
<1>1. m \in Nat /\ DOMAIN W = 1 .. m
  BY DEF AreTerms
<1>2. RowOf(m, M[r]) /\ \A k \in 1 .. m : Entry(M[r], k) = Entry(W[k], r)
  BY ProbeIs
<1>3. IntegersTo(m, x)
  BY OfField DEF IntegersTo
<1>4. PICK f : f = Products(M[r], x, m)
  OBVIOUS
<1>5. \A i \in 1 .. m : f[i] \in Int /\ f[i] = x[i] * Entry(W[i], r)
  BY <1>1, <1>2, <1>3, <1>4, ValueInt
<1>6. Sum(W, x, r) = Total(f, m) % Prime
  BY <1>1, <1>5, SumIs
<1> QED BY <1>4, <1>6 DEF Value

\* A compact elimination without a residual expresses the targets by its terms.
LEMMA CompactSpans ==
  ASSUME NEW src, SourceTyped(src), NEW order, Names(src, order), NEW m, NEW W,
         AreTerms(m, W, src, order), NEW g, CompactDone(src, order, m, g), Residual(g) = {}
  PROVE  AllInSpan(src.targets, W, RowsOf(src))
<1>1. PICK R, T, M, b : /\ R = RowsOf(src) /\ T = DOMAIN src.targets
                        /\ M = ProbeMatrix(src, order) /\ b = ProbeRhs(src, FALSE)
  OBVIOUS
<1>2. PICK s, d : /\ EchelonAt(R, m, T, EchelonStart(M, b), s, d) /\ d \in Int
                  /\ IsWithUnused(R, g, s)
  BY <1>1 DEF CompactDone
<1>3. PICK start : start = EchelonStart(M, b) /\ start.matrix = M /\ start.rhs = b
  <2>1. EchelonStart(M, b).matrix = M /\ EchelonStart(M, b).rhs = b
    BY DEF EchelonStart
  <2> QED BY <2>1
<1>4. m \in Nat /\ DOMAIN W = 1 .. m
  BY DEF AreTerms
<1>5. /\ EchelonRows(R, m, T, s, d) /\ EchelonPivots(R, m, s, d)
      /\ EquationsOf(R, m, T, start, s) /\ Residual(s) = {}
  BY <1>2, <1>3 DEF EchelonAt, Residual, IsWithUnused
<1>6. ASSUME NEW t \in T PROVE InSpan(src.targets[t], W, R)
  <2>1. PICK x \in [1 .. m -> Field] : Solves(R, m, s, x, t)
    BY <1>2, <1>4, <1>5, EchelonSolved
  <2>2. Solves(R, m, start, x, t)
    <3>1. IntegersTo(m, x)
      BY OfField DEF IntegersTo
    <3> QED BY <1>5, <2>1, <3>1 DEF EquationsOf
  <2>3. ASSUME NEW r \in R PROVE Sum(W, x, r) = Entry(src.targets[t], r)
    <3>1. Congruent(Value(M[r], x, m), b[r][t])
      BY <1>3, <2>2 DEF Solves
    <3>2. b[r][t] = Entry(src.targets[t], r) /\ b[r][t] \in Field
      <4>1. b[r][t] = Entry(src.targets[t], r)
        BY <1>1, CompactSystem
      <4>2. IsColumn(src.targets[t])
        BY <1>1 DEF SourceTyped, AreColumns
      <4> QED BY <4>1, <4>2, EntryOfColumn
    <3>3. Sum(W, x, r) = Value(M[r], x, m) % Prime
      BY <1>1, SumValue
    <3>4. b[r][t] % Prime = b[r][t]
      BY <3>2, OfField
    <3> QED BY <3>1, <3>2, <3>3, <3>4 DEF Congruent
  <2> QED BY <1>4, <2>3 DEF InSpan
<1> QED BY <1>1, <1>6 DEF AllInSpan

\* A compact elimination of full rank shows the basis to be independent.
LEMMA CompactIndependent ==
  ASSUME NEW src, SourceTyped(src), NEW order, Names(src, order), NEW m, NEW W,
         AreTerms(m, W, src, order), NEW g, CompactDone(src, order, m, g),
         FullRank(g.columns, Basis(src))
  PROVE  Independent(src.basis, <<>>, RowsOf(src))
<1>1. PICK R, T, M, b : /\ R = RowsOf(src) /\ T = DOMAIN src.targets
                        /\ M = ProbeMatrix(src, order) /\ b = ProbeRhs(src, FALSE)
  OBVIOUS
<1>2. PICK s, d : /\ EchelonAt(R, m, T, EchelonStart(M, b), s, d) /\ d \in Int
                  /\ IsWithUnused(R, g, s)
  BY <1>1 DEF CompactDone
<1>3. PICK start : start = EchelonStart(M, b) /\ start.matrix = M
  <2>1. EchelonStart(M, b).matrix = M
    BY DEF EchelonStart
  <2> QED BY <2>1
<1>4. m \in Nat /\ DOMAIN W = 1 .. m
  BY DEF AreTerms
<1>5. PICK n \in Nat : n = Basis(src) /\ n <= m /\ n = Len(src.basis)
  <2>1. Len(order) \in Nat /\ Len(src.basis) \in Nat
    BY DEF Names, IsSequence, SourceTyped, AreColumns
  <2>2. m = Len(src.basis) + Len(order)
    BY DEF AreTerms, Basis
  <2> QED BY <2>1, <2>2 DEF Basis
<1>6. /\ EchelonRows(R, m, T, s, d) /\ EchelonPivots(R, m, s, d)
      /\ EquationsOf(R, m, T, start, s) /\ FullRank(s.columns, n)
  BY <1>2, <1>3, <1>5 DEF EchelonAt, IsWithUnused
<1>7. PICK V : V = src.basis \o <<>>
  OBVIOUS
<1>8. DOMAIN V = 1 .. n /\ \A k \in 1 .. n : V[k] = src.basis[k]
  <2>1. IsSequence(src.basis)
    BY DEF SourceTyped, AreColumns
  <2> QED BY <2>1, <1>5, <1>7 DEF IsSequence
<1>9. ASSUME NEW factors \in [1 .. n -> Field], \A r \in R : Sum(V, factors, r) = 0
      PROVE  \A k \in 1 .. n : factors[k] = 0
  <2>1. PICK x : x = [k \in 1 .. m |-> IF k <= n THEN factors[k] ELSE 0]
    OBVIOUS
  <2>2. /\ x \in [1 .. m -> Field]
        /\ \A k \in 1 .. n : x[k] = factors[k]
        /\ \A k \in n + 1 .. m : x[k] = 0
    <3>1. \A k \in 1 .. m : k <= n => k \in 1 .. n
      BY <1>4
    <3>2. x \in [1 .. m -> Field]
      BY <2>1, <3>1, PrimeIs
    <3>3. \A k \in 1 .. n : x[k] = factors[k]
      BY <1>4, <1>5, <2>1
    <3>4. \A k \in n + 1 .. m : x[k] = 0
      BY <1>4, <1>5, <2>1
    <3> QED BY <3>2, <3>3, <3>4
  <2>3. ASSUME NEW r \in R PROVE Congruent(Value(M[r], x, m), 0)
    <3>1. RowOf(m, M[r]) /\ \A k \in 1 .. m : Entry(M[r], k) = Entry(W[k], r)
      BY <1>1, ProbeIs
    <3>2. IntegersTo(m, x)
      BY <2>2, OfField DEF IntegersTo
    <3>3. PICK h : h = Products(M[r], x, m)
      OBVIOUS
    <3>4. \A k \in 1 .. m : h[k] \in Int /\ h[k] = x[k] * Entry(W[k], r)
      BY <1>4, <3>1, <3>2, <3>3, ValueInt
    <3>5. PICK f : f = [k \in 1 .. n |-> h[k]]
      OBVIOUS
    <3>6. ASSUME NEW k \in 1 .. n
          PROVE  f[k] \in Int /\ f[k] = h[k] /\ f[k] = factors[k] * Entry(V[k], r)
      <4>1. k \in 1 .. m
        BY <1>4, <1>5
      <4>2. f[k] = h[k]
        BY <3>5
      <4>3. W[k] = V[k]
        <5>1. W[k] = Terms(src, order, k)
          BY <4>1 DEF AreTerms
        <5>2. Terms(src, order, k) = src.basis[k]
          BY <1>5 DEF Terms
        <5> QED BY <1>8, <5>1, <5>2
      <4>4. x[k] = factors[k]
        BY <2>2
      <4> QED BY <3>4, <4>1, <4>2, <4>3, <4>4
    <3>7. ASSUME NEW k \in n + 1 .. m PROVE h[k] = 0
      <4>1. k \in 1 .. m /\ x[k] = 0
        BY <1>4, <1>5, <2>2
      <4>2. Entry(W[k], r) \in Int
        <5>1. IsColumn(W[k])
          BY <4>1 DEF AreTerms
        <5> QED BY <5>1, EntryOfColumn
      <4> QED BY <3>4, <4>1, <4>2
    <3>8. Total(h, m) = Total(f, n)
      <4>1. m \in Nat /\ n \in Nat /\ n <= m
        BY <1>4, <1>5
      <4>2. \A k \in 1 .. n : f[k] \in Int /\ h[k] = f[k]
        BY <3>6
      <4> QED BY <4>1, <4>2, <3>7, TotalExtends
    <3>9. Sum(V, factors, r) = Total(f, n) % Prime
      BY <1>8, <3>6, SumIs
    <3>10. 0 % Prime = 0
      BY PrimeIs, OfField
    <3> QED BY <1>9, <3>3, <3>8, <3>9, <3>10 DEF Value, Congruent
  <2>4. Annihilates(R, m, start, x)
    BY <1>3, <2>3 DEF Annihilates
  <2>5. Annihilates(R, m, s, x)
    <3>1. IntegersTo(m, x)
      BY <2>2, OfField DEF IntegersTo
    <3> QED BY <1>6, <2>4, <3>1 DEF EquationsOf
  <2>6. \A k \in 1 .. n : x[k] = 0
    <3>1. m \in Nat /\ n \in Nat /\ n <= m
      BY <1>4, <1>5
    <3>2. EchelonRows(R, m, T, s, d) /\ EchelonPivots(R, m, s, d) /\ FullRank(s.columns, n)
      BY <1>6
    <3>3. x \in [1 .. m -> Field] /\ \A k \in n + 1 .. m : x[k] = 0
      BY <2>2
    <3> QED BY <3>1, <3>2, <3>3, <2>5, EchelonIndependent
  <2> QED BY <2>2, <2>6
<1>10. DOMAIN src.basis = 1 .. n
  BY <1>5 DEF SourceTyped, AreColumns, IsSequence
<1> QED BY <1>1, <1>7, <1>8, <1>9, <1>10 DEF Independent

Joined(R, n, l, a, b, j) ==
  /\ j \in Seq(R) /\ DOMAIN j = 1 .. n + l
  /\ \A i \in 1 .. n : j[i] = a[i]
  /\ \A i \in 1 .. l : j[n + i] = b[i]

LEMMA SequencesJoined ==
  ASSUME NEW R, NEW a \in Seq(R), NEW b \in Seq(R), NEW n \in Nat, NEW l \in Nat,
         n = Len(a), l = Len(b), NEW j, j = a \o b
  PROVE  Joined(R, n, l, a, b, j)
<1>0. IsSequence(a) /\ IsSequence(b)
  BY DEF IsSequence
<1>1. DOMAIN j = 1 .. n + l
  OBVIOUS
<1>2. \A i \in 1 .. n : j[i] = a[i]
  OBVIOUS
<1>3. \A i \in 1 .. l : j[n + i] = b[i]
  BY <1>0 DEF IsSequence
<1>7. j \in Seq(R)
  OBVIOUS
<1> QED BY <1>1, <1>2, <1>3, <1>7 DEF Joined

LEMMA RowsJoined ==
  ASSUME NEW R, R \subseteq Int, IsFiniteSet(R), NEW a \in Seq(R), IsInjective(a),
         NEW j, j = a \o Ascending(R \ ToSet(a))
  PROVE  j \in Seq(R) /\ IsInjective(j) /\ ToSet(j) = R
<1>1. PICK U, b : U = R \ ToSet(a) /\ b = Ascending(U)
  OBVIOUS
<1>2. U \subseteq Int /\ IsFiniteSet(U)
  BY <1>1, PartOfFinite
<1>3. /\ b \in Seq(U)
      /\ \A x \in U : \E i \in DOMAIN b : b[i] = x
      /\ \A i, k \in DOMAIN b : b[i] = b[k] => i = k
  BY <1>1, <1>2, AscendingIs
<1>4. PICK n \in Nat, l \in Nat : /\ n = Len(a) /\ l = Len(b) /\ DOMAIN a = 1 .. n
                                  /\ DOMAIN b = 1 .. l
  BY <1>3
<1>5. b \in Seq(R)
  BY <1>1, <1>3
<1>6. j = a \o b
  BY <1>1
<1>7. /\ j \in Seq(R) /\ DOMAIN j = 1 .. n + l
      /\ \A i \in 1 .. n : j[i] = a[i]
      /\ \A i \in 1 .. l : j[n + i] = b[i]
  <2>1. Joined(R, n, l, a, b, j)
    BY <1>4, <1>5, <1>6, SequencesJoined
  <2> QED BY <2>1 DEF Joined
<1>8. \A i \in 1 .. l : b[i] \in U
  BY <1>3, <1>4
<1>9. \A i \in 1 .. n : a[i] \in ToSet(a)
  BY <1>4 DEF ToSet
<1>10. ASSUME NEW i \in 1 .. n + l, NEW k \in 1 .. n + l, j[i] = j[k] PROVE i = k
  <2>1. CASE i <= n /\ k <= n
    <3>1. i \in 1 .. n /\ k \in 1 .. n
      BY <2>1
    <3>2. a[i] = a[k]
      BY <1>7, <1>10, <3>1
    <3> QED BY <1>4, <3>1, <3>2 DEF IsInjective
  <2>2. CASE i > n /\ k > n
    <3>1. PICK u \in 1 .. l, v \in 1 .. l : i = n + u /\ k = n + v
      <4>1. i - n \in 1 .. l /\ k - n \in 1 .. l /\ i = n + (i - n) /\ k = n + (k - n)
        BY <2>2
      <4> QED BY <4>1
    <3>2. b[u] = b[v]
      BY <1>7, <1>10, <3>1
    <3>3. u = v
      BY <1>3, <1>4, <3>2
    <3> QED BY <3>1, <3>3
  <2>3. CASE i <= n /\ k > n
    <3>1. PICK v \in 1 .. l : k = n + v
      <4>1. k - n \in 1 .. l /\ k = n + (k - n)
        BY <2>3
      <4> QED BY <4>1
    <3>2. i \in 1 .. n
      BY <2>3
    <3>3. a[i] = b[v]
      BY <1>7, <1>10, <3>1, <3>2
    <3> QED BY <1>1, <1>8, <1>9, <3>2, <3>3
  <2>4. CASE i > n /\ k <= n
    <3>1. PICK v \in 1 .. l : i = n + v
      <4>1. i - n \in 1 .. l /\ i = n + (i - n)
        BY <2>4
      <4> QED BY <4>1
    <3>2. k \in 1 .. n
      BY <2>4
    <3>3. a[k] = b[v]
      BY <1>7, <1>10, <3>1, <3>2
    <3> QED BY <1>1, <1>8, <1>9, <3>2, <3>3
  <2> QED BY <2>1, <2>2, <2>3, <2>4
<1>11. IsInjective(j)
  BY <1>7, <1>10 DEF IsInjective
<1>12. ToSet(j) \subseteq R
  BY <1>7, SetOfSequence
<1>13. ASSUME NEW x \in R PROVE x \in ToSet(j)
  <2>1. CASE x \in ToSet(a)
    <3>1. PICK i \in 1 .. n : a[i] = x
      BY <1>4, <2>1 DEF ToSet
    <3>2. i \in 1 .. n + l
      OBVIOUS
    <3> QED BY <1>7, <3>1, <3>2 DEF ToSet
  <2>2. CASE x \notin ToSet(a)
    <3>1. PICK i \in 1 .. l : b[i] = x
      BY <1>1, <1>3, <1>4, <2>2
    <3>2. n + i \in 1 .. n + l
      OBVIOUS
    <3> QED BY <1>7, <3>1, <3>2 DEF ToSet
  <2> QED BY <2>1, <2>2
<1> QED BY <1>7, <1>11, <1>12, <1>13

\* The row map of a compact elimination names each row once.
LEMMA CompactRows ==
  ASSUME NEW src, SourceTyped(src), NEW order, NEW m, NEW g, CompactDone(src, order, m, g)
  PROVE  g.rowMap \in Seq(RowsOf(src)) /\ IsInjective(g.rowMap) /\ ToSet(g.rowMap) = RowsOf(src)
<1>1. PICK R, T, M, b : /\ R = RowsOf(src) /\ T = DOMAIN src.targets
                        /\ M = ProbeMatrix(src, order) /\ b = ProbeRhs(src, FALSE)
  OBVIOUS
<1>2. PICK s, d : EchelonAt(R, m, T, EchelonStart(M, b), s, d) /\ IsWithUnused(R, g, s)
  BY <1>1 DEF CompactDone
<1>3. EchelonPivots(R, m, s, d) /\ s.used \subseteq R
  BY <1>2 DEF EchelonAt, EchelonRows
<1>4. PICK l \in Nat : l = Len(s.rowMap) /\ DOMAIN s.rowMap = 1 .. l
  BY <1>3 DEF EchelonPivots
<1>5. IsInjective(s.rowMap)
  <2>1. ASSUME NEW i \in 1 .. l, NEW k \in 1 .. l, s.rowMap[i] = s.rowMap[k] PROVE i = k
    <3>1. ~(i < k) /\ ~(k < i)
      BY <1>3, <1>4, <2>1 DEF EchelonPivots
    <3> QED BY <3>1
  <2> QED BY <1>4, <2>1 DEF IsInjective
<1>6. ToSet(s.rowMap) = s.used
  <2>1. \A i \in 1 .. l : s.rowMap[i] \in s.used
    BY <1>3, <1>4 DEF EchelonPivots
  <2>2. \A r \in s.used : \E i \in 1 .. l : s.rowMap[i] = r
    BY <1>3, <1>4 DEF EchelonPivots
  <2>3. ToSet(s.rowMap) = {s.rowMap[i] : i \in 1 .. l}
    BY <1>4 DEF ToSet
  <2> QED BY <2>1, <2>2, <2>3
<1>7. R \subseteq Int /\ IsFiniteSet(R)
  BY <1>1 DEF RowsOf, SourceTyped
<1>8. g.rowMap = s.rowMap \o Ascending(R \ ToSet(s.rowMap))
  BY <1>2, <1>6 DEF IsWithUnused
<1>9. s.rowMap \in Seq(R)
  BY <1>3 DEF EchelonPivots
<1> QED BY <1>1, <1>5, <1>7, <1>8, <1>9, RowsJoined

-----------------------------------------------------------------------------
(***************************************************************************)
(* What is selected.                                                       *)
(***************************************************************************)
\* A closed selection of relations of a request, each once.
IsSelected(src, order, result) ==
  /\ Names(src, order) /\ IsInjective(order)
  /\ \E g : /\ g = Compact(src, order) /\ Residual(g) = {} /\ FullRank(g.columns, Basis(src))
            /\ result.rowMap = g.rowMap
  /\ result.order = order

\* A right selection, as a later step needs it.
Answers(src, result) ==
  /\ Expresses(src, result) /\ Names(src, result.order) /\ result.rowMap \in Seq(RowsOf(src))

\* A closed selection that names relations is a right answer to its request.
LEMMA SelectedAnswers ==
  ASSUME NEW src, SourceTyped(src), NEW order, NEW result, IsSelected(src, order, result)
  PROVE  Answers(src, result)
<1>1. /\ Names(src, order) /\ IsInjective(order) /\ result.order = order
      /\ ToSet(order) \subseteq DOMAIN src.relations
  BY DEF IsSelected, Names
<1>2. PICK g : /\ g = Compact(src, order) /\ Residual(g) = {}
               /\ FullRank(g.columns, Basis(src)) /\ result.rowMap = g.rowMap
  BY DEF IsSelected
<1>3. PICK m, W : m = Basis(src) + Len(order) /\ W = SelectedTerms(src, order)
  OBVIOUS
<1>4. AreTerms(m, W, src, order)
  BY <1>1, <1>3, TermsAre
<1>5. CompactDone(src, order, m, g)
  BY <1>1, <1>2, <1>4, CompactIs
<1>6. AllInSpan(src.targets, W, RowsOf(src))
  BY <1>1, <1>2, <1>4, <1>5, CompactSpans
<1>7. Independent(src.basis, <<>>, RowsOf(src))
  BY <1>1, <1>2, <1>4, <1>5, CompactIndependent
<1>8. g.rowMap \in Seq(RowsOf(src)) /\ IsInjective(g.rowMap) /\ ToSet(g.rowMap) = RowsOf(src)
  BY <1>5, CompactRows
<1>9. Expresses(src, result)
  BY <1>1, <1>2, <1>3, <1>6, <1>7, <1>8 DEF Expresses, SelectedTerms
<1> QED BY <1>1, <1>2, <1>8, <1>9 DEF Answers

\* Columns behind the basis, each once.
AreColumnsOnce(columns, n, l) ==
  /\ n \in Nat /\ l \in Nat
  /\ columns \in Seq(1 .. n + l) /\ IsInjective(columns) /\ FullRank(columns, n)

LEMMA LenOfFunction ==
  ASSUME NEW c \in Nat, NEW f, f = [j \in 1 .. c |-> f[j]]
  PROVE  Len(f) = c
OBVIOUS

\* The relations of some pivots behind the first n, in the order of the pivots.
AreChosen(order, columns, live, n) ==
  order = [j \in 1 .. Cardinality(live) |-> columns[Ascending(live)[j]] - n]

LEMMA SomeOfColumns ==
  ASSUME NEW columns, NEW n, NEW l, AreColumnsOnce(columns, n, l), NEW src,
         l = Len(src.relations), IsSequence(src.relations), NEW live,
         live \subseteq n + 1 .. Len(columns),
         NEW order, AreChosen(order, columns, live, n)
  PROVE  Names(src, order) /\ IsInjective(order)
<1>1. /\ n \in Nat /\ l \in Nat /\ columns \in Seq(1 .. n + l) /\ IsInjective(columns)
      /\ FullRank(columns, n)
  BY DEF AreColumnsOnce
<1>2. PICK k \in Nat : k = Len(columns) /\ DOMAIN columns = 1 .. k
  BY <1>1
<1>3. n <= k /\ \A i \in 1 .. n : columns[i] = i
  BY <1>1, <1>2 DEF FullRank
<1>4. \A i \in 1 .. k : columns[i] \in 1 .. n + l
  BY <1>1, <1>2
<1>5. live \subseteq Int /\ IsFiniteSet(live) /\ live \subseteq n + 1 .. k
  <2>1. IsFiniteSet(n + 1 .. k)
    BY <1>1, FS_Interval
  <2>2. live \subseteq n + 1 .. k
    BY <1>2
  <2>3. IsFiniteSet(live)
    BY <2>1, <2>2, PartOfFinite
  <2>4. live \subseteq Int
    BY <2>2
  <2> QED BY <2>2, <2>3, <2>4
<1>6. PICK a, c : a = Ascending(live) /\ c = Cardinality(live)
  OBVIOUS
<1>7. c \in Nat
  BY <1>5, <1>6, FS_CardinalityType
<1>8. /\ a \in Seq(live) /\ DOMAIN a = 1 .. c
      /\ \A i, j \in 1 .. c : a[i] = a[j] => i = j
  <2>1. /\ Ascending(live) \in Seq(live) /\ DOMAIN Ascending(live) = 1 .. Cardinality(live)
        /\ \A i, j \in DOMAIN Ascending(live) :
             Ascending(live)[i] = Ascending(live)[j] => i = j
    BY <1>5, AscendingIs
  <2> QED BY <2>1, <1>6
<1>9. DOMAIN order = 1 .. c /\ \A j \in 1 .. c : order[j] = columns[a[j]] - n
  <2>1. order = [j \in 1 .. c |-> columns[a[j]] - n]
    BY <1>6 DEF AreChosen
  <2> QED BY <2>1
<1>10. ASSUME NEW j \in 1 .. c PROVE a[j] \in 1 .. k /\ columns[a[j]] \in n + 1 .. n + l
  <2>1. PICK i \in n + 1 .. k : i = a[j]
    <3>1. a[j] \in live
      BY <1>8, SequenceIs
    <3> QED BY <3>1, <1>5
  <2>2. i \in 1 .. k /\ columns[i] \in 1 .. n + l
    BY <1>1, <1>4
  <2>3. ~(columns[i] <= n)
    <3>1. SUFFICES ASSUME columns[i] <= n PROVE FALSE
      OBVIOUS
    <3>2. PICK x \in 1 .. n : x = columns[i]
      BY <2>2, <3>1
    <3>3. columns[x] = columns[i]
      BY <1>3, <3>2
    <3>4. x \in 1 .. k /\ x # i
      BY <1>1, <1>2, <1>3, <3>2
    <3> QED BY <3>3, <3>4, <2>2, <1>1, <1>2 DEF IsInjective
  <2>4. columns[i] \in n + 1 .. n + l
    <3>1. PICK x \in 1 .. n + l : x = columns[i]
      BY <2>2
    <3>2. ~(x <= n)
      BY <2>3, <3>1
    <3>3. x \in n + 1 .. n + l
      BY <3>2, <1>1
    <3> QED BY <3>1, <3>3
  <2> QED BY <2>1, <2>2, <2>4
<1>11. IsSequence(order)
  <2>1. DOMAIN order = 1 .. c
    BY <1>9
  <2>2. Len(order) = c
    BY <1>7, <2>1, <1>9, LenOfFunction
  <2> QED BY <1>7, <2>1, <2>2 DEF IsSequence
<1>12. ToSet(order) \subseteq DOMAIN src.relations
  <2>1. \A j \in 1 .. c : order[j] \in 1 .. l
    <3>1. ASSUME NEW j \in 1 .. c PROVE order[j] \in 1 .. l
      <4>1. PICK x \in n + 1 .. n + l : x = columns[a[j]]
        BY <1>10
      <4>2. order[j] = x - n
        BY <1>9, <4>1
      <4>3. x - n \in 1 .. l
        BY <1>1
      <4> QED BY <4>2, <4>3
    <3> QED BY <3>1
  <2>2. DOMAIN src.relations = 1 .. l
    BY DEF IsSequence
  <2> QED BY <2>1, <2>2, <1>9 DEF ToSet
<1>13. IsInjective(order)
  <2>1. ASSUME NEW i \in 1 .. c, NEW j \in 1 .. c, order[i] = order[j] PROVE i = j
    <3>1. PICK x \in n + 1 .. n + l, y \in n + 1 .. n + l : x = columns[a[i]] /\ y = columns[a[j]]
      BY <1>10
    <3>2. x - n = y - n
      BY <2>1, <1>9, <3>1
    <3>3. x = y
      BY <3>2, <1>1
    <3>4. a[i] \in 1 .. k /\ a[j] \in 1 .. k
      BY <1>10
    <3>5. a[i] = a[j]
      BY <3>1, <3>3, <3>4, <1>1, <1>2 DEF IsInjective
    <3> QED BY <3>5, <1>8
  <2>2. DOMAIN order = 1 .. c
    BY <1>9
  <2>3. \A i, j \in DOMAIN order : order[i] = order[j] => i = j
    BY <2>1, <2>2
  <2> QED BY <2>3 DEF IsInjective
<1> QED BY <1>11, <1>12, <1>13 DEF Names

\* The relations that a solution needs, of an elimination and of a checkpoint.
LEMMA LiveSupportNames ==
  ASSUME NEW src, SourceTyped(src), NEW s, NEW n, AreColumnsOnce(s.columns, n, Len(src.relations))
  PROVE  Names(src, LiveSupport(s, n)) /\ IsInjective(LiveSupport(s, n))
<1>1. PICK solution : solution = BackSubstitution(s.matrix, s.rhs, s.columns, s.rowMap)
  OBVIOUS
<1>2. PICK live : live = {i \in n + 1 .. Len(s.columns) : ~IsZero(solution[i])}
  OBVIOUS
<1>3. PICK order : order = [j \in 1 .. Cardinality(live) |-> s.columns[Ascending(live)[j]] - n]
  OBVIOUS
<1>4. LiveSupport(s, n) = order
  BY <1>1, <1>2, <1>3 DEF LiveSupport
<1>5. live \subseteq n + 1 .. Len(s.columns) /\ IsSequence(src.relations)
  BY <1>2 DEF SourceTyped
<1>6. AreChosen(order, s.columns, live, n)
  BY <1>3 DEF AreChosen
<1>7. Names(src, order) /\ IsInjective(order)
  BY <1>5, <1>6, SomeOfColumns
<1> QED BY <1>4, <1>7

LEMMA LiveRelationsName ==
  ASSUME NEW src, SourceTyped(src), NEW c, NEW n, AreColumnsOnce(c.columns, n, Len(src.relations)),
         NEW solution, NEW change
  PROVE  /\ Names(src, LiveRelations(c, solution, change, n))
         /\ IsInjective(LiveRelations(c, solution, change, n))
<1>2. PICK live : live = {i \in n + 1 .. Len(c.columns) :
                            \E t \in n + 1 .. Len(solution[i]) :
                              RelationPart(solution, change, n, i, t) # 0}
  OBVIOUS
<1>3. PICK order : order = [j \in 1 .. Cardinality(live) |-> c.columns[Ascending(live)[j]] - n]
  OBVIOUS
<1>4. LiveRelations(c, solution, change, n) = order
  BY <1>2, <1>3 DEF LiveRelations
<1>5. live \subseteq n + 1 .. Len(c.columns) /\ IsSequence(src.relations)
  BY <1>2 DEF SourceTyped
<1>6. AreChosen(order, c.columns, live, n)
  BY <1>3 DEF AreChosen
<1>7. Names(src, order) /\ IsInjective(order)
  BY <1>5, <1>6, SomeOfColumns
<1> QED BY <1>4, <1>7

\* The pivots of a checkpoint, without those exchanged for a new basis, name relations, each once.
LEMMA ReusedSupportNames ==
  ASSUME NEW src, SourceTyped(src), NEW c, NEW n, AreColumnsOnce(c.columns, n, Len(src.relations)),
         NEW rhs, NEW order \in ReusedSupport(c, rhs, n)
  PROVE  Names(src, order) /\ IsInjective(order)
<1>1. \E solution, change : order = LiveRelations(c, solution, change, n)
  BY DEF ReusedSupport
<1> QED BY <1>1, LiveRelationsName

-----------------------------------------------------------------------------
(***************************************************************************)
(* Answers in terms of the whole request.                                  *)
(***************************************************************************)
\* A request of the relations that stay on some rows, all that its basis and its targets
\* touch among them.
IsLocal(src, rows, kept, local) ==
  /\ rows \subseteq RowsOf(src)
  /\ \A r \in RowsOf(src) \ rows :
       /\ \A k \in DOMAIN src.basis : r \notin DOMAIN src.basis[k]
       /\ \A t \in DOMAIN src.targets : r \notin DOMAIN src.targets[t]
  /\ kept = Ascending(WithinRows(src, rows))
  /\ local = LocalSource(src, rows, kept)

LEMMA EnvelopeIsLocal ==
  ASSUME NEW src, NEW order, NEW rows, rows = Envelope(src, order), NEW kept,
         kept = Ascending(WithinRows(src, rows)), NEW local, local = LocalSource(src, rows, kept)
  PROVE  IsLocal(src, rows, kept, local)
<1>1. rows \subseteq RowsOf(src)
  BY DEF Envelope, RowsOf
<1>2. ASSUME NEW r \in RowsOf(src) \ rows
      PROVE  /\ \A k \in DOMAIN src.basis : r \notin DOMAIN src.basis[k]
             /\ \A t \in DOMAIN src.targets : r \notin DOMAIN src.targets[t]
  BY DEF Envelope, RowsOf
<1> QED BY <1>1, <1>2 DEF IsLocal

\* Where the columns have no entries, sums are zero.
LEMMA SumOfNothing ==
  ASSUME NEW n \in Nat, NEW columns, DOMAIN columns = 1 .. n, NEW factors \in [1 .. n -> Field],
         NEW r, \A i \in 1 .. n : r \notin DOMAIN columns[i]
  PROVE  Sum(columns, factors, r) = 0
<1>1. PICK f : f = [i \in 1 .. n |-> 0]
  OBVIOUS
<1>2. ASSUME NEW i \in 1 .. n
      PROVE  f[i] \in Int /\ f[i] = factors[i] * Entry(columns[i], r)
  <2>1. Entry(columns[i], r) = 0
    BY DEF Entry
  <2>2. factors[i] \in Int
    BY OfField
  <2>3. f[i] = 0
    BY <1>1
  <2> QED BY <2>1, <2>2, <2>3
<1>3. Sum(columns, factors, r) = Total(f, n) % Prime
  BY <1>2, SumIs
<1>4. Total(f, n) = 0
  BY <1>1, TotalZero
<1>5. 0 % Prime = 0
  BY PrimeIs, OfField
<1> QED BY <1>3, <1>4, <1>5

\* An answer for some rows, in terms of the whole request.
InTermsOf(src, kept, local, answered, result) ==
  /\ result.order = [i \in DOMAIN answered.order |-> kept[answered.order[i]]]
  /\ result.rowMap = answered.rowMap \o Ascending(RowsOf(src) \ RowsOf(local))

\* A right answer on some rows, renumbered and with the other rows added, is right for all.
LEMMA LocalAnswers ==
  ASSUME NEW src, SourceTyped(src), NEW rows, NEW kept, NEW local, IsLocal(src, rows, kept, local),
         NEW answered, Answers(local, answered), SourceTyped(local), NEW result,
         InTermsOf(src, kept, local, answered, result)
  PROVE  Expresses(src, result)
<1>0. /\ result.order = [i \in DOMAIN answered.order |-> kept[answered.order[i]]]
      /\ result.rowMap = answered.rowMap \o Ascending(RowsOf(src) \ RowsOf(local))
  BY DEF InTermsOf
<1>1. /\ rows \subseteq RowsOf(src) /\ kept = Ascending(WithinRows(src, rows))
      /\ local = LocalSource(src, rows, kept)
  BY DEF IsLocal
<1>2. /\ RowsOf(local) = rows /\ local.basis = src.basis /\ local.targets = src.targets
      /\ local.relations = [j \in DOMAIN kept |-> src.relations[kept[j]]]
  BY <1>1 DEF LocalSource, RowsOf, SourceTyped, SourceNames
<1>3. PICK ids : ids = WithinRows(src, rows)
  OBVIOUS
<1>4. /\ ids \subseteq DOMAIN src.relations
      /\ \A i \in ids : DOMAIN src.relations[i].terms \subseteq rows
  BY <1>3 DEF WithinRows
<1>5. ids \subseteq Int /\ IsFiniteSet(ids)
  <2>1. PICK l \in Nat : DOMAIN src.relations = 1 .. l
    BY DEF SourceTyped, IsSequence
  <2>2. IsFiniteSet(1 .. l)
    BY FS_Interval
  <2>3. IsFiniteSet(ids)
    BY <1>4, <2>1, <2>2, PartOfFinite
  <2>4. ids \subseteq Int
    BY <1>4, <2>1
  <2> QED BY <2>3, <2>4
<1>6. /\ kept \in Seq(ids) /\ \A i, j \in DOMAIN kept : kept[i] = kept[j] => i = j
  <2>1. /\ Ascending(ids) \in Seq(ids)
        /\ \A i, j \in DOMAIN Ascending(ids) : Ascending(ids)[i] = Ascending(ids)[j] => i = j
    BY <1>5, AscendingIs
  <2> QED BY <2>1, <1>1, <1>3
<1>7. \A i \in DOMAIN kept : kept[i] \in ids
  BY <1>6, SequenceIs
<1>8. PICK inner, order : inner = answered.order /\ order = result.order
  OBVIOUS
<1>9. /\ Names(local, inner) /\ IsInjective(inner)
      /\ IsInjective(answered.rowMap) /\ ToSet(answered.rowMap) = rows
      /\ answered.rowMap \in Seq(rows)
      /\ Independent(src.basis, <<>>, rows)
      /\ AllInSpan(src.targets, src.basis \o TermsOf(local, inner), rows)
  BY <1>2, <1>8 DEF Answers, Expresses
<1>10. PICK l \in Nat : l = Len(inner) /\ DOMAIN inner = 1 .. l
  BY <1>9 DEF Names, IsSequence
<1>11. \A i \in 1 .. l : inner[i] \in DOMAIN kept
  BY <1>2, <1>9, <1>10 DEF Names, ToSet
<1>12. order = [i \in 1 .. l |-> kept[inner[i]]]
  BY <1>0, <1>8, <1>10
<1>13. IsInjective(order)
  BY <1>6, <1>9, <1>10, <1>11, <1>12 DEF IsInjective
<1>14. \A i \in 1 .. l : order[i] \in ids
  BY <1>7, <1>11, <1>12
<1>15. ToSet(order) \subseteq DOMAIN src.relations
  BY <1>4, <1>12, <1>14 DEF ToSet
<1>16. Names(src, order)
  <2>1. DOMAIN order = 1 .. l
    BY <1>12
  <2>2. Len(order) = l
    BY <1>12, <2>1, LenOfFunction
  <2> QED BY <2>1, <2>2, <1>15 DEF Names, IsSequence
<1>17. IsInjective(result.rowMap) /\ ToSet(result.rowMap) = RowsOf(src)
  <2>1. PICK R, a, j : R = RowsOf(src) /\ a = answered.rowMap /\ j = result.rowMap
    OBVIOUS
  <2>2. R \subseteq Int /\ IsFiniteSet(R)
    BY <2>1 DEF SourceTyped, RowsOf
  <2>3. a \in Seq(R)
    <3>1. a \in Seq(rows) /\ rows \subseteq R
      BY <2>1, <1>1, <1>9
    <3> QED BY <3>1
  <2>4. IsInjective(a) /\ j = a \o Ascending(R \ ToSet(a))
    BY <2>1, <1>0, <1>2, <1>9
  <2>5. IsInjective(j) /\ ToSet(j) = R
    BY <2>2, <2>3, <2>4, RowsJoined
  <2> QED BY <2>1, <2>5
<1>18. Independent(src.basis, <<>>, RowsOf(src))
  BY <1>1, <1>9 DEF Independent
<1>19. TermsOf(local, inner) = TermsOf(src, order)
  <2>1. DOMAIN order = 1 .. l
    BY <1>12
  <2>2. ASSUME NEW i \in 1 .. l
        PROVE  local.relations[inner[i]].terms = src.relations[order[i]].terms
    <3>1. inner[i] \in DOMAIN kept /\ order[i] = kept[inner[i]]
      BY <1>11, <1>12
    <3> QED BY <3>1, <1>2
  <2> QED BY <2>1, <2>2, <1>10 DEF TermsOf
<1>20. PICK W : W = src.basis \o TermsOf(src, order)
  OBVIOUS
<1>21. AreTerms(Basis(src) + Len(order), W, src, order)
  BY <1>16, <1>20, TermsAre DEF SelectedTerms
<1>22. PICK m \in Nat, n \in Nat :
         /\ m = n + l /\ n = Basis(src) /\ DOMAIN src.basis = 1 .. n /\ DOMAIN W = 1 .. m
         /\ \A k \in 1 .. m : W[k] = Terms(src, order, k)
  <2>1. PICK n \in Nat : n = Basis(src) /\ DOMAIN src.basis = 1 .. n
    BY DEF SourceTyped, AreColumns, IsSequence, Basis
  <2>2. Len(order) = l
    BY <1>12, LenOfFunction
  <2>3. n + l \in Nat
    OBVIOUS
  <2> QED BY <1>21, <2>1, <2>2, <2>3 DEF AreTerms
<1>23. ASSUME NEW r \in RowsOf(src) \ rows, NEW k \in 1 .. m PROVE r \notin DOMAIN W[k]
  <2>1. CASE k <= n
    <3>1. k \in DOMAIN src.basis /\ W[k] = src.basis[k]
      BY <2>1, <1>22 DEF Terms
    <3> QED BY <3>1, <1>23 DEF IsLocal
  <2>2. CASE ~(k <= n)
    <3>1. PICK i \in 1 .. l : i = k - n
      BY <2>2, <1>22
    <3>2. W[k] = src.relations[order[i]].terms
      BY <2>2, <3>1, <1>22 DEF Terms
    <3>3. DOMAIN src.relations[order[i]].terms \subseteq rows
      BY <1>4, <1>14
    <3> QED BY <3>2, <3>3, <1>23
  <2> QED BY <2>1, <2>2
<1>24. ASSUME NEW t \in DOMAIN src.targets PROVE InSpan(src.targets[t], W, RowsOf(src))
  <2>1. PICK factors \in [1 .. m -> Field] :
          \A r \in rows : Sum(W, factors, r) = Entry(src.targets[t], r)
    <3>1. AllInSpan(src.targets, W, rows)
      BY <1>9, <1>19, <1>20
    <3>2. InSpan(src.targets[t], W, rows)
      BY <3>1 DEF AllInSpan
    <3>3. \E factors \in [DOMAIN W -> Field] :
            \A r \in rows : Sum(W, factors, r) = Entry(src.targets[t], r)
      BY <3>2 DEF InSpan
    <3> QED BY <3>3, <1>22
  <2>2. ASSUME NEW r \in RowsOf(src) \ rows
        PROVE  Sum(W, factors, r) = Entry(src.targets[t], r)
    <3>1. Sum(W, factors, r) = 0
      <4>1. DOMAIN W = 1 .. m /\ \A k \in 1 .. m : r \notin DOMAIN W[k]
        BY <1>22, <1>23
      <4> QED BY <4>1, SumOfNothing
    <3>2. Entry(src.targets[t], r) = 0
      BY DEF IsLocal, Entry
    <3> QED BY <3>1, <3>2
  <2> QED BY <2>1, <2>2, <1>22 DEF InSpan
<1>25. AllInSpan(src.targets, W, RowsOf(src))
  BY <1>24 DEF AllInSpan
<1> QED BY <1>8, <1>13, <1>15, <1>17, <1>18, <1>20, <1>25 DEF Expresses

-----------------------------------------------------------------------------
(***************************************************************************)
(* Each column is a pivot once.                                            *)
(***************************************************************************)
LongerByOne(C, m, s, c) == m \in Seq(C) /\ IsInjective(m) /\ ToSet(m) = ToSet(s) \union {c}

LEMMA OnceMore ==
  ASSUME NEW C, NEW s, s \in Seq(C), NEW c, c \in C, IsInjective(s), c \notin ToSet(s)
  PROVE  LongerByOne(C, Append(s, c), s, c)
<1>0. PICK m : m = Append(s, c)
  OBVIOUS
<1>1. PICK n \in Nat : n = Len(s) /\ DOMAIN s = 1 .. n
  BY SequenceIs
<1>2. /\ m \in Seq(C) /\ ToSet(m) = ToSet(s) \union {c}
      /\ Len(m) = n + 1 /\ m[n + 1] = c /\ \A i \in 1 .. n : m[i] = s[i]
  <2>1. /\ Append(s, c) \in Seq(C) /\ ToSet(Append(s, c)) = ToSet(s) \union {c}
        /\ Len(Append(s, c)) = Len(s) + 1 /\ Append(s, c)[Len(s) + 1] = c
        /\ \A i \in DOMAIN s : Append(s, c)[i] = s[i]
    BY AppendIs
  <2> QED BY <2>1, <1>0, <1>1
<1>3. DOMAIN m = 1 .. n + 1
  BY <1>2, SequenceIs
<1>4. \A i \in 1 .. n : s[i] # c
  BY <1>1 DEF ToSet
<1>5. ASSUME NEW i \in 1 .. n + 1, NEW j \in 1 .. n + 1, m[i] = m[j] PROVE i = j
  <2>1. CASE i \in 1 .. n /\ j \in 1 .. n
    BY <2>1, <1>1, <1>2, <1>5 DEF IsInjective
  <2>2. CASE i \in 1 .. n /\ j = n + 1
    BY <2>2, <1>2, <1>4, <1>5
  <2>3. CASE i = n + 1 /\ j \in 1 .. n
    BY <2>3, <1>2, <1>4, <1>5
  <2> QED BY <2>1, <2>2, <2>3
<1>6. IsInjective(m)
  BY <1>3, <1>5 DEF IsInjective
<1> QED BY <1>0, <1>2, <1>6 DEF LongerByOne

\* What a pivot does to the columns.
ColumnTaken(m, b, at, s, choice) ==
  /\ m.columns = Append(s.columns, choice.column) /\ m.group = s.group
  /\ \/ at = Resumed /\ m.active = s.active \ {choice.column}
     \/ at = "rows" /\ m.active = s.active /\ b.choice = choice

\* A pivot ends the activity of its column and is recorded once.
LEMMA PivotTakesColumn ==
  ASSUME WellFormed(system), NEW s, Typed(Rows, Columns, s),
         NEW choice, ChoiceTyped(Rows, Columns, choice), Pivot(s, choice)
  PROVE  ColumnTaken(elim', batch', step', s, choice)
<1> DEFINE R == Rows
           C == Columns
<1>0. IsFiniteSet(R) /\ IsFiniteSet(C) /\ choice.row \in R /\ choice.column \in C
  BY SystemIs DEF ChoiceTyped
<1>1. PICK u : u = Normalized(s, choice)
  OBVIOUS
<1>2. PICK n : n = Scanned(u, choice.column)
  OBVIOUS
<1>3. PICK t : t = Serially(n, choice)
  OBVIOUS
<1>4. PICK m : m = Finished(t, choice.column)
  OBVIOUS
<1>5. \/ elim' = m /\ step' = Resumed
      \/ /\ elim' = n /\ step' = "rows"
         /\ batch' = [tasks |-> Tasks(n, choice), choice |-> choice, done |-> <<>>,
                      before |-> n]
  BY <1>1, <1>2, <1>3, <1>4 DEF Pivot
<1> HIDE DEF R, C
<1>6. Typed(R, C, s)
  BY DEF R, C
<1>7. Typed(R, C, u)
  BY <1>0, <1>1, <1>6, NormalizedTyped
<1>8. Typed(R, C, n)
  BY <1>0, <1>2, <1>7, ScannedTyped
<1>9. Typed(R, C, t)
  BY <1>0, <1>3, <1>8, SeriallyTyped
<1>10. SamePivots(t, n)
  BY <1>0, <1>3, <1>8, SeriallyNoPivot
<1>11. Fields(s) /\ Fields(u) /\ Fields(t)
  BY <1>6, <1>7, <1>9 DEF Typed
<1>12. IsNormalized(u, s, choice)
  BY <1>1, <1>11, NormalizedIs
<1>13. IsScanned(n, u, choice.column)
  BY <1>2, <1>11, ScannedIs
<1>14. IsFinished(m, t, choice.column)
  BY <1>4, <1>11, FinishedIs
<1>15. /\ n.columns = Append(s.columns, choice.column) /\ n.group = s.group
       /\ n.active = s.active
  BY <1>12, <1>13 DEF IsNormalized, IsScanned
<1>16. /\ m.columns = n.columns /\ m.group = n.group /\ m.active = n.active \ {choice.column}
  BY <1>10, <1>14 DEF IsFinished, SamePivots
<1>17. CASE elim' = m /\ step' = Resumed
  BY <1>15, <1>16, <1>17 DEF ColumnTaken
<1>18. CASE /\ elim' = n /\ step' = "rows"
            /\ batch' = [tasks |-> Tasks(n, choice), choice |-> choice, done |-> <<>>,
                         before |-> n]
  BY <1>15, <1>18 DEF ColumnTaken
<1> QED BY <1>5, <1>17, <1>18

\* The best entries of a queue are of active columns.
BestActive(s, entries) ==
  \A e \in entries : (\A f \in entries : ~Better(f.pivot, e.pivot)) => e.pivot.column \in s.active

\* No column that was a pivot is active, but that of the pivot whose rows are eliminated.
Spent(C, s, b, at) ==
  /\ s.columns \in Seq(C) /\ IsInjective(s.columns)
  /\ \A c \in ToSet(s.columns) \intersect s.active : at = "rows" /\ c = b.choice.column

\* Before the first group the basis columns from some number on wait to be pivots.
Waiting(s, b, at, t, n) ==
  /\ at = "basis" => s.group = 0 /\ \A c \in t .. n : c \in s.active
  /\ at = "rows" /\ s.group = 0 => \A c \in t .. n : c \in s.active /\ c # b.choice.column
  /\ at \in {"matching", "fallback"} => s.group # 0

OnceAt(C, s, q, b, at, t, n) ==
  /\ Spent(C, s, b, at) /\ Waiting(s, b, at, t, n)
  /\ at = "fallback" => BestActive(s, q.matching)

ColumnsOnce ==
  /\ \A k \in DOMAIN system.groups : system.groups[k] # 0
  /\ OnceAt(Columns, elim, queue, batch, step, turn, system.basis)

\* A pivot whose column was active keeps each column once.
LEMMA ColumnGoesOn ==
  ASSUME WellFormed(system), NEW s, Typed(Rows, Columns, s), Spent(Columns, s, batch, "group"),
         s.group = elim.group, NEW choice, ChoiceTyped(Rows, Columns, choice),
         choice.column \in s.active, Pivot(s, choice), NEW t,
         s.group = 0 => \A c \in t .. system.basis : c \in s.active /\ c # choice.column
  PROVE  OnceAt(Columns, elim', queue', batch', step', t, system.basis)
<1>1. PICK C, m, b, at, n : /\ C = Columns /\ m = elim' /\ b = batch' /\ at = step'
                            /\ n = system.basis
  OBVIOUS
<1>2. ColumnTaken(m, b, at, s, choice)
  BY <1>1, PivotTakesColumn
<1>3. /\ s.columns \in Seq(C) /\ IsInjective(s.columns)
      /\ \A c \in ToSet(s.columns) : c \notin s.active
  BY <1>1 DEF Spent
<1>4. choice.column \in C
  BY <1>1 DEF ChoiceTyped
<1>5. /\ m.columns \in Seq(C) /\ IsInjective(m.columns)
      /\ ToSet(m.columns) = ToSet(s.columns) \union {choice.column}
  <2>1. m.columns = Append(s.columns, choice.column)
    BY <1>2 DEF ColumnTaken
  <2>2. PICK q, c : q = s.columns /\ c = choice.column
    OBVIOUS
  <2>3. q \in Seq(C) /\ IsInjective(q) /\ c \in C /\ c \notin ToSet(q)
    BY <2>2, <1>3, <1>4
  <2>4. LongerByOne(C, Append(q, c), q, c)
    BY <2>3, OnceMore
  <2>5. LongerByOne(C, m.columns, s.columns, choice.column)
    BY <2>1, <2>2, <2>4
  <2> QED BY <2>5 DEF LongerByOne
<1>6. Resumed \in {"basis", "matching"} /\ (Resumed = "basis" <=> s.group = 0)
  BY DEF Resumed
<1>7. Spent(C, m, b, at)
  BY <1>2, <1>3, <1>5 DEF Spent, ColumnTaken
<1>8. Waiting(m, b, at, t, n)
  BY <1>1, <1>2, <1>6 DEF Waiting, ColumnTaken
<1>9. at # "fallback"
  BY <1>2, <1>6 DEF ColumnTaken
<1> QED BY <1>1, <1>7, <1>8, <1>9 DEF OnceAt

LEMMA PivotBasisColumnOnce ==
  ASSUME EliminationTyped, ColumnsOnce, PivotBasisColumn
  PROVE  OnceAt(Columns, elim', queue', batch', step', turn', system.basis)
<1> DEFINE R == Rows
           C == Columns
<1>1. step = "basis" /\ turn <= system.basis /\ turn' = turn + 1
  BY DEF PivotBasisColumn
<1>2. WellFormed(system) /\ Typed(R, C, elim) /\ turn \in Nat \ {0}
  BY <1>1 DEF EliminationTyped
<1>3. turn \in C /\ IsFiniteSet(R) /\ system.basis \in Nat
  BY <1>1, <1>2, SystemIs
<1>4. PICK s : s = Scanned(elim, turn)
  OBVIOUS
<1>5. \/ elim' = Dismissed(s, turn) /\ step' = step
      \/ \E kind : \E choice \in BestChoice(s, kind, turn) : Pivot(s, choice)
  BY <1>4 DEF PivotBasisColumn
<1>6. Spent(C, elim, batch, step) /\ Waiting(elim, batch, step, turn, system.basis)
  BY DEF ColumnsOnce, OnceAt
<1> HIDE DEF R, C
<1>7. Typed(R, C, s)
  BY <1>2, <1>3, <1>4, ScannedTyped
<1>8. s.columns = elim.columns /\ s.active = elim.active /\ s.group = elim.group /\ Fields(s)
  <2>1. Fields(elim)
    BY <1>2 DEF Typed
  <2>2. IsScanned(s, elim, turn)
    BY <2>1, <1>4, ScannedIs
  <2> QED BY <2>2 DEF IsScanned
<1>9. Spent(C, s, batch, "group")
  BY <1>1, <1>6, <1>8 DEF Spent
<1>10. s.group = 0 /\ \A c \in turn .. system.basis : c \in s.active
  BY <1>1, <1>6, <1>8 DEF Waiting
<1>11. /\ turn \in s.active
       /\ \A c \in turn + 1 .. system.basis : c \in s.active /\ c # turn
  <2>1. turn \in turn .. system.basis
    BY <1>1, <1>2, <1>3
  <2>2. ASSUME NEW c \in turn + 1 .. system.basis PROVE c \in turn .. system.basis /\ c # turn
    BY <1>2, <1>3
  <2> QED BY <2>1, <2>2, <1>10
<1>12. CASE elim' = Dismissed(s, turn) /\ step' = step
  <2>1. PICK m : m = Dismissed(s, turn)
    OBVIOUS
  <2>2. m.columns = s.columns /\ m.active = s.active \ {turn} /\ m.group = s.group
    BY <2>1, <1>8 DEF Dismissed, Fields, FieldNames
  <2>3. Spent(C, m, batch', "basis")
    BY <2>2, <1>9 DEF Spent
  <2>4. Waiting(m, batch', "basis", turn + 1, system.basis)
    BY <2>2, <1>10, <1>11 DEF Waiting
  <2>5. elim' = m /\ step' = "basis"
    BY <2>1, <1>1, <1>12
  <2> QED BY <2>3, <2>4, <2>5, <1>1 DEF OnceAt, C
<1>13. ASSUME NEW kind, NEW choice \in BestChoice(s, kind, turn), Pivot(s, choice)
       PROVE  OnceAt(Columns, elim', queue', batch', step', turn', system.basis)
  <2>1. ChoiceTyped(R, C, choice) /\ choice.column = turn
    BY <1>3, <1>7, BestChoiceIs
  <2>2. /\ Typed(Rows, Columns, s) /\ ChoiceTyped(Rows, Columns, choice)
        /\ Spent(Columns, s, batch, "group")
    BY <2>1, <1>7, <1>9 DEF R, C
  <2>3. OnceAt(Columns, elim', queue', batch', step', turn + 1, system.basis)
    BY <2>1, <2>2, <1>2, <1>8, <1>11, <1>13, ColumnGoesOn
  <2> QED BY <2>3, <1>1
<1> QED BY <1>5, <1>12, <1>13

\* Where the pivots stay as they are.
LEMMA PivotsStay ==
  ASSUME NEW C, NEW s, NEW m, m.columns = s.columns, m.active = s.active, NEW b, NEW at,
         Spent(C, s, b, at), at # "rows", NEW c, NEW to
  PROVE  Spent(C, m, c, to)
BY DEF Spent

LEMMA RescoredColumns ==
  ASSUME NEW s, Fields(s), NEW requested, NEW m, m = Rescored(s, requested)
  PROVE  m.columns = s.columns /\ m.active = s.active /\ m.group = s.group
<1>1. IsRescored(m, s, requested)
  BY RescoredIs
<1> QED BY <1>1 DEF IsRescored

LEMMA StartGroupOnce ==
  ASSUME EliminationTyped, ColumnsOnce, StartGroup
  PROVE  OnceAt(Columns, elim', queue', batch', step', turn', system.basis)
<1> DEFINE s == [elim EXCEPT !.group = system.groups[turn], !.dirtyList = {}]
           columns == {c \in Columns : OfColumn(s, c) /\ c > system.basis}
<1>1. step = "group" /\ step' = "matching" /\ elim' = Rescored(s, columns)
      /\ turn <= Len(system.groups)
  BY DEF StartGroup, Refresh
<1>2. WellFormed(system) /\ Typed(Rows, Columns, elim) /\ turn \in Nat \ {0}
  BY <1>1 DEF EliminationTyped
<1>3. PICK t, D : t = s /\ D = columns
  OBVIOUS
<1>4. /\ Fields(t) /\ t.columns = elim.columns /\ t.active = elim.active
      /\ t.group = system.groups[turn]
  BY <1>2, <1>3 DEF Typed, Fields, FieldNames
<1>5. elim' = Rescored(t, D)
  BY <1>1, <1>3
<1> HIDE DEF s, columns
<1>6. PICK m : m = Rescored(t, D)
  OBVIOUS
<1>7. m.columns = elim.columns /\ m.active = elim.active /\ m.group = system.groups[turn]
  BY <1>4, <1>6, RescoredColumns
<1>8. m.group # 0
  <2>1. turn \in DOMAIN system.groups
    BY <1>1, <1>2 DEF WellFormed
  <2> QED BY <2>1, <1>7 DEF ColumnsOnce
<1>9. Spent(Columns, m, batch', "matching")
  <2>1. Spent(Columns, elim, batch, step)
    BY DEF ColumnsOnce, OnceAt
  <2> QED BY <2>1, <1>1, <1>7, PivotsStay
<1>10. Waiting(m, batch', "matching", turn', system.basis)
  BY <1>8 DEF Waiting
<1> QED BY <1>1, <1>5, <1>6, <1>9, <1>10 DEF OnceAt

\* What scoring columns again leaves as it is.
SameColumns(m, s) == m.columns = s.columns /\ m.active = s.active /\ m.group = s.group

LEMMA RefreshColumns ==
  ASSUME NEW s, Fields(s), NEW q, NEW requested, Refresh(s, q, requested)
  PROVE  SameColumns(elim', s)
<1>1. PICK m : m = Rescored(s, requested)
  OBVIOUS
<1>2. m.columns = s.columns /\ m.active = s.active /\ m.group = s.group
  BY <1>1, RescoredColumns
<1>3. elim' = m
  BY <1>1 DEF Refresh
<1> QED BY <1>2, <1>3 DEF SameColumns

LEMMA RefreshMarkedColumns ==
  ASSUME Typed(Rows, Columns, elim), RefreshMarked
  PROVE  SameColumns(elim', elim)
<1>1. PICK t : t = [elim EXCEPT !.dirtyList = {}]
  OBVIOUS
<1>2. Fields(t) /\ SameColumns(t, elim)
  BY <1>1 DEF Typed, Fields, FieldNames, SameColumns
<1>3. SameColumns(elim', t)
  BY <1>1, <1>2, RefreshColumns DEF RefreshMarked
<1> QED BY <1>2, <1>3 DEF SameColumns

LEMMA DiscardColumns ==
  ASSUME Typed(Rows, Columns, elim), NEW kind, Discard(kind)
  PROVE  SameColumns(elim', elim)
<1>1. elim' = elim \/ \E q, requested : Refresh(elim, q, requested)
  BY DEF Discard
<1>2. Fields(elim)
  BY DEF Typed
<1>3. CASE elim' = elim
  BY <1>3 DEF SameColumns
<1> QED BY <1>1, <1>2, <1>3, RefreshColumns

\* A choice that can be taken shows that all best ones are of its column, which is active.
LEMMA SettledBest ==
  ASSUME NEW R, NEW C, ScoresTyped(R, C), NEW entries, EntriesTyped(R, C, entries), NEW s,
         entries # {} => Top(entries).pivot.column \in s.active
  PROVE  BestActive(s, entries)
<1>1. SUFFICES ASSUME NEW e \in entries, \A f \in entries : ~Better(f.pivot, e.pivot)
               PROVE  e.pivot.column \in s.active
  BY DEF BestActive
<1>2. PICK g : g = Top(entries)
  OBVIOUS
<1>3. /\ g \in entries /\ ChoiceTyped(R, C, g.pivot)
      /\ \A f \in entries : ~Better(f.pivot, g.pivot)
  BY <1>1, <1>2, TopIs
<1>4. ChoiceTyped(R, C, e.pivot)
  BY DEF EntriesTyped
<1>5. ~Better(g.pivot, e.pivot) /\ ~Better(e.pivot, g.pivot)
  BY <1>1, <1>3
<1>6. g.pivot.column = e.pivot.column
  BY <1>3, <1>4, <1>5, BetterOrders
<1> QED BY <1>1, <1>2, <1>6

LEMMA RequeuedBest ==
  ASSUME NEW R, NEW C, IsFiniteSet(R), IsFiniteSet(C), NEW s, Typed(R, C, s),
         NEW q, QueueFields(q), NEW columns, columns \subseteq C, columns \subseteq s.active,
         BestActive(s, q.matching), NEW m, m = Requeued(s, Versioned(q, columns), columns)
  PROVE  BestActive(s, m.matching)
<1>1. PICK v : v = Versioned(q, columns)
  OBVIOUS
<1>2. QueueFields(v) /\ v.matching = q.matching
  BY <1>1 DEF Versioned, QueueFields, QueueNames
<1>3. m.matching = Compacted(s, v, v.matching \union NewEntries(s, v, "matching", columns))
  BY <1>1, <1>2 DEF Requeued, QueueFields, QueueNames
<1>4. PICK old, N : old = q.matching /\ N = NewEntries(s, v, "matching", columns)
  OBVIOUS
<1>5. \A e \in N : e.pivot.column \in s.active
  BY <1>4, NewEntriesAre
<1>6. \/ m.matching = old \union N
      \/ m.matching = {e \in old \union N : Current(s, v, e)}
  BY <1>2, <1>3, <1>4 DEF Compacted
<1>7. CASE m.matching = old \union N
  BY <1>4, <1>5, <1>7 DEF BestActive
<1>8. CASE m.matching = {e \in old \union N : Current(s, v, e)}
  BY <1>8 DEF BestActive, Current
<1> QED BY <1>6, <1>7, <1>8

\* Where the columns, and what is active of them, stay.
LEMMA ColumnsStay ==
  ASSUME ColumnsOnce, step \in {"matching", "fallback"}, SameColumns(elim', elim),
         NEW q, NEW b, NEW at, NEW t, at \in {"matching", "fallback", "finish"},
         at = "fallback" => BestActive(elim', q.matching)
  PROVE  OnceAt(Columns, elim', q, b, at, t, system.basis)
<1>1. Spent(Columns, elim, batch, step) /\ Waiting(elim, batch, step, turn, system.basis)
  BY DEF ColumnsOnce, OnceAt
<1>2. PICK m : m = elim'
  OBVIOUS
<1>3. m.columns = elim.columns /\ m.active = elim.active /\ m.group = elim.group
  BY <1>2 DEF SameColumns
<1>4. Spent(Columns, m, b, at)
  BY <1>1, <1>3, PivotsStay
<1>5. Waiting(m, b, at, t, system.basis)
  BY <1>1, <1>3 DEF Waiting
<1> QED BY <1>2, <1>4, <1>5 DEF OnceAt

LEMMA DiscardFallbackOnce ==
  ASSUME EliminationTyped, ColumnsOnce, DiscardFallback
  PROVE  OnceAt(Columns, elim', queue', batch', step', turn', system.basis)
<1> DEFINE top == Top(queue.fallback)
           q == [queue EXCEPT !.fallback = @ \ {top}]
<1>1. /\ step \in {"matching", "fallback"} /\ step' = "fallback" /\ Discard("fallback")
      /\ step = "fallback" \/ Settled("matching")
  BY DEF DiscardFallback, MatchingSettled, Undecided
<1>2. WellFormed(system) /\ Typed(Rows, Columns, elim) /\ QueueTyped(Rows, Columns, queue)
  BY <1>1 DEF EliminationTyped
<1>3. SameColumns(elim', elim)
  BY <1>1, <1>2, DiscardColumns
<1>4. BestActive(elim, queue.matching)
  <2>1. CASE step = "fallback"
    BY <2>1 DEF ColumnsOnce, OnceAt
  <2>2. CASE Settled("matching")
    <3>1. queue.matching # {} => Top(queue.matching).pivot.column \in elim.active
      BY <2>2 DEF Settled, Current
    <3>2. EntriesTyped(Rows, Columns, queue.matching) /\ ScoresTyped(Rows, Columns)
      BY <1>2, SystemIs DEF QueueTyped, Kinds
    <3> QED BY <3>1, <3>2, SettledBest
  <2> QED BY <1>1, <2>1, <2>2
<1>5. PICK p, column : p = q /\ column = top.pivot.column
  OBVIOUS
<1>6. Refresh(elim, p, {column}) \/ (queue' = p /\ elim' = elim)
  BY <1>1, <1>5 DEF Discard
<1>7. QueueFields(p) /\ p.matching = queue.matching
  BY <1>2, <1>5 DEF QueueTyped, QueueFields, QueueNames
<1> HIDE DEF q, top
<1>8. BestActive(elim', queue'.matching)
  <2>1. CASE queue' = p /\ elim' = elim
    BY <2>1, <1>4, <1>7
  <2>2. CASE Refresh(elim, p, {column})
    <3> DEFINE D == {c \in {column} : OfColumn(elim, c)}
    <3>1. queue' = Requeued(elim, Versioned(p, D), D)
      BY <2>2 DEF Refresh
    <3>2. D \subseteq elim.active /\ D \subseteq Columns
      BY <1>2 DEF OfColumn, Typed
    <3>3. PICK m, E : E = D /\ m = Requeued(elim, Versioned(p, D), D)
      OBVIOUS
    <3> HIDE DEF D
    <3>4. IsFiniteSet(Rows) /\ IsFiniteSet(Columns) /\ BestActive(elim, p.matching)
      BY <1>2, <1>4, <1>7, SystemIs
    <3>5. BestActive(elim, m.matching)
      BY <3>2, <3>3, <3>4, <1>2, <1>7, RequeuedBest
    <3>6. BestActive(elim', m.matching)
      BY <3>5, <1>3 DEF BestActive, SameColumns
    <3> QED BY <3>1, <3>3, <3>6
  <2> QED BY <1>6, <2>1, <2>2
<1>9. PICK b, w, t : b = queue' /\ w = batch' /\ t = turn'
  OBVIOUS
<1>10. OnceAt(Columns, elim', b, w, "fallback", t, system.basis)
  BY <1>1, <1>3, <1>8, <1>9, ColumnsStay
<1> QED BY <1>1, <1>9, <1>10

LEMMA RefreshOnce ==
  ASSUME EliminationTyped, ColumnsOnce,
         RefreshDue \/ RefreshRest \/ DiscardMatching \/ SolvedEarly
  PROVE  OnceAt(Columns, elim', queue', batch', step', turn', system.basis)
<1>1. /\ step \in {"matching", "fallback"} /\ step' \in {"matching", "finish"}
      /\ RefreshMarked \/ Discard("matching") \/ elim' = elim
  BY DEF RefreshDue, RefreshRest, DiscardMatching, SolvedEarly, Undecided, BothSettled,
         MatchingSettled
<1>2. Typed(Rows, Columns, elim)
  BY <1>1 DEF EliminationTyped
<1>3. SameColumns(elim', elim)
  <2>1. CASE elim' = elim
    BY <2>1 DEF SameColumns
  <2> QED BY <2>1, <1>1, <1>2, RefreshMarkedColumns, DiscardColumns
<1>4. PICK q, b, at, t : q = queue' /\ b = batch' /\ at = step' /\ t = turn'
  OBVIOUS
<1>5. OnceAt(Columns, elim', q, b, at, t, system.basis)
  BY <1>1, <1>3, <1>4, ColumnsStay
<1> QED BY <1>4, <1>5

LEMMA LeaveOnce ==
  ASSUME EliminationTyped, ColumnsOnce, LeaveBasis \/ Finish \/ DrainGroup
  PROVE  OnceAt(Columns, elim', queue', batch', step', turn', system.basis)
<1>1. /\ step # "rows" /\ step # "done" /\ step' \in {"group", "done"}
  BY DEF LeaveBasis, Finish, DrainGroup, BothSettled, MatchingSettled, Undecided
<1>2. Fields(elim)
  BY <1>1 DEF EliminationTyped, Typed
<1>3. elim'.columns = elim.columns /\ elim'.active \subseteq elim.active
  <2>1. CASE LeaveBasis
    BY <2>1 DEF LeaveBasis
  <2>2. CASE Finish
    BY <2>2, <1>2 DEF Finish, Fields, FieldNames
  <2>3. CASE DrainGroup
    <3>1. PICK w, D, n, i :
            elim' = [elim EXCEPT !.rowNonzeros = w, !.active = elim.active \ D,
                                 !.columnNonzeros = n, !.incidence = i]
      BY <2>3, <1>2 DEF DrainGroup, Fields, FieldNames
    <3> QED BY <3>1, <1>2 DEF Fields, FieldNames
  <2> QED BY <2>1, <2>2, <2>3
<1>4. Spent(Columns, elim, batch, step)
  BY DEF ColumnsOnce, OnceAt
<1>5. PICK m : m = elim'
  OBVIOUS
<1>6. Spent(Columns, m, batch', step')
  BY <1>1, <1>3, <1>4, <1>5 DEF Spent
<1>7. Waiting(m, batch', step', turn', system.basis)
  BY <1>1 DEF Waiting
<1> QED BY <1>1, <1>5, <1>6, <1>7 DEF OnceAt

LEMMA ChoosePivotOnce ==
  ASSUME EliminationTyped, ColumnsOnce, ChoosePivot
  PROVE  OnceAt(Columns, elim', queue', batch', step', turn', system.basis)
<1> DEFINE entries == IF queue.matching # {} THEN queue.matching ELSE queue.fallback
<1>1. /\ step \in {"matching", "fallback"} /\ Pivot(elim, Top(entries).pivot)
      /\ entries # {} /\ turn' = turn
      /\ step = "fallback" \/ Settled("matching")
      /\ Settled("fallback")
  BY DEF ChoosePivot, BothSettled, MatchingSettled, Undecided, NoChoice
<1>2. WellFormed(system) /\ Typed(Rows, Columns, elim) /\ QueueTyped(Rows, Columns, queue)
  BY <1>1 DEF EliminationTyped
<1>3. /\ EntriesTyped(Rows, Columns, entries) /\ ScoresTyped(Rows, Columns)
  BY <1>2, SystemIs DEF QueueTyped, Kinds
<1>4. PICK E, top : E = entries /\ top = Top(E)
  OBVIOUS
<1>5. E = queue.matching \/ E = queue.fallback
  BY <1>4
<1>6. E # {} /\ EntriesTyped(Rows, Columns, E) /\ Pivot(elim, top.pivot)
  BY <1>1, <1>3, <1>4
<1> HIDE DEF entries
<1>7. /\ top \in E /\ ChoiceTyped(Rows, Columns, top.pivot)
      /\ \A f \in E : ~Better(f.pivot, top.pivot)
  BY <1>3, <1>4, <1>6, TopIs
<1>8. top.pivot.column \in elim.active
  <2>1. CASE E = queue.fallback
    BY <2>1, <1>1, <1>4, <1>6 DEF Settled, Current
  <2>2. CASE E = queue.matching /\ Settled("matching")
    BY <2>2, <1>4, <1>6 DEF Settled, Current
  <2>3. CASE E = queue.matching /\ step = "fallback"
    <3>1. BestActive(elim, queue.matching)
      BY <2>3 DEF ColumnsOnce, OnceAt
    <3> QED BY <2>3, <3>1, <1>7 DEF BestActive
  <2> QED BY <1>1, <1>5, <2>1, <2>2, <2>3
<1>9. Spent(Columns, elim, batch, "group") /\ elim.group # 0
  <2>1. Spent(Columns, elim, batch, step) /\ Waiting(elim, batch, step, turn, system.basis)
    BY DEF ColumnsOnce, OnceAt
  <2>2. Spent(Columns, elim, batch, "group")
    BY <2>1, <1>1, PivotsStay
  <2> QED BY <2>1, <2>2, <1>1 DEF Waiting
<1>10. OnceAt(Columns, elim', queue', batch', step', turn, system.basis)
  BY <1>2, <1>6, <1>7, <1>8, <1>9, ColumnGoesOn
<1> QED BY <1>1, <1>10

LEMMA RowsOnce ==
  ASSUME EliminationTyped, ColumnsOnce,
         CommitRows \/ \E i \in DOMAIN batch.tasks : EliminateRow(i)
  PROVE  OnceAt(Columns, elim', queue', batch', step', turn', system.basis)
<1>1. step = "rows" /\ turn' = turn
  BY DEF CommitRows, EliminateRow
<1>2. WellFormed(system) /\ Typed(Rows, Columns, elim) /\ BatchTyped(Rows, Columns, elim, batch)
  BY <1>1 DEF EliminationTyped
<1>3. PICK choice : choice = batch.choice
  OBVIOUS
<1>4. /\ elim.columns \in Seq(Columns) /\ IsInjective(elim.columns)
      /\ \A c \in ToSet(elim.columns) \intersect elim.active : c = choice.column
      /\ elim.group = 0 => \A c \in turn .. system.basis : c \in elim.active /\ c # choice.column
  BY <1>1, <1>3 DEF ColumnsOnce, OnceAt, Spent, Waiting
<1>5. PICK m, b, at : m = elim' /\ b = batch' /\ at = step'
  OBVIOUS
<1>6. CASE \E i \in DOMAIN batch.tasks : EliminateRow(i)
  <2>1. PICK i \in DOMAIN batch.tasks : EliminateRow(i)
    BY <1>6
  <2>2. /\ at = "rows" /\ m = Eliminated(elim, choice, batch.tasks[i])
        /\ b = [batch EXCEPT !.tasks[i] = Noted(elim, batch.choice, @), !.done = Append(@, i)]
    BY <2>1, <1>1, <1>3, <1>5 DEF EliminateRow
  <2>3. m.columns = elim.columns /\ m.active = elim.active /\ m.group = elim.group
    <3>1. Fields(elim)
      BY <1>2 DEF Typed
    <3> QED BY <2>2, <3>1 DEF Eliminated, Fields, FieldNames
  <2>4. b.choice = choice
    BY <2>2, <1>2, <1>3 DEF BatchTyped, BatchFields
  <2>5. Spent(Columns, m, b, at)
    BY <2>2, <2>3, <2>4, <1>4 DEF Spent
  <2>6. Waiting(m, b, at, turn, system.basis)
    BY <2>2, <2>3, <2>4, <1>4 DEF Waiting
  <2> QED BY <2>2, <2>5, <2>6, <1>1, <1>5 DEF OnceAt
<1>7. CASE CommitRows
  <2>1. PICK s, t : s = batch.before /\ t = Serially(s, choice)
    OBVIOUS
  <2>2. m = Finished(t, choice.column) /\ at = Resumed
    BY <2>1, <1>3, <1>5, <1>7, CommitRowsIs DEF CommitRows
  <2>3. /\ Typed(Rows, Columns, s) /\ choice.column \in Columns
        /\ s.columns = elim.columns /\ s.active = elim.active /\ s.group = elim.group
    BY <2>1, <1>2, <1>3 DEF BatchTyped, SameCounts
  <2>4. IsFiniteSet(Columns)
    BY <1>2, SystemIs
  <2>5. SamePivots(t, s) /\ Typed(Rows, Columns, t)
    BY <2>1, <2>3, <2>4, SeriallyNoPivot, SeriallyTyped
  <2>6. Fields(t)
    BY <2>5 DEF Typed
  <2>7. IsFinished(m, t, choice.column)
    BY <2>2, <2>6, FinishedIs
  <2>8. /\ m.columns = elim.columns /\ m.active = elim.active \ {choice.column}
        /\ m.group = elim.group
    BY <2>3, <2>5, <2>7 DEF SamePivots, IsFinished
  <2>9. at \in {"basis", "matching"} /\ (at = "basis" <=> elim.group = 0)
    BY <2>2 DEF Resumed
  <2>10. Spent(Columns, m, b, at)
    BY <2>8, <1>4 DEF Spent
  <2>11. Waiting(m, b, at, turn, system.basis)
    BY <2>8, <2>9, <1>4 DEF Waiting
  <2> QED BY <2>9, <2>10, <2>11, <1>1, <1>5 DEF OnceAt
<1> QED BY <1>6, <1>7

\* No step of the elimination makes a column a pivot again.
LEMMA EliminateOnce ==
  ASSUME EliminationTyped, ColumnsOnce, Eliminate
  PROVE  OnceAt(Columns, elim', queue', batch', step', turn', system.basis)
BY PivotBasisColumnOnce, StartGroupOnce, DiscardFallbackOnce, RefreshOnce, LeaveOnce,
   ChoosePivotOnce, RowsOnce DEF Eliminate

LEMMA SystemStays ==
  ASSUME Eliminate
  PROVE  system' = system
BY DEF Eliminate, PivotBasisColumn, LeaveBasis, StartGroup, SolvedEarly, RefreshDue,
       DiscardMatching, DiscardFallback, RefreshRest, DrainGroup, ChoosePivot, EliminateRow,
       CommitRows, Finish

LEMMA ColumnsStayOnce ==
  ASSUME system' = system, ColumnsOnce,
         OnceAt(Columns, elim', queue', batch', step', turn', system.basis)
  PROVE  ColumnsOnce'
<1>1. \A k : Score(k)' = Score(k)
  BY DEF Score, Complexity
<1>2. \A a, b : Better(a, b)' <=> Better(a, b)
  BY <1>1 DEF Better
<1>3. BestActive(elim, queue.matching)' <=> BestActive(elim', queue'.matching)
  BY <1>2 DEF BestActive
<1>4. /\ Spent(Columns, elim, batch, step)' <=> Spent(Columns, elim', batch', step')
      /\ Waiting(elim, batch, step, turn, system.basis)'
           <=> Waiting(elim', batch', step', turn', system.basis)
  BY DEF Columns, Spent, Waiting
<1> QED BY <1>3, <1>4 DEF ColumnsOnce, OnceAt

-----------------------------------------------------------------------------
(***************************************************************************)
(* The pivots of a request that is loaded.                                 *)
(***************************************************************************)
\* The columns and groups of a request that is loaded.
InputOf(y, src) ==
  /\ y.basis = Basis(src) /\ DOMAIN y.columnGroup = 1 .. Basis(src) + Len(src.relations)
  /\ \A k \in DOMAIN y.groups : y.groups[k] # 0

LEMMA InputIs ==
  ASSUME NEW src, SourceTyped(src), NEW project
  PROVE  InputOf(MarkowitzInput(src, project), src)
<1> DEFINE order == AllRelations(src)
           n == Basis(src)
           C == ColumnsOf(src, order)
           groups == ColumnGroups(src, order)
           K == {k \in DOMAIN src.groups : \E c \in C : c > n /\ groups[c] = src.groups[k]}
           kept == Ascending(K)
<1>1. PICK y : y = MarkowitzInput(src, project)
  OBVIOUS
<1>2. /\ y.basis = n /\ y.columnGroup = groups
      /\ y.groups = [k \in DOMAIN kept |-> src.groups[kept[k]]]
  BY <1>1 DEF MarkowitzInput
<1>3. PICK l \in Nat : l = Len(src.relations) /\ DOMAIN src.relations = 1 .. l
  BY DEF SourceTyped, IsSequence
<1>4. Len(order) = l
  BY <1>3 DEF AllRelations
<1>5. DOMAIN groups = 1 .. n + l
  BY <1>4 DEF ColumnGroups, ColumnsOf
<1>6. \A k \in DOMAIN y.groups : y.groups[k] # 0
  <2>1. PICK g \in Nat : DOMAIN src.groups = 1 .. g
    BY DEF SourceTyped, IsSequence
  <2>2. K \subseteq 1 .. g /\ IsFiniteSet(1 .. g)
    BY <2>1, FS_Interval
  <2> HIDE DEF K
  <2>3. IsFiniteSet(K) /\ K \subseteq Int
    <3>1. IsFiniteSet(K)
      BY <2>2, PartOfFinite
    <3> QED BY <2>2, <3>1
  <2>4. kept \in Seq(K)
    BY <2>3, AscendingIs
  <2> HIDE DEF kept
  <2>5. \A k \in DOMAIN kept : kept[k] \in DOMAIN src.groups
    BY <2>1, <2>2, <2>4, SequenceIs
  <2> QED BY <2>5, <1>2 DEF SourceTyped
<1> QED BY <1>1, <1>2, <1>3, <1>5, <1>6 DEF InputOf

LEMMA StartedOnce ==
  ASSUME NEW input, WellFormed(input), NEW C, C = DOMAIN input.columnGroup,
         NEW s, s = Started(input.matrix, input.rhs, C), NEW q, NEW b
  PROVE  OnceAt(C, s, q, b, "basis", 1, input.basis)
<1>1. s.columns = <<>> /\ s.active = C /\ s.group = 0
  BY DEF Started
<1>2. PICK n \in Nat : C = 1 .. n /\ input.basis \in 0 .. n
  BY DEF WellFormed
<1>3. \A c \in 1 .. input.basis : c \in C
  BY <1>2
<1>4. <<>> \in Seq(C) /\ IsInjective(<<>>) /\ ToSet(<<>>) = {}
  BY DEF IsInjective, ToSet
<1>5. Spent(C, s, b, "basis")
  BY <1>1, <1>4 DEF Spent
<1>6. Waiting(s, b, "basis", 1, input.basis)
  BY <1>1, <1>3 DEF Waiting
<1> QED BY <1>5, <1>6 DEF OnceAt

LEMMA LoadOnce ==
  ASSUME NEW src, SourceTyped(src), NEW project, Load(MarkowitzInput(src, project))
  PROVE  ColumnsOnce' /\ system' = MarkowitzInput(src, project)
<1>1. PICK input : input = MarkowitzInput(src, project)
  OBVIOUS
<1>2. WellFormed(input) /\ InputOf(input, src)
  BY <1>1, InputWellFormed, InputIs
<1>3. /\ system' = input /\ step' = "basis" /\ turn' = 1
      /\ elim' = Started(input.matrix, input.rhs, DOMAIN input.columnGroup)
  BY <1>1 DEF Load
<1>4. PICK C, s, q, b : /\ C = DOMAIN input.columnGroup /\ s = elim' /\ q = queue' /\ b = batch'
  OBVIOUS
<1>5. OnceAt(C, s, q, b, "basis", 1, input.basis)
  BY <1>2, <1>3, <1>4, StartedOnce
<1>6. Spent(C, s, b, "basis") /\ Waiting(s, b, "basis", 1, input.basis)
  BY <1>5 DEF OnceAt
<1>7. Columns' = C
  BY <1>3, <1>4 DEF Columns
<1>8. Spent(Columns, elim, batch, step)'
  BY <1>3, <1>4, <1>6, <1>7 DEF Spent
<1>9. Waiting(elim, batch, step, turn, system.basis)'
  BY <1>3, <1>4, <1>6 DEF Waiting
<1>10. step' # "fallback"
  BY <1>3
<1>11. OnceAt(Columns, elim, queue, batch, step, turn, system.basis)'
  BY <1>8, <1>9, <1>10 DEF OnceAt
<1> QED BY <1>1, <1>2, <1>3, <1>11 DEF ColumnsOnce, InputOf

LEMMA StartsOnce ==
  ASSUME Init
  PROVE  ColumnsOnce
<1>1. /\ source \in Sources /\ step = "basis" /\ turn = 1
      /\ system = MarkowitzInput(source, projected)
      /\ elim = Started(system.matrix, system.rhs, DOMAIN system.columnGroup)
  BY DEF Init
<1>2. SourceTyped(source)
  BY <1>1, SourcesAssumption
<1>3. PICK project : project = projected
  OBVIOUS
<1>4. WellFormed(system) /\ InputOf(system, source)
  BY <1>1, <1>2, <1>3, InputWellFormed, InputIs
<1>5. PICK input, C, s, q, b : /\ input = system /\ C = Columns /\ s = elim /\ q = queue
                               /\ b = batch
  OBVIOUS
<1>6. OnceAt(C, s, q, b, "basis", 1, input.basis)
  BY <1>1, <1>4, <1>5, StartedOnce DEF Columns
<1> QED BY <1>1, <1>4, <1>5, <1>6 DEF ColumnsOnce, InputOf

LEMMA EliminateStepOnce ==
  ASSUME EliminationTyped, ColumnsOnce, Eliminate
  PROVE  ColumnsOnce' /\ system' = system
BY SystemStays, EliminateOnce, ColumnsStayOnce

LEMMA SameOnce ==
  ASSUME ColumnsOnce, UNCHANGED elimVars
  PROVE  ColumnsOnce' /\ system' = system
<1>1. /\ system' = system /\ elim' = elim /\ queue' = queue /\ batch' = batch
      /\ step' = step /\ turn' = turn
  BY DEF elimVars
<1>2. OnceAt(Columns, elim', queue', batch', step', turn', system.basis)
  BY <1>1 DEF ColumnsOnce
<1> QED BY <1>1, <1>2, ColumnsStayOnce

\* The columns of an elimination that has closed and keeps the basis.
LEMMA PivotsOnce ==
  ASSUME SourceTyped(source), ColumnsOnce, system = MarkowitzInput(source, projected),
         FullRank(elim.columns, system.basis)
  PROVE  /\ system.basis = Basis(source)
         /\ AreColumnsOnce(elim.columns, Basis(source), Len(source.relations))
<1>1. PICK project : project = projected
  OBVIOUS
<1>2. InputOf(system, source)
  BY <1>1, InputIs
<1>3. Spent(Columns, elim, batch, step)
  BY DEF ColumnsOnce, OnceAt
<1>4. Basis(source) \in Nat /\ Len(source.relations) \in Nat
  BY DEF SourceTyped, IsSequence, Basis, AreColumns
<1> QED BY <1>2, <1>3, <1>4 DEF InputOf, Spent, AreColumnsOnce, Columns

-----------------------------------------------------------------------------
(***************************************************************************)
(* What the planner keeps.                                                 *)
(***************************************************************************)
\* What the planner keeps: the elimination is that of its request, the request is the whole
\* one or one on some of its rows, a checkpoint has each column once, and a closed answer is
\* right.
AnswersRight ==
  /\ phase \in {"plan", "local"} => system = MarkowitzInput(source, projected)
  /\ phase \in {"plan", "planned", "reused"} => source = whole
  /\ phase = "local" => /\ source.capture = FALSE
                        /\ \E rows : IsLocal(whole, rows, eligible, source)
  /\ \A c \in checkpoint : AreColumnsOnce(c.columns, c.basisColumns, Len(whole.relations))
  /\ ClosedAnswersHold

AnswerFields(a) == a = [kind |-> a.kind, order |-> a.order, columns |-> a.columns,
                        rowMap |-> a.rowMap, residualRows |-> a.residualRows, reused |-> a.reused]

LEMMA AnswerIs ==
  ASSUME NEW kind, NEW a, a = Answer(kind)
  PROVE  AnswerFields(a) /\ a.kind = kind
BY DEF Answer, AnswerFields

\* What comes of a selected system.
IsJudged(src, order, g, result) ==
  \/ result \in {Answer("open"), Answer("closure lost"), Answer("not full rank")}
  \/ /\ Residual(g) = {} /\ FullRank(g.columns, Basis(src))
     /\ \E reused : result = [Answer("closed") EXCEPT !.order = order, !.columns = g.columns,
                                                      !.rowMap = g.rowMap, !.reused = reused]

Selects(src, order, result) ==
  AnswerFields(result) /\ (result.kind = "closed" => IsSelected(src, order, result))

\* A selection is closed only when its relations express the targets.
LEMMA JudgedIs ==
  ASSUME NEW src, NEW order, Names(src, order), IsInjective(order), NEW g, g = Compact(src, order),
         NEW result,
         IsJudged(src, order, g, result)
  PROVE  Selects(src, order, result)
<1>0. \/ result \in {Answer("open"), Answer("closure lost"), Answer("not full rank")}
      \/ /\ Residual(g) = {} /\ FullRank(g.columns, Basis(src))
         /\ \E reused : result = [Answer("closed") EXCEPT !.order = order,
                                    !.columns = g.columns, !.rowMap = g.rowMap,
                                    !.reused = reused]
  BY DEF IsJudged
<1>1. CASE result \in {Answer("open"), Answer("closure lost"), Answer("not full rank")}
  <2>1. \E kind \in {"open", "closure lost", "not full rank"} : result = Answer(kind)
    BY <1>1
  <2>2. AnswerFields(result)
    BY <2>1, AnswerIs
  <2>3. result.kind # "closed"
    BY <2>1, AnswerIs
  <2> QED BY <2>2, <2>3 DEF Selects
<1>2. CASE /\ Residual(g) = {} /\ FullRank(g.columns, Basis(src))
           /\ \E reused : result = [Answer("closed") EXCEPT !.order = order,
                                      !.columns = g.columns, !.rowMap = g.rowMap,
                                      !.reused = reused]
  <2>1. PICK rows, columns : rows = g.rowMap /\ columns = g.columns
    OBVIOUS
  <2>2. PICK reused : result = [Answer("closed") EXCEPT !.order = order, !.columns = columns,
                                                        !.rowMap = rows, !.reused = reused]
    BY <1>2, <2>1
  <2>3. AnswerFields(result) /\ result.order = order /\ result.rowMap = rows
    BY <2>2 DEF Answer, AnswerFields
  <2> QED BY <1>2, <2>1, <2>3 DEF IsSelected, Selects
<1> QED BY <1>0, <1>1, <1>2

LEMMA RefusalsAre ==
  /\ \A kind \in Refusals(Audit) : kind # "closed"
  /\ Refusals(Audit) = {} => elim.residual # 0 \/ FullRank(elim.columns, system.basis)
<1>1. Audit \in {"passed", "inconsistent", "dependent"}
  BY DEF Audit, AuditVerdict, Judgement
<1>2. PICK verdict : verdict = Audit
  OBVIOUS
<1>3. \A kind \in Refusals(verdict) : kind \in {verdict, "not full rank"}
  BY DEF Refusals
<1>4. verdict = "passed" => \A kind \in Refusals(verdict) : kind = "not full rank"
  BY DEF Refusals
<1>5. Refusals(verdict) = {} => elim.residual # 0 \/ FullRank(elim.columns, system.basis)
  BY DEF Refusals
<1> QED BY <1>1, <1>2, <1>3, <1>4, <1>5

\* What is selected when nothing is refused.
LEMMA SelectionRight ==
  ASSUME SourceTyped(source), ColumnsOnce, system = MarkowitzInput(source, projected),
         Refusals(Audit) = {}, NEW result, result = Selection
  PROVE  AnswerFields(result) /\ (result.kind = "closed" => Answers(source, result))
<1>1. CASE elim.residual # 0
  <2>1. PICK rows : rows = {r \in DOMAIN elim.rhs \ elim.used : ~IsZero(elim.rhs[r])}
    OBVIOUS
  <2>2. result = [Answer("open") EXCEPT !.residualRows = rows]
    BY <1>1, <2>1 DEF Selection, OpenAnswer
  <2> QED BY <2>2 DEF Answer, AnswerFields
<1>2. CASE elim.residual = 0
  <2>1. FullRank(elim.columns, system.basis)
    BY <1>2, RefusalsAre
  <2>2. /\ system.basis = Basis(source)
        /\ AreColumnsOnce(elim.columns, Basis(source), Len(source.relations))
    BY <2>1, PivotsOnce
  <2>3. PICK src, s, n : src = source /\ s = elim /\ n = Basis(source)
    OBVIOUS
  <2>4. PICK order : order = LiveSupport(s, n)
    OBVIOUS
  <2>5. Names(src, order) /\ IsInjective(order) /\ SourceTyped(src)
    BY <2>2, <2>3, <2>4, LiveSupportNames
  <2>6. PICK g : g = Compact(src, order)
    OBVIOUS
  <2>7. result = Judged(src, order, g, projected, FALSE)
    BY <1>2, <2>2, <2>3, <2>4, <2>6 DEF Selection, Selected
  <2>8. IsJudged(src, order, g, result)
    BY <2>7 DEF Judged, IsJudged
  <2>9. Selects(src, order, result)
    BY <2>5, <2>6, <2>8, JudgedIs
  <2> QED BY <2>3, <2>5, <2>9, SelectedAnswers DEF Selects
<1> QED BY <1>1, <1>2

\* What is selected in the pivots of a checkpoint.
LEMMA ReuseRight ==
  ASSUME NEW src, SourceTyped(src), NEW c,
         AreColumnsOnce(c.columns, Basis(src), Len(src.relations)), NEW rhs, NEW supports,
         supports = {} \/ supports = ReusedSupport(c, rhs, Basis(src)), NEW result,
         result = IF supports = {} THEN Answer("open")
                  ELSE Selected(src, CHOOSE order \in supports : TRUE, TRUE, TRUE)
  PROVE  result.kind = "closed" => Answers(src, result)
<1>1. CASE supports = {}
  BY <1>1, AnswerIs
<1>2. CASE supports # {}
  <2>1. PICK order : order = CHOOSE o \in supports : TRUE
    OBVIOUS
  <2>2. order \in supports
    BY <1>2, <2>1
  <2>3. PICK n : n = Basis(src)
    OBVIOUS
  <2>4. order \in ReusedSupport(c, rhs, n) /\ AreColumnsOnce(c.columns, n, Len(src.relations))
    BY <1>2, <2>2, <2>3
  <2>5. Names(src, order) /\ IsInjective(order)
    BY <2>4, ReusedSupportNames
  <2>6. PICK g : g = Compact(src, order)
    OBVIOUS
  <2>7. result = Judged(src, order, g, TRUE, TRUE)
    BY <1>2, <2>1, <2>6 DEF Selected
  <2>8. IsJudged(src, order, g, result)
    BY <2>7 DEF Judged, IsJudged
  <2>9. Selects(src, order, result)
    BY <2>5, <2>6, <2>8, JudgedIs
  <2> QED BY <2>9, SelectedAnswers DEF Selects
<1> QED BY <1>1, <1>2

\* What is selected with the pivots of a checkpoint is a right answer if it is closed.
LEMMA ReusedRight ==
  ASSUME NEW src, SourceTyped(src), NEW c,
         AreColumnsOnce(c.columns, Basis(src), Len(src.relations)), NEW result,
         result = Reused(src, c)
  PROVE  result.kind = "closed" => Answers(src, result)
<1>1. PICK first, second : first = ReusePlan(src, c, TRUE) /\ second = ReusePlan(src, c, FALSE)
  OBVIOUS
<1>2. result = first \/ result = second
  BY <1>1 DEF Reused
<1>3. first.kind = "closed" => Answers(src, first)
  <2>1. PICK rhs : rhs = ReuseRhs(src, TRUE)
    OBVIOUS
  <2>2. PICK supports :
          supports = IF Admitted(src, c) THEN ReusedSupport(c, rhs, Basis(src)) ELSE {}
    OBVIOUS
  <2>3. first = IF supports = {} THEN Answer("open")
                ELSE Selected(src, CHOOSE order \in supports : TRUE, TRUE, TRUE)
    BY <1>1, <2>1, <2>2 DEF ReusePlan
  <2>4. supports = {} \/ supports = ReusedSupport(c, rhs, Basis(src))
    BY <2>2
  <2> QED BY <2>3, <2>4, ReuseRight
<1>4. second.kind = "closed" => Answers(src, second)
  <2>1. PICK rhs : rhs = ReuseRhs(src, FALSE)
    OBVIOUS
  <2>2. PICK supports :
          supports = IF Admitted(src, c) THEN ReusedSupport(c, rhs, Basis(src)) ELSE {}
    OBVIOUS
  <2>3. second = IF supports = {} THEN Answer("open")
                 ELSE Selected(src, CHOOSE order \in supports : TRUE, TRUE, TRUE)
    BY <1>1, <2>1, <2>2 DEF ReusePlan
  <2>4. supports = {} \/ supports = ReusedSupport(c, rhs, Basis(src))
    BY <2>2
  <2> QED BY <2>3, <2>4, ReuseRight
<1> QED BY <1>2, <1>3, <1>4

\* A local answer that is returned is one for the whole request.
LEMMA RepublishedRight ==
  ASSUME SourceTyped(source), SourceTyped(whole), NEW rows, IsLocal(whole, rows, eligible, source),
         NEW result, AnswerFields(result), result.kind = "closed" => Answers(source, result),
         NEW m, m = Republished(result)
  PROVE  m.kind = "closed" => Expresses(whole, m)
<1>1. PICK kept, local, src : kept = eligible /\ local = source /\ src = whole
  OBVIOUS
<1>2. PICK order, rest : /\ order = [i \in DOMAIN result.order |-> kept[result.order[i]]]
                         /\ rest = Ascending(RowsOf(src) \ RowsOf(local))
  OBVIOUS
<1>3. m = [result EXCEPT !.reused = TRUE, !.order = order,
                         !.rowMap = IF result.kind # "closed" THEN @ ELSE @ \o rest]
  BY <1>1, <1>2 DEF Republished, RowsOf, AnswerFields
<1>4. m.kind = result.kind /\ m.order = order
  BY <1>3 DEF AnswerFields
<1>5. result.kind = "closed" => m.rowMap = result.rowMap \o rest
  BY <1>3 DEF AnswerFields
<1>6. ASSUME result.kind = "closed" PROVE Expresses(src, m)
  <2>1. Answers(local, result) /\ SourceTyped(local) /\ SourceTyped(src)
        /\ IsLocal(src, rows, kept, local)
    BY <1>1, <1>6
  <2>2. InTermsOf(src, kept, local, result, m)
    BY <1>2, <1>4, <1>5, <1>6 DEF InTermsOf
  <2> QED BY <2>1, <2>2, LocalAnswers
<1> QED BY <1>1, <1>4, <1>6

-----------------------------------------------------------------------------
(***************************************************************************)
(* No step of the planner loses a right answer.                            *)
(***************************************************************************)
LEMMA ReturnRight ==
  ASSUME PlannerTyped, AnswersRight, phase \in {"plan", "local"},
         source' = source, whole' = whole, eligible' = eligible,
         NEW result, Return(result), AnswerFields(result),
         result.kind = "closed" => Answers(source, result),
         \A c \in checkpoint' : AreColumnsOnce(c.columns, c.basisColumns, Len(whole.relations))
  PROVE  AnswersRight'
<1>1. SourceTyped(source) /\ SourceTyped(whole)
  BY DEF PlannerTyped
<1>2. /\ answer' = IF phase = "local" THEN Republished(result) ELSE result
      /\ phase' = IF phase = "local" THEN "reselected" ELSE "planned"
  BY DEF Return
<1>3. PICK a : a = answer'
  OBVIOUS
<1>4. a.kind = "closed" => Expresses(whole, a)
  <2>1. CASE phase = "plan"
    <3>1. a = result /\ source = whole
      BY <2>1, <1>2, <1>3 DEF AnswersRight
    <3> QED BY <3>1 DEF Answers
  <2>2. CASE phase = "local"
    <3>1. PICK rows : IsLocal(whole, rows, eligible, source)
      BY <2>2 DEF AnswersRight
    <3>2. PICK m : m = Republished(result)
      OBVIOUS
    <3>3. m.kind = "closed" => Expresses(whole, m)
      BY <3>1, <3>2, <1>1, RepublishedRight
    <3> QED BY <2>2, <3>2, <3>3, <1>2, <1>3
  <2> QED BY <2>1, <2>2
<1>5. ClosedAnswersHold'
  BY <1>3, <1>4 DEF ClosedAnswersHold
<1>6. phase' \in {"planned", "reselected"} /\ (phase' = "planned" => source = whole)
  BY <1>2 DEF AnswersRight
<1> QED BY <1>5, <1>6 DEF AnswersRight

LEMMA CapturedOnce ==
  ASSUME NEW s, NEW n, NEW l, NEW checked, NEW c, c = Captured(s, n, l, checked)
  PROVE  c.columns = s.columns /\ c.basisColumns = n
BY DEF Captured

LEMMA ConcludeRight ==
  ASSUME PlannerTyped, ColumnsOnce, AnswersRight, Conclude
  PROVE  AnswersRight'
<1>1. /\ phase \in {"plan", "local"} /\ source' = source /\ whole' = whole
      /\ eligible' = eligible
  BY DEF Conclude, EliminationDone
<1>2. /\ SourceTyped(source) /\ system = MarkowitzInput(source, projected)
      /\ \A c \in checkpoint : AreColumnsOnce(c.columns, c.basisColumns, Len(whole.relations))
  BY <1>1 DEF PlannerTyped, AnswersRight
<1>3. PICK refusals : refusals = Refusals(Audit)
  OBVIOUS
<1>4. \/ \E kind \in refusals : Return(Answer(kind)) /\ checkpoint' = checkpoint
      \/ /\ refusals = {}
         /\ \E result \in {Selection} : PlanInFull \/ (Return(result) /\ Keep)
  BY <1>3 DEF Conclude
<1>5. CASE \E kind \in refusals : Return(Answer(kind)) /\ checkpoint' = checkpoint
  <2>1. PICK kind \in refusals : Return(Answer(kind)) /\ checkpoint' = checkpoint
    BY <1>5
  <2>2. kind # "closed"
    BY <1>3, RefusalsAre
  <2>3. PICK result : result = Answer(kind)
    OBVIOUS
  <2>4. AnswerFields(result) /\ result.kind # "closed"
    <3>1. AnswerFields(result) /\ result.kind = kind
      BY <2>3, AnswerIs
    <3> QED BY <3>1, <2>2
  <2> QED BY <2>1, <2>3, <2>4, <1>1, <1>2, ReturnRight
<1>6. CASE refusals = {} /\ PlanInFull
  <2>1. /\ projected' = FALSE /\ Load(MarkowitzInput(source, FALSE))
        /\ checkpoint' = checkpoint /\ answer' = answer /\ phase' = phase
    BY <1>6 DEF PlanInFull
  <2>2. system' = MarkowitzInput(source, FALSE)
    BY <2>1 DEF Load
  <2>3. (system = MarkowitzInput(source, projected))'
    BY <2>1, <2>2, <1>1
  <2>4. ClosedAnswersHold'
    BY <2>1, <1>1 DEF AnswersRight, ClosedAnswersHold
  <2> QED BY <2>1, <2>3, <2>4, <1>1 DEF AnswersRight
<1>7. CASE refusals = {} /\ \E result \in {Selection} : Return(result) /\ Keep
  <2>1. PICK result : result = Selection
    OBVIOUS
  <2>2. Return(result) /\ Keep
    BY <2>1, <1>7
  <2>3. AnswerFields(result) /\ (result.kind = "closed" => Answers(source, result))
    BY <2>1, <1>2, <1>3, <1>7, SelectionRight
  <2>4. \A c \in checkpoint' : AreColumnsOnce(c.columns, c.basisColumns, Len(whole.relations))
    <3>1. CASE source.capture /\ elim.residual = 0
      <4>1. phase = "plan" /\ source = whole
        BY <3>1, <1>1 DEF AnswersRight
      <4>2. FullRank(elim.columns, system.basis)
        BY <3>1, <1>3, <1>7, RefusalsAre
      <4>3. /\ system.basis = Basis(source)
            /\ AreColumnsOnce(elim.columns, Basis(source), Len(source.relations))
        BY <4>2, <1>2, PivotsOnce
      <4>4. PICK c : c = Captured(elim, system.basis, Len(source.relations), source.check)
        OBVIOUS
      <4>5. checkpoint' = {c}
        BY <2>2, <3>1, <4>4 DEF Keep
      <4>6. c.columns = elim.columns /\ c.basisColumns = system.basis
        BY <4>4, CapturedOnce
      <4> QED BY <4>1, <4>3, <4>5, <4>6
    <3>2. CASE ~(source.capture /\ elim.residual = 0)
      BY <2>2, <3>2, <1>2 DEF Keep
    <3> QED BY <3>1, <3>2
  <2> QED BY <2>2, <2>3, <2>4, <1>1, ReturnRight
<1> QED BY <1>4, <1>5, <1>6, <1>7

LEMMA ReuseKeepsRight ==
  ASSUME PlannerTyped, AnswersRight, Reuse
  PROVE  AnswersRight'
<1>1. /\ phase = "planned" /\ phase' = "reused" /\ whole' = source' /\ checkpoint' = checkpoint
      /\ source = whole
  BY DEF Reuse, AnswersRight
<1>2. PICK c \in checkpoint, basis \in LaterBases, targets \in LaterTargets, check \in BOOLEAN :
        /\ Len(basis) = c.basisColumns
        /\ source' = [source EXCEPT !.basis = basis, !.targets = targets, !.check = check,
                                    !.capture = FALSE]
        /\ answer' = Reused(source', c)
  BY DEF Reuse
<1>3. PICK src, a : src = source' /\ a = answer'
  OBVIOUS
<1>4. SourceTyped(source)
  BY DEF PlannerTyped
<1>5. AreColumns(basis) /\ AreColumns(targets)
  BY SourcesAssumption
<1>6. /\ SourceTyped(src) /\ src.basis = basis /\ src.relations = source.relations
  BY <1>2, <1>3, <1>4, <1>5 DEF SourceTyped, SourceNames
<1>7. \A k \in checkpoint : AreColumnsOnce(k.columns, k.basisColumns, Len(src.relations))
  BY <1>1, <1>6 DEF AnswersRight
<1>8. AreColumnsOnce(c.columns, Basis(src), Len(src.relations))
  BY <1>2, <1>6, <1>7 DEF Basis
<1>9. a.kind = "closed" => Answers(src, a)
  BY <1>2, <1>3, <1>6, <1>8, ReusedRight
<1>10. ClosedAnswersHold'
  BY <1>1, <1>3, <1>9 DEF ClosedAnswersHold, Answers
<1> QED BY <1>1, <1>3, <1>7, <1>10 DEF AnswersRight

LEMMA ReselectKeepsRight ==
  ASSUME PlannerTyped, AnswersRight, Reselect
  PROVE  AnswersRight'
<1> DEFINE rows == Envelope(source, answer.order)
           ids == WithinRows(source, rows)
<1>1. /\ phase = "reused" /\ phase' = "local" /\ whole' = whole /\ checkpoint' = checkpoint
      /\ answer' = answer /\ source = whole
      /\ eligible' = Ascending(ids) /\ source' = LocalSource(source, rows, eligible')
      /\ Load(MarkowitzInput(source', projected'))
  BY DEF Reselect, AnswersRight
<1>2. PICK src, R, kept, local, order : /\ src = whole /\ R = rows /\ kept = eligible'
                                        /\ local = source' /\ order = answer.order
  OBVIOUS
<1>3. /\ R = Envelope(src, order) /\ kept = Ascending(WithinRows(src, R))
      /\ local = LocalSource(src, R, kept)
  BY <1>1, <1>2
<1>4. IsLocal(src, R, kept, local)
  BY <1>3, EnvelopeIsLocal
<1>5. local.capture = FALSE
  <2>1. SourceTyped(src)
    BY <1>2 DEF PlannerTyped
  <2> QED BY <2>1, <1>3 DEF LocalSource, SourceTyped, SourceNames
<1>6. (system = MarkowitzInput(source, projected))'
  BY <1>1 DEF Load
<1>7. ClosedAnswersHold'
  BY <1>1 DEF AnswersRight, ClosedAnswersHold
<1>8. (\E q : IsLocal(whole, q, eligible, source))' /\ (source.capture = FALSE)'
  BY <1>1, <1>2, <1>4, <1>5
<1>9. \A c \in checkpoint' : AreColumnsOnce(c.columns, c.basisColumns, Len(whole'.relations))
  BY <1>1 DEF AnswersRight
<1> QED BY <1>1, <1>6, <1>7, <1>8, <1>9 DEF AnswersRight

LEMMA FallBackKeepsRight ==
  ASSUME AnswersRight, FallBack
  PROVE  AnswersRight'
<1>1. /\ source' = whole /\ whole' = whole /\ checkpoint' = {} /\ answer' = answer
      /\ phase' = "plan" /\ Load(MarkowitzInput(whole, projected'))
  BY DEF FallBack
<1>2. (system = MarkowitzInput(source, projected))'
  BY <1>1 DEF Load
<1>3. ClosedAnswersHold'
  BY <1>1 DEF AnswersRight, ClosedAnswersHold
<1> QED BY <1>1, <1>2, <1>3 DEF AnswersRight

\* Where the planner stays, the elimination being one of the same system.
LEMMA SameRight ==
  ASSUME AnswersRight, system' = system,
         UNCHANGED <<source, whole, eligible, projected, checkpoint, answer, phase>>
  PROVE  AnswersRight'
<1>1. ClosedAnswersHold'
  BY DEF AnswersRight, ClosedAnswersHold
<1>2. phase' \in {"plan", "local"} => (system = MarkowitzInput(source, projected))'
  BY DEF AnswersRight
<1> QED BY <1>1, <1>2 DEF AnswersRight

LEMMA PlannerStepRight ==
  ASSUME PlannerTyped, ColumnsOnce, AnswersRight, [Next]_vars
  PROVE  ColumnsOnce' /\ AnswersRight'
<1>0. SourceTyped(source) /\ SourceTyped(whole) /\ EliminationTyped
  BY DEF PlannerTyped
<1>1. CASE EliminateStep
  <2>1. /\ Eliminate
        /\ UNCHANGED <<source, whole, eligible, projected, checkpoint, answer, phase>>
    BY <1>1 DEF EliminateStep
  <2>2. ColumnsOnce' /\ system' = system
    BY <2>1, <1>0, EliminateStepOnce
  <2> QED BY <2>1, <2>2, SameRight
<1>2. CASE Conclude
  <2>1. (\E result : Return(result)) \/ PlanInFull
    BY <1>2 DEF Conclude
  <2>2. ColumnsOnce'
    <3>1. CASE \E result : Return(result)
      BY <3>1, SameOnce DEF Return
    <3>2. CASE PlanInFull
      <4>1. PICK src : src = source
        OBVIOUS
      <4>2. Load(MarkowitzInput(src, FALSE)) /\ SourceTyped(src)
        BY <3>2, <4>1, <1>0 DEF PlanInFull
      <4> QED BY <4>2, LoadOnce
    <3> QED BY <2>1, <3>1, <3>2
  <2> QED BY <2>2, <1>2, ConcludeRight
<1>3. CASE Reuse
  <2>1. ColumnsOnce'
    BY <1>3, SameOnce DEF Reuse
  <2> QED BY <2>1, <1>3, ReuseKeepsRight
<1>4. CASE Reselect
  <2> DEFINE rows == Envelope(source, answer.order)
             ids == WithinRows(source, rows)
  <2>1. /\ source' = LocalSource(source, rows, Ascending(ids))
        /\ Load(MarkowitzInput(source', projected'))
    BY <1>4 DEF Reselect
  <2>2. SourceTyped(source')
    BY <2>1, <1>0, LocalSourceTyped
  <2>3. PICK src, project : src = source' /\ project = projected'
    OBVIOUS
  <2>4. Load(MarkowitzInput(src, project)) /\ SourceTyped(src)
    BY <2>1, <2>2, <2>3
  <2>5. ColumnsOnce'
    BY <2>4, LoadOnce
  <2> QED BY <2>5, <1>4, ReselectKeepsRight
<1>5. CASE FallBack
  <2>1. PICK src, project : src = whole /\ project = projected'
    OBVIOUS
  <2>2. Load(MarkowitzInput(src, project)) /\ SourceTyped(src)
    BY <2>1, <1>0, <1>5 DEF FallBack
  <2>3. ColumnsOnce'
    BY <2>2, LoadOnce
  <2> QED BY <2>3, <1>5, FallBackKeepsRight
<1>6. CASE Rest \/ UNCHANGED vars
  <2>1. /\ UNCHANGED elimVars
        /\ UNCHANGED <<source, whole, eligible, projected, checkpoint, answer, phase>>
    BY <1>6 DEF Rest, vars
  <2>2. ColumnsOnce' /\ system' = system
    BY <2>1, SameOnce
  <2> QED BY <2>1, <2>2, SameRight
<1> QED BY <1>1, <1>2, <1>3, <1>4, <1>5, <1>6 DEF Next

LEMMA PlannerStartsRight ==
  ASSUME Init
  PROVE  ColumnsOnce /\ AnswersRight
<1>1. ColumnsOnce
  BY StartsOnce
<1>2. /\ whole = source /\ phase = "plan" /\ system = MarkowitzInput(source, projected)
      /\ checkpoint = {} /\ answer = Answer("none")
  BY DEF Init
<1>3. answer.kind = "none"
  BY <1>2 DEF Answer
<1> QED BY <1>1, <1>2, <1>3 DEF AnswersRight, ClosedAnswersHold

-----------------------------------------------------------------------------
(***************************************************************************)
(* The theorems.                                                           *)
(***************************************************************************)
\* The rows, columns, counters, queues and the batch of the elimination keep their shapes
\* through every plan, fallback, reuse and reselection: every row that is counted, scored,
\* recorded or handed to a thread is a row of the system that is loaded.
THEOREM PlannerTypeCorrect == Spec => []PlannerTyped
<1>1. Init => PlannerTyped
  BY PlannerStarts
<1>2. PlannerTyped /\ [Next]_vars => PlannerTyped'
  BY PlannerStepTyped
<1> QED BY <1>1, <1>2, PTL DEF Spec

LEMMA RowsEnd ==
  ASSUME PlannerTyped, [Next]_vars, step = "rows", step' # "rows"
  PROVE  elim' = Finished(Serially(batch.before, batch.choice), batch.choice.column)
<1>1. EliminationTyped /\ phase \in {"plan", "local"}
  BY DEF PlannerTyped
<1>2. ~(Conclude \/ Reuse \/ Reselect \/ FallBack \/ Rest \/ UNCHANGED vars)
  BY <1>1 DEF Conclude, EliminationDone, Reuse, Reselect, FallBack, Rest, vars, elimVars
<1>3. Eliminate
  BY <1>2 DEF Next, EliminateStep
<1>4. ~(PivotBasisColumn \/ LeaveBasis \/ StartGroup)
  BY DEF PivotBasisColumn, LeaveBasis, StartGroup
<1>5. ~(SolvedEarly \/ RefreshDue \/ DiscardMatching \/ DiscardFallback \/ RefreshRest)
  BY DEF SolvedEarly, RefreshDue, Undecided, DiscardMatching, DiscardFallback, RefreshRest,
         BothSettled, MatchingSettled
<1>6. ~(DrainGroup \/ ChoosePivot \/ Finish)
  BY DEF DrainGroup, ChoosePivot, BothSettled, MatchingSettled, Undecided, Finish
<1>7. ~(\E i \in DOMAIN batch.tasks : EliminateRow(i))
  BY DEF EliminateRow
<1>8. CommitRows
  BY <1>3, <1>4, <1>5, <1>6, <1>7 DEF Eliminate
<1> QED BY <1>1, <1>8, CommitRowsIs

\* However the threads that eliminate the rows of a pivot take turns, they leave the matrix,
\* the counters, the marks and the recorded operations as one thread does that takes the
\* rows in the order of the pivot's incidence.
THEOREM ThreadsAlwaysAgree == Spec => ThreadsAgree
<1>1. PlannerTyped /\ [Next]_vars
        => [step = "rows" /\ step' # "rows" =>
              elim' = Finished(Serially(batch.before, batch.choice), batch.choice.column)]_elim
  BY RowsEnd
<1> QED BY <1>1, PlannerTypeCorrect, PTL DEF Spec, ThreadsAgree

\* As long as no row is a pivot twice, every counter outside a batch is that of the rows that
\* are left, and every active column of the group without a mark has exactly the choices in
\* the queues that scoring it now would give: for any system, group order, interval and
\* queue limit, and however threads take turns, no pivot is overlooked, no count of
\* apply_pivot underflows, and a group that is left has no pivot any more.
THEOREM PivotsNeverOverlooked == Spec => []NoPivotOverlooked
<1>1. Init => PivotsNoticed
  BY PlannerStartsNoticed
<1>2. PlannerTyped /\ PivotsNoticed /\ [Next]_vars => PivotsNoticed'
  BY PlannerStepNotices
<1>3. PivotsNoticed => NoPivotOverlooked
  BY PivotsNoticedShow
<1> QED BY <1>1, <1>2, <1>3, PlannerTypeCorrect, PTL DEF Spec

\* A closed answer of the planner, whether a plan, a fallback, a checkpoint that is reused or a
\* reselection on some rows led to it, is right for the request as it was made: the selected
\* relations are relations of the request, each once; the row map names every row once; the
\* basis is linearly independent modulo Prime, and every target is a combination of the basis
\* and the selected relations.  It needs no bound on rows, columns, targets or the prime, and
\* holds although an elimination of SparseMarkowitz may use a row as a pivot twice.
THEOREM ClosedAnswersAreRight == Spec => []ClosedAnswersHold
<1>1. Init => ColumnsOnce /\ AnswersRight
  BY PlannerStartsRight
<1>2. PlannerTyped /\ (ColumnsOnce /\ AnswersRight) /\ [Next]_vars
        => (ColumnsOnce /\ AnswersRight)'
  BY PlannerStepRight
<1>3. AnswersRight => ClosedAnswersHold
  BY DEF AnswersRight
<1> QED BY <1>1, <1>2, <1>3, PlannerTypeCorrect, PTL DEF Spec
=============================================================================
