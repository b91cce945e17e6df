------------------------ MODULE ReplayVariantsProofs ------------------------
(***************************************************************************)
(* The properties of ReplayVariants for every set of probe threads,        *)
(* outputs, groups, points, sizes and cache limits.                        *)
(*                                                                         *)
(* AnswersExact needs that a probe executes a program for its key, that    *)
(* the key contains the request (and equals it in the exact attempt), and  *)
(* that the algebra of a program grows with its outputs: nothing about     *)
(* what the cache holds.  The other three need that everything published,  *)
(* cached, shared or held is of the current kernel and prime; what         *)
(* eviction and a prime change leave of the cache are recursive functions, *)
(* about which the proofs reason by induction over the entries.            *)
(***************************************************************************)
EXTENDS ReplayVariants, WellFoundedInduction, SequenceTheorems, TLAPS

Locals ==
  /\ pc = [e \in Evaluators |-> pc[e]]
  /\ want = [e \in Evaluators |-> want[e]]
  /\ point = [e \in Evaluators |-> point[e]]
  /\ key = [e \in Evaluators |-> key[e]]
  /\ attempt = [e \in Evaluators |-> attempt[e]]
  /\ held = [e \in Evaluators |-> held[e]]
  /\ answer = [e \in Evaluators |-> answer[e]]

\* The key of a probe that is still looking for a program or running one.
KeyServes(e) ==
  pc[e] \in {"lookup", "build", "execute"} =>
    /\ want[e] \subseteq key[e]
    /\ attempt[e] # "grouped" => key[e] = want[e]

HoldsKey(e) == pc[e] = "execute" => held[e].outputs = key[e]

Exact(e) == pc[e] = "answered" =>
              (answer[e] = "empty" <=> Fails(want[e], want[e], point[e]))

IInv == Locals /\ \A e \in Evaluators : KeyServes(e) /\ HoldsKey(e) /\ Exact(e)

-----------------------------------------------------------------------------
\* A program for more outputs evaluates more of the algebra.
LEMMA AlgebraGrows ==
  ASSUME NEW S, NEW K, S \subseteq K
  PROVE  Algebra(S) \subseteq Algebra(K)
BY DEF Algebra, Grouped

\* The group of a request contains it.
LEMMA GroupContains ==
  ASSUME NEW S, S \subseteq outputs
  PROVE  S \subseteq GroupFor(S)
BY DEF GroupFor, Grouped

\* A lookup that finds something finds a program for the outputs looked up.
LEMMA LookupFinds ==
  ASSUME NEW S, Lookup(S) # Null
  PROVE  Lookup(S).outputs = S
<1>1. CASE policy = "TargetRowsCached"
  <2>1. Lookup(S) = Hit(cache.entries, S)
    BY <1>1 DEF Lookup
  <2>2. \E i \in DOMAIN cache.entries : cache.entries[i].outputs = S
    BY <2>1 DEF Hit
  <2> QED BY <2>1, <2>2 DEF Hit
<1>2. CASE policy # "TargetRowsCached"
  BY <1>2 DEF Lookup
<1> QED BY <1>1, <1>2

-----------------------------------------------------------------------------
LEMMA InitExact == Init => IInv
BY DEF Init, IInv, Locals, KeyServes, HoldsKey, Exact

\* Programs and answers of the probes a step leaves alone.
LEMMA Frame ==
  ASSUME IInv, UNCHANGED <<orientation, outputs>>, NEW e \in Evaluators,
         UNCHANGED <<pc[e], want[e], point[e], key[e], attempt[e], held[e], answer[e]>>
  PROVE  (KeyServes(e) /\ HoldsKey(e) /\ Exact(e))'
<1>1. KeyServes(e) /\ HoldsKey(e) /\ Exact(e)
  BY DEF IInv
<1>2. Fails(want[e], want[e], point[e])' = Fails(want[e], want[e], point[e])
  BY DEF Fails, Algebra, Grouped
<1> QED BY <1>1, <1>2 DEF KeyServes, HoldsKey, Exact

LEMMA RequestExact ==
  ASSUME IInv, NEW f \in Evaluators, NEW S, S \subseteq outputs, NEW p, Request(f, S, p)
  PROVE  IInv'
<1> DEFINE K == IF UsesGroups THEN GroupFor(S) ELSE S
<1>1. Locals'
  BY DEF IInv, Locals, Request
<1>2. S \subseteq K
  BY GroupContains
<1>3. ASSUME NEW e \in Evaluators
      PROVE  (KeyServes(e) /\ HoldsKey(e) /\ Exact(e))'
  <2>1. CASE e # f
    BY <2>1, <1>3, Frame DEF Request, kernel, IInv, Locals
  <2>2. CASE e = f
    <3>1. /\ want'[f] = S /\ key'[f] = K
          /\ attempt'[f] = IF UsesGroups /\ S # outputs THEN "grouped" ELSE "exact"
          /\ held'[f] = IF K = outputs THEN BaseProgram ELSE Null
          /\ pc'[f] = IF K = outputs THEN "execute" ELSE "lookup"
      BY DEF Request, IInv, Locals
    <3>2. attempt'[f] # "grouped" => key'[f] = want'[f]
      <4>1. CASE ~UsesGroups
        BY <4>1, <3>1
      <4>2. CASE S = outputs
        <5>1. GroupFor(S) = outputs
          BY <4>2 DEF GroupFor, Grouped
        <5> QED BY <5>1, <4>2, <3>1
      <4>3. CASE UsesGroups /\ S # outputs
        BY <4>3, <3>1
      <4> QED BY <4>1, <4>2, <4>3
    <3>3. pc'[f] = "execute" => held'[f].outputs = key'[f]
      BY <3>1 DEF BaseProgram
    <3> QED BY <2>2, <3>1, <3>2, <3>3, <1>2 DEF KeyServes, HoldsKey, Exact
  <2> QED BY <2>1, <2>2
<1> QED BY <1>1, <1>3 DEF IInv

LEMMA LookupExact ==
  ASSUME IInv, NEW f \in Evaluators, LookupStep(f) \/ Build(f)
  PROVE  IInv'
<1>1. /\ pc[f] \in {"lookup", "build"}
      /\ pc' = [pc EXCEPT ![f] = pc'[f]] /\ pc'[f] \in {"build", "execute"}
      /\ held' = [held EXCEPT ![f] = held'[f]]
      /\ UNCHANGED <<kernel, want, point, key, attempt, answer>>
  <2>1. CASE LookupStep(f)
    BY <2>1 DEF LookupStep, IInv, Locals
  <2>2. CASE Build(f)
    BY <2>2 DEF Build, IInv, Locals
  <2> QED BY <2>1, <2>2
<1>2. pc'[f] = "execute" => held'[f].outputs = key[f]
  <2>1. CASE LookupStep(f)
    BY <2>1, LookupFinds DEF LookupStep, IInv, Locals
  <2>2. CASE Build(f)
    <3>1. CASE Recheck(key[f]) # Null
      BY <2>2, <3>1, LookupFinds DEF Build, Recheck, IInv, Locals
    <3>2. CASE Recheck(key[f]) = Null
      <4>1. PICK b \in Bytes[key[f]] : held' = [held EXCEPT ![f] = Program(key[f], b)]
        BY <2>2, <3>2 DEF Build
      <4>2. held'[f] = Program(key[f], b)
        BY <4>1 DEF IInv, Locals
      <4> QED BY <4>2 DEF Program
    <3> QED BY <3>1, <3>2
  <2> QED BY <2>1, <2>2
<1>3. Locals'
  BY <1>1 DEF IInv, Locals
<1>4. ASSUME NEW e \in Evaluators
      PROVE  (KeyServes(e) /\ HoldsKey(e) /\ Exact(e))'
  <2>1. CASE e # f
    BY <2>1, <1>1, Frame DEF kernel, IInv, Locals
  <2>2. CASE e = f
    BY <2>2, <1>1, <1>2 DEF IInv, KeyServes, HoldsKey, Exact
  <2> QED BY <2>1, <2>2
<1> QED BY <1>3, <1>4 DEF IInv

LEMMA ExecuteExact ==
  ASSUME IInv, NEW f \in Evaluators, Execute(f)
  PROVE  IInv'
<1> DEFINE failed == Fails(want[f], held[f].outputs, point[f])
<1>1. /\ want[f] \subseteq key[f] /\ held[f].outputs = key[f]
      /\ attempt[f] # "grouped" => key[f] = want[f]
  BY DEF IInv, Execute, KeyServes, HoldsKey
<1>2. UNCHANGED <<kernel, want, point>>
  BY DEF Execute
<1>3. Fails(want[f], want[f], point[f])' = Fails(want[f], want[f], point[f])
  BY <1>2 DEF kernel, Fails, Algebra, Grouped
<1>4. Locals'
  BY DEF IInv, Locals, Execute
<1>5. (KeyServes(f) /\ HoldsKey(f) /\ Exact(f))'
  <2>1. CASE failed /\ Retries(f)
    <3>1. pc'[f] = "lookup" /\ key'[f] = want[f]
      BY <2>1 DEF Execute, IInv, Locals
    <3> QED BY <3>1, <1>2 DEF KeyServes, HoldsKey, Exact
  <2>2. CASE ~(failed /\ Retries(f))
    <3>1. /\ pc'[f] = "answered"
          /\ answer'[f] = IF failed THEN "empty" ELSE "values"
      BY <2>2 DEF Execute, IInv, Locals
    <3>2. failed <=> Fails(want[f], want[f], point[f])
      <4>1. CASE failed
        <5>1. key[f] = want[f]
          BY <4>1, <2>2, <1>1 DEF Retries
        <5> QED BY <4>1, <5>1, <1>1
      <4>2. CASE ~failed
        <5>1. Algebra(want[f]) \subseteq Algebra(held[f].outputs)
          BY <1>1, AlgebraGrows
        <5> QED BY <4>2, <5>1 DEF Fails
      <4> QED BY <4>1, <4>2
    <3> QED BY <3>1, <3>2, <1>3 DEF KeyServes, HoldsKey, Exact
  <2> QED BY <2>1, <2>2
<1>6. ASSUME NEW e \in Evaluators, e # f
      PROVE  (KeyServes(e) /\ HoldsKey(e) /\ Exact(e))'
  BY <1>6, Frame DEF Execute, kernel, IInv, Locals
<1> QED BY <1>4, <1>5, <1>6 DEF IInv

LEMMA ReturnExact ==
  ASSUME IInv, NEW f \in Evaluators, Return(f)
  PROVE  IInv'
<1>1. Locals'
  BY DEF IInv, Locals, Return
<1>2. ASSUME NEW e \in Evaluators
      PROVE  (KeyServes(e) /\ HoldsKey(e) /\ Exact(e))'
  <2>1. CASE e # f
    BY <2>1, Frame DEF Return, kernel, IInv, Locals
  <2>2. CASE e = f
    BY <2>2 DEF Return, IInv, Locals, KeyServes, HoldsKey, Exact
  <2> QED BY <2>1, <2>2
<1> QED BY <1>1, <1>2 DEF IInv

\* The owner acts while no probe runs, when the three parts hold of all.
LEMMA OwnerExact ==
  ASSUME IInv, Owner
  PROVE  IInv'
<1>1. Quiet /\ UNCHANGED probe
  BY DEF Owner, PrimeChanged, ConfigureTargetReplay, ConfigureMasterReplay, RetainOutputs
<1> QED BY <1>1 DEF Quiet, probe, IInv, Locals, KeyServes, HoldsKey, Exact

LEMMA StepExact == IInv /\ [Next]_vars => IInv'
<1> SUFFICES ASSUME IInv, [Next]_vars PROVE IInv'
  OBVIOUS
<1>1. ASSUME NEW f \in Evaluators, NEW S \in Requests \cap SUBSET outputs,
             NEW p \in Points, Request(f, S, p)
      PROVE  IInv'
  BY <1>1, RequestExact
<1>2. ASSUME NEW f \in Evaluators, EvaluatorStep(f)
      PROVE  IInv'
  BY <1>2, LookupExact, ExecuteExact, ReturnExact DEF EvaluatorStep
<1>3. CASE Owner
  BY <1>3, OwnerExact
<1>4. CASE UNCHANGED vars
  <2>1. UNCHANGED <<orientation, outputs, probe>>
    BY <1>4 DEF vars, kernel
  <2>2. Locals'
    BY <2>1 DEF probe, IInv, Locals
  <2>3. \A e \in Evaluators : (KeyServes(e) /\ HoldsKey(e) /\ Exact(e))'
    BY <2>1, Frame DEF probe
  <2> QED BY <2>2, <2>3 DEF IInv
<1> QED BY <1>1, <1>2, <1>3, <1>4 DEF Next

\* eval_selected_compact gives a point up exactly when the request itself is
\* singular there, whatever other probes have cached, published or evicted and
\* whatever policy is configured.
THEOREM AnswersAreExact == Spec => []AnswersExact
<1>1. IInv => AnswersExact
  BY DEF IInv, Exact, AnswersExact
<1> QED BY <1>1, InitExact, StepExact, PTL DEF Spec
-----------------------------------------------------------------------------
\* Induction over the naturals, of a set instead of a predicate: its least
\* exception would have a predecessor.
LEMMA Least ==
  ASSUME NEW T, T \subseteq Nat, T # {}
  PROVE  \E x \in T : \A y \in T : x <= y
<1>1. PICK x \in T : \A y \in T : ~(<<y, x>> \in OpToRel(<, Nat))
  BY NatLessThanWellFounded, WFMin
<1>2. ASSUME NEW y \in T PROVE x <= y
  <2>1. ~(y < x)
    BY <1>1, <1>2 DEF OpToRel
  <2> QED BY <2>1, <1>2
<1> QED BY <1>2

LEMMA SetInduction ==
  ASSUME NEW T, 0 \in T, \A k \in Nat : k \in T => k + 1 \in T
  PROVE  \A k \in Nat : k \in T
<1> DEFINE Exceptions == {k \in Nat : k \notin T}
<1>1. SUFFICES ASSUME Exceptions # {} PROVE FALSE
  OBVIOUS
<1>2. PICK k \in Exceptions : \A l \in Exceptions : k <= l
  BY <1>1, Least
<1>3. k # 0 /\ k - 1 \in Nat /\ k - 1 \in T
  BY <1>2
<1> QED BY <1>2, <1>3

\* What the running totals of a sequence of programs are.
IsTotal(t, s, n) ==
  t = [i \in 0 .. n |-> IF i = 0 THEN 0 ELSE t[i - 1] + s[i].bytes]

LEMMA TotalExists ==
  ASSUME NEW s, NEW n \in Nat
  PROVE  \E t : IsTotal(t, s, n)
<1> DEFINE T == {k \in Nat : \E t : IsTotal(t, s, k)}
<1>1. 0 \in T
  <2>1. IsTotal([i \in 0 .. 0 |-> 0], s, 0)
    BY DEF IsTotal
  <2> QED BY <2>1
<1>2. ASSUME NEW k \in Nat, k \in T PROVE k + 1 \in T
  <2>1. PICK t : IsTotal(t, s, k)
    BY <1>2
  <2> DEFINE u == [i \in 0 .. k + 1 |-> IF i = k + 1 THEN t[k] + s[k + 1].bytes ELSE t[i]]
  <2>2. IsTotal(u, s, k + 1)
    BY <2>1 DEF IsTotal
  <2> QED BY <2>2
<1> HIDE DEF T
<1>3. n \in T
  BY <1>1, <1>2, SetInduction
<1> QED BY <1>3 DEF T

LEMMA TotalsAre ==
  ASSUME NEW R, NEW s \in Seq(R)
  PROVE  /\ Totals(s)[0] = 0
         /\ \A i \in 1 .. Len(s) : Totals(s)[i] = Totals(s)[i - 1] + s[i].bytes
<1>1. Len(s) \in Nat
  OBVIOUS
<1>2. PICK t : IsTotal(t, s, Len(s))
  BY <1>1, TotalExists
<1>3. Totals(s) = CHOOSE u : u = [i \in 0 .. Len(s) |-> IF i = 0 THEN 0 ELSE u[i - 1] + s[i].bytes]
  BY DEF Totals
<1>4. IsTotal(Totals(s), s, Len(s))
  BY <1>2, <1>3 DEF IsTotal
<1> QED BY <1>1, <1>4 DEF IsTotal

\* Sequences of sized things.
Sized(R) == \A r \in R : r.bytes \in Nat

LEMMA TotalsAreNat ==
  ASSUME NEW R, Sized(R), NEW s \in Seq(R)
  PROVE  \A i \in 0 .. Len(s) : Totals(s)[i] \in Nat
<1> DEFINE T == {k \in Nat : k <= Len(s) => Totals(s)[k] \in Nat}
<1>1. 0 \in T
  BY TotalsAre
<1>2. ASSUME NEW k \in Nat, k \in T PROVE k + 1 \in T
  <2>1. CASE k + 1 <= Len(s)
    <3>1. s[k + 1] \in R /\ k + 1 \in 1 .. Len(s)
      BY <2>1
    <3>2. Totals(s)[k + 1] = Totals(s)[k] + s[k + 1].bytes
      BY <3>1, TotalsAre
    <3> QED BY <1>2, <2>1, <3>1, <3>2 DEF Sized
  <2> QED BY <2>1
<1> HIDE DEF T
<1>3. \A k \in Nat : k \in T
  BY <1>1, <1>2, SetInduction
<1> QED BY <1>3 DEF T

\* Equal sequences up to some place have equal totals up to there.
LEMMA TotalsOfPart ==
  ASSUME NEW R, Sized(R), NEW s \in Seq(R), NEW r \in Seq(R), NEW m \in Nat,
         NEW n \in Nat, m + n <= Len(s), n <= Len(r),
         \A i \in 1 .. n : r[i] = s[m + i]
  PROVE  Totals(r)[n] = Totals(s)[m + n] - Totals(s)[m]
<1> DEFINE T == {k \in Nat : k <= n => Totals(r)[k] = Totals(s)[m + k] - Totals(s)[m]}
<1>0. Len(s) \in Nat /\ Len(r) \in Nat /\ Totals(s)[m] \in Nat
  BY TotalsAreNat
<1>1. 0 \in T
  BY <1>0, TotalsAre
<1>2. ASSUME NEW k \in Nat, k \in T PROVE k + 1 \in T
  <2>1. CASE k + 1 <= n
    <3>1. Totals(r)[k + 1] = Totals(r)[k] + r[k + 1].bytes
      BY <2>1, <1>0, TotalsAre
    <3>2. m + k + 1 \in 1 .. Len(s) /\ (m + k + 1) - 1 = m + k
      BY <2>1, <1>0
    <3>3. Totals(s)[m + k + 1] = Totals(s)[m + k] + s[m + k + 1].bytes
      BY <3>2, TotalsAre
    <3>4. r[k + 1] = s[m + k + 1] /\ s[m + k + 1] \in R
      BY <2>1, <3>2
    <3>5. Totals(r)[k] = Totals(s)[m + k] - Totals(s)[m]
      <4>1. k <= n
        BY <2>1
      <4> QED BY <4>1, <1>2
    <3>6. Totals(s)[m + k] \in Nat
      <4>1. m + k \in 0 .. Len(s)
        BY <2>1, <1>0
      <4>2. \A i \in 0 .. Len(s) : Totals(s)[i] \in Nat
        BY TotalsAreNat
      <4> QED BY <4>1, <4>2
    <3>7. s[m + k + 1].bytes \in Nat
      BY <3>4 DEF Sized
    <3>8. Totals(r)[k + 1] = Totals(s)[m + k + 1] - Totals(s)[m]
      <4>1. Totals(r)[k + 1] = (Totals(s)[m + k] - Totals(s)[m]) + s[m + k + 1].bytes
        BY <3>1, <3>4, <3>5
      <4>2. \A a, b, c \in Nat : (a - b) + c = (a + c) - b
        OBVIOUS
      <4>3. Totals(s)[m] \in Nat
        BY <1>0
      <4>4. (Totals(s)[m + k] - Totals(s)[m]) + s[m + k + 1].bytes
              = (Totals(s)[m + k] + s[m + k + 1].bytes) - Totals(s)[m]
        BY <4>2, <4>3, <3>6, <3>7
      <4> QED BY <4>1, <4>4, <3>3, Zenon
    <3>9. m + (k + 1) = m + k + 1
      OBVIOUS
    <3> QED BY <3>8, <3>9
  <2> QED BY <2>1
<1> HIDE DEF T
<1>3. n \in T
  BY <1>1, <1>2, SetInduction
<1> QED BY <1>3 DEF T

LEMMA TotalsOfFront ==
  ASSUME NEW R, Sized(R), NEW s \in Seq(R), NEW r \in Seq(R),
         NEW n \in Nat, n <= Len(s), n <= Len(r), \A i \in 1 .. n : r[i] = s[i]
  PROVE  Totals(r)[n] = Totals(s)[n]
<1>1. PICK m \in Nat : m = 0
  OBVIOUS
<1>2. m + n <= Len(s) /\ \A i \in 1 .. n : r[i] = s[m + i]
  BY <1>1
<1>3. Totals(r)[n] = Totals(s)[m + n] - Totals(s)[m]
  BY <1>2, TotalsOfPart
<1>4. m + n = n /\ Totals(s)[m] = 0 /\ Totals(s)[n] \in Nat
  <2>1. n \in 0 .. Len(s)
    OBVIOUS
  <2> QED BY <1>1, <2>1, TotalsAre, TotalsAreNat
<1> QED BY <1>3, <1>4

LEMMA SumOfPart ==
  ASSUME NEW R, Sized(R), NEW s \in Seq(R), NEW k \in 0 .. Len(s)
  PROVE  /\ Sum(SubSeq(s, 1, k)) = Totals(s)[k]
         /\ Sum(SubSeq(s, k + 1, Len(s))) = Sum(s) - Totals(s)[k]
<1> DEFINE front == SubSeq(s, 1, k)
           back == SubSeq(s, k + 1, Len(s))
<1>1. Len(s) \in Nat /\ k \in Nat /\ Len(s) - k \in Nat
  OBVIOUS
<1>2. /\ front \in Seq(R) /\ Len(front) = k
      /\ \A i \in 1 .. k : front[i] = s[i]
  <2>1. 1 .. k \subseteq 1 .. Len(s)
    BY <1>1
  <2> QED BY <1>1, <2>1, SubSeqProperties
<1>3. /\ back \in Seq(R) /\ Len(back) = Len(s) - k
      /\ \A i \in 1 .. Len(s) - k : back[i] = s[k + i]
  <2>1. k + 1 .. Len(s) \subseteq 1 .. Len(s)
    BY <1>1
  <2> QED BY <1>1, <2>1, SubSeqProperties
<1> HIDE DEF front, back
<1>4. Sum(front) = Totals(s)[k]
  <2>1. k <= Len(s) /\ k <= Len(front)
    BY <1>1, <1>2
  <2> QED BY <2>1, <1>1, <1>2, TotalsOfFront DEF Sum
<1>5. PICK n \in Nat : n = Len(s) - k
  BY <1>1
<1>6. Totals(back)[n] = Totals(s)[k + n] - Totals(s)[k] /\ k + n = Len(s)
  <2>1. k + n <= Len(s) /\ n <= Len(back) /\ k + n = Len(s)
    BY <1>1, <1>3, <1>5
  <2>2. \A i \in 1 .. n : back[i] = s[k + i]
    BY <1>3, <1>5
  <2>3. Totals(back)[n] = Totals(s)[k + n] - Totals(s)[k]
    <3>1. back \in Seq(R) /\ k \in Nat /\ k + n <= Len(s) /\ n <= Len(back)
      BY <2>1, <1>1, <1>3
    <3>2. \A m \in Nat, l \in Nat :
            m + l <= Len(s) /\ l <= Len(back) /\ (\A i \in 1 .. l : back[i] = s[m + i])
              => Totals(back)[l] = Totals(s)[m + l] - Totals(s)[m]
      BY <3>1, TotalsOfPart
    <3> QED BY <2>2, <3>1, <3>2, <1>5, Zenon
  <2> QED BY <2>1, <2>3
<1>7. Sum(back) = Sum(s) - Totals(s)[k]
  BY <1>3, <1>5, <1>6 DEF Sum
<1> QED BY <1>4, <1>7 DEF front, back

LEMMA SumOfAppend ==
  ASSUME NEW R, Sized(R), NEW s \in Seq(R), NEW v \in R
  PROVE  Sum(Append(s, v)) = Sum(s) + v.bytes
<1> DEFINE r == Append(s, v)
           n == Len(s)
<1>1. /\ r \in Seq(R) /\ Len(r) = n + 1 /\ n \in Nat /\ r[n + 1] = v
      /\ \A i \in 1 .. n : s[i] = r[i]
  BY AppendProperties
<1> HIDE DEF r, n
<1>2. Totals(s)[n] = Totals(r)[n]
  <2>1. n <= Len(r) /\ n <= Len(s)
    BY <1>1 DEF n
  <2> QED BY <2>1, <1>1, TotalsOfFront
<1>3. Totals(r)[n + 1] = Totals(r)[n] + r[n + 1].bytes
  <2>1. n + 1 \in 1 .. Len(r) /\ (n + 1) - 1 = n
    BY <1>1
  <2> QED BY <2>1, <1>1, TotalsAre
<1> QED BY <1>1, <1>2, <1>3 DEF Sum, r, n

\* Entries of different outputs stay so with one of yet other outputs.
LEMMA AppendDistinct ==
  ASSUME NEW R, NEW s \in Seq(R), NEW v \in R,
         \A i \in 1 .. Len(s) : s[i].outputs # v.outputs,
         \A i, j \in 1 .. Len(s) : s[i].outputs = s[j].outputs => i = j
  PROVE  \A i, j \in 1 .. Len(Append(s, v)) :
           Append(s, v)[i].outputs = Append(s, v)[j].outputs => i = j
<1> DEFINE r == Append(s, v)
           n == Len(s)
<1>1. /\ Len(r) = n + 1 /\ n \in Nat /\ r[n + 1] = v
      /\ \A i \in 1 .. n : r[i] = s[i]
  BY AppendProperties
<1> SUFFICES ASSUME NEW i \in 1 .. n + 1, NEW j \in 1 .. n + 1, r[i].outputs = r[j].outputs
             PROVE  i = j
  BY <1>1
<1> HIDE DEF r, n
<1>2. \A l \in 1 .. n : r[l].outputs # v.outputs
  BY <1>1 DEF n
<1>3. CASE i = n + 1 /\ j = n + 1
  BY <1>3
<1>4. CASE i = n + 1 /\ j \in 1 .. n
  BY <1>1, <1>2, <1>4
<1>5. CASE j = n + 1 /\ i \in 1 .. n
  BY <1>1, <1>2, <1>5
<1>6. CASE i \in 1 .. n /\ j \in 1 .. n
  BY <1>1, <1>6 DEF n
<1>7. (i = n + 1 \/ i \in 1 .. n) /\ (j = n + 1 \/ j \in 1 .. n)
  BY <1>1
<1> QED BY <1>3, <1>4, <1>5, <1>6, <1>7

LEMMA SumIsNat ==
  ASSUME NEW R, Sized(R), NEW s \in Seq(R)
  PROVE  Sum(s) \in Nat
BY TotalsAreNat, LenProperties DEF Sum

LEMMA SumOfNone == Sum(<<>>) = 0
<1>1. <<>> \in Seq({}) /\ Len(<<>>) = 0
  OBVIOUS
<1> QED BY <1>1, TotalsAre DEF Sum

-----------------------------------------------------------------------------
\* The programs and structures made for the current kernel and prime.  Only
\* kernels kept by masters share structures.
Structures == [columns : SUBSET {BasisOf[o] : o \in AllOutputs},
               kernel : {outputs}, prime : {prime}]

Programs == [outputs : SUBSET AllOutputs, kernel : {outputs}, prime : {prime}, bytes : Nat,
             structure : IF orientation = "master" THEN {Null} \cup Structures ELSE {Null}]

\* What eviction leaves is the end of the cache, counted, with room for b.
LEMMA KeptFits ==
  ASSUME NEW R, Sized(R), cache.entries \in Seq(R), cache.bytes = Sum(cache.entries),
         NEW b \in Nat, b <= CacheBudget
  PROVE  /\ \E k \in 1 .. Len(cache.entries) + 1 :
              Kept(b).entries = SubSeq(cache.entries, k, Len(cache.entries))
         /\ Kept(b).bytes = Sum(Kept(b).entries)
         /\ Len(Kept(b).entries) < CacheEntries
         /\ Kept(b).bytes <= CacheBudget - b
<1> DEFINE s == cache.entries
           n == Len(s)
           From(i) == SubSeq(s, i, n)
           Roomy == {i \in 1 .. n + 1 : i = n + 1 \/ Fits(From(i), b)}
           first == CHOOSE i \in 1 .. n + 1 :
                      /\ i = n + 1 \/ Fits(From(i), b)
                      /\ \A j \in 1 .. i - 1 : ~Fits(From(j), b)
<1>1. n \in Nat
  OBVIOUS
<1>2. PICK k \in Roomy : \A j \in Roomy : k <= j
  <2>1. Roomy \subseteq Nat /\ n + 1 \in Roomy
    BY <1>1
  <2> HIDE DEF Roomy
  <2> QED BY <2>1, Least
<1>3. \A j \in 1 .. k - 1 : ~Fits(From(j), b)
  <2>1. ASSUME NEW j \in 1 .. k - 1, Fits(From(j), b) PROVE FALSE
    <3>1. j \in Roomy
      BY <1>1, <1>2, <2>1
    <3>2. k <= j /\ k \in 1 .. n + 1
      BY <3>1, <1>2
    <3> QED BY <3>2, <2>1, <1>1
  <2> QED BY <2>1
<1>4. first \in 1 .. n + 1 /\ (first = n + 1 \/ Fits(From(first), b))
  <2>1. k \in 1 .. n + 1 /\ (k = n + 1 \/ Fits(From(k), b))
    BY <1>2
  <2> HIDE DEF From, s, n
  <2> QED BY <1>3, <2>1
<1>5. Kept(b) = [entries |-> From(first),
                 bytes |-> cache.bytes - Sum(SubSeq(s, 1, first - 1))]
  BY DEF Kept, Evicted
<1> HIDE DEF first
<1>6. /\ Sum(From(first)) = Sum(s) - Totals(s)[first - 1]
      /\ Sum(SubSeq(s, 1, first - 1)) = Totals(s)[first - 1]
  <2>1. first - 1 \in 0 .. n /\ (first - 1) + 1 = first
    BY <1>1, <1>4
  <2> QED BY <2>1, SumOfPart
<1>7. CASE first = n + 1
  <2>1. From(first) = <<>>
    BY <1>7, <1>1
  <2>2. Kept(b).entries = <<>> /\ Kept(b).bytes = Sum(s) - Totals(s)[first - 1]
    BY <1>5, <1>6, <2>1
  <2>3. Kept(b).bytes = 0
    BY <1>6, <2>1, <2>2, SumOfNone
  <2>4. Len(<<>>) = 0 /\ CacheEntries \in Nat \ {0} /\ CacheBudget \in Nat
    BY ReplayAssumption
  <2>5. 0 < CacheEntries /\ 0 <= CacheBudget - b
    BY <2>4
  <2>6. \E l \in 1 .. n + 1 : Kept(b).entries = From(l)
    BY <1>4, <1>5
  <2> QED BY <2>2, <2>3, <2>4, <2>5, <2>6, SumOfNone
<1>8. CASE Fits(From(first), b)
  BY <1>4, <1>5, <1>6, <1>8 DEF Fits
<1> QED BY <1>4, <1>7, <1>8
-----------------------------------------------------------------------------
\* RunsCurrentProgram, CacheExact and StructuresFormChain together: a program
\* is current where it runs because it was where it was found, and a structure
\* belongs to a program that somebody holds.
Made ==
  /\ orientation \in {"target", "master"}
  /\ refreshes => orientation = "target"
  /\ outputs \subseteq AllOutputs /\ prime \in Nat
  /\ published \in Programs \cup {Null}
  /\ cache.entries \in Seq(Programs)
  /\ structures \subseteq Structures
  /\ orientation = "master" => policy = "Exact" /\ cache.entries = <<>>

\* A probe holds a program of the current kernel exactly while it runs it.
Holds(e) ==
  /\ held[e] \in IF pc[e] = "execute" THEN Programs ELSE {Null}
  /\ pc[e] \in {"lookup", "build", "execute"} =>
       want[e] \subseteq outputs /\ key[e] \subseteq outputs

RInv ==
  /\ IInv /\ Made /\ CacheExact /\ StructuresFormChain
  /\ \A e \in Evaluators : Holds(e)

LEMMA ProgramsSized == Sized(Programs)
BY DEF Sized, Programs

LEMMA NullIsNone ==
  /\ Null \notin Structures
  /\ Null \notin Programs
<1>1. ASSUME NEW v \in Programs, v = Null PROVE FALSE
  <2>1. DOMAIN v = {"outputs", "kernel", "prime", "bytes", "structure"}
    BY <1>1 DEF Programs
  <2>2. DOMAIN v = {"none"}
    BY <1>1 DEF Null
  <2> QED BY <2>1, <2>2
<1>2. ASSUME NEW v \in Structures, v = Null PROVE FALSE
  <2>1. DOMAIN v = {"columns", "kernel", "prime"}
    BY <1>2 DEF Structures
  <2>2. DOMAIN v = {"none"}
    BY <1>2 DEF Null
  <2> QED BY <2>1, <2>2
<1> QED BY <1>1, <1>2

LEMMA LookupMade ==
  ASSUME Made, NEW S
  PROVE  Lookup(S) \in Programs \cup {Null}
<1>1. CASE policy = "TargetRowsCached"
  <2>1. Lookup(S) = Hit(cache.entries, S)
    BY <1>1 DEF Lookup
  <2>2. CASE \E i \in DOMAIN cache.entries : cache.entries[i].outputs = S
    <3>1. PICK i \in DOMAIN cache.entries : Hit(cache.entries, S) = cache.entries[i]
      BY <2>2 DEF Hit
    <3>2. cache.entries[i] \in Programs
      BY <3>1 DEF Made
    <3> QED BY <2>1, <3>1, <3>2
  <2>3. CASE ~ \E i \in DOMAIN cache.entries : cache.entries[i].outputs = S
    BY <2>1, <2>3 DEF Hit
  <2> QED BY <2>2, <2>3
<1>2. CASE policy # "TargetRowsCached"
  BY <1>2 DEF Lookup, Made
<1> QED BY <1>1, <1>2

\* The structures in the cache once one for S is there.
LEMMA StructuresForMade ==
  ASSUME Made, NEW S, S \subseteq outputs, StructuresFormChain
  PROVE  /\ StructuresFor(S) \subseteq Structures
         /\ \E s \in StructuresFor(S) : s.columns = ColumnsOf(S)
         /\ \A s, t \in StructuresFor(S) :
              /\ Nested(s.columns, t.columns)
              /\ s.columns = t.columns => s = t
<1> DEFINE C == ColumnsOf(S)
           fresh == [columns |-> C, kernel |-> outputs, prime |-> prime]
<1>1. fresh \in Structures /\ fresh.columns = C
  BY DEF Made, Structures, ColumnsOf
<1>2. Alive \subseteq Structures
  BY DEF Alive, Made
<1>3. CASE \E s \in Alive : s.columns = C
  <2>1. StructuresFor(S) = Alive
    BY <1>3 DEF StructuresFor
  <2> QED BY <2>1, <1>2, <1>3 DEF StructuresFormChain
<1>4. CASE (~ \E s \in Alive : s.columns = C) /\ OneChain(Alive, C)
  <2>1. StructuresFor(S) = Alive \cup {fresh}
    BY <1>4 DEF StructuresFor
  <2> QED BY <2>1, <1>1, <1>2, <1>4 DEF StructuresFormChain, OneChain, Nested
<1>5. CASE (~ \E s \in Alive : s.columns = C) /\ ~OneChain(Alive, C)
  <2>1. StructuresFor(S) = {fresh}
    BY <1>5 DEF StructuresFor
  <2> QED BY <2>1, <1>1 DEF Nested
<1> QED BY <1>3, <1>4, <1>5

LEMMA ProgramMade ==
  ASSUME Made, StructuresFormChain, NEW S, S \subseteq outputs, NEW b \in Nat
  PROVE  Program(S, b) \in Programs
<1>1. CASE NeedsStructure(S)
  <2>1. (CHOOSE s \in StructuresFor(S) : s.columns = ColumnsOf(S)) \in Structures
    BY StructuresForMade
  <2> QED BY <1>1, <2>1 DEF Program, Programs, NeedsStructure, Made
<1>2. CASE ~NeedsStructure(S)
  BY <1>2 DEF Program, Programs, Made
<1> QED BY <1>1, <1>2

LEMMA PublishMade ==
  ASSUME Made, CacheExact, UNCHANGED kernel,
         NEW v \in Programs, Lookup(v.outputs) = Null, Publish(v)
  PROVE  /\ published' \in Programs \cup {Null}
         /\ cache'.entries \in Seq(Programs)
         /\ orientation = "master" => cache'.entries = <<>>
         /\ CacheExact'
<1> DEFINE s == cache.entries
           n == Len(s)
<1>1. CASE policy = "TargetRowsCached" /\ Publishable(v)
  <2>1. /\ v.bytes \in Nat /\ v.bytes <= CacheBudget /\ CacheBudget \in Nat
        /\ CacheEntries \in Nat /\ s \in Seq(Programs) /\ cache.bytes = Sum(s)
    BY <1>1, ReplayAssumption DEF Publishable, Programs, Made, CacheExact
  <2>2. /\ \E k \in 1 .. n + 1 : Kept(v.bytes).entries = SubSeq(s, k, n)
        /\ Kept(v.bytes).bytes = Sum(Kept(v.bytes).entries)
        /\ Len(Kept(v.bytes).entries) < CacheEntries
        /\ Kept(v.bytes).bytes <= CacheBudget - v.bytes
    BY <2>1, ProgramsSized, KeptFits
  <2> DEFINE rest == Kept(v.bytes).entries
  <2>3. PICK k \in 1 .. n + 1 : rest = SubSeq(s, k, n)
    BY <2>2
  <2>4. /\ rest \in Seq(Programs) /\ Len(rest) \in Nat /\ DOMAIN rest = 1 .. Len(rest)
        /\ \A i \in 1 .. Len(rest) : rest[i] = s[k + i - 1] /\ k + i - 1 \in 1 .. n
    <3>1. k .. n \subseteq 1 .. n /\ n \in Nat
      BY <2>1
    <3> QED BY <2>1, <2>3, <3>1, SubSeqProperties
  <2>5. /\ cache' = [entries |-> Append(rest, v), bytes |-> Kept(v.bytes).bytes + v.bytes]
        /\ published' = published
    BY <1>1 DEF Publish
  <2> HIDE DEF rest
  <2>6. /\ Append(rest, v) \in Seq(Programs) /\ Len(Append(rest, v)) = Len(rest) + 1
        /\ Append(rest, v)[Len(rest) + 1] = v
        /\ \A i \in 1 .. Len(rest) : Append(rest, v)[i] = rest[i]
    BY <2>4, AppendProperties
  <2>7. Sum(Append(rest, v)) = Sum(rest) + v.bytes /\ Sum(rest) \in Nat
    BY <2>4, ProgramsSized, SumOfAppend, SumIsNat
  <2>8. \A i \in 1 .. n : s[i].outputs # v.outputs
    <3>1. Hit(s, v.outputs) = Null
      BY <1>1 DEF Lookup
    <3>2. ASSUME NEW i \in 1 .. n, s[i].outputs = v.outputs PROVE FALSE
      <4>1. i \in DOMAIN s
        BY <2>1
      <4>2. \E j \in DOMAIN s : Hit(s, v.outputs) = s[j]
        BY <3>2, <4>1 DEF Hit
      <4>3. \A j \in DOMAIN s : s[j] \in Programs
        BY <2>1
      <4> QED BY <3>1, <4>2, <4>3, NullIsNone
    <3> QED BY <3>2
  <2>9. \A i, j \in 1 .. Len(rest) : rest[i].outputs = rest[j].outputs => i = j
    <3>1. \A a, b \in 1 .. n : s[a].outputs = s[b].outputs => a = b
      BY <2>1 DEF CacheExact
    <3>2. ASSUME NEW i \in 1 .. Len(rest), NEW j \in 1 .. Len(rest),
                 rest[i].outputs = rest[j].outputs
          PROVE  i = j
      <4>1. PICK a \in 1 .. n : a = k + i - 1 /\ rest[i] = s[a]
        BY <2>4
      <4>2. PICK b \in 1 .. n : b = k + j - 1 /\ rest[j] = s[b]
        BY <2>4
      <4>3. a = b
        BY <3>1, <3>2, <4>1, <4>2
      <4>4. k \in Nat /\ i \in Nat /\ j \in Nat
        BY <2>1, <2>4
      <4> QED BY <4>1, <4>2, <4>3, <4>4
    <3> QED BY <3>2
  <2>10. \A i \in 1 .. Len(rest) : rest[i].outputs # v.outputs
    BY <2>4, <2>8
  <2>11. \A i, j \in DOMAIN Append(rest, v) :
           Append(rest, v)[i].outputs = Append(rest, v)[j].outputs => i = j
    <3>1. DOMAIN Append(rest, v) = 1 .. Len(Append(rest, v))
      BY <2>6
    <3> QED BY <2>4, <2>9, <2>10, <3>1, AppendDistinct
  <2>12. CacheExact'
    <3>1. /\ Len(cache'.entries) <= CacheEntries
          /\ cache'.bytes = Sum(cache'.entries) /\ cache'.bytes <= CacheBudget
      BY <2>1, <2>2, <2>4, <2>5, <2>6, <2>7 DEF rest
    <3> QED BY <2>5, <2>11, <3>1 DEF CacheExact, Sum, Totals
  <2> QED BY <1>1, <2>5, <2>6, <2>12 DEF Made
<1>2. CASE policy = "TargetRowsCached" /\ ~Publishable(v)
  BY <1>2 DEF Publish, Made, CacheExact, Sum, Totals
<1>3. CASE policy # "TargetRowsCached"
  BY <1>3 DEF Publish, Made, CacheExact, Sum, Totals
<1> QED BY <1>1, <1>2, <1>3
-----------------------------------------------------------------------------
\* What the cache is after the first n entries have been measured again.
IsTakeOver(g, sizes, n) ==
  g = [i \in 0 .. n |->
         IF i = 0 THEN NoCache
         ELSE Taken(g[i - 1], Refreshed(cache.entries[i], sizes[i]))]

LEMMA TakeOverExists ==
  ASSUME NEW sizes, NEW n \in Nat
  PROVE  \E g : IsTakeOver(g, sizes, n)
<1> DEFINE T == {k \in Nat : \E g : IsTakeOver(g, sizes, k)}
           Fresh(i) == Refreshed(cache.entries[i], sizes[i])
<1>1. 0 \in T
  <2>1. IsTakeOver([i \in 0 .. 0 |-> NoCache], sizes, 0)
    BY DEF IsTakeOver
  <2> QED BY <2>1
<1>2. ASSUME NEW k \in Nat, k \in T PROVE k + 1 \in T
  <2>1. PICK g : IsTakeOver(g, sizes, k)
    BY <1>2
  <2> DEFINE h == [i \in 0 .. k + 1 |-> IF i = k + 1 THEN Taken(g[k], Fresh(k + 1)) ELSE g[i]]
  <2>2. IsTakeOver(h, sizes, k + 1)
    BY <2>1 DEF IsTakeOver
  <2> QED BY <2>2
<1> HIDE DEF T
<1>3. n \in T
  BY <1>1, <1>2, SetInduction
<1> QED BY <1>3 DEF T

LEMMA TakeOverIs ==
  ASSUME NEW sizes, Len(cache.entries) \in Nat
  PROVE  \E g : IsTakeOver(g, sizes, Len(cache.entries)) /\ TakeOver(sizes) = g[Len(cache.entries)]
<1> DEFINE n == Len(cache.entries)
           g == CHOOSE u : u = [i \in 0 .. n |->
                  IF i = 0 THEN NoCache
                  ELSE Taken(u[i - 1], Refreshed(cache.entries[i], sizes[i]))]
<1>1. \E u : IsTakeOver(u, sizes, n)
  BY TakeOverExists
<1>2. IsTakeOver(g, sizes, n)
  BY <1>1 DEF IsTakeOver
<1>3. TakeOver(sizes) = g[n]
  BY DEF TakeOver
<1> QED BY <1>2, <1>3

\* A cache c over the programs P, taken over from the first k entries.
TookOver(c, k, P) ==
  /\ c.entries \in Seq(P) /\ Len(c.entries) <= CacheEntries
  /\ c.bytes = Sum(c.entries) /\ c.bytes <= CacheBudget
  /\ \A i \in 1 .. Len(c.entries) :
       \E j \in 1 .. k : c.entries[i].outputs = cache.entries[j].outputs
  /\ \A i, j \in 1 .. Len(c.entries) :
       c.entries[i].outputs = c.entries[j].outputs => i = j

\* One more entry, whose outputs no earlier one has.
LEMMA TakenFits ==
  ASSUME NEW P, Sized(P), NEW c, NEW k \in Nat, TookOver(c, k, P), NEW v \in P,
         v.outputs = cache.entries[k + 1].outputs,
         \A j \in 1 .. k : cache.entries[j].outputs # v.outputs
  PROVE  TookOver(Taken(c, v), k + 1, P)
<1> DEFINE r == Append(c.entries, v)
           m == Len(c.entries)
<1>0. /\ c.entries \in Seq(P) /\ m \in Nat /\ c.bytes = Sum(c.entries) /\ c.bytes \in Nat
      /\ v.bytes \in Nat /\ CacheBudget \in Nat /\ CacheEntries \in Nat
  BY SumIsNat, ReplayAssumption DEF TookOver, Sized
<1>1. CASE m < CacheEntries /\ v.bytes <= CacheBudget - c.bytes
  <2>1. Taken(c, v) = [entries |-> r, bytes |-> c.bytes + v.bytes]
    BY <1>1 DEF Taken
  <2>2. /\ r \in Seq(P) /\ Len(r) = m + 1 /\ r[m + 1] = v
        /\ \A i \in 1 .. m : r[i] = c.entries[i]
    BY <1>0, AppendProperties
  <2>3. Sum(r) = c.bytes + v.bytes
    BY <1>0, SumOfAppend
  <2> HIDE DEF r, m
  <2>4. \A i \in 1 .. m : r[i].outputs # v.outputs
    BY <2>2 DEF TookOver, m
  <2>5. ASSUME NEW i \in 1 .. Len(r)
        PROVE  \E j \in 1 .. k + 1 : r[i].outputs = cache.entries[j].outputs
    <3>1. CASE i \in 1 .. m
      BY <2>2, <3>1 DEF TookOver, m
    <3>2. CASE i = m + 1
      BY <2>2, <3>2
    <3> QED BY <1>0, <2>2, <3>1, <3>2
  <2>6. \A i, j \in 1 .. Len(r) : r[i].outputs = r[j].outputs => i = j
    <3>1. \A i \in 1 .. Len(c.entries) : c.entries[i].outputs # v.outputs
      BY <2>2, <2>4 DEF m
    <3>2. \A i, j \in 1 .. Len(c.entries) :
            c.entries[i].outputs = c.entries[j].outputs => i = j
      BY DEF TookOver
    <3> QED BY <1>0, <3>1, <3>2, AppendDistinct DEF r
  <2>7. Len(r) <= CacheEntries /\ c.bytes + v.bytes <= CacheBudget
    BY <1>0, <1>1, <2>2
  <2> QED BY <2>1, <2>2, <2>3, <2>5, <2>6, <2>7 DEF TookOver
<1>2. CASE ~(m < CacheEntries /\ v.bytes <= CacheBudget - c.bytes)
  <2>1. Taken(c, v) = c
    BY <1>2 DEF Taken
  <2> QED BY <2>1 DEF TookOver
<1> QED BY <1>1, <1>2

LEMMA RefreshedMade ==
  ASSUME Made, refreshes, prime' = prime + 1, UNCHANGED <<orientation, outputs>>,
         NEW v \in Programs, NEW b \in Nat
  PROVE  /\ Refreshed(v, b) \in Programs' /\ Refreshed(v, b).outputs = v.outputs
         /\ Bytes[v.outputs] \subseteq Nat
<1>1. orientation = "target"
  BY DEF Made
<1>2. Bytes[v.outputs] \subseteq Nat
  BY ReplayAssumption DEF Programs
<1> QED BY <1>1, <1>2 DEF Programs, Refreshed

LEMMA TakeOverMade ==
  ASSUME Made, CacheExact, refreshes, prime' = prime + 1, UNCHANGED <<orientation, outputs>>,
         NEW sizes \in SizesOf(cache.entries), cache' = TakeOver(sizes)
  PROVE  cache'.entries \in Seq(Programs') /\ CacheExact'
<1> DEFINE s == cache.entries
           n == Len(s)
           P == Programs'
<1>0. n \in Nat /\ s \in Seq(Programs) /\ DOMAIN s = 1 .. n
  <2>1. cache.entries \in Seq(Programs)
    BY DEF Made
  <2> HIDE DEF P
  <2> QED BY <2>1
<1>1. PICK g : IsTakeOver(g, sizes, n) /\ cache' = g[n]
  BY <1>0, TakeOverIs
<1>2. Sized(P)
  BY DEF Sized, Programs
<1> DEFINE T == {k \in Nat : k <= n => TookOver(g[k], k, P)}
<1>3. 0 \in T
  <2>1. g[0] = NoCache
    BY <1>0, <1>1 DEF IsTakeOver
  <2>2. NoCache.entries = <<>> /\ NoCache.bytes = 0 /\ Len(<<>>) = 0 /\ <<>> \in Seq(P)
    BY DEF NoCache
  <2>3. CacheEntries \in Nat /\ CacheBudget \in Nat
    BY ReplayAssumption
  <2> HIDE DEF P
  <2>4. TookOver(NoCache, 0, P)
    <3>1. /\ NoCache.entries \in Seq(P) /\ Len(NoCache.entries) <= CacheEntries
          /\ NoCache.bytes = Sum(NoCache.entries) /\ NoCache.bytes <= CacheBudget
          /\ 1 .. Len(NoCache.entries) = {}
      BY <2>2, <2>3, SumOfNone
    <3> QED BY <3>1 DEF TookOver
  <2> QED BY <2>1, <2>4
<1>4. ASSUME NEW k \in Nat, k \in T PROVE k + 1 \in T
  <2>1. SUFFICES ASSUME k + 1 <= n PROVE TookOver(g[k + 1], k + 1, P)
    OBVIOUS
  <2> DEFINE v == Refreshed(s[k + 1], sizes[k + 1])
  <2>2. g[k + 1] = Taken(g[k], v)
    <3>1. k + 1 \in 0 .. n /\ k + 1 # 0 /\ (k + 1) - 1 = k
      BY <1>0, <2>1
    <3> QED BY <1>1, <3>1 DEF IsTakeOver
  <2>3. s[k + 1] \in Programs /\ sizes[k + 1] \in Bytes[s[k + 1].outputs]
    BY <1>0, <2>1 DEF SizesOf
  <2>4. v \in P /\ v.outputs = s[k + 1].outputs
    BY <2>3, RefreshedMade
  <2>5. \A j \in 1 .. k : s[j].outputs # v.outputs
    <3>1. \A j \in 1 .. k : j \in DOMAIN s /\ k + 1 \in DOMAIN s /\ j # k + 1
      BY <1>0, <2>1
    <3> QED BY <2>4, <3>1 DEF CacheExact
  <2>6. TookOver(g[k], k, P)
    BY <1>0, <1>4, <2>1
  <2> HIDE DEF v, P
  <2> QED BY <1>2, <2>2, <2>4, <2>5, <2>6, TakenFits
<1> HIDE DEF T
<1>5. n \in T
  BY <1>0, <1>3, <1>4, SetInduction
<1>6. TookOver(cache', n, P)
  BY <1>0, <1>1, <1>5 DEF T
<1>7. DOMAIN cache'.entries = 1 .. Len(cache'.entries)
  BY <1>6 DEF TookOver
<1> HIDE DEF P
<1> QED BY <1>6, <1>7 DEF TookOver, CacheExact, Sum, Totals, P
-----------------------------------------------------------------------------
LEMMA InitRuns == Init => RInv
<1> SUFFICES ASSUME Init PROVE RInv
  OBVIOUS
<1>1. Made
  <2>1. cache.entries = <<>> /\ <<>> \in Seq(Programs)
    BY DEF Init, NoCache
  <2>2. refreshes => orientation = "target"
    BY DEF Init
  <2> QED BY <2>1, <2>2 DEF Init, Made
<1>2. CacheExact
  <2>1. cache.entries = <<>> /\ cache.bytes = 0 /\ Len(<<>>) = 0 /\ DOMAIN <<>> = {}
    BY DEF Init, NoCache
  <2>2. 0 <= CacheEntries /\ 0 <= CacheBudget
    BY ReplayAssumption
  <2> QED BY <2>1, <2>2, SumOfNone DEF CacheExact
<1>3. StructuresFormChain
  BY DEF Init, StructuresFormChain, Alive
<1>4. \A e \in Evaluators : Holds(e)
  BY DEF Init, Holds
<1> QED BY <1>1, <1>2, <1>3, <1>4, InitExact DEF RInv

\* No structure comes to life by a step that builds none.
LEMMA ChainFrame ==
  ASSUME StructuresFormChain, Alive' \subseteq Alive
  PROVE  StructuresFormChain'
BY DEF StructuresFormChain, Nested

\* A probe step that leaves what is shared alone.
LEMMA SharedFrame ==
  ASSUME Made, CacheExact, UNCHANGED <<kernel, shared>>
  PROVE  Made' /\ CacheExact' /\ UNCHANGED Programs
BY DEF Made, CacheExact, Sum, Totals, kernel, shared, Programs, Structures

LEMMA RequestRuns ==
  ASSUME RInv, NEW f \in Evaluators, NEW S, S \subseteq outputs, NEW p, Request(f, S, p)
  PROVE  RInv'
<1> DEFINE K == IF UsesGroups THEN GroupFor(S) ELSE S
<1>1. /\ UNCHANGED <<kernel, shared>> /\ K \subseteq outputs
      /\ want' = [want EXCEPT ![f] = S] /\ key' = [key EXCEPT ![f] = K]
      /\ held' = [held EXCEPT ![f] = IF K = outputs THEN BaseProgram ELSE Null]
      /\ pc' = [pc EXCEPT ![f] = IF K = outputs THEN "execute" ELSE "lookup"]
  BY DEF Request, GroupFor, Grouped
<1> HIDE DEF K
<1>2. Made' /\ CacheExact' /\ UNCHANGED Programs
  BY <1>1, SharedFrame DEF RInv
<1>3. BaseProgram \in Programs /\ BaseProgram.structure = Null
  BY DEF RInv, Made, Programs, BaseProgram
<1>4. ASSUME NEW e \in Evaluators PROVE Holds(e)'
  <2>1. CASE e = f
    BY <1>1, <1>2, <1>3, <2>1 DEF RInv, IInv, Locals, Holds, kernel
  <2>2. CASE e # f
    BY <1>1, <1>2, <2>2 DEF RInv, IInv, Locals, Holds, kernel
  <2> QED BY <2>1, <2>2
<1>5. Alive' \subseteq Alive
  <2>1. ASSUME NEW s \in Alive' PROVE s \in Alive
    <3>1. s \in structures /\ s # Null
      BY <1>1, <2>1, NullIsNone DEF Alive, RInv, Made, shared
    <3>2. ASSUME NEW e \in Evaluators, held'[e] # Null, held'[e].structure = s
          PROVE  held[e] # Null /\ held[e].structure = s
      BY <1>1, <1>3, <3>1, <3>2 DEF RInv, IInv, Locals
    <3> QED BY <1>1, <2>1, <3>1, <3>2 DEF Alive, shared
  <2> QED BY <2>1
<1> QED BY <1>2, <1>4, <1>5, ChainFrame, RequestExact DEF RInv

\* A probe takes a program that is published: its structure is alive already.
LEMMA TakeRuns ==
  ASSUME RInv, NEW f \in Evaluators, pc[f] \in {"lookup", "build"},
         UNCHANGED <<kernel, shared, want, key>>,
         held' = [held EXCEPT ![f] = Lookup(key[f])],
         pc' = [pc EXCEPT ![f] = IF Lookup(key[f]) = Null THEN "build" ELSE "execute"],
         IInv'
  PROVE  RInv'
<1>1. Made' /\ CacheExact' /\ UNCHANGED Programs
  BY SharedFrame DEF RInv
<1>2. Lookup(key[f]) \in Programs \cup {Null}
  BY LookupMade DEF RInv
<1>3. ASSUME NEW e \in Evaluators PROVE Holds(e)'
  <2>1. CASE e = f
    BY <1>1, <1>2, <2>1 DEF RInv, IInv, Locals, Holds, kernel
  <2>2. CASE e # f
    BY <1>1, <2>2 DEF RInv, IInv, Locals, Holds, kernel
  <2> QED BY <2>1, <2>2
<1>4. ASSUME NEW s \in Alive' PROVE s \in Alive
  <2>1. s \in structures /\ s # Null
    BY <1>4, NullIsNone DEF Alive, RInv, Made, shared
  <2>2. ASSUME NEW e \in Evaluators, held'[e] # Null, held'[e].structure = s
        PROVE  \/ held[e] # Null /\ held[e].structure = s
               \/ published # Null /\ published.structure = s
    <3>1. CASE e # f
      BY <2>2, <3>1 DEF RInv, IInv, Locals
    <3>2. CASE e = f
      <4>1. Lookup(key[f]) # Null /\ Lookup(key[f]).structure = s
        BY <2>2, <3>2 DEF RInv, IInv, Locals
      <4>2. orientation = "master"
        BY <1>2, <2>1, <4>1 DEF Programs
      <4>3. policy # "TargetRowsCached"
        BY <4>2 DEF RInv, Made
      <4> QED BY <4>1, <4>3 DEF Lookup
    <3> QED BY <3>1, <3>2
  <2> QED BY <1>4, <2>1, <2>2 DEF Alive, shared
<1> QED BY <1>1, <1>3, <1>4, ChainFrame DEF RInv

\* A probe builds a program: the structures in the cache are one chain, and
\* those that are alive are among them.
LEMMA MakeRuns ==
  ASSUME RInv, NEW f \in Evaluators, Build(f), Recheck(key[f]) = Null, IInv'
  PROVE  RInv'
<1> DEFINE S == key[f]
<1>1. PICK b \in Bytes[S] :
        held' = [held EXCEPT ![f] = Program(S, b)] /\ Publish(Program(S, b))
  BY DEF Build
<1>2. /\ UNCHANGED <<kernel, want, key>> /\ pc' = [pc EXCEPT ![f] = "execute"]
      /\ structures' = IF NeedsStructure(S) THEN StructuresFor(S) ELSE structures
      /\ pc[f] = "build" /\ Lookup(S) = Null
  BY DEF Build, Recheck
<1>3. S \subseteq outputs /\ b \in Nat
  <2>1. S \subseteq outputs /\ outputs \subseteq AllOutputs
    BY <1>2 DEF RInv, Holds, Made
  <2> QED BY <1>1, <2>1, ReplayAssumption
<1> DEFINE v == Program(S, b)
<1>4. v \in Programs /\ v.outputs = S
  BY <1>3, ProgramMade DEF RInv, Program
<1>5. UNCHANGED Programs /\ UNCHANGED Structures
  BY <1>2 DEF kernel, Programs, Structures
<1>6. /\ published' \in Programs \cup {Null} /\ cache'.entries \in Seq(Programs)
      /\ orientation = "master" => cache'.entries = <<>>
      /\ CacheExact'
  BY <1>1, <1>2, <1>4, PublishMade DEF RInv
<1>7. structures' \subseteq Structures
  BY <1>2, <1>3, StructuresForMade DEF RInv, Made
<1>8. Made'
  BY <1>2, <1>5, <1>6, <1>7 DEF RInv, Made, kernel
<1>9. ASSUME NEW e \in Evaluators PROVE Holds(e)'
  <2>1. CASE e = f
    BY <1>1, <1>2, <1>3, <1>4, <1>5, <2>1 DEF RInv, IInv, Locals, Holds, kernel
  <2>2. CASE e # f
    BY <1>1, <1>2, <1>5, <2>2 DEF RInv, IInv, Locals, Holds, kernel
  <2> QED BY <2>1, <2>2
<1>10. StructuresFormChain'
  <2>1. CASE NeedsStructure(S)
    <3>1. Alive' \subseteq StructuresFor(S)
      BY <1>2, <2>1 DEF Alive
    <3> QED BY <1>3, <3>1, StructuresForMade DEF RInv, StructuresFormChain, Nested
  <2>2. CASE ~NeedsStructure(S)
    <3>1. v.structure = Null
      BY <2>2 DEF Program
    <3>2. published' = published \/ published' = v
      BY <1>1 DEF Publish
    <3>3. ASSUME NEW s \in Alive' PROVE s \in Alive
      <4>1. s \in structures /\ s # Null
        BY <1>2, <2>2, <3>3, NullIsNone DEF Alive, RInv, Made
      <4>2. ASSUME NEW e \in Evaluators, held'[e] # Null, held'[e].structure = s
            PROVE  held[e] # Null /\ held[e].structure = s
        BY <1>1, <3>1, <4>1, <4>2 DEF RInv, IInv, Locals
      <4> HIDE DEF v
      <4> QED BY <3>1, <3>2, <3>3, <4>1, <4>2 DEF Alive
    <3> QED BY <3>3, ChainFrame DEF RInv
  <2> QED BY <2>1, <2>2
<1> QED BY <1>6, <1>8, <1>9, <1>10 DEF RInv
\* A probe drops its program.
LEMMA DropRuns ==
  ASSUME RInv, NEW f \in Evaluators, Execute(f) \/ Return(f), IInv'
  PROVE  RInv'
<1>1. UNCHANGED <<kernel, shared>>
  BY DEF Execute, Return
<1>2. Made' /\ CacheExact' /\ UNCHANGED Programs
  BY <1>1, SharedFrame DEF RInv
<1>3. \A e \in Evaluators : held'[e] = held[e] \/ held'[e] = Null
  BY DEF Execute, Return, RInv, IInv, Locals
<1>4. ASSUME NEW e \in Evaluators PROVE Holds(e)'
  <2>1. CASE Execute(f)
    BY <1>1, <1>2, <2>1 DEF Execute, RInv, IInv, Locals, Holds, kernel
  <2>2. CASE Return(f)
    BY <1>1, <1>2, <2>2 DEF Return, RInv, IInv, Locals, Holds, kernel
  <2> QED BY <2>1, <2>2
<1>5. Alive' \subseteq Alive
  BY <1>1, <1>3 DEF Alive, shared
<1> QED BY <1>2, <1>4, <1>5, ChainFrame DEF RInv

\* With no program anywhere, none is stale.
LEMMA ForgetRuns ==
  ASSUME RInv, Quiet, UNCHANGED probe, published' = Null, cache' = NoCache,
         orientation' = orientation, refreshes' = refreshes,
         outputs' \subseteq AllOutputs, prime' \in Nat,
         structures' \subseteq Structures', orientation = "master" => policy' = "Exact"
  PROVE  Made' /\ CacheExact' /\ StructuresFormChain' /\ \A e \in Evaluators : Holds(e)'
<1>1. cache'.entries = <<>> /\ cache'.bytes = 0
  BY DEF NoCache
<1>2. Made'
  <2>1. <<>> \in Seq(Programs')
    OBVIOUS
  <2> QED BY <1>1, <2>1 DEF RInv, Made
<1>3. CacheExact'
  <2>1. Len(<<>>) = 0 /\ DOMAIN <<>> = {} /\ 0 <= CacheEntries /\ 0 <= CacheBudget
    BY ReplayAssumption
  <2>2. Sum(<<>>) = 0
    BY SumOfNone
  <2> QED BY <1>1, <2>1, <2>2 DEF CacheExact, Sum, Totals
<1>4. \A e \in Evaluators : held'[e] = Null /\ pc'[e] = "idle"
  BY DEF Quiet, probe, RInv, Holds
<1>5. Alive' = {}
  BY <1>4 DEF Alive
<1> QED BY <1>2, <1>3, <1>4, <1>5 DEF StructuresFormChain, Holds

LEMMA PrimeRuns ==
  ASSUME RInv, PrimeChanged
  PROVE  Made' /\ CacheExact' /\ StructuresFormChain' /\ \A e \in Evaluators : Holds(e)'
<1>1. /\ Quiet /\ prime' = prime + 1 /\ structures' = {}
      /\ UNCHANGED <<orientation, refreshes, outputs, policy, probe>>
  BY DEF PrimeChanged
<1>2. prime' \in Nat /\ Made /\ CacheExact
  BY <1>1 DEF RInv, Made
<1>3. CASE ~refreshes
  BY <1>1, <1>2, <1>3, ForgetRuns DEF PrimeChanged, Made
<1>4. CASE refreshes
  <2>1. published' \in Programs' \cup {Null}
    <3>1. CASE published = Null
      BY <1>4, <3>1 DEF PrimeChanged
    <3>2. CASE published # Null
      <4>1. PICK b \in Bytes[published.outputs] :
              published' = IF b <= CacheBudget THEN Refreshed(published, b) ELSE Null
        BY <1>4, <3>2 DEF PrimeChanged
      <4>2. published \in Programs
        BY <1>2, <3>2 DEF Made
      <4>3. b \in Nat
        BY <1>1, <1>2, <1>4, <4>1, <4>2, RefreshedMade, ReplayAssumption DEF Programs
      <4> QED BY <1>1, <1>2, <1>4, <4>1, <4>2, <4>3, RefreshedMade
    <3> QED BY <3>1, <3>2
  <2>2. PICK sizes \in SizesOf(cache.entries) : cache' = TakeOver(sizes)
    BY <1>4 DEF PrimeChanged
  <2>3. cache'.entries \in Seq(Programs') /\ CacheExact'
    BY <1>1, <1>2, <1>4, <2>2, TakeOverMade
  <2>4. orientation = "target"
    BY <1>2, <1>4 DEF Made
  <2>5. Made'
    BY <1>1, <1>2, <2>1, <2>3, <2>4 DEF Made
  <2>6. StructuresFormChain'
    BY <1>1 DEF StructuresFormChain, Alive
  <2>7. \A e \in Evaluators : held'[e] = Null /\ pc'[e] = "idle"
    BY <1>1 DEF Quiet, probe, RInv, Holds
  <2> QED BY <2>3, <2>5, <2>6, <2>7 DEF Holds
<1> QED BY <1>3, <1>4

LEMMA OwnerRuns ==
  ASSUME RInv, Owner
  PROVE  RInv'
<1>1. IInv'
  BY OwnerExact DEF RInv
<1>2. Made /\ structures \subseteq Structures /\ outputs \subseteq AllOutputs /\ prime \in Nat
  BY DEF RInv, Made
<1>3. CASE PrimeChanged
  BY <1>1, <1>3, PrimeRuns DEF RInv
<1>4. ASSUME NEW p, ConfigureTargetReplay(p) PROVE RInv'
  <2>1. UNCHANGED Structures
    BY <1>4 DEF ConfigureTargetReplay, Structures
  <2> QED BY <1>1, <1>2, <1>4, <2>1, ForgetRuns DEF ConfigureTargetReplay, PolicyFor, RInv
<1>5. ASSUME NEW g, ConfigureMasterReplay(g) PROVE RInv'
  <2>1. UNCHANGED Structures
    BY <1>5 DEF ConfigureMasterReplay, Structures
  <2> QED BY <1>1, <1>2, <1>5, <2>1, ForgetRuns DEF ConfigureMasterReplay, RInv
<1>6. ASSUME NEW S \in Requests \cap SUBSET outputs, RetainOutputs(S) PROVE RInv'
  <2>1. /\ orientation = "target" /\ outputs' \subseteq AllOutputs
        /\ published' = Null /\ cache' = NoCache /\ structures' = {}
        /\ Quiet /\ UNCHANGED <<orientation, refreshes, prime, policy, probe>>
    BY <1>2, <1>6 DEF RetainOutputs, DropCaches
  <2> QED BY <1>1, <1>2, <2>1, ForgetRuns DEF RInv
<1> QED BY <1>3, <1>4, <1>5, <1>6 DEF Owner

LEMMA StepRuns == RInv /\ [Next]_vars => RInv'
<1> SUFFICES ASSUME RInv, [Next]_vars PROVE RInv'
  OBVIOUS
<1>1. IInv'
  BY StepExact DEF RInv
<1>2. ASSUME NEW f \in Evaluators, NEW S \in Requests \cap SUBSET outputs,
             NEW p \in Points, Request(f, S, p)
      PROVE  RInv'
  BY <1>2, RequestRuns
<1>3. ASSUME NEW f \in Evaluators, LookupStep(f) PROVE RInv'
  BY <1>1, <1>3, TakeRuns DEF LookupStep
<1>4. ASSUME NEW f \in Evaluators, Build(f) PROVE RInv'
  <2>1. CASE Recheck(key[f]) = Null
    BY <1>1, <1>4, <2>1, MakeRuns
  <2>2. CASE Recheck(key[f]) # Null
    BY <1>1, <1>4, <2>2, TakeRuns DEF Build, Recheck
  <2> QED BY <2>1, <2>2
<1>5. ASSUME NEW f \in Evaluators, Execute(f) \/ Return(f) PROVE RInv'
  BY <1>1, <1>5, DropRuns
<1>6. CASE Owner
  BY <1>6, OwnerRuns
<1>7. CASE UNCHANGED vars
  <2>1. UNCHANGED <<kernel, shared>> /\ UNCHANGED <<pc, want, key, held>>
    BY <1>7 DEF vars, probe
  <2>2. Made' /\ CacheExact' /\ UNCHANGED Programs
    BY <2>1, SharedFrame DEF RInv
  <2>3. \A e \in Evaluators : Holds(e)'
    BY <2>1, <2>2 DEF RInv, Holds, kernel
  <2>4. Alive' \subseteq Alive
    BY <2>1 DEF Alive, shared
  <2> QED BY <1>1, <2>2, <2>3, <2>4, ChainFrame DEF RInv
<1> QED BY <1>2, <1>3, <1>4, <1>5, <1>6, <1>7 DEF Next, EvaluatorStep

LEMMA RunsInvariant == Spec => []RInv
BY InitRuns, StepRuns, PTL DEF Spec

\* No program of an earlier prime, kernel or policy is ever run, and each
\* computes what the probe asked for: what prime_changed, configure_* and
\* retain_outputs drop, and what prime_changed takes over, suffices.
THEOREM ProgramsAreCurrent == Spec => []RunsCurrentProgram
<1>1. RInv => RunsCurrentProgram
  <2> SUFFICES ASSUME RInv, NEW e \in Evaluators, pc[e] = "execute"
               PROVE  /\ Current(held[e])
                      /\ held[e].outputs = key[e]
                      /\ want[e] \subseteq key[e]
    BY DEF RunsCurrentProgram
  <2>1. held[e] \in Programs
    BY DEF RInv, Holds
  <2>2. Current(held[e])
    BY <2>1 DEF Current, Programs, Structures
  <2> QED BY <2>2 DEF RInv, IInv, KeyServes, HoldsKey
<1> QED BY <1>1, RunsInvariant, PTL

\* The cache of cached_replay_variant never holds two programs for the same
\* outputs, never too many, and counts its bytes exactly: the differences of
\* the eviction loop and of prime_changed do not wrap.
THEOREM CacheIsExact == Spec => []CacheExact
<1>1. RInv => CacheExact
  BY DEF RInv
<1> QED BY <1>1, RunsInvariant, PTL

\* The structures that build_replay_variant shares are always one chain.
THEOREM StructuresAreOneChain == Spec => []StructuresFormChain
<1>1. RInv => StructuresFormChain
  BY DEF RInv
<1> QED BY <1>1, RunsInvariant, PTL
=============================================================================
