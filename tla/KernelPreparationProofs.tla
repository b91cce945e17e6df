----------------------- MODULE KernelPreparationProofs -----------------------
(***************************************************************************)
(* That a structure rejected at one anchor is accepted at none, for any    *)
(* limits, structures and outputs.  The argument: every rejection leaves a *)
(* refutation in what was answered (Refuted), answers are only added, and  *)
(* the points an accepted structure passed are the same ones, whoever      *)
(* walks the stream, so that a refutation would be among them.             *)
(***************************************************************************)
EXTENDS KernelPreparation, FiniteSetTheorems, TLAPS

Ends == 0 .. PointAttempts

\* The valid points of structure r and prime p before point e, by the answers f.
ValidBefore(f, r, p, e) ==
  {i \in Points : i < e /\ <<r, p, i>> \in DOMAIN f /\ f[<<r, p, i>>].kind = "valid"}

\* The stream was walked up to e without a residual.
Walked(f, r, p, e) ==
  \A i \in Points : i < e => <<r, p, i>> \in DOMAIN f /\ f[<<r, p, i>>] # Residual

\* The stream was walked to its full number of valid points, which are Q.
Passed(f, r, p, Q) ==
  \E e \in Ends : /\ Walked(f, r, p, e) /\ Q = ValidBefore(f, r, p, e)
                  /\ Cardinality(Q) = PointsPerPrime

At(S, p) == {q \in Points : <<p, q>> \in S}
PassedBoth(f, r, S) == \A p \in Primes : Passed(f, r, p, At(S, p))

\* The stream ended, or met a residual, before it had enough valid points.
Failed(f, r) ==
  \E p \in Primes, e \in Ends :
    /\ Walked(f, r, p, e) /\ Cardinality(ValidBefore(f, r, p, e)) < PointsPerPrime
    /\ e = PointAttempts \/ (<<r, p, e>> \in DOMAIN f /\ f[<<r, p, e>>] = Residual)

SeenAt(f, r, S) == UNION {f[<<r, s[1], s[2]>>].nonzero : s \in S}

\* The replay disagreed at one of the samples.
Disagreed(f, g, r) ==
  \E S \in SUBSET (Primes \X Points) :
    /\ PassedBoth(f, r, S) /\ SeenAt(f, r, S) # {}
    /\ \E s \in S : <<r, s>> \in DOMAIN g /\ g[<<r, s>>] = "differs"

Refuted(f, g, r) == Failed(f, r) \/ Disagreed(f, g, r)

\* f1 answers what f answers.
Grows(f, f1) == \A k \in DOMAIN f : k \in DOMAIN f1 /\ f1[k] = f[k]
-----------------------------------------------------------------------------
LEMMA PointsFinite == IsFiniteSet(Points)
BY FS_Interval, KernelPreparationAssumption DEF Points

LEMMA ValidFinite ==
  ASSUME NEW f, NEW r, NEW p, NEW e
  PROVE  /\ IsFiniteSet(ValidBefore(f, r, p, e))
         /\ Cardinality(ValidBefore(f, r, p, e)) \in Nat
<1>1. ValidBefore(f, r, p, e) \in SUBSET Points
  BY DEF ValidBefore
<1>2. IsFiniteSet(ValidBefore(f, r, p, e))
  BY <1>1, PointsFinite, FS_Subset
<1>3. QED
  BY <1>2, FS_CardinalityType

\* More points, more valid ones.
LEMMA ValidMonotone ==
  ASSUME NEW f, NEW r, NEW p, NEW e1 \in Ends, NEW e2 \in Ends, e1 <= e2
  PROVE  /\ ValidBefore(f, r, p, e1) \subseteq ValidBefore(f, r, p, e2)
         /\ Cardinality(ValidBefore(f, r, p, e1)) <= Cardinality(ValidBefore(f, r, p, e2))
<1>1. ValidBefore(f, r, p, e1) \in SUBSET ValidBefore(f, r, p, e2)
  BY KernelPreparationAssumption DEF ValidBefore, Ends, Points
<1>2. QED
  BY <1>1, ValidFinite, FS_Subset

\* Whoever walks a stream to the full number of valid points finds the same ones.
LEMMA PassedOnce ==
  ASSUME NEW f, NEW r, NEW p, NEW Q1, NEW Q2, Passed(f, r, p, Q1), Passed(f, r, p, Q2)
  PROVE  Q1 = Q2
<1>1. PICK e1 \in Ends : Q1 = ValidBefore(f, r, p, e1) /\ Cardinality(Q1) = PointsPerPrime
  BY DEF Passed
<1>2. PICK e2 \in Ends : Q2 = ValidBefore(f, r, p, e2) /\ Cardinality(Q2) = PointsPerPrime
  BY DEF Passed
<1>3. IsFiniteSet(Q1) /\ IsFiniteSet(Q2)
  BY <1>1, <1>2, ValidFinite
<1>4. e1 <= e2 \/ e2 <= e1
  BY KernelPreparationAssumption DEF Ends
<1>5. Q1 \in SUBSET Q2 \/ Q2 \in SUBSET Q1
  BY <1>1, <1>2, <1>4, ValidMonotone
<1>6. QED
  BY <1>1, <1>2, <1>3, <1>5, FS_Subset

\* A stream that is passed at every prime is not failed.
LEMMA PassedNotFailed ==
  ASSUME NEW f, NEW r, NEW S, PassedBoth(f, r, S)
  PROVE  ~Failed(f, r)
<1> SUFFICES ASSUME Failed(f, r) PROVE FALSE
  OBVIOUS
<1>1. PICK p \in Primes, e \in Ends :
        /\ Walked(f, r, p, e) /\ Cardinality(ValidBefore(f, r, p, e)) < PointsPerPrime
        /\ e = PointAttempts \/ (<<r, p, e>> \in DOMAIN f /\ f[<<r, p, e>>] = Residual)
  BY DEF Failed
<1>2. PICK e1 \in Ends :
        /\ Walked(f, r, p, e1)
        /\ Cardinality(ValidBefore(f, r, p, e1)) = PointsPerPrime
  BY <1>1 DEF PassedBoth, Passed
<1>3. e < e1
  <2>1. CASE e1 <= e
    <3>1. Cardinality(ValidBefore(f, r, p, e1)) <= Cardinality(ValidBefore(f, r, p, e))
      BY <2>1, ValidMonotone
    <3>2. QED
      BY <3>1, <1>1, <1>2, ValidFinite, KernelPreparationAssumption
  <2>2. QED
    BY <2>1, KernelPreparationAssumption DEF Ends
<1>4. e # PointAttempts /\ e \in Points
  BY <1>3, KernelPreparationAssumption DEF Ends, Points
<1>5. f[<<r, p, e>>] # Residual
  BY <1>2, <1>3, <1>4 DEF Walked
<1>6. QED
  BY <1>1, <1>4, <1>5

\* Learning an answer keeps the ones there are.
LEMMA LearnGrows ==
  ASSUME NEW f, NEW k, NEW v, Known(f, k) \subseteq {v}
  PROVE  /\ Grows(f, Learn(f, k, v))
         /\ DOMAIN Learn(f, k, v) = DOMAIN f \cup {k} /\ Learn(f, k, v)[k] = v
BY DEF Known, Learn, Grows

LEMMA LearnTypes ==
  ASSUME NEW D, NEW R, NEW f, DOMAIN f \subseteq D, \A key \in DOMAIN f : f[key] \in R,
         NEW k \in D, NEW v \in R
  PROVE  /\ DOMAIN Learn(f, k, v) \subseteq D
         /\ \A key \in DOMAIN Learn(f, k, v) : Learn(f, k, v)[key] \in R
BY DEF Learn

LEMMA WalkedGrows ==
  ASSUME NEW f, NEW f1, Grows(f, f1), NEW r, NEW p, NEW e \in Ends, Walked(f, r, p, e)
  PROVE  Walked(f1, r, p, e) /\ ValidBefore(f1, r, p, e) = ValidBefore(f, r, p, e)
BY DEF Grows, Walked, ValidBefore

LEMMA PassedGrows ==
  ASSUME NEW f, NEW f1, Grows(f, f1), NEW r, NEW S, PassedBoth(f, r, S)
  PROVE  PassedBoth(f1, r, S)
<1> SUFFICES ASSUME NEW p \in Primes PROVE Passed(f1, r, p, At(S, p))
  BY DEF PassedBoth
<1>1. PICK e \in Ends : /\ Walked(f, r, p, e) /\ At(S, p) = ValidBefore(f, r, p, e)
                        /\ Cardinality(At(S, p)) = PointsPerPrime
  BY DEF PassedBoth, Passed
<1>2. QED
  BY <1>1, WalkedGrows DEF Passed

LEMMA FailedGrows ==
  ASSUME NEW f, NEW f1, Grows(f, f1), NEW r, Failed(f, r)
  PROVE  Failed(f1, r)
<1>1. PICK p \in Primes, e \in Ends :
        /\ Walked(f, r, p, e) /\ Cardinality(ValidBefore(f, r, p, e)) < PointsPerPrime
        /\ e = PointAttempts \/ (<<r, p, e>> \in DOMAIN f /\ f[<<r, p, e>>] = Residual)
  BY DEF Failed
<1>2. Walked(f1, r, p, e) /\ ValidBefore(f1, r, p, e) = ValidBefore(f, r, p, e)
  BY <1>1, WalkedGrows
<1>3. e = PointAttempts \/ (<<r, p, e>> \in DOMAIN f1 /\ f1[<<r, p, e>>] = Residual)
  BY <1>1 DEF Grows
<1>4. QED
  BY <1>1, <1>2, <1>3 DEF Failed

\* A sample that was passed has been answered, and goes on being answered so.
LEMMA SamplesAnswered ==
  ASSUME NEW f, NEW r, NEW S \in SUBSET (Primes \X Points), PassedBoth(f, r, S), NEW s \in S
  PROVE  <<r, s[1], s[2]>> \in DOMAIN f
<1>1. s[1] \in Primes /\ s[2] \in At(S, s[1])
  BY DEF At
<1>2. PICK e \in Ends : At(S, s[1]) = ValidBefore(f, r, s[1], e)
  BY <1>1 DEF PassedBoth, Passed
<1>3. QED
  BY <1>1, <1>2 DEF ValidBefore

LEMMA SeenGrows ==
  ASSUME NEW f, NEW f1, Grows(f, f1), NEW r, NEW S,
         \A s \in S : <<r, s[1], s[2]>> \in DOMAIN f
  PROVE  SeenAt(f1, r, S) = SeenAt(f, r, S)
<1>1. \A s \in S : f1[<<r, s[1], s[2]>>] = f[<<r, s[1], s[2]>>]
  BY DEF Grows
<1>2. {f1[<<r, s[1], s[2]>>].nonzero : s \in S} = {f[<<r, s[1], s[2]>>].nonzero : s \in S}
  BY <1>1
<1>3. QED
  BY <1>2 DEF SeenAt

LEMMA SeenJoins ==
  ASSUME NEW f, NEW r, NEW S, NEW p, NEW q
  PROVE  SeenAt(f, r, S \cup {<<p, q>>}) = SeenAt(f, r, S) \cup f[<<r, p, q>>].nonzero
<1> DEFINE N(s) == f[<<r, s[1], s[2]>>].nonzero
<1>1. N(<<p, q>>) = f[<<r, p, q>>].nonzero
  OBVIOUS
<1>2. SeenAt(f, r, S \cup {<<p, q>>}) = UNION {N(s) : s \in S \cup {<<p, q>>}}
  BY DEF SeenAt
<1>3. SeenAt(f, r, S) = UNION {N(s) : s \in S}
  BY DEF SeenAt
<1> HIDE DEF N
<1>4. {N(s) : s \in S \cup {<<p, q>>}} = {N(s) : s \in S} \cup {N(<<p, q>>)}
  OBVIOUS
<1>5. QED
  BY <1>1, <1>2, <1>3, <1>4

LEMMA DisagreedGrows ==
  ASSUME NEW f, NEW f1, Grows(f, f1), NEW g, NEW g1, Grows(g, g1), NEW r, Disagreed(f, g, r)
  PROVE  Disagreed(f1, g1, r)
<1>1. PICK S \in SUBSET (Primes \X Points) :
        /\ PassedBoth(f, r, S) /\ SeenAt(f, r, S) # {}
        /\ \E s \in S : <<r, s>> \in DOMAIN g /\ g[<<r, s>>] = "differs"
  BY DEF Disagreed
<1>2. PassedBoth(f1, r, S)
  BY <1>1, PassedGrows
<1>3. SeenAt(f1, r, S) = SeenAt(f, r, S)
  BY <1>1, SamplesAnswered, SeenGrows
<1>4. \E s \in S : <<r, s>> \in DOMAIN g1 /\ g1[<<r, s>>] = "differs"
  BY <1>1 DEF Grows
<1>5. QED
  BY <1>1, <1>2, <1>3, <1>4 DEF Disagreed

LEMMA RefutedGrows ==
  ASSUME NEW f, NEW f1, Grows(f, f1), NEW g, NEW g1, Grows(g, g1), NEW r, Refuted(f, g, r)
  PROVE  Refuted(f1, g1, r)
BY FailedGrows, DisagreedGrows DEF Refuted
-----------------------------------------------------------------------------
\* Inside an attempt there is an anchor left, and after planning a structure.
Placed ==
  /\ at \in {"plan", "reference", "replay", "accept", "returned"} => attempt < AnchorAttempts
  /\ at \in {"reference", "replay", "accept", "returned"} => candidate \in Structures

TypeInv == TypeOK /\ Placed

LEMMA TypesInit == Init => TypeInv
BY KernelPreparationAssumption DEF Init, TypeInv, Placed, TypeOK, Primes

LEMMA TypesReference == TypeInv /\ Reference => TypeInv'
<1> SUFFICES ASSUME TypeInv, Reference PROVE TypeInv'
  OBVIOUS
<1> USE KernelPreparationAssumption DEF TypeInv, Placed, TypeOK, Primes, Points
<1>1. PICK outcome \in Outcomes :
        Ask(outcome) /\ (ValidPoint(outcome) \/ RejectedPoint(outcome) \/ ResidualPoint(outcome))
  BY DEF Reference
<1>2. /\ UNCHANGED <<candidate, loaders, replayed, replayFacts>>
      /\ point \in Points /\ at = "reference" /\ candidate \in Structures
  BY DEF Reference
<1>3. /\ DOMAIN facts' \subseteq Structures \X Primes \X Points
      /\ \A key \in DOMAIN facts' : facts'[key] \in Outcomes
  <2>1. facts' = Learn(facts, Key, outcome)
    BY <1>1 DEF Ask
  <2>2. Key \in Structures \X Primes \X Points
    BY <1>2 DEF Key, PointAt
  <2>3. DOMAIN facts \subseteq Structures \X Primes \X Points
    OBVIOUS
  <2>4. \A key \in DOMAIN facts : facts[key] \in Outcomes
    OBVIOUS
  <2> HIDE DEF TypeInv, Placed, TypeOK, Primes, Points
  <2>5. QED
    BY <2>1, <2>2, <2>3, <2>4, LearnTypes
<1>4. outcome.nonzero \subseteq Outputs
  BY <1>1 DEF Outcomes, Answers, NoPoint, Residual
<1>5. CASE ValidPoint(outcome)
  BY <1>2, <1>3, <1>4, <1>5 DEF ValidPoint, PointAt
<1>6. CASE RejectedPoint(outcome)
  BY <1>2, <1>3, <1>6 DEF RejectedPoint
<1>7. CASE ResidualPoint(outcome)
  BY <1>2, <1>3, <1>7 DEF ResidualPoint, Refuse, NextAnchor
<1>8. QED
  BY <1>1, <1>5, <1>6, <1>7

LEMMA TypesReplay == TypeInv /\ Replay => TypeInv'
<1> SUFFICES ASSUME TypeInv, Replay PROVE TypeInv'
  OBVIOUS
<1> USE KernelPreparationAssumption DEF TypeInv, Placed, TypeOK
<1>1. PICK s \in samples, verdict \in Verdicts :
        /\ replayFacts' = Learn(replayFacts, <<candidate, s>>, verdict)
        /\ PrimeChanged
        /\ \/ /\ verdict = "agrees" /\ prime' = s[1]
              /\ replayed' = replayed \cup {s} /\ UNCHANGED <<at, attempt, refused>>
           \/ verdict = "differs" /\ Refuse /\ UNCHANGED replayed
  BY DEF Replay
<1>2. /\ UNCHANGED <<candidate, point, samples, support, facts>>
      /\ at = "replay" /\ candidate \in Structures /\ s \in Primes \X Points
  BY DEF Replay
<1>3. /\ DOMAIN replayFacts' \subseteq Structures \X (Primes \X Points)
      /\ \A key \in DOMAIN replayFacts' : replayFacts'[key] \in Verdicts
  <2>1. <<candidate, s>> \in Structures \X (Primes \X Points)
    BY <1>2
  <2>2. DOMAIN replayFacts \subseteq Structures \X (Primes \X Points)
    OBVIOUS
  <2>3. \A key \in DOMAIN replayFacts : replayFacts[key] \in Verdicts
    OBVIOUS
  <2>4. replayFacts' = Learn(replayFacts, <<candidate, s>>, verdict)
    BY <1>1
  <2> HIDE DEF TypeInv, Placed, TypeOK
  <2>5. QED
    BY <2>1, <2>2, <2>3, <2>4, LearnTypes
<1>4. prime' \in Primes /\ loaders' \in Primes
  BY <1>1, <1>2 DEF Refuse, PrimeChanged, Primes
<1>5. QED
  BY <1>1, <1>2, <1>3, <1>4 DEF Refuse, NextAnchor

LEMMA TypesOther ==
  /\ TypeInv /\ (StartAnchor \/ Plan \/ OutOfPoints \/ ReferenceThrows \/ SecondPrime) => TypeInv'
  /\ TypeInv /\ (Finalize \/ ReplayThrows \/ Accept \/ Exhausted \/ UNCHANGED vars) => TypeInv'
<1> USE KernelPreparationAssumption DEF TypeInv, Placed, TypeOK, checking, oracle
<1>1. TypeInv /\ StartAnchor => TypeInv'
  BY DEF StartAnchor, Primes
<1>2. TypeInv /\ Plan => TypeInv'
  BY DEF Plan, NextAnchor, Throw
<1>3. TypeInv /\ OutOfPoints => TypeInv'
  BY DEF OutOfPoints, Refuse, NextAnchor, Primes
<1>4. TypeInv /\ ReferenceThrows => TypeInv'
  BY DEF ReferenceThrows, Throw, Primes
<1>5. TypeInv /\ SecondPrime => TypeInv'
  BY DEF SecondPrime, Primes
<1>6. TypeInv /\ Finalize => TypeInv'
  BY DEF Finalize, Primes
<1>7. TypeInv /\ ReplayThrows => TypeInv'
  BY DEF ReplayThrows, Throw, PrimeChanged, Primes
<1>8. TypeInv /\ Accept => TypeInv'
  BY DEF Accept, PrimeChanged, Primes
<1>9. TypeInv /\ (Exhausted \/ UNCHANGED vars) => TypeInv'
  BY DEF Exhausted, Throw, vars
<1>10. QED
  BY <1>1, <1>2, <1>3, <1>4, <1>5, <1>6, <1>7, <1>8, <1>9

LEMMA TypesStep == TypeInv /\ [Next]_vars => TypeInv'
BY TypesReference, TypesReplay, TypesOther DEF Next, Step, Done

\* The types of the preparation: anchors and points stay within their limits, and
\* samples and answers are of structures, primes and points there are.
THEOREM TypeCorrect == Spec => []TypeOK
<1>1. TypeInv => TypeOK
  BY DEF TypeInv
<1>2. QED
  BY <1>1, TypesInit, TypesStep, PTL DEF Spec
-----------------------------------------------------------------------------
\* The invariant. The samples of the candidate are the valid points of the part of
\* the stream it has walked.
Walk ==
  at = "reference" =>
    /\ Walked(facts, candidate, prime, point)
    /\ At(samples, prime) = ValidBefore(facts, candidate, prime, point)
    /\ Cardinality(At(samples, prime)) <= PointsPerPrime
    /\ prime = 2 => Passed(facts, candidate, 1, At(samples, 1))
    /\ prime = 1 => At(samples, 2) = {}

Checked == {"replay", "accept", "returned"}
Passage == at \in Checked => PassedBoth(facts, candidate, samples)

\* The support is what was seen at the samples.
Seen ==
  at \in Checked \cup {"reference"} =>
    /\ \A s \in samples : <<candidate, s[1], s[2]>> \in DOMAIN facts
    /\ support = SeenAt(facts, candidate, samples)

\* The replay agreed at the samples it has been through, which are all in the end.
Replays ==
  /\ at \in Checked => \A s \in replayed : /\ <<candidate, s>> \in DOMAIN replayFacts
                                           /\ replayFacts[<<candidate, s>>] = "agrees"
  /\ at \in {"plan", "reference"} => replayed = {}
  /\ at = "plan" => samples = {} /\ support = {} /\ point = 0 /\ prime = 1
  /\ at = "replay" => support # {}
  /\ at = "accept" => support = {}
  /\ at = "returned" => support = {} \/ replayed = samples

Refutations == \A r \in refused : Refuted(facts, replayFacts, r)

Inv == TypeInv /\ Walk /\ Passage /\ Seen /\ Replays /\ Refutations

\* A refutation of the candidate would be among the points it passed.
LEMMA InvNoSecondChance == Inv => NoSecondChance
<1> SUFFICES ASSUME Inv, at \in {"accept", "returned"}, candidate \in refused
             PROVE  FALSE
  BY DEF NoSecondChance
<1>1. PassedBoth(facts, candidate, samples)
  BY DEF Inv, Passage, Checked
<1>2. Disagreed(facts, replayFacts, candidate)
  BY <1>1, PassedNotFailed DEF Inv, Refutations, Refuted
<1>3. PICK S \in SUBSET (Primes \X Points) :
        /\ PassedBoth(facts, candidate, S) /\ SeenAt(facts, candidate, S) # {}
        /\ \E s \in S : <<candidate, s>> \in DOMAIN replayFacts
                        /\ replayFacts[<<candidate, s>>] = "differs"
  BY <1>2 DEF Disagreed
<1>4. \A p \in Primes : At(S, p) = At(samples, p)
  BY <1>1, <1>3, PassedOnce DEF PassedBoth
<1>5. samples \in SUBSET (Primes \X Points)
  BY DEF Inv, TypeInv, TypeOK
<1>6. S = samples
  BY <1>3, <1>4, <1>5 DEF At
<1>7. support # {}
  BY <1>3, <1>6 DEF Inv, Seen, Checked
<1>8. replayed = samples
  BY <1>7 DEF Inv, Replays
<1>9. \A s \in samples : replayFacts[<<candidate, s>>] = "agrees"
  BY <1>8 DEF Inv, Replays, Checked
<1>10. QED
  BY <1>3, <1>6, <1>9

LEMMA InvInit == Init => Inv
BY TypesInit DEF Init, Inv, Walk, Passage, Seen, Replays, Refutations, Checked

\* What the refused are refuted by stays.
LEMMA RefutationsStay ==
  ASSUME Refutations, Grows(facts, facts'), Grows(replayFacts, replayFacts'),
         refused' = refused
  PROVE  Refutations'
BY RefutedGrows DEF Refutations

LEMMA RefutationsJoined ==
  ASSUME Refutations, Grows(facts, facts'), Grows(replayFacts, replayFacts'),
         refused' = refused \cup {candidate}, Refuted(facts', replayFacts', candidate)
  PROVE  Refutations'
BY RefutedGrows DEF Refutations

LEMMA SameGrows == \A f : Grows(f, f)
BY DEF Grows

\* A valid point: the stream is walked one point further, with one sample more.
LEMMA InvValidPoint ==
  ASSUME Inv, Reference, NEW outcome \in Outcomes, Ask(outcome), ValidPoint(outcome)
  PROVE  Inv'
<1> USE KernelPreparationAssumption DEF Primes
<1>1. /\ at = "reference" /\ at' = at /\ candidate' = candidate /\ prime' = prime
      /\ point' = point + 1 /\ point \in Points /\ prime \in Primes
      /\ UNCHANGED <<replayed, replayFacts, refused>>
      /\ samples' = samples \cup {<<prime, point>>}
      /\ support' = support \cup outcome.nonzero
  BY DEF Reference, ValidPoint, PointAt, Inv, TypeInv, TypeOK, Points
<1>2. /\ Grows(facts, facts') /\ facts'[<<candidate, prime, point>>] = outcome
      /\ DOMAIN facts' = DOMAIN facts \cup {<<candidate, prime, point>>}
  BY LearnGrows DEF Ask, Key, PointAt
<1>3. TypeInv'
  BY TypesReference DEF Inv
<1>4. Walk'
  <2>1. /\ Walked(facts', candidate, prime, point)
        /\ ValidBefore(facts', candidate, prime, point) = At(samples, prime)
    <3>1. point \in Ends /\ Walked(facts, candidate, prime, point)
      BY <1>1 DEF Inv, Walk, Ends, Points
    <3>2. QED
      BY <1>1, <1>2, <3>1, WalkedGrows DEF Inv, Walk
  <2>2. outcome # Residual /\ outcome.kind = "valid"
    BY DEF ValidPoint, Residual
  <2>3. Walked(facts', candidate, prime, point + 1)
    BY <1>1, <1>2, <2>1, <2>2 DEF Walked, Points
  <2>4. ValidBefore(facts', candidate, prime, point + 1)
          = ValidBefore(facts', candidate, prime, point) \cup {point}
    BY <1>1, <1>2, <2>2 DEF ValidBefore, Points
  <2>5. /\ At(samples', prime) = At(samples, prime) \cup {point}
        /\ \A p \in Primes : p # prime => At(samples', p) = At(samples, p)
    BY <1>1 DEF At
  <2>6. Cardinality(At(samples, prime)) < PointsPerPrime
    <3>1. At(samples, prime) = Taken(prime)
      BY DEF At, Taken
    <3>2. Cardinality(At(samples, prime)) # PointsPerPrime
      BY <3>1 DEF Reference, Complete
    <3>3. Cardinality(At(samples, prime)) \in Nat
      BY <2>1, ValidFinite
    <3>4. QED
      BY <1>1, <3>2, <3>3 DEF Inv, Walk
  <2>7. Cardinality(At(samples, prime) \cup {point}) <= PointsPerPrime
    <3>1. IsFiniteSet(At(samples, prime)) /\ Cardinality(At(samples, prime)) \in Nat
      BY <2>1, ValidFinite
    <3>2. Cardinality(At(samples, prime) \cup {point}) <= Cardinality(At(samples, prime)) + 1
      <4>1. Cardinality(At(samples, prime) \cup {point})
              = IF point \in At(samples, prime) THEN Cardinality(At(samples, prime))
                                                ELSE Cardinality(At(samples, prime)) + 1
        BY <3>1, FS_AddElement
      <4>2. QED
        BY <3>1, <4>1
    <3>3. Cardinality(At(samples, prime) \cup {point}) \in Nat
      BY <3>1, FS_AddElement, FS_CardinalityType
    <3>4. QED
      BY <2>6, <3>1, <3>2, <3>3
  <2>8. prime = 2 => Passed(facts', candidate, 1, At(samples, 1))
    <3> SUFFICES ASSUME prime = 2 PROVE Passed(facts', candidate, 1, At(samples, 1))
      OBVIOUS
    <3>1. Passed(facts, candidate, 1, At(samples, 1))
      BY <1>1 DEF Inv, Walk
    <3>2. QED
      BY <3>1, <1>2, WalkedGrows DEF Passed
  <2>9. prime = 1 => At(samples, 2) = {}
    BY <1>1 DEF Inv, Walk
  <2>10. QED
    <3>1. Walked(facts', candidate', prime', point')
      BY <1>1, <2>3
    <3>2. At(samples', prime') = ValidBefore(facts', candidate', prime', point')
      BY <1>1, <2>1, <2>4, <2>5
    <3>3. Cardinality(At(samples', prime')) <= PointsPerPrime
      BY <1>1, <2>5, <2>7
    <3>4. prime' = 2 => Passed(facts', candidate', 1, At(samples', 1))
      BY <1>1, <2>5, <2>8
    <3>5. prime' = 1 => At(samples', 2) = {}
      BY <1>1, <2>5, <2>9
    <3>6. QED
      BY <3>1, <3>2, <3>3, <3>4, <3>5 DEF Walk
<1>5. Passage' /\ Replays'
  BY <1>1 DEF Passage, Replays, Checked, Inv
<1>6. Seen'
  <2>1. /\ \A s \in samples : <<candidate, s[1], s[2]>> \in DOMAIN facts
        /\ support = SeenAt(facts, candidate, samples)
    BY <1>1 DEF Inv, Seen
  <2>2. support = SeenAt(facts', candidate, samples)
    BY <1>2, <2>1, SeenGrows
  <2>3. SeenAt(facts', candidate, samples \cup {<<prime, point>>})
          = SeenAt(facts', candidate, samples) \cup facts'[<<candidate, prime, point>>].nonzero
    BY SeenJoins
  <2>4. \A s \in samples' : <<candidate, s[1], s[2]>> \in DOMAIN facts'
    BY <1>1, <1>2, <2>1
  <2>5. QED
    BY <1>1, <1>2, <2>2, <2>3, <2>4 DEF Seen
<1>7. Refutations'
  BY <1>1, <1>2, SameGrows, RefutationsStay DEF Inv
<1>8. QED
  BY <1>3, <1>4, <1>5, <1>6, <1>7 DEF Inv

\* A point without an answer: the stream is walked one point further, with no sample.
LEMMA InvRejectedPoint ==
  ASSUME Inv, Reference, NEW outcome \in Outcomes, Ask(outcome), RejectedPoint(outcome)
  PROVE  Inv'
<1> USE KernelPreparationAssumption DEF Primes
<1>1. /\ at = "reference" /\ at' = at /\ candidate' = candidate /\ prime' = prime
      /\ point' = point + 1 /\ point \in Points /\ prime \in Primes
      /\ UNCHANGED <<replayed, replayFacts, refused, samples, support>>
      /\ outcome = NoPoint
  BY DEF Reference, RejectedPoint, Inv, TypeInv, TypeOK, Points
<1>2. /\ Grows(facts, facts') /\ facts'[<<candidate, prime, point>>] = outcome
      /\ DOMAIN facts' = DOMAIN facts \cup {<<candidate, prime, point>>}
  BY LearnGrows DEF Ask, Key, PointAt
<1>3. TypeInv'
  BY TypesReference DEF Inv
<1>4. Walk'
  <2>1. /\ Walked(facts', candidate, prime, point)
        /\ ValidBefore(facts', candidate, prime, point) = At(samples, prime)
    <3>1. point \in Ends /\ Walked(facts, candidate, prime, point)
      BY <1>1 DEF Inv, Walk, Ends, Points
    <3>2. QED
      BY <1>1, <1>2, <3>1, WalkedGrows DEF Inv, Walk
  <2>2. outcome # Residual /\ outcome.kind # "valid"
    BY <1>1 DEF NoPoint, Residual
  <2>3. Walked(facts', candidate, prime, point + 1)
    BY <1>1, <1>2, <2>1, <2>2 DEF Walked, Points
  <2>4. ValidBefore(facts', candidate, prime, point + 1)
          = ValidBefore(facts', candidate, prime, point)
    BY <1>1, <1>2, <2>2 DEF ValidBefore, Points
  <2>5. prime = 2 => Passed(facts', candidate, 1, At(samples, 1))
    <3> SUFFICES ASSUME prime = 2 PROVE Passed(facts', candidate, 1, At(samples, 1))
      OBVIOUS
    <3>1. Passed(facts, candidate, 1, At(samples, 1))
      BY <1>1 DEF Inv, Walk
    <3>2. QED
      BY <3>1, <1>2, WalkedGrows DEF Passed
  <2>6. /\ Cardinality(At(samples, prime)) <= PointsPerPrime
        /\ prime = 1 => At(samples, 2) = {}
    BY <1>1 DEF Inv, Walk
  <2>7. Walked(facts', candidate', prime', point')
    BY <1>1, <2>3
  <2>8. At(samples', prime') = ValidBefore(facts', candidate', prime', point')
    BY <1>1, <2>1, <2>4
  <2>9. QED
    BY <1>1, <2>5, <2>6, <2>7, <2>8 DEF Walk
<1>5. Passage' /\ Replays'
  BY <1>1 DEF Passage, Replays, Checked, Inv
<1>6. Seen'
  <2>1. /\ \A s \in samples : <<candidate, s[1], s[2]>> \in DOMAIN facts
        /\ support = SeenAt(facts, candidate, samples)
    BY <1>1 DEF Inv, Seen
  <2>2. support = SeenAt(facts', candidate, samples)
    BY <1>2, <2>1, SeenGrows
  <2>3. \A s \in samples : <<candidate, s[1], s[2]>> \in DOMAIN facts'
    BY <1>2, <2>1
  <2>4. QED
    BY <1>1, <2>2, <2>3 DEF Seen
<1>7. Refutations'
  BY <1>1, <1>2, SameGrows, RefutationsStay DEF Inv
<1>8. QED
  BY <1>3, <1>4, <1>5, <1>6, <1>7 DEF Inv

\* The samples of the current prime are short of the number needed.
LEMMA TooFew ==
  ASSUME Inv, at = "reference", ~Complete(prime)
  PROVE  /\ Walked(facts, candidate, prime, point)
         /\ Cardinality(ValidBefore(facts, candidate, prime, point)) < PointsPerPrime
<1>1. At(samples, prime) = Taken(prime)
  BY DEF At, Taken
<1>2. /\ Cardinality(At(samples, prime)) # PointsPerPrime
      /\ Cardinality(At(samples, prime)) <= PointsPerPrime
      /\ At(samples, prime) = ValidBefore(facts, candidate, prime, point)
      /\ Walked(facts, candidate, prime, point)
  BY <1>1 DEF Complete, Inv, Walk
<1>3. Cardinality(ValidBefore(facts, candidate, prime, point)) \in Nat
  BY ValidFinite
<1>4. QED
  BY <1>2, <1>3, KernelPreparationAssumption

\* A residual refutes the candidate.
LEMMA InvResidualPoint ==
  ASSUME Inv, Reference, NEW outcome \in Outcomes, Ask(outcome), ResidualPoint(outcome)
  PROVE  Inv'
<1> USE KernelPreparationAssumption DEF Primes
<1>1. /\ at = "reference" /\ at' = "anchor" /\ point \in Points /\ prime \in Primes
      /\ ~Complete(prime) /\ replayFacts' = replayFacts
      /\ refused' = refused \cup {candidate} /\ outcome = Residual
  BY DEF Reference, ResidualPoint, Refuse, NextAnchor, Inv, TypeInv, TypeOK, Points
<1>2. /\ Grows(facts, facts') /\ facts'[<<candidate, prime, point>>] = outcome
      /\ DOMAIN facts' = DOMAIN facts \cup {<<candidate, prime, point>>}
  BY LearnGrows DEF Ask, Key, PointAt
<1>3. point \in Ends
  BY <1>1 DEF Points, Ends
<1>4. Walked(facts', candidate, prime, point)
      /\ Cardinality(ValidBefore(facts', candidate, prime, point)) < PointsPerPrime
  BY <1>1, <1>2, <1>3, TooFew, WalkedGrows
<1>5. Failed(facts', candidate)
  BY <1>1, <1>2, <1>3, <1>4 DEF Failed
<1>6. Refutations'
  BY <1>1, <1>2, <1>5, SameGrows, RefutationsJoined DEF Inv, Refuted
<1>7. TypeInv'
  BY TypesReference DEF Inv
<1>8. QED
  BY <1>1, <1>6, <1>7 DEF Inv, Walk, Passage, Seen, Replays, Checked

\* So do points that run out.
LEMMA InvOutOfPoints == Inv /\ OutOfPoints => Inv'
<1> SUFFICES ASSUME Inv, OutOfPoints PROVE Inv'
  OBVIOUS
<1>1. /\ at = "reference" /\ at' = "anchor" /\ point = PointAttempts /\ prime \in Primes
      /\ ~Complete(prime) /\ UNCHANGED <<facts, replayFacts>>
      /\ refused' = refused \cup {candidate}
  BY DEF OutOfPoints, Refuse, NextAnchor, oracle, Inv, TypeInv, TypeOK
<1>2. point \in Ends
  BY <1>1, KernelPreparationAssumption DEF Ends
<1>3. Failed(facts, candidate)
  BY <1>1, <1>2, TooFew DEF Failed
<1>4. Refuted(facts', replayFacts', candidate)
  BY <1>1, <1>3 DEF Refuted
<1>5. Refutations'
  BY <1>1, <1>4, SameGrows, RefutationsJoined DEF Inv
<1>6. TypeInv'
  BY TypesOther DEF Inv
<1>7. QED
  BY <1>1, <1>5, <1>6 DEF Inv, Walk, Passage, Seen, Replays, Checked

\* A prime whose samples are complete is passed.
LEMMA CompletePasses ==
  ASSUME Inv, at = "reference", Complete(prime)
  PROVE  Passed(facts, candidate, prime, At(samples, prime))
<1>1. At(samples, prime) = Taken(prime)
  BY DEF At, Taken
<1>2. point \in Ends
  BY DEF Inv, TypeInv, TypeOK, Ends
<1>3. QED
  BY <1>1, <1>2 DEF Complete, Inv, Walk, Passed

LEMMA InvSecondPrime == Inv /\ SecondPrime => Inv'
<1> SUFFICES ASSUME Inv, SecondPrime PROVE Inv'
  OBVIOUS
<1> USE KernelPreparationAssumption DEF Primes
<1>1. /\ at = "reference" /\ at' = at /\ prime = 1 /\ Complete(1)
      /\ prime' = 2 /\ point' = 0 /\ candidate' = candidate
      /\ UNCHANGED <<samples, support, replayed, facts, replayFacts, refused>>
  BY DEF SecondPrime, oracle
<1>2. Passed(facts, candidate, 1, At(samples, 1))
  BY <1>1, CompletePasses
<1>3. At(samples, 2) = {}
  BY <1>1 DEF Inv, Walk
<1>4. Walked(facts, candidate, 2, 0) /\ ValidBefore(facts, candidate, 2, 0) = {}
  BY DEF Walked, ValidBefore, Points
<1>5. Cardinality({}) <= PointsPerPrime
  BY FS_EmptySet
<1>6. Walk'
  BY <1>1, <1>2, <1>3, <1>4, <1>5 DEF Walk
<1>7. TypeInv'
  BY TypesOther DEF Inv
<1>8. Passage' /\ Seen' /\ Replays' /\ Refutations'
  BY <1>1 DEF Inv, Passage, Seen, Replays, Refutations, Checked
<1>9. QED
  BY <1>6, <1>7, <1>8 DEF Inv

\* After the second prime the candidate has passed both.
LEMMA InvFinalize == Inv /\ Finalize => Inv'
<1> SUFFICES ASSUME Inv, Finalize PROVE Inv'
  OBVIOUS
<1>1. /\ at = "reference" /\ at' = (IF support = {} THEN "accept" ELSE "replay")
      /\ prime = 2 /\ Complete(2) /\ candidate' = candidate
      /\ UNCHANGED <<samples, support, replayed, facts, replayFacts, refused>>
  BY DEF Finalize, checking, oracle
<1>2. PassedBoth(facts, candidate, samples)
  BY <1>1, CompletePasses DEF Inv, Walk, PassedBoth, Primes
<1>3. TypeInv'
  BY TypesOther DEF Inv
<1>4. Passage' /\ Walk'
  BY <1>1, <1>2 DEF Passage, Walk
<1>5. Seen' /\ Replays' /\ Refutations'
  BY <1>1 DEF Inv, Seen, Replays, Refutations, Checked
<1>6. QED
  BY <1>3, <1>4, <1>5 DEF Inv

\* A replay that disagrees refutes the candidate: it passed, and saw an output.
LEMMA InvReplay == Inv /\ Replay => Inv'
<1> SUFFICES ASSUME Inv, Replay PROVE Inv'
  OBVIOUS
<1>1. PICK s \in samples, verdict \in Verdicts :
        /\ Known(replayFacts, <<candidate, s>>) \subseteq {verdict}
        /\ replayFacts' = Learn(replayFacts, <<candidate, s>>, verdict)
        /\ \/ /\ verdict = "agrees"
              /\ replayed' = replayed \cup {s} /\ UNCHANGED <<at, attempt, refused>>
           \/ verdict = "differs" /\ Refuse /\ UNCHANGED replayed
  BY DEF Replay
<1>2. at = "replay" /\ UNCHANGED <<candidate, samples, support, facts>>
  BY DEF Replay
<1>3. /\ Grows(replayFacts, replayFacts')
      /\ <<candidate, s>> \in DOMAIN replayFacts' /\ replayFacts'[<<candidate, s>>] = verdict
  <2>1. /\ Known(replayFacts, <<candidate, s>>) \subseteq {verdict}
        /\ replayFacts' = Learn(replayFacts, <<candidate, s>>, verdict)
    BY <1>1
  <2> DEFINE k == <<candidate, s>>
  <2> HIDE DEF k
  <2>2. Known(replayFacts, k) \subseteq {verdict}
    BY <2>1 DEF k
  <2>3. /\ Grows(replayFacts, Learn(replayFacts, k, verdict))
        /\ DOMAIN Learn(replayFacts, k, verdict) = DOMAIN replayFacts \cup {k}
        /\ Learn(replayFacts, k, verdict)[k] = verdict
    BY <2>2, LearnGrows
  <2>4. replayFacts' = Learn(replayFacts, k, verdict)
    BY <2>1 DEF k
  <2>5. /\ Grows(replayFacts, replayFacts')
        /\ k \in DOMAIN replayFacts' /\ replayFacts'[k] = verdict
    BY <2>3, <2>4
  <2>6. QED
    BY <2>5 DEF k
<1>4. TypeInv'
  BY TypesReplay DEF Inv
<1>5. CASE verdict = "agrees"
  <2>1. replayed' = replayed \cup {s} /\ at' = at /\ refused' = refused
    BY <1>1, <1>5
  <2>2. \A t \in replayed' : /\ <<candidate, t>> \in DOMAIN replayFacts'
                             /\ replayFacts'[<<candidate, t>>] = "agrees"
    BY <1>2, <1>3, <1>5, <2>1 DEF Inv, Replays, Checked, Grows
  <2>3. Replays'
    BY <1>2, <2>1, <2>2 DEF Inv, Replays
  <2>4. Refutations'
    BY <1>2, <1>3, <2>1, SameGrows, RefutationsStay DEF Inv
  <2>5. Walk' /\ Passage' /\ Seen'
    BY <1>2, <2>1 DEF Inv, Walk, Passage, Seen, Checked
  <2>6. QED
    BY <1>4, <2>3, <2>4, <2>5 DEF Inv
<1>6. CASE verdict = "differs"
  <2>1. at' = "anchor" /\ refused' = refused \cup {candidate}
    BY <1>1, <1>6 DEF Refuse, NextAnchor
  <2>2. /\ PassedBoth(facts, candidate, samples) /\ SeenAt(facts, candidate, samples) # {}
        /\ samples \in SUBSET (Primes \X Points)
    BY <1>2 DEF Inv, Passage, Seen, Replays, Checked, TypeInv, TypeOK
  <2>3. Disagreed(facts, replayFacts', candidate)
    BY <1>1, <1>3, <1>6, <2>2 DEF Disagreed
  <2>4. Refutations'
    BY <1>2, <1>3, <2>1, <2>3, SameGrows, RefutationsJoined DEF Inv, Refuted
  <2>5. QED
    BY <1>4, <2>1, <2>4 DEF Inv, Walk, Passage, Seen, Replays, Checked
<1>7. QED
  BY <1>5, <1>6 DEF Verdicts

LEMMA InvAccept == Inv /\ Accept => Inv'
<1> SUFFICES ASSUME Inv, Accept PROVE Inv'
  OBVIOUS
<1>1. /\ at = "accept" \/ (at = "replay" /\ replayed = samples)
      /\ at' = "returned" /\ candidate' = candidate
      /\ UNCHANGED <<samples, support, replayed, facts, replayFacts, refused>>
  BY DEF Accept, checking, oracle
<1>2. TypeInv'
  BY TypesOther DEF Inv
<1>3. QED
  BY <1>1, <1>2 DEF Inv, Walk, Passage, Seen, Replays, Refutations, Checked

\* Steps that leave the answers and the refused as they are, and the checks behind.
LEMMA InvOutside ==
  Inv /\ (StartAnchor \/ ReferenceThrows \/ ReplayThrows \/ Exhausted) => Inv'
<1> SUFFICES ASSUME Inv, StartAnchor \/ ReferenceThrows \/ ReplayThrows \/ Exhausted
             PROVE  Inv'
  OBVIOUS
<1>1. TypeInv'
  BY TypesOther DEF Inv
<1>2. /\ at' \in {"plan", "threw"} /\ UNCHANGED <<facts, replayFacts, refused>>
      /\ at' = "plan" => /\ samples' = {} /\ support' = {} /\ point' = 0 /\ prime' = 1
                         /\ replayed' = {}
  BY DEF StartAnchor, ReferenceThrows, ReplayThrows, Exhausted, Throw, oracle, checking
<1>3. Refutations'
  BY <1>2 DEF Inv, Refutations
<1>4. QED
  BY <1>1, <1>2, <1>3 DEF Inv, Walk, Passage, Seen, Replays, Checked

LEMMA InvPlan == Inv /\ Plan => Inv'
<1> SUFFICES ASSUME Inv, Plan PROVE Inv'
  OBVIOUS
<1>1. TypeInv'
  BY TypesOther DEF Inv
<1>2. /\ at = "plan" /\ at' \in {"reference", "anchor", "threw"}
      /\ UNCHANGED <<prime, point, samples, support, replayed, facts, replayFacts, refused>>
  BY DEF Plan, NextAnchor, Throw, checking, oracle
<1>3. samples = {} /\ support = {} /\ point = 0 /\ prime = 1 /\ replayed = {}
  BY <1>2 DEF Inv, Replays
<1>4. /\ \A p : At({}, p) = {}
      /\ \A r : Walked(facts, r, 1, 0) /\ ValidBefore(facts, r, 1, 0) = {}
                /\ SeenAt(facts, r, {}) = {}
  BY DEF At, Walked, ValidBefore, Points, SeenAt
<1>5. Cardinality({}) <= PointsPerPrime
  BY FS_EmptySet, KernelPreparationAssumption
<1>6. Walk'
  BY <1>2, <1>3, <1>4, <1>5 DEF Walk
<1>7. Seen'
  BY <1>2, <1>3, <1>4 DEF Seen, Checked
<1>8. QED
  BY <1>1, <1>2, <1>3, <1>6, <1>7 DEF Inv, Passage, Replays, Refutations, Checked

LEMMA InvStep == Inv /\ [Next]_vars => Inv'
<1> SUFFICES ASSUME Inv, [Next]_vars PROVE Inv'
  OBVIOUS
<1>1. CASE Reference
  BY <1>1, InvValidPoint, InvRejectedPoint, InvResidualPoint DEF Reference
<1>2. CASE UNCHANGED vars
  BY <1>2, TypesOther
  DEF Inv, Walk, Passage, Seen, Replays, Refutations, Checked, vars, checking, oracle
<1>3. QED
  BY <1>1, <1>2, InvOutOfPoints, InvSecondPrime, InvFinalize, InvReplay, InvAccept, InvOutside,
     InvPlan DEF Next, Step, Done

\* A structure that an anchor was rejected for, by a residual, by too few valid
\* points or by a replay that disagreed, is not accepted at another anchor.
THEOREM RejectionIsFinal == Spec => []NoSecondChance
BY InvInit, InvStep, InvNoSecondChance, PTL DEF Spec

\* The outputs an accepted kernel reconstructs are those it was seen nonzero at, on
\* the full number of points at both primes, and its replay agreed at each of them.
THEOREM SupportIsSeen == Spec => []SupportIsWhatWasSeen
<1>1. Inv => SupportIsWhatWasSeen
  <2> SUFFICES ASSUME Inv, at \in Checked PROVE SupportIsWhatWasSeen
    BY DEF SupportIsWhatWasSeen, Checked
  <2>1. \A p \in Primes : Complete(p)
    BY DEF Inv, Passage, PassedBoth, Passed, Complete, Taken, At
  <2>2. support = UNION {facts[<<candidate, s[1], s[2]>>].nonzero : s \in samples}
    BY DEF Inv, Seen, SeenAt
  <2>3. at = "returned" /\ support # {} =>
          \A s \in samples : replayFacts[<<candidate, s>>] = "agrees"
    BY DEF Inv, Replays, Checked
  <2>4. QED
    BY <2>1, <2>2, <2>3 DEF SupportIsWhatWasSeen
<1>2. QED
  BY <1>1, InvInit, InvStep, PTL DEF Spec

\* From the first replay on the loaders hold weights of the prime in use, and a
\* kernel is planned and handed over at the first prime.
THEOREM LoadersFollow == Spec => []LoadersFollowPrime
<1> DEFINE L == LoadersFollowPrime /\ (at = "accept" => prime = 1)
<1>1. Init => L
  BY DEF Init, LoadersFollowPrime
<1>2. L /\ [Next]_vars => L'
  <2> SUFFICES ASSUME L, [Next]_vars PROVE L'
    OBVIOUS
  <2> USE DEF LoadersFollowPrime
  <2>1. CASE StartAnchor \/ Plan \/ OutOfPoints \/ ReferenceThrows \/ SecondPrime \/ Finalize
    BY <2>1 DEF StartAnchor, Plan, NextAnchor, Throw, OutOfPoints, Refuse, ReferenceThrows,
                SecondPrime, Finalize
  <2>2. CASE Reference
    BY <2>2 DEF Reference, ValidPoint, RejectedPoint, ResidualPoint, Refuse, NextAnchor
  <2>3. CASE Replay
    BY <2>3 DEF Replay, Refuse, NextAnchor, PrimeChanged
  <2>4. CASE ReplayThrows \/ Accept \/ Exhausted \/ UNCHANGED vars
    BY <2>4 DEF ReplayThrows, Accept, Exhausted, Throw, PrimeChanged, vars
  <2>5. QED
    BY <2>1, <2>2, <2>3, <2>4 DEF Next, Step, Done
<1>3. QED
  BY <1>1, <1>2, PTL DEF Spec
=============================================================================
