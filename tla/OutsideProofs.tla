-------------------------- MODULE OutsideProofs --------------------------
(***************************************************************************)
(* Proofs about what the program has to do with what is outside of it:     *)
(* the counts it takes from Singular's answers (SectorCounts), the         *)
(* processes it asks (SingularProcess), the files of its runs (RunFiles)   *)
(* and the names of their logs (RunLog).  Each section is about a          *)
(* component of its own.                                                   *)
(***************************************************************************)
EXTENDS SectorCounts, SingularProcess, RunFiles, RunLog, SequenceTheorems, TLAPS

-----------------------------------------------------------------------------
(***************************************************************************)
(* The counts of SectorCounts are justified, for any family, any number of *)
(* threads and whatever Singular prints.  By itself the property says too  *)
(* little about the sectors of a round: the invariant adds that their      *)
(* attempts so far were all at odds, that the others have ended in one of  *)
(* the two ways, and that a batch that is gone has left its counts.        *)
(***************************************************************************)

Attempt == [Probes -> Outcomes \cup {None, Failed}]

CountTypes ==
  /\ inventory \subseteq Labelled
  /\ answers \in [inventory -> SUBSET Outcomes]
  /\ attempts \in [inventory -> Seq(Attempt)]
  /\ dimension \in [inventory -> Int]
  /\ pending \subseteq inventory
  /\ round \in 0 .. Rounds
  /\ counter \in {"idle", "rounds", "counting", "counted"}

\* Both probes have a count, and the sector is to be tried again.
AtOdds(counts) ==
  /\ \A p \in Probes : counts[p] \notin {None, Failed}
  /\ ~Agrees(counts)

\* All attempts of a sector but the last were at odds.
EarlierAtOdds(s) == \A k \in 1 .. Len(attempts[s]) - 1 : AtOdds(attempts[s][k])

\* A sector that is not tried again: settled, or given up.
CountEnded(s) ==
  /\ HasRun(s)
  /\ Len(attempts[s]) <= round
  /\ EarlierAtOdds(s)
  /\ IF Settled(s) THEN dimension[s] >= 0 /\ \A p \in Probes : Latest(s)[p] = dimension[s]
     ELSE HasError(Latest(s))

\* A sector that waits for a round.
Waiting(s) ==
  /\ Len(attempts[s]) = round
  /\ ~Settled(s)
  /\ EarlierAtOdds(s)
  /\ round > 0 => AtOdds(Latest(s))

\* A sector of the round that runs.
InRound(s) ==
  /\ round > 0
  /\ Len(attempts[s]) = round
  /\ ~Settled(s)
  /\ EarlierAtOdds(s)
  /\ \A p \in Probes :
       BatchOf(pending, TRUE, <<s, p>>) \notin batches => Latest(s)[p] # None

CountInv ==
  /\ CountTypes
  /\ counter = "idle" => inventory = {} /\ round = 0
  /\ counter \in {"rounds", "counted"} => \A s \in pending : Waiting(s)
  /\ counter = "counting" => \A s \in pending : InRound(s)
  /\ counter = "counted" => pending = {} \/ round = Rounds
  /\ \A s \in inventory \ pending : CountEnded(s)

\* The invariant is strong enough (SectorDimensionCounter.cpp:220-274).
LEMMA InvariantJustifies == CountInv => CountsJustified
<1> SUFFICES ASSUME CountInv PROVE CountsJustified
  OBVIOUS
<1> USE DEF CountInv, CountTypes
<1>1. ASSUME NEW s \in inventory PROVE s \in pending => ~Settled(s)
  BY <1>1 DEF Waiting, InRound
<1>2. ASSUME NEW s \in inventory PROVE EarlierAtOdds(s) /\ Len(attempts[s]) <= Rounds
  <2>1. CASE s \in pending
    <3>1. counter # "idle"
      BY <2>1
    <3>2. Waiting(s) \/ InRound(s)
      BY <2>1, <3>1
    <3>3. Len(attempts[s]) = round /\ EarlierAtOdds(s)
      BY <3>2 DEF Waiting, InRound
    <3>4. QED
      BY <3>3 DEF Rounds
  <2>2. CASE s \notin pending
    <3>1. Len(attempts[s]) \in Nat
      BY <1>2, LenProperties
    <3>2. QED
      BY <1>2, <2>2, <3>1 DEF CountEnded, Rounds
  <2>3. QED
    BY <2>1, <2>2
<1>3. SettledByBothPrimes
  BY <1>1 DEF SettledByBothPrimes, CountEnded
<1>4. RetriedForDisagreement
  BY <1>2 DEF RetriedForDisagreement, EarlierAtOdds, AtOdds
<1>5. GivenUpLate
  <2> SUFFICES ASSUME counter = "counted", NEW s \in inventory, ~Settled(s)
               PROVE  HasRun(s) /\ (HasError(Latest(s)) \/ Len(attempts[s]) = Rounds)
    BY DEF GivenUpLate
  <2>1. CASE s \notin pending
    BY <2>1 DEF CountEnded
  <2>2. CASE s \in pending
    <3>1. Len(attempts[s]) = Rounds
      BY <2>2 DEF Waiting
    <3>2. Len(<< >>) = 0
      OBVIOUS
    <3>3. attempts[s] # << >>
      BY <3>1, <3>2, 3 # 0 DEF Rounds
    <3>4. QED
      BY <3>1, <3>3 DEF HasRun
  <2>3. QED
    BY <2>1, <2>2
<1>6. QED
  BY <1>3, <1>4, <1>5 DEF CountsJustified

\* Before the call nothing is counted.
LEMMA CountStarts == CountInit => CountInv
BY DEF CountInit, CountInv, CountTypes, Rounds

\* A call with any sectors keeps the invariant: none of them has an attempt.
LEMMA StartKeepsInvariant ==
  ASSUME CountInv, StartSomeCount
  PROVE  CountInv'
<1>1. PICK sectors \in SUBSET Labelled :
        \E possible \in [sectors -> SUBSET Outcomes] : StartCount(sectors, possible)
  BY DEF StartSomeCount
<1>2. PICK possible \in [sectors -> SUBSET Outcomes] : StartCount(sectors, possible)
  BY <1>1
<1> USE DEF CountInv, CountTypes
<1>3. round' = 0 /\ inventory' = sectors /\ pending' = sectors /\ counter' = "rounds"
  BY <1>2 DEF StartCount
<1>4. attempts' \in [sectors -> Seq(Attempt)] /\ \A s \in sectors : attempts'[s] = << >>
  BY <1>2, EmptySeq DEF StartCount
<1>5. CountTypes'
  BY <1>2, <1>3, <1>4 DEF StartCount, None, Rounds
<1>6. ASSUME NEW s \in sectors PROVE Waiting(s)'
  <2>1. Len(attempts'[s]) = 0
    BY <1>4, <1>6, EmptySeq
  <2>2. dimension'[s] = None
    BY <1>2, <1>6 DEF StartCount
  <2>3. QED
    BY <1>3, <2>1, <2>2 DEF Waiting, Settled, EarlierAtOdds
<1>7. QED
  BY <1>3, <1>5, <1>6

\* A round gives every sector that waits one more attempt, without a count yet.
LEMMA RoundKeepsInvariant ==
  ASSUME CountInv, StartRound
  PROVE  CountInv'
<1> USE DEF CountInv, CountTypes
<1> DEFINE Fresh == [p \in Probes |-> None]
<1>1. /\ counter = "rounds" /\ counter' = "counting"
      /\ round' = round + 1 /\ round' \in 1 .. Rounds
      /\ UNCHANGED <<inventory, answers, dimension, pending>>
  BY DEF StartRound, Rounds
<1>2. Fresh \in Attempt
  BY DEF Attempt
<1>3. ASSUME NEW s \in inventory \ pending PROVE CountEnded(s)'
  <2>1. attempts'[s] = attempts[s]
    BY <1>3 DEF StartRound
  <2>2. CountEnded(s)
    BY <1>3
  <2>3. Len(attempts[s]) \in Nat
    BY <1>3, LenProperties
  <2>4. QED
    BY <1>1, <2>1, <2>2, <2>3 DEF CountEnded, HasRun, EarlierAtOdds, Settled, Latest
<1>4. ASSUME NEW s \in pending
      PROVE  /\ attempts'[s] = Append(attempts[s], Fresh)
             /\ attempts'[s] \in Seq(Attempt)
             /\ Len(attempts'[s]) = Len(attempts[s]) + 1
             /\ \A k \in 1 .. Len(attempts[s]) : attempts'[s][k] = attempts[s][k]
  <2>1. attempts'[s] = Append(attempts[s], Fresh)
    BY <1>4 DEF StartRound
  <2>2. attempts[s] \in Seq(Attempt)
    BY <1>4
  <2>3. QED
    BY <1>2, <2>1, <2>2, AppendProperties
<1>5. attempts' \in [inventory' -> Seq(Attempt)]
  <2>1. attempts' = [s \in inventory |-> IF s \in pending THEN Append(attempts[s], Fresh)
                                         ELSE attempts[s]]
    BY DEF StartRound
  <2>2. QED
    BY <1>1, <1>4, <2>1
<1>6. ASSUME NEW s \in pending PROVE InRound(s)'
  <2>1. Waiting(s)
    BY <1>1, <1>6
  <2>2. Len(attempts[s]) \in Nat
    BY <1>6, LenProperties
  <2>3. Len(attempts'[s]) = round'
    BY <1>1, <1>4, <1>6, <2>1 DEF Waiting
  <2>4. \A k \in 1 .. Len(attempts[s]) : AtOdds(attempts[s][k])
    <3>1. CASE round = 0
      BY <2>1, <3>1 DEF Waiting
    <3>2. CASE round > 0
      BY <2>1, <2>2, <3>2 DEF Waiting, EarlierAtOdds, Latest
    <3>3. QED
      BY <3>1, <3>2
  <2>5. EarlierAtOdds(s)'
    <3>1. SUFFICES ASSUME NEW k \in 1 .. Len(attempts'[s]) - 1 PROVE AtOdds(attempts'[s][k])
      BY DEF EarlierAtOdds, AtOdds, Agrees, HasError
    <3>2. k \in 1 .. Len(attempts[s])
      BY <1>4, <1>6, <2>2
    <3>3. attempts'[s][k] = attempts[s][k]
      BY <1>4, <1>6, <3>2
    <3>4. QED
      BY <2>4, <3>2, <3>3
  <2>6. ~Settled(s)'
    BY <1>1, <2>1 DEF Waiting, Settled
  <2>7. ASSUME NEW p \in Probes PROVE BatchOf(pending, TRUE, <<s, p>>) \in batches'
    BY <1>6, <2>7 DEF StartRound, SingularProbeBatches, Tasks
  <2>8. \A p \in Probes : BatchOf(pending', TRUE, <<s, p>>) \in batches'
    BY <1>1, <2>7
  <2>9. round' > 0
    BY <1>1 DEF Rounds
  <2>10. QED
    BY <2>3, <2>5, <2>6, <2>8, <2>9 DEF InRound
<1>7. CountTypes'
  BY <1>1, <1>5
<1>8. QED
  BY <1>1, <1>3, <1>6, <1>7

\* A batch writes only the last attempts of its own sectors, and all its counts or none.
LEMMA BatchKeepsInvariant ==
  ASSUME CountInv, NEW batch \in batches, CountBatch(batch)
  PROVE  CountInv'
<1> USE DEF CountInv, CountTypes
<1>1. /\ counter = "counting"
      /\ batches' = batches \ {batch}
      /\ UNCHANGED <<inventory, answers, dimension, pending, round, counter>>
  BY DEF CountBatch
<1>2. PICK answer \in [BatchTasks(batch) -> {Failed} \union UNION {answers[s] : s \in pending}] :
        IsBatchResult(batch, answer) /\ attempts' = WithAnswers(batch, answer)
  BY DEF CountBatch
<1> DEFINE Touched(s) == \E p \in Probes : <<s, p>> \in BatchTasks(batch)
           Filled(s) == [p \in Probes |-> IF <<s, p>> \in BatchTasks(batch)
                                           THEN answer[<<s, p>>] ELSE Latest(s)[p]]
<1>3. ASSUME NEW t \in BatchTasks(batch)
      PROVE  t[1] \in pending /\ answer[t] \in Outcomes \cup {Failed}
  <2>1. t[1] \in pending
    BY <1>3 DEF BatchTasks, TasksOf, Tasks
  <2>2. answer[t] = Failed \/ answer[t] \in answers[t[1]]
    BY <1>2, <1>3 DEF IsBatchResult
  <2>3. QED
    BY <2>1, <2>2
<1>4. ASSUME NEW s \in inventory, ~Touched(s) PROVE attempts'[s] = attempts[s]
  BY <1>2, <1>4 DEF WithAnswers
<1>5. ASSUME NEW s \in pending
      PROVE  /\ InRound(s)
             /\ Len(attempts[s]) \in 1 .. Len(attempts[s])
             /\ Latest(s) \in Attempt
  <2>1. InRound(s)
    BY <1>1, <1>5
  <2>2. Len(attempts[s]) \in 1 .. Len(attempts[s])
    BY <2>1 DEF InRound
  <2>3. QED
    BY <1>5, <2>1, <2>2, ElementOfSeq DEF Latest
<1>6. ASSUME NEW s \in pending, Touched(s)
      PROVE  /\ Filled(s) \in Attempt
             /\ attempts'[s] \in Seq(Attempt)
             /\ Len(attempts'[s]) = Len(attempts[s])
             /\ attempts'[s][Len(attempts[s])] = Filled(s)
             /\ \A k \in 1 .. Len(attempts[s]) - 1 : attempts'[s][k] = attempts[s][k]
  <2>1. Filled(s) \in Attempt
    <3>1. ASSUME NEW p \in Probes PROVE Filled(s)[p] \in Outcomes \cup {None, Failed}
      BY <1>3, <1>5, <1>6, <3>1 DEF Attempt
    <3>2. QED
      BY <3>1 DEF Attempt
  <2>2. attempts'[s] = [attempts[s] EXCEPT ![Len(attempts[s])] = Filled(s)]
    <3>1. attempts'[s] =
            [attempts[s] EXCEPT ![Len(attempts[s])] =
               [p \in Probes |-> IF <<s, p>> \in BatchTasks(batch)
                                  THEN answer[<<s, p>>]
                                  ELSE attempts[s][Len(attempts[s])][p]]]
      BY <1>2, <1>6 DEF WithAnswers
    <3>2. QED
      BY <3>1 DEF Latest
  <2>3. attempts[s] \in Seq(Attempt)
    BY <1>6
  <2> HIDE DEF Filled
  <2>4. QED
    BY <1>5, <1>6, <2>1, <2>2, <2>3, ExceptSeq
<1>7. attempts' \in [inventory' -> Seq(Attempt)]
  <2>1. DOMAIN attempts' = inventory /\ attempts' = [s \in inventory |-> attempts'[s]]
    BY <1>2 DEF WithAnswers
  <2>2. ASSUME NEW s \in inventory PROVE attempts'[s] \in Seq(Attempt)
    <3>1. CASE Touched(s)
      BY <1>3, <1>6, <3>1
    <3>2. CASE ~Touched(s)
      BY <1>4, <2>2, <3>2
    <3>3. QED
      BY <3>1, <3>2
  <2>3. QED
    BY <1>1, <2>1, <2>2
<1>8. ASSUME NEW s \in inventory \ pending PROVE CountEnded(s)'
  <2>1. ~Touched(s)
    BY <1>3, <1>8
  <2>2. attempts'[s] = attempts[s]
    BY <1>4, <1>8, <2>1
  <2>3. QED
    BY <1>1, <1>8, <2>2 DEF CountEnded, HasRun, EarlierAtOdds, Settled, Latest
<1>9. ASSUME NEW s \in pending PROVE InRound(s)'
  <2>1. CASE ~Touched(s)
    <3>1. attempts'[s] = attempts[s]
      BY <1>4, <1>9, <2>1
    <3>2. ASSUME NEW p \in Probes, BatchOf(pending, TRUE, <<s, p>>) \notin batches'
          PROVE  Latest(s)[p] # None
      <4>1. BatchOf(pending, TRUE, <<s, p>>) # batch
        BY <1>9, <2>1, <3>2 DEF BatchTasks, TasksOf, Tasks
      <4>2. QED
        BY <1>1, <1>5, <1>9, <3>2, <4>1 DEF InRound
    <3>3. \A p \in Probes : BatchOf(pending', TRUE, <<s, p>>) \notin batches'
                                => Latest(s)'[p] # None
      BY <1>1, <3>1, <3>2 DEF Latest
    <3>4. EarlierAtOdds(s)'
      BY <1>5, <1>9, <3>1 DEF InRound, EarlierAtOdds
    <3>5. QED
      BY <1>1, <1>5, <1>9, <3>1, <3>3, <3>4 DEF InRound, Settled
  <2>2. CASE Touched(s)
    <3> HIDE DEF Touched
    <3>1. /\ Len(attempts'[s]) = Len(attempts[s])
          /\ Latest(s)' = Filled(s)
      BY <1>6, <1>9, <2>2 DEF Latest
    <3>2. ASSUME NEW p \in Probes, BatchOf(pending, TRUE, <<s, p>>) \notin batches'
          PROVE  Filled(s)[p] # None
      <4>1. CASE <<s, p>> \in BatchTasks(batch)
        <5>1. answer[<<s, p>>] \in Outcomes \cup {Failed}
          BY <1>3, <4>1
        <5>2. None \notin Outcomes \cup {Failed}
          BY DEF None, Failed, Outcomes
        <5>3. QED
          BY <3>2, <4>1, <5>1, <5>2
      <4>2. CASE <<s, p>> \notin BatchTasks(batch)
        <5>1. BatchOf(pending, TRUE, <<s, p>>) # batch
          BY <1>9, <3>2, <4>2 DEF BatchTasks, TasksOf, Tasks
        <5>2. Latest(s)[p] # None
          BY <1>1, <1>5, <1>9, <3>2, <5>1 DEF InRound
        <5>3. QED
          BY <3>2, <4>2, <5>2
      <4>3. QED
        BY <4>1, <4>2
    <3> HIDE DEF Filled
    <3>3. \A p \in Probes : BatchOf(pending', TRUE, <<s, p>>) \notin batches'
                                => Latest(s)'[p] # None
      BY <1>1, <3>1, <3>2
    <3>4. EarlierAtOdds(s)'
      <4>1. SUFFICES ASSUME NEW k \in 1 .. Len(attempts'[s]) - 1 PROVE AtOdds(attempts'[s][k])
        BY DEF EarlierAtOdds, AtOdds, Agrees, HasError
      <4>2. attempts'[s][k] = attempts[s][k]
        BY <1>6, <1>9, <2>2, <3>1
      <4>3. QED
        BY <1>5, <1>9, <3>1, <4>2 DEF InRound, EarlierAtOdds
    <3>5. QED
      BY <1>1, <1>5, <1>9, <3>1, <3>3, <3>4 DEF InRound, Settled
  <2>3. QED
    BY <2>1, <2>2
<1>10. CountTypes'
  BY <1>1, <1>7
<1>11. QED
  BY <1>1, <1>8, <1>9, <1>10

\* At the end of a round, all batches gone, a sector of it is settled, given up or at odds.
LEMMA EndKeepsInvariant ==
  ASSUME CountInv, EndRound
  PROVE  CountInv'
<1> USE DEF CountInv, CountTypes
<1>1. /\ counter = "counting" /\ counter' = "rounds" /\ batches = {}
      /\ pending' = {s \in pending : Retried(Latest(s))}
      /\ UNCHANGED <<inventory, answers, attempts, round>>
  BY DEF EndRound
<1>2. \A s \in inventory :
        dimension'[s] = IF s \in pending /\ Agrees(Latest(s)) THEN Latest(s)[0] ELSE dimension[s]
  BY DEF EndRound
<1>3. ASSUME NEW s \in pending
      PROVE  /\ InRound(s)
             /\ attempts[s] # << >>
             /\ Latest(s) \in Attempt
             /\ \A p \in Probes : Latest(s)[p] # None
  <2>1. InRound(s)
    BY <1>1, <1>3
  <2>2. Len(attempts[s]) \in 1 .. Len(attempts[s])
    BY <2>1 DEF InRound
  <2>3. Latest(s) \in Attempt
    BY <1>3, <2>2, ElementOfSeq DEF Latest
  <2>4. attempts[s] # << >>
    BY <2>2
  <2>5. QED
    BY <1>1, <2>1, <2>3, <2>4 DEF InRound
<1>4. ASSUME NEW a \in Attempt, Agrees(a) PROVE a[0] \in Int /\ a[0] >= 0 /\ a[1] = a[0]
  BY <1>4 DEF Agrees, Attempt, Outcomes, None, Failed, Probes
<1>5. dimension' \in [inventory' -> Int]
  <2>1. dimension' = [s \in inventory |-> IF s \in pending /\ Agrees(Latest(s))
                                           THEN Latest(s)[0] ELSE dimension[s]]
    BY DEF EndRound
  <2>2. QED
    BY <1>1, <1>3, <1>4, <2>1
<1>6. ASSUME NEW s \in pending' PROVE Waiting(s)'
  <2>1. s \in pending /\ ~HasError(Latest(s)) /\ ~Agrees(Latest(s))
    BY <1>1, <1>6 DEF Retried
  <2>2. AtOdds(Latest(s))
    BY <1>3, <2>1 DEF AtOdds, HasError
  <2>3. dimension'[s] = dimension[s]
    BY <1>2, <2>1
  <2>4. InRound(s)
    BY <1>3, <2>1
  <2>5. Latest(s)' = Latest(s) /\ EarlierAtOdds(s)' = EarlierAtOdds(s)
    BY <1>1 DEF Latest, EarlierAtOdds
  <2>6. QED
    BY <1>1, <2>2, <2>3, <2>4, <2>5 DEF Waiting, InRound, Settled, AtOdds, Agrees, HasError
<1>7. ASSUME NEW s \in inventory \ pending' PROVE CountEnded(s)'
  <2>1. CASE s \notin pending
    BY <1>1, <1>2, <1>7, <2>1 DEF CountEnded, HasRun, EarlierAtOdds, Settled, Latest
  <2>2. CASE s \in pending
    <3>1. /\ InRound(s) /\ HasRun(s)' /\ Latest(s)' = Latest(s)
          /\ EarlierAtOdds(s)' /\ Len(attempts'[s]) <= round'
      BY <1>1, <1>3, <2>2 DEF HasRun, Latest, InRound, EarlierAtOdds
    <3>2. CASE Agrees(Latest(s))
      <4>1. dimension'[s] = Latest(s)[0]
        BY <1>2, <2>2, <3>2
      <4>2. Latest(s)[0] \in Int /\ Latest(s)[0] >= 0 /\ Latest(s)[1] = Latest(s)[0]
        BY <1>3, <1>4, <2>2, <3>2
      <4>3. Settled(s)'
        BY <4>1, <4>2 DEF Settled, None
      <4>4. \A p \in Probes : Latest(s)'[p] = dimension'[s]
        BY <3>1, <4>1, <4>2 DEF Probes
      <4>5. QED
        BY <3>1, <4>1, <4>2, <4>3, <4>4 DEF CountEnded
    <3>3. CASE ~Agrees(Latest(s))
      <4>1. HasError(Latest(s))
        BY <1>1, <1>7, <2>2, <3>3 DEF Retried
      <4>2. ~Settled(s)'
        BY <1>2, <2>2, <3>1, <3>3 DEF Settled, InRound
      <4>3. HasError(Latest(s)')
        BY <3>1, <4>1
      <4>4. QED
        BY <3>1, <4>2, <4>3 DEF CountEnded, HasError
    <3>4. QED
      BY <3>2, <3>3
  <2>3. QED
    BY <2>1, <2>2
<1>8. CountTypes'
  BY <1>1, <1>5
<1>9. QED
  BY <1>1, <1>6, <1>7, <1>8

\* The end of the call, and steps of others, change nothing of the counts.
LEMMA FinishKeepsInvariant ==
  ASSUME CountInv, FinishCount \/ UNCHANGED countVars
  PROVE  CountInv'
<1> USE DEF CountInv, CountTypes
<1>1. UNCHANGED <<inventory, answers, attempts, dimension, pending, batches, round>>
  BY DEF FinishCount, countVars
<1>2. /\ \A s : Waiting(s)' = Waiting(s)
      /\ \A s : InRound(s)' = InRound(s)
      /\ \A s : CountEnded(s)' = CountEnded(s)
  BY <1>1 DEF Waiting, InRound, CountEnded, HasRun, EarlierAtOdds, Settled, Latest, AtOdds,
              Agrees, HasError
<1>3. CASE FinishCount
  <2>1. counter = "rounds" /\ counter' = "counted" /\ (pending = {} \/ round = Rounds)
    BY <1>3 DEF FinishCount
  <2>2. QED
    BY <1>1, <1>2, <2>1
<1>4. CASE UNCHANGED countVars
  <2>1. counter' = counter
    BY <1>4 DEF countVars
  <2>2. QED
    BY <1>1, <1>2, <2>1
<1>5. QED
  BY <1>3, <1>4

\* The counts that a family ends with are justified: a settled sector was counted alike
\* at both primes in its last attempt, earlier attempts had counts at odds, and a sector
\* is given up only after a failed process or three rounds.
THEOREM CountsAreJustified == CountSpec => []CountsJustified
<1>1. CountInv /\ [StartSomeCount \/ CountNext]_countVars => CountInv'
  <2> SUFFICES ASSUME CountInv, [StartSomeCount \/ CountNext]_countVars PROVE CountInv'
    OBVIOUS
  <2>1. CASE StartSomeCount
    BY <2>1, StartKeepsInvariant
  <2>2. CASE StartRound
    BY <2>2, RoundKeepsInvariant
  <2>3. ASSUME NEW batch \in batches, CountBatch(batch) PROVE CountInv'
    BY <2>3, BatchKeepsInvariant
  <2>4. CASE EndRound
    BY <2>4, EndKeepsInvariant
  <2>5. CASE FinishCount \/ UNCHANGED countVars
    BY <2>5, FinishKeepsInvariant
  <2>6. QED
    BY <2>1, <2>2, <2>3, <2>4, <2>5 DEF CountNext
<1>2. QED
  BY <1>1, CountStarts, InvariantJustifies, PTL DEF CountSpec

-----------------------------------------------------------------------------
(***************************************************************************)
(* Proofs about SingularProcess for any number of calls, any scripts and   *)
(* pipes of any capacity: a call that returns has the whole output, and a  *)
(* call that ended leaves nothing behind.  The argument: a step of a call  *)
(* touches nothing of another call but what the other's processes hold     *)
(* (StepIsLocal), so the invariant is one of each call alone (CallInv); a  *)
(* child holds its own ends as long as it can write, so that end of file   *)
(* is read only after its last word, whoever else holds those ends.        *)
(***************************************************************************)

Making == {"make", "mark_read", "mark_write"}
Alive == {"forked", "running"}
Kinds == {"read", "write"}

\* Pipes before the fork: those made so far are there.
MadeInv(c) ==
  /\ stage[c] \in Making \cup {"fork"} => child[c] = "none"
  /\ stage[c] \in {"mark_read", "mark_write"} =>
       \A p \in Pipes, k \in Kinds : p <= pipe[c] => <<c, p, k>> \in parent
  /\ stage[c] = "make" =>
       \A p \in Pipes, k \in Kinds : p < pipe[c] => <<c, p, k>> \in parent
  /\ stage[c] \in {"fork", "close"} =>
       \A p \in Pipes, k \in Kinds : <<c, p, k>> \in parent
  /\ stage[c] = "mark_read" =>
       \A p \in Pipes, k \in Kinds : <<c, p, k>> \in exposed => p = pipe[c]
  /\ stage[c] = "mark_write" =>
       \A p \in Pipes, k \in Kinds : <<c, p, k>> \in exposed => p = pipe[c] /\ k = "write"
  /\ stage[c] \notin {"mark_read", "mark_write"} =>
       \A p \in Pipes, k \in Kinds : <<c, p, k>> \notin exposed

\* A child that may still write or read holds its ends; one that ended, none.
ChildInv(c) ==
  /\ child[c] \in Alive => \A p \in Pipes : ChildEnd(c, p) \in held[c]
  /\ child[c] \notin Alive => held[c] = {}
  /\ stage[c] \in {"close", "poll"} => child[c] \in Alive \cup {"zombie"}
  /\ stage[c] = "returned" => child[c] = "reaped"
  /\ stage[c] = "threw" => child[c] \in {"none", "reaped"}
  /\ child[c] \in {"none", "forked", "running"} => status[c] # "ok"

\* What the program has open from the poll loop on.
ParentInv(c) ==
  /\ stage[c] # "poll" => ready[c] = {}
  /\ \A p \in ready[c] : OwnEnd(c, p) \in parent
  /\ stage[c] \in {"poll"} \cup EndedStages => \A p \in Pipes : ChildEnd(c, p) \notin parent
  /\ stage[c] \in EndedStages => \A p \in Pipes, k \in Kinds : <<c, p, k>> \notin parent

\* The counts, as far as they bound each other.
NumberInv(c) ==
  /\ put[c][Stdin] <= size[c]
  /\ taken[c][Stdin] <= put[c][Stdin] /\ Buffered(c, Stdin) <= Capacity
  /\ \A p \in OutputPipes : taken[c][p] <= put[c][p]

\* An output is closed with nothing left in it and nobody to add anything.
DrainedInv(c) ==
  stage[c] \in {"poll", "returned"} =>
    \A p \in OutputPipes : OwnEnd(c, p) \notin parent =>
      taken[c][p] = put[c][p] /\ child[c] \notin Alive

\* A living child was cut off from its script only after its last chunk.
FedInv(c) ==
  stage[c] = "poll" /\ OwnEnd(c, Stdin) \notin parent /\ child[c] \in Alive =>
    put[c][Stdin] = size[c]

\* A child that ended well had read all of it.
ReadInv(c) ==
  stage[c] # "threw" /\ status[c] = "ok" => taken[c][Stdin] = size[c]

ChunkInv(c) == NumberInv(c) /\ DrainedInv(c) /\ FedInv(c) /\ ReadInv(c)
CallInv(c) == MadeInv(c) /\ ChildInv(c) /\ ParentInv(c) /\ ChunkInv(c)

Types ==
  /\ stage \in [Calls -> {"make", "mark_read", "mark_write", "fork", "close",
                          "poll", "returned", "threw"}]
  /\ pipe \in [Calls -> Pipes]
  /\ ready \in [Calls -> SUBSET Pipes]
  /\ parent \subseteq Ends
  /\ exposed \subseteq Ends
  /\ child \in [Calls -> {"none", "forked", "running", "zombie", "reaped"}]
  /\ held \in [Calls -> SUBSET Ends]
  /\ leaked \in [Calls -> SUBSET Ends]
  /\ size \in Scripts
  /\ put \in [Calls -> [Pipes -> Nat]]
  /\ taken \in [Calls -> [Pipes -> Nat]]
  /\ owed \in [Calls -> [OutputPipes -> Nat]]
  /\ status \in [Calls -> {"none", "ok", "failed"}]

Inv == Types /\ \A c \in Calls : CallInv(c)

CallStep(c) == Advance(c) \/ Throw(c) \/ Work(c) \/ ChildCrashes(c)
-----------------------------------------------------------------------------
\* What a step of call c leaves alone of call d.
Untouched(d) ==
  /\ stage'[d] = stage[d] /\ pipe'[d] = pipe[d] /\ ready'[d] = ready[d]
  /\ child'[d] = child[d] /\ held'[d] = held[d] /\ status'[d] = status[d]
  /\ put'[d] = put[d] /\ taken'[d] = taken[d]
  /\ \A p \in Pipes, k \in Kinds :
       /\ <<d, p, k>> \in parent' <=> <<d, p, k>> \in parent
       /\ <<d, p, k>> \in exposed' <=> <<d, p, k>> \in exposed

LEMMA StepIsLocal ==
  ASSUME Types, NEW c \in Calls, NEW d \in Calls, c # d, CallStep(c)
  PROVE  Untouched(d) /\ size' = size
<1> USE DEF Types, Untouched, thread, table, process, Proceed, Add, Kinds
<1>1. CASE MakePipe(c)
  BY <1>1 DEF MakePipe
<1>2. CASE MarkRead(c)
  BY <1>2 DEF MarkRead
<1>3. CASE MarkWrite(c)
  BY <1>3 DEF MarkWrite
<1>4. CASE Fork(c)
  BY <1>4 DEF Fork
<1>5. CASE CloseChildEnds(c)
  BY <1>5 DEF CloseChildEnds, HandedOver, ChildEnd, OwnEnd
<1>6. CASE Poll(c)
  BY <1>6 DEF Poll
<1>7. CASE ServeInput(c)
  BY <1>7 DEF ServeInput, Turn, OwnEnd
<1>8. CASE ServeOutput(c)
  BY <1>8 DEF ServeOutput, Turn, OwnEnd
<1>9. CASE Reap(c)
  BY <1>9 DEF Reap
<1>10. CASE Throw(c)
  BY <1>10 DEF Throw, EndsOf
<1>11. CASE Exec(c)
  BY <1>11 DEF Exec
<1>12. CASE ExecFails(c)
  BY <1>12 DEF ExecFails, Dies
<1>13. CASE Read(c)
  BY <1>13 DEF Read
<1>14. CASE Write(c)
  BY <1>14 DEF Write
<1>15. CASE Quit(c)
  BY <1>15 DEF Quit, Dies
<1>16. CASE ChildCrashes(c)
  BY <1>16 DEF ChildCrashes, Dies
<1>17. QED
  BY <1>1, <1>2, <1>3, <1>4, <1>5, <1>6, <1>7, <1>8, <1>9, <1>10, <1>11, <1>12,
     <1>13, <1>14, <1>15, <1>16 DEF CallStep, Advance, Work

LEMMA ThreePipes ==
  /\ Pipes = {Stdin, Stdout, Stderr} /\ OutputPipes = {Stdout, Stderr}
  /\ Stdin = 1 /\ Stdout = 2 /\ Stderr = 3
BY DEF Pipes, OutputPipes, Stdin, Stdout, Stderr

LEMMA TwoEnds ==
  ASSUME NEW c
  PROVE  /\ OwnEnd(c, Stdin) = <<c, Stdin, "write">> /\ ChildEnd(c, Stdin) = <<c, Stdin, "read">>
         /\ OwnEnd(c, Stdout) = <<c, Stdout, "read">> /\ ChildEnd(c, Stdout) = <<c, Stdout, "write">>
         /\ OwnEnd(c, Stderr) = <<c, Stderr, "read">> /\ ChildEnd(c, Stderr) = <<c, Stderr, "write">>
BY ThreePipes DEF OwnEnd, ChildEnd

LEMMA CountsAreNumbers ==
  ASSUME Types, NEW c \in Calls
  PROVE  /\ size[c] \in Nat /\ Capacity \in Nat \ {0}
         /\ \A p \in Pipes : put[c][p] \in Nat /\ taken[c][p] \in Nat
BY ProcessAssumption DEF Types

LEMMA TypesStep ==
  ASSUME Types, NEW c \in Calls, CallInv(c), CallStep(c)
  PROVE  Types'
<1> USE ProcessAssumption, CountsAreNumbers, ThreePipes
    DEF Types, thread, table, process, Proceed, Add, Ends
<1>1. CASE MakePipe(c)
  BY <1>1 DEF MakePipe
<1>2. CASE MarkRead(c)
  BY <1>2 DEF MarkRead
<1>3. CASE MarkWrite(c)
  <2>1. pipe' \in [Calls -> Pipes]
    <3>1. pipe[c] \in Pipes /\ pipe \in [Calls -> Pipes]
      OBVIOUS
    <3>2. CASE pipe[c] = Stderr
      BY <1>3, <3>1, <3>2 DEF MarkWrite
    <3>3. CASE pipe[c] # Stderr
      <4>1. pipe[c] + 1 \in Pipes
        BY <3>1, <3>3, ThreePipes
      <4>2. pipe' = [pipe EXCEPT ![c] = pipe[c] + 1]
        BY <1>3, <3>3 DEF MarkWrite
      <4>3. QED
        BY <3>1, <4>1, <4>2
    <3>4. QED
      BY <3>2, <3>3
  <2>2. /\ stage' \in [Calls -> {"make", "mark_read", "mark_write", "fork", "close",
                               "poll", "returned", "threw"}]
        /\ exposed' \subseteq Ends
    BY <1>3 DEF MarkWrite
  <2>3. QED
    BY <1>3, <2>1, <2>2 DEF MarkWrite
<1>4. CASE Fork(c)
  BY <1>4 DEF Fork
<1>5. CASE CloseChildEnds(c)
  BY <1>5 DEF CloseChildEnds, HandedOver, ChildEnd, OwnEnd
<1>6. CASE Poll(c)
  BY <1>6 DEF Poll, Polled
<1>7. CASE ServeInput(c)
  <2>1. CASE IsOpen(<<c, Stdin, "read">>)
    <3> DEFINE n == Lesser(Capacity - Buffered(c, Stdin), size[c] - put[c][Stdin])
    <3>1. put[c][Stdin] + n \in Nat
      BY DEF CallInv, ChunkInv, NumberInv, Buffered, Lesser
    <3>2. put' = Add(put, c, Stdin, n) /\ UNCHANGED <<exposed, process, taken, size, pipe, stage>>
      BY <1>7, <2>1 DEF ServeInput
    <3>3. put' \in [Calls -> [Pipes -> Nat]]
      BY <3>1, <3>2
    <3>4. parent' \subseteq Ends /\ ready' \in [Calls -> SUBSET Pipes]
      BY <1>7 DEF ServeInput, Turn
    <3>5. QED
      BY <3>2, <3>3, <3>4
  <2>2. CASE ~IsOpen(<<c, Stdin, "read">>)
    BY <1>7, <2>2 DEF ServeInput, Turn
  <2>3. QED
    BY <2>1, <2>2
<1>8. CASE ServeOutput(c)
  <2>1. PICK p \in OutputPipes :
          /\ Turn(c, p)
          /\ taken' = Add(taken, c, p, Drained(c, p))
          /\ parent' = IF IsOpen(<<c, p, "write">>) THEN parent ELSE parent \ {OwnEnd(c, p)}
          /\ UNCHANGED <<stage, pipe, size, exposed, process, put>>
    BY <1>8 DEF ServeOutput
  <2>2. taken[c][p] + Drained(c, p) \in Nat
    BY DEF CallInv, ChunkInv, NumberInv, Drained, Buffered
  <2>3. taken' \in [Calls -> [Pipes -> Nat]]
    BY <2>1, <2>2
  <2>4. QED
    BY <2>1, <2>3 DEF Turn
<1>9. CASE Reap(c)
  BY <1>9 DEF Reap
<1>10. CASE Throw(c)
  BY <1>10 DEF Throw, EndsOf, KilledAndReaped
<1>11. CASE Exec(c)
  BY <1>11 DEF Exec, ChildEnd
<1>12. CASE ExecFails(c)
  BY <1>12 DEF ExecFails, Dies
<1>13. CASE Read(c)
  BY <1>13 DEF Read
<1>14. CASE Write(c)
  BY <1>14 DEF Write
<1>15. CASE Quit(c)
  BY <1>15 DEF Quit, Dies
<1>16. CASE ChildCrashes(c)
  BY <1>16 DEF ChildCrashes, Dies
<1>17. QED
  BY <1>1, <1>2, <1>3, <1>4, <1>5, <1>6, <1>7, <1>8, <1>9, <1>10, <1>11, <1>12,
     <1>13, <1>14, <1>15, <1>16 DEF CallStep, Advance, Work

-----------------------------------------------------------------------------
(* What each action does to its own call, the functions applied *)

LEMMA MakePipeEffect ==
  ASSUME Types, NEW c \in Calls, MakePipe(c)
  PROVE  /\ stage[c] = "make" /\ stage'[c] = "mark_read"
         /\ \A p \in Pipes, k \in Kinds : <<c, p, k>> \in parent' <=> <<c, p, k>> \in parent \/ p = pipe[c]
         /\ \A p \in Pipes, k \in Kinds : <<c, p, k>> \in exposed' <=> <<c, p, k>> \in exposed \/ p = pipe[c]
         /\ UNCHANGED <<pipe, ready, child, held, size, status, put, taken>>
BY ThreePipes, TwoEnds, CountsAreNumbers DEF Types, MakePipe, thread, table, process, Proceed, Add, Kinds, Lesser, Buffered

LEMMA MarkReadEffect ==
  ASSUME Types, NEW c \in Calls, MarkRead(c)
  PROVE  /\ stage[c] = "mark_read" /\ stage'[c] = "mark_write"
         /\ \A p \in Pipes, k \in Kinds : <<c, p, k>> \in exposed' <=> <<c, p, k>> \in exposed /\ ~(p = pipe[c] /\ k = "read")
         /\ UNCHANGED <<pipe, parent, ready, child, held, size, status, put, taken>>
BY ThreePipes, TwoEnds, CountsAreNumbers DEF Types, MarkRead, thread, table, process, Proceed, Add, Kinds, Lesser, Buffered

LEMMA MarkWriteEffect ==
  ASSUME Types, NEW c \in Calls, MarkWrite(c)
  PROVE  /\ stage[c] = "mark_write"
         /\ \/ pipe[c] = Stderr /\ stage'[c] = "fork" /\ pipe'[c] = pipe[c]
            \/ pipe[c] # Stderr /\ stage'[c] = "make" /\ pipe'[c] = pipe[c] + 1
         /\ \A p \in Pipes, k \in Kinds : <<c, p, k>> \in exposed' <=> <<c, p, k>> \in exposed /\ ~(p = pipe[c] /\ k = "write")
         /\ UNCHANGED <<parent, ready, child, held, size, status, put, taken>>
BY ThreePipes, TwoEnds, CountsAreNumbers DEF Types, MarkWrite, thread, table, process, Proceed, Add, Kinds, Lesser, Buffered

LEMMA ForkEffect ==
  ASSUME Types, NEW c \in Calls, Fork(c)
  PROVE  /\ stage[c] = "fork" /\ stage'[c] = "close"
         /\ child'[c] = "forked" /\ held'[c] = parent
         /\ UNCHANGED <<pipe, parent, exposed, ready, size, status, put, taken>>
BY ThreePipes, TwoEnds, CountsAreNumbers DEF Types, Fork, thread, table, process, Proceed, Add, Kinds, Lesser, Buffered

LEMMA CloseChildEndsEffect ==
  ASSUME Types, NEW c \in Calls, CloseChildEnds(c)
  PROVE  /\ stage[c] = "close" /\ stage'[c] = "poll"
         /\ \A p \in Pipes : ChildEnd(c, p) \notin parent'
         /\ \A p \in OutputPipes : OwnEnd(c, p) \in parent' <=> OwnEnd(c, p) \in parent
         /\ size[c] # 0 => (OwnEnd(c, Stdin) \in parent' <=> OwnEnd(c, Stdin) \in parent)
         /\ UNCHANGED <<pipe, exposed, ready, child, held, size, status, put, taken>>
BY ThreePipes, TwoEnds, CountsAreNumbers DEF Types, CloseChildEnds, HandedOver, thread, table, process, Proceed, Add, Kinds, Lesser, Buffered

LEMMA PollEffect ==
  ASSUME Types, NEW c \in Calls, Poll(c)
  PROVE  /\ stage[c] = "poll"
         /\ ready'[c] \subseteq {p \in Pipes : OwnEnd(c, p) \in parent}
         /\ UNCHANGED <<stage, pipe, parent, exposed, child, held, size, status, put, taken>>
BY ThreePipes, TwoEnds, CountsAreNumbers DEF Types, Poll, Polled, thread, table, process, Proceed, Add, Kinds, Lesser, Buffered

LEMMA ServeInputEffect ==
  ASSUME Types, NEW c \in Calls, NumberInv(c), ServeInput(c)
  PROVE  /\ stage[c] = "poll" /\ ready'[c] = ready[c] \ {Stdin}
         /\ \/ /\ IsOpen(ChildEnd(c, Stdin))
               /\ \E n \in Nat :
                    /\ n <= Capacity - Buffered(c, Stdin) /\ n <= size[c] - put[c][Stdin]
                    /\ put'[c][Stdin] = put[c][Stdin] + n
                    /\ \A p \in OutputPipes : put'[c][p] = put[c][p]
                    /\ \/ put'[c][Stdin] = size[c] /\ parent' = parent \ {OwnEnd(c, Stdin)}
                       \/ put'[c][Stdin] # size[c] /\ parent' = parent
            \/ /\ ~IsOpen(ChildEnd(c, Stdin)) /\ put' = put
               /\ parent' = parent \ {OwnEnd(c, Stdin)}
         /\ UNCHANGED <<stage, pipe, exposed, child, held, size, status, taken>>
<1> DEFINE n == Lesser(Capacity - Buffered(c, Stdin), size[c] - put[c][Stdin])
<1>1. /\ stage[c] = "poll" /\ ready'[c] = ready[c] \ {Stdin}
      /\ UNCHANGED <<stage, pipe, exposed, child, held, size, status, taken>>
  BY DEF Types, ServeInput, Turn, process
<1>2. CASE IsOpen(<<c, Stdin, "read">>)
  <2>1. /\ n \in Nat
        /\ n <= Capacity - Buffered(c, Stdin) /\ n <= size[c] - put[c][Stdin]
    BY ThreePipes, CountsAreNumbers DEF NumberInv, Lesser, Buffered
  <2>2. put'[c] = [put[c] EXCEPT ![Stdin] = @ + n]
    BY <1>2 DEF Types, ServeInput, Add
  <2>3. put'[c][Stdin] = put[c][Stdin] + n /\ \A p \in OutputPipes : put'[c][p] = put[c][p]
    BY <2>2, ThreePipes DEF Types
  <2>4. parent' = IF put[c][Stdin] + n = size[c] THEN parent \ {OwnEnd(c, Stdin)} ELSE parent
    BY <1>2 DEF ServeInput
  <2>5. QED
    BY <1>1, <1>2, <2>1, <2>2, <2>3, <2>4, TwoEnds
<1>3. CASE ~IsOpen(<<c, Stdin, "read">>)
  BY <1>1, <1>3, TwoEnds DEF ServeInput
<1>4. QED
  BY <1>2, <1>3

LEMMA ServeOutputEffect ==
  ASSUME Types, NEW c \in Calls, ServeOutput(c)
  PROVE  /\ stage[c] = "poll"
         /\ \E p \in OutputPipes :
              /\ ready'[c] = ready[c] \ {p}
              /\ taken'[c][p] = put[c][p]
              /\ \A q \in Pipes \ {p} : taken'[c][q] = taken[c][q]
              /\ \/ IsOpen(ChildEnd(c, p)) /\ parent' = parent
                 \/ ~IsOpen(ChildEnd(c, p)) /\ parent' = parent \ {OwnEnd(c, p)}
         /\ UNCHANGED <<stage, pipe, exposed, child, held, size, status, put>>
<1>1. PICK p \in OutputPipes :
        /\ Turn(c, p)
        /\ taken' = Add(taken, c, p, Drained(c, p))
        /\ parent' = IF IsOpen(<<c, p, "write">>) THEN parent ELSE parent \ {OwnEnd(c, p)}
        /\ UNCHANGED <<stage, pipe, size, exposed, process, put>>
  BY DEF ServeOutput
<1>2. taken[c][p] + Drained(c, p) = put[c][p]
  BY CountsAreNumbers, ThreePipes DEF Drained, Buffered
<1>3. taken'[c][p] = put[c][p] /\ \A q \in Pipes \ {p} : taken'[c][q] = taken[c][q]
  BY <1>1, <1>2, ThreePipes DEF Types, Add
<1>4. ChildEnd(c, p) = <<c, p, "write">>
  BY TwoEnds, ThreePipes
<1>5. QED
  BY <1>1, <1>3, <1>4 DEF Types, Turn, process

LEMMA ReapEffect ==
  ASSUME Types, NEW c \in Calls, Reap(c)
  PROVE  /\ stage[c] = "poll" /\ stage'[c] = "returned"
         /\ child[c] = "zombie" /\ child'[c] = "reaped"
         /\ \A p \in Pipes : OwnEnd(c, p) \notin parent
         /\ UNCHANGED <<pipe, parent, exposed, ready, held, size, status, put, taken>>
BY ThreePipes, TwoEnds, CountsAreNumbers DEF Types, Reap, Polled, thread, table, process, Proceed, Add, Kinds, Lesser, Buffered

LEMMA ThrowEffect ==
  ASSUME Types, NEW c \in Calls, Throw(c)
  PROVE  /\ stage'[c] = "threw" /\ ready'[c] = {} /\ held'[c] = {}
         /\ child'[c] \in {"none", "reaped"} /\ (child'[c] = "none" => child[c] = "none")
         /\ \A p \in Pipes, k \in Kinds : <<c, p, k>> \notin parent' /\ <<c, p, k>> \notin exposed'
         /\ \A p \in Pipes : put'[c][p] = 0 /\ taken'[c][p] = 0
         /\ UNCHANGED <<size, status>>
BY ThreePipes, TwoEnds, CountsAreNumbers DEF Types, Throw, EndsOf, KilledAndReaped, thread, table, process, Proceed, Add, Kinds, Lesser, Buffered

LEMMA ExecEffect ==
  ASSUME Types, NEW c \in Calls, Exec(c)
  PROVE  /\ child[c] = "forked" /\ child'[c] = "running"
         /\ \A p \in Pipes : ChildEnd(c, p) \in held'[c]
         /\ UNCHANGED <<stage, pipe, parent, exposed, ready, size, status, put, taken>>
BY ThreePipes, TwoEnds, CountsAreNumbers DEF Types, Exec, thread, table, process, Proceed, Add, Kinds, Lesser, Buffered

LEMMA ExecFailsEffect ==
  ASSUME Types, NEW c \in Calls, ExecFails(c)
  PROVE  /\ child[c] = "forked" /\ child'[c] = "zombie" /\ held'[c] = {}
         /\ status'[c] = "failed"
         /\ \A p \in Pipes : put'[c][p] >= put[c][p] /\ (p # Stderr => put'[c][p] = put[c][p])
         /\ UNCHANGED <<stage, pipe, parent, exposed, ready, size, taken>>
<1>1. PICK n \in {0, 1} : put' = Add(put, c, Stderr, n)
  BY DEF ExecFails
<1>2. \A p \in Pipes : put'[c][p] >= put[c][p] /\ (p # Stderr => put'[c][p] = put[c][p])
  BY <1>1, ThreePipes, CountsAreNumbers DEF Types, Add
<1>3. QED
  BY <1>2 DEF Types, ExecFails, Dies, thread, table

LEMMA ReadEffect ==
  ASSUME Types, NEW c \in Calls, Read(c)
  PROVE  /\ child[c] = "running" /\ Buffered(c, Stdin) > 0
         /\ taken'[c][Stdin] = taken[c][Stdin] + 1
         /\ \A p \in OutputPipes : taken'[c][p] = taken[c][p]
         /\ UNCHANGED <<stage, pipe, parent, exposed, ready, child, held, size, status, put>>
BY ThreePipes, TwoEnds, CountsAreNumbers DEF Types, Read, IsIdle, thread, table, process, Proceed, Add, Kinds, Lesser, Buffered

LEMMA WriteEffect ==
  ASSUME Types, NEW c \in Calls, Write(c)
  PROVE  /\ child[c] = "running"
         /\ \A p \in Pipes : put'[c][p] >= put[c][p]
         /\ put'[c][Stdin] = put[c][Stdin]
         /\ UNCHANGED <<stage, pipe, parent, exposed, ready, child, held, size, status, taken>>
BY ThreePipes, TwoEnds, CountsAreNumbers DEF Types, Write, thread, table, process, Proceed, Add, Kinds, Lesser, Buffered

LEMMA QuitEffect ==
  ASSUME Types, NEW c \in Calls, Quit(c)
  PROVE  /\ child[c] = "running" /\ child'[c] = "zombie" /\ held'[c] = {}
         /\ status'[c] = "ok"
         /\ \/ taken[c][Stdin] = size[c]
            \/ Buffered(c, Stdin) = 0 /\ ~IsOpen(OwnEnd(c, Stdin))
         /\ UNCHANGED <<stage, pipe, parent, exposed, ready, size, put, taken>>
BY ThreePipes, TwoEnds, CountsAreNumbers DEF Types, Quit, Dies, IsIdle, thread, table, process, Proceed, Add, Kinds, Lesser, Buffered

LEMMA CrashEffect ==
  ASSUME Types, NEW c \in Calls, ChildCrashes(c)
  PROVE  /\ child[c] = "running" /\ child'[c] = "zombie" /\ held'[c] = {}
         /\ status'[c] = "failed"
         /\ UNCHANGED <<stage, pipe, parent, exposed, ready, size, put, taken>>
BY ThreePipes, TwoEnds, CountsAreNumbers DEF Types, ChildCrashes, Dies, thread, table, process, Proceed, Add, Kinds, Lesser, Buffered
-----------------------------------------------------------------------------
(* Each part of the invariant is kept by a step of the call *)

LEMMA MadeInvStep ==
  ASSUME Types, NEW c \in Calls, CallInv(c), CallStep(c)
  PROVE  MadeInv(c)'
<1> USE DEF CallInv, ChunkInv, MadeInv, Making, Kinds
<1>t. /\ pipe[c] \in Pipes /\ ready[c] \subseteq Pipes /\ size[c] \in Nat
      /\ \A p \in Pipes : put[c][p] \in Nat /\ taken[c][p] \in Nat
  BY ProcessAssumption, ThreePipes DEF Types
<1>1. CASE MakePipe(c)
  <2>1. \A p \in Pipes : p <= pipe[c] => p < pipe[c] \/ p = pipe[c]
    BY <1>t, ThreePipes
  <2>2. stage[c] = "make" /\ stage'[c] = "mark_read" /\ child' = child /\ pipe' = pipe
    BY <1>1, MakePipeEffect
  <2>3. \A p \in Pipes, k \in Kinds : p <= pipe[c] => <<c, p, k>> \in parent'
    BY <1>1, <2>1, <2>2, MakePipeEffect
  <2>4. \A p \in Pipes, k \in Kinds : <<c, p, k>> \in exposed' => p = pipe[c]
    BY <1>1, <2>2, MakePipeEffect
  <2>5. QED
    BY <2>2, <2>3, <2>4
<1>2. CASE MarkRead(c)
  BY <1>2, <1>t, MarkReadEffect
<1>3. CASE MarkWrite(c)
  <2>1. \A p \in Pipes, k \in Kinds : <<c, p, k>> \notin exposed'
    BY <1>3, MarkWriteEffect
  <2>2. parent' = parent /\ child' = child /\ stage[c] = "mark_write"
    BY <1>3, MarkWriteEffect
  <2>3. \A p \in Pipes, k \in Kinds : p <= pipe[c] => <<c, p, k>> \in parent
    BY <2>2
  <2>4. CASE pipe[c] = Stderr
    <3>1. \A p \in Pipes : p <= pipe[c]
      BY <2>4, ThreePipes
    <3>2. stage'[c] = "fork"
      BY <1>3, <2>4, MarkWriteEffect
    <3>3. QED
      BY <2>1, <2>2, <2>3, <3>1, <3>2
  <2>5. CASE pipe[c] # Stderr
    <3>1. \A p \in Pipes : p < pipe[c] + 1 => p <= pipe[c]
      BY <1>t, ThreePipes
    <3>2. stage'[c] = "make" /\ pipe'[c] = pipe[c] + 1
      BY <1>3, <2>5, MarkWriteEffect
    <3>3. QED
      BY <2>1, <2>2, <2>3, <3>1, <3>2
  <2>6. QED
    BY <2>4, <2>5
<1>4. CASE Fork(c)
  BY <1>4, <1>t, ForkEffect
<1>5. CASE CloseChildEnds(c)
  BY <1>5, <1>t, CloseChildEndsEffect
<1>6. CASE Poll(c)
  BY <1>6, <1>t, PollEffect
<1>7. CASE ServeInput(c)
  BY <1>7, <1>t, ServeInputEffect
<1>8. CASE ServeOutput(c)
  BY <1>8, <1>t, ServeOutputEffect
<1>9. CASE Reap(c)
  BY <1>9, <1>t, ReapEffect
<1>10. CASE Throw(c)
  BY <1>10, <1>t, ThrowEffect
<1>11. CASE Exec(c)
  BY <1>11, <1>t, ExecEffect
<1>12. CASE ExecFails(c)
  BY <1>12, <1>t, ExecFailsEffect
<1>13. CASE Read(c)
  BY <1>13, <1>t, ReadEffect
<1>14. CASE Write(c)
  BY <1>14, <1>t, WriteEffect
<1>15. CASE Quit(c)
  BY <1>15, <1>t, QuitEffect
<1>16. CASE ChildCrashes(c)
  BY <1>16, <1>t, CrashEffect
<1>17. QED
  BY <1>1, <1>2, <1>3, <1>4, <1>5, <1>6, <1>7, <1>8, <1>9, <1>10, <1>11, <1>12,
     <1>13, <1>14, <1>15, <1>16 DEF CallStep, Advance, Work

LEMMA ChildInvStep ==
  ASSUME Types, NEW c \in Calls, CallInv(c), CallStep(c)
  PROVE  ChildInv(c)'
<1> USE ThreePipes, TwoEnds DEF CallInv, ChunkInv, ChildInv, MadeInv, Making, Kinds, Alive
<1>t. /\ pipe[c] \in Pipes /\ ready[c] \subseteq Pipes /\ size[c] \in Nat
      /\ \A p \in Pipes : put[c][p] \in Nat /\ taken[c][p] \in Nat
  BY ProcessAssumption, ThreePipes DEF Types
<1>1. CASE MakePipe(c)
  BY <1>1, <1>t, MakePipeEffect
<1>2. CASE MarkRead(c)
  BY <1>2, <1>t, MarkReadEffect
<1>3. CASE MarkWrite(c)
  BY <1>3, <1>t, MarkWriteEffect
<1>4. CASE Fork(c)
  BY <1>4, <1>t, ForkEffect
<1>5. CASE CloseChildEnds(c)
  BY <1>5, <1>t, CloseChildEndsEffect
<1>6. CASE Poll(c)
  BY <1>6, <1>t, PollEffect
<1>7. CASE ServeInput(c)
  BY <1>7, <1>t, ServeInputEffect
<1>8. CASE ServeOutput(c)
  BY <1>8, <1>t, ServeOutputEffect
<1>9. CASE Reap(c)
  BY <1>9, <1>t, ReapEffect
<1>10. CASE Throw(c)
  BY <1>10, <1>t, ThrowEffect
<1>11. CASE Exec(c)
  BY <1>11, <1>t, ExecEffect
<1>12. CASE ExecFails(c)
  BY <1>12, <1>t, ExecFailsEffect
<1>13. CASE Read(c)
  BY <1>13, <1>t, ReadEffect
<1>14. CASE Write(c)
  BY <1>14, <1>t, WriteEffect
<1>15. CASE Quit(c)
  BY <1>15, <1>t, QuitEffect
<1>16. CASE ChildCrashes(c)
  BY <1>16, <1>t, CrashEffect
<1>17. QED
  BY <1>1, <1>2, <1>3, <1>4, <1>5, <1>6, <1>7, <1>8, <1>9, <1>10, <1>11, <1>12,
     <1>13, <1>14, <1>15, <1>16 DEF CallStep, Advance, Work

LEMMA ParentInvStep ==
  ASSUME Types, NEW c \in Calls, CallInv(c), CallStep(c)
  PROVE  ParentInv(c)'
<1> USE ThreePipes, TwoEnds DEF CallInv, ChunkInv, ParentInv, ChildInv, MadeInv, EndedStages, Making, Kinds, Alive
<1>t. /\ pipe[c] \in Pipes /\ ready[c] \subseteq Pipes /\ size[c] \in Nat
      /\ \A p \in Pipes : put[c][p] \in Nat /\ taken[c][p] \in Nat
  BY ProcessAssumption, ThreePipes DEF Types
<1>1. CASE MakePipe(c)
  BY <1>1, <1>t, MakePipeEffect
<1>2. CASE MarkRead(c)
  BY <1>2, <1>t, MarkReadEffect
<1>3. CASE MarkWrite(c)
  BY <1>3, <1>t, MarkWriteEffect
<1>4. CASE Fork(c)
  BY <1>4, <1>t, ForkEffect
<1>5. CASE CloseChildEnds(c)
  BY <1>5, <1>t, CloseChildEndsEffect
<1>6. CASE Poll(c)
  BY <1>6, <1>t, PollEffect
<1>7. CASE ServeInput(c)
  BY <1>7, <1>t, ServeInputEffect
<1>8. CASE ServeOutput(c)
  BY <1>8, <1>t, ServeOutputEffect
<1>9. CASE Reap(c)
  BY <1>9, <1>t, ReapEffect
<1>10. CASE Throw(c)
  <2>1. stage'[c] = "threw" /\ ready'[c] = {}
    BY <1>10, ThrowEffect
  <2>2. \A p \in Pipes, k \in Kinds : <<c, p, k>> \notin parent'
    BY <1>10, ThrowEffect
  <2>3. \A p \in Pipes : ChildEnd(c, p) \notin parent'
    BY <2>2
  <2>4. QED
    BY <2>1, <2>2, <2>3
<1>11. CASE Exec(c)
  BY <1>11, <1>t, ExecEffect
<1>12. CASE ExecFails(c)
  BY <1>12, <1>t, ExecFailsEffect
<1>13. CASE Read(c)
  BY <1>13, <1>t, ReadEffect
<1>14. CASE Write(c)
  BY <1>14, <1>t, WriteEffect
<1>15. CASE Quit(c)
  BY <1>15, <1>t, QuitEffect
<1>16. CASE ChildCrashes(c)
  BY <1>16, <1>t, CrashEffect
<1>17. QED
  BY <1>1, <1>2, <1>3, <1>4, <1>5, <1>6, <1>7, <1>8, <1>9, <1>10, <1>11, <1>12,
     <1>13, <1>14, <1>15, <1>16 DEF CallStep, Advance, Work

LEMMA NumberInvStep ==
  ASSUME Types, NEW c \in Calls, CallInv(c), CallStep(c)
  PROVE  NumberInv(c)'
<1> USE ThreePipes DEF CallInv, ChunkInv, NumberInv, Buffered
<1>t. /\ pipe[c] \in Pipes /\ ready[c] \subseteq Pipes /\ size[c] \in Nat
      /\ \A p \in Pipes : put[c][p] \in Nat /\ taken[c][p] \in Nat
  BY ProcessAssumption, ThreePipes DEF Types
<1>n. Capacity \in Nat /\ \A p \in Pipes : put'[c][p] \in Nat /\ taken'[c][p] \in Nat
  BY ProcessAssumption, TypesStep DEF Types
<1>1. CASE MakePipe(c)
  BY <1>1, <1>t, MakePipeEffect
<1>2. CASE MarkRead(c)
  BY <1>2, <1>t, MarkReadEffect
<1>3. CASE MarkWrite(c)
  BY <1>3, <1>t, MarkWriteEffect
<1>4. CASE Fork(c)
  BY <1>4, <1>t, ForkEffect
<1>5. CASE CloseChildEnds(c)
  BY <1>5, <1>t, CloseChildEndsEffect
<1>6. CASE Poll(c)
  BY <1>6, <1>t, PollEffect
<1>7. CASE ServeInput(c)
  <2>1. taken' = taken /\ size' = size
    BY <1>7, ServeInputEffect
  <2>2. /\ put'[c][Stdin] <= size[c] /\ put'[c][Stdin] >= put[c][Stdin]
        /\ put'[c][Stdin] - taken[c][Stdin] <= Capacity
        /\ \A p \in OutputPipes : put'[c][p] = put[c][p]
    <3>1. CASE put' = put
      BY <1>t, <3>1
    <3>2. CASE \E n \in Nat : /\ n <= Capacity - Buffered(c, Stdin) /\ n <= size[c] - put[c][Stdin]
                             /\ put'[c][Stdin] = put[c][Stdin] + n
                             /\ \A p \in OutputPipes : put'[c][p] = put[c][p]
      BY <1>t, <1>n, <3>2
    <3>3. QED
      BY <1>7, <3>1, <3>2, ServeInputEffect
  <2>3. QED
    BY <1>t, <1>n, <2>1, <2>2
<1>8. CASE ServeOutput(c)
  BY <1>8, <1>t, ServeOutputEffect
<1>9. CASE Reap(c)
  BY <1>9, <1>t, ReapEffect
<1>10. CASE Throw(c)
  <2>1. \A p \in Pipes : put'[c][p] = 0 /\ taken'[c][p] = 0
    BY <1>10, ThrowEffect
  <2>2. size' = size
    BY <1>10, ThrowEffect
  <2>3. QED
    BY <1>t, <1>n, <2>1, <2>2
<1>11. CASE Exec(c)
  BY <1>11, <1>t, ExecEffect
<1>12. CASE ExecFails(c)
  <2>1. taken' = taken /\ \A p \in Pipes : put'[c][p] >= put[c][p] /\ (p # Stderr => put'[c][p] = put[c][p])
    BY <1>12, ExecFailsEffect
  <2>2. size' = size
    BY <1>12, ExecFailsEffect
  <2>3. QED
    BY <1>t, <1>n, <2>1, <2>2
<1>13. CASE Read(c)
  <2>1. /\ put' = put /\ taken'[c][Stdin] = taken[c][Stdin] + 1 /\ put[c][Stdin] - taken[c][Stdin] > 0
        /\ \A p \in OutputPipes : taken'[c][p] = taken[c][p]
    BY <1>13, ReadEffect
  <2>2. size' = size
    BY <1>13, ReadEffect
  <2>3. QED
    BY <1>t, <1>n, <2>1, <2>2
<1>14. CASE Write(c)
  <2>1. taken' = taken /\ put'[c][Stdin] = put[c][Stdin] /\ \A p \in Pipes : put'[c][p] >= put[c][p]
    BY <1>14, WriteEffect
  <2>2. size' = size
    BY <1>14, WriteEffect
  <2>3. QED
    BY <1>t, <1>n, <2>1, <2>2
<1>15. CASE Quit(c)
  BY <1>15, <1>t, QuitEffect
<1>16. CASE ChildCrashes(c)
  BY <1>16, <1>t, CrashEffect
<1>17. QED
  BY <1>1, <1>2, <1>3, <1>4, <1>5, <1>6, <1>7, <1>8, <1>9, <1>10, <1>11, <1>12,
     <1>13, <1>14, <1>15, <1>16 DEF CallStep, Advance, Work

LEMMA DrainedInvStep ==
  ASSUME Types, NEW c \in Calls, CallInv(c), CallStep(c)
  PROVE  DrainedInv(c)'
<1> USE ThreePipes, TwoEnds DEF CallInv, ChunkInv, DrainedInv, MadeInv, ChildInv, NumberInv, IsOpen, Alive, Making, Kinds
<1>t. /\ pipe[c] \in Pipes /\ ready[c] \subseteq Pipes /\ size[c] \in Nat
      /\ \A p \in Pipes : put[c][p] \in Nat /\ taken[c][p] \in Nat
  BY ProcessAssumption, ThreePipes DEF Types
<1>1. CASE MakePipe(c)
  BY <1>1, <1>t, MakePipeEffect
<1>2. CASE MarkRead(c)
  BY <1>2, <1>t, MarkReadEffect
<1>3. CASE MarkWrite(c)
  BY <1>3, <1>t, MarkWriteEffect
<1>4. CASE Fork(c)
  BY <1>4, <1>t, ForkEffect
<1>5. CASE CloseChildEnds(c)
  BY <1>5, <1>t, CloseChildEndsEffect
<1>6. CASE Poll(c)
  BY <1>6, <1>t, PollEffect
<1>7. CASE ServeInput(c)
  BY <1>7, <1>t, ServeInputEffect
<1>8. CASE ServeOutput(c)
  BY <1>8, <1>t, ServeOutputEffect
<1>9. CASE Reap(c)
  BY <1>9, <1>t, ReapEffect
<1>10. CASE Throw(c)
  BY <1>10, <1>t, ThrowEffect
<1>11. CASE Exec(c)
  BY <1>11, <1>t, ExecEffect
<1>12. CASE ExecFails(c)
  BY <1>12, <1>t, ExecFailsEffect
<1>13. CASE Read(c)
  BY <1>13, <1>t, ReadEffect
<1>14. CASE Write(c)
  BY <1>14, <1>t, WriteEffect
<1>15. CASE Quit(c)
  BY <1>15, <1>t, QuitEffect
<1>16. CASE ChildCrashes(c)
  BY <1>16, <1>t, CrashEffect
<1>17. QED
  BY <1>1, <1>2, <1>3, <1>4, <1>5, <1>6, <1>7, <1>8, <1>9, <1>10, <1>11, <1>12,
     <1>13, <1>14, <1>15, <1>16 DEF CallStep, Advance, Work

LEMMA FedInvStep ==
  ASSUME Types, NEW c \in Calls, CallInv(c), CallStep(c)
  PROVE  FedInv(c)'
<1> USE ThreePipes, TwoEnds DEF CallInv, ChunkInv, FedInv, MadeInv, ChildInv, IsOpen, Alive, Making, Kinds
<1>t. /\ pipe[c] \in Pipes /\ ready[c] \subseteq Pipes /\ size[c] \in Nat
      /\ \A p \in Pipes : put[c][p] \in Nat /\ taken[c][p] \in Nat
  BY ProcessAssumption, ThreePipes DEF Types
<1>1. CASE MakePipe(c)
  BY <1>1, <1>t, MakePipeEffect
<1>2. CASE MarkRead(c)
  BY <1>2, <1>t, MarkReadEffect
<1>3. CASE MarkWrite(c)
  BY <1>3, <1>t, MarkWriteEffect
<1>4. CASE Fork(c)
  BY <1>4, <1>t, ForkEffect
<1>5. CASE CloseChildEnds(c)
  <2>1. put' = put /\ size' = size /\ child' = child /\ stage[c] = "close"
    BY <1>5, CloseChildEndsEffect
  <2>2. CASE size[c] = 0
    BY <1>t, <2>1, <2>2 DEF NumberInv
  <2>3. CASE size[c] # 0
    BY <1>5, <2>1, <2>3, CloseChildEndsEffect
  <2>4. QED
    BY <2>2, <2>3
<1>6. CASE Poll(c)
  BY <1>6, <1>t, PollEffect
<1>7. CASE ServeInput(c)
  BY <1>7, <1>t, ServeInputEffect
<1>8. CASE ServeOutput(c)
  BY <1>8, <1>t, ServeOutputEffect
<1>9. CASE Reap(c)
  BY <1>9, <1>t, ReapEffect
<1>10. CASE Throw(c)
  BY <1>10, <1>t, ThrowEffect
<1>11. CASE Exec(c)
  BY <1>11, <1>t, ExecEffect
<1>12. CASE ExecFails(c)
  BY <1>12, <1>t, ExecFailsEffect
<1>13. CASE Read(c)
  BY <1>13, <1>t, ReadEffect
<1>14. CASE Write(c)
  BY <1>14, <1>t, WriteEffect
<1>15. CASE Quit(c)
  BY <1>15, <1>t, QuitEffect
<1>16. CASE ChildCrashes(c)
  BY <1>16, <1>t, CrashEffect
<1>17. QED
  BY <1>1, <1>2, <1>3, <1>4, <1>5, <1>6, <1>7, <1>8, <1>9, <1>10, <1>11, <1>12,
     <1>13, <1>14, <1>15, <1>16 DEF CallStep, Advance, Work

LEMMA ReadInvStep ==
  ASSUME Types, NEW c \in Calls, CallInv(c), CallStep(c)
  PROVE  ReadInv(c)'
<1> USE ThreePipes, TwoEnds DEF CallInv, ChunkInv, ReadInv, ChildInv, MadeInv, FedInv, NumberInv, Buffered, IsOpen, Alive, Making, Kinds
<1>t. /\ pipe[c] \in Pipes /\ ready[c] \subseteq Pipes /\ size[c] \in Nat
      /\ \A p \in Pipes : put[c][p] \in Nat /\ taken[c][p] \in Nat
  BY ProcessAssumption, ThreePipes DEF Types
<1>s. stage[c] \in {"make", "mark_read", "mark_write", "fork", "close", "poll", "returned", "threw"}
  BY DEF Types
<1>1. CASE MakePipe(c)
  BY <1>1, <1>t, MakePipeEffect
<1>2. CASE MarkRead(c)
  BY <1>2, <1>t, MarkReadEffect
<1>3. CASE MarkWrite(c)
  BY <1>3, <1>t, MarkWriteEffect
<1>4. CASE Fork(c)
  BY <1>4, <1>t, ForkEffect
<1>5. CASE CloseChildEnds(c)
  BY <1>5, <1>t, CloseChildEndsEffect
<1>6. CASE Poll(c)
  BY <1>6, <1>t, PollEffect
<1>7. CASE ServeInput(c)
  BY <1>7, <1>t, ServeInputEffect
<1>8. CASE ServeOutput(c)
  BY <1>8, <1>t, ServeOutputEffect
<1>9. CASE Reap(c)
  BY <1>9, <1>t, ReapEffect
<1>10. CASE Throw(c)
  BY <1>10, <1>t, ThrowEffect
<1>11. CASE Exec(c)
  BY <1>11, <1>t, ExecEffect
<1>12. CASE ExecFails(c)
  BY <1>12, <1>t, ExecFailsEffect
<1>13. CASE Read(c)
  BY <1>13, <1>t, ReadEffect
<1>14. CASE Write(c)
  BY <1>14, <1>t, WriteEffect
<1>15. CASE Quit(c)
  <2>1. UNCHANGED <<stage, parent, put, taken, size>> /\ child[c] = "running"
    BY <1>15, QuitEffect
  <2>2. stage[c] \in {"close", "poll"}
    BY <2>1, <1>s
  <2>3. CASE taken[c][Stdin] = size[c]
    BY <2>1, <2>3
  <2>4. CASE Buffered(c, Stdin) = 0 /\ ~IsOpen(OwnEnd(c, Stdin))
    <3>1. OwnEnd(c, Stdin) \notin parent
      BY <2>4
    <3>2. stage[c] = "poll"
      BY <2>2, <3>1
    <3>3. put[c][Stdin] = size[c]
      BY <2>1, <3>1, <3>2
    <3>4. QED
      BY <1>t, <2>1, <2>4, <3>3
  <2>5. QED
    BY <1>15, <2>3, <2>4, QuitEffect
<1>16. CASE ChildCrashes(c)
  BY <1>16, <1>t, CrashEffect
<1>17. QED
  BY <1>1, <1>2, <1>3, <1>4, <1>5, <1>6, <1>7, <1>8, <1>9, <1>10, <1>11, <1>12,
     <1>13, <1>14, <1>15, <1>16 DEF CallStep, Advance, Work
-----------------------------------------------------------------------------
LEMMA CallInvStep ==
  ASSUME Types, NEW c \in Calls, CallInv(c), CallStep(c)
  PROVE  CallInv(c)'
BY MadeInvStep, ChildInvStep, ParentInvStep, NumberInvStep, DrainedInvStep, FedInvStep,
   ReadInvStep DEF CallInv, ChunkInv

\* The invariant of a call does not depend on what the others do.
LEMMA UntouchedKept ==
  ASSUME Types, NEW d \in Calls, CallInv(d), Untouched(d), size' = size
  PROVE  CallInv(d)'
<1>0. \A p \in Pipes : /\ OwnEnd(d, p) \in parent' <=> OwnEnd(d, p) \in parent
                       /\ ChildEnd(d, p) \in parent' <=> ChildEnd(d, p) \in parent
  BY TwoEnds, ThreePipes DEF Untouched, Kinds
<1>1. MadeInv(d)'
  BY DEF Untouched, CallInv, MadeInv
<1>2. ChildInv(d)'
  BY DEF Untouched, CallInv, ChildInv
<1>3. ParentInv(d)'
  BY <1>0 DEF Types, Untouched, CallInv, ParentInv
<1>4. ChunkInv(d)'
  BY <1>0, ThreePipes DEF Untouched, CallInv, ChunkInv, NumberInv, DrainedInv, FedInv, ReadInv, Buffered
<1>5. QED
  BY <1>1, <1>2, <1>3, <1>4 DEF CallInv

LEMMA InvHolds == ProcessSpec => []Inv
<1>1. ProcessInit => Inv
  <2> SUFFICES ASSUME ProcessInit PROVE Inv
    OBVIOUS
  <2>1. Types
    BY ThreePipes, ProcessAssumption DEF ProcessInit, Types, Ends
  <2>2. ASSUME NEW c \in Calls PROVE CallInv(c)
    <3>1. MadeInv(c)
      BY ThreePipes DEF ProcessInit, MadeInv, Making, Kinds
    <3>2. ChildInv(c) /\ ParentInv(c)
      BY ThreePipes DEF ProcessInit, ChildInv, ParentInv, Alive, EndedStages
    <3>3. ChunkInv(c)
      <4>1. size[c] \in Nat /\ Capacity \in Nat
        BY ProcessAssumption DEF ProcessInit
      <4>2. QED
        BY <4>1, ThreePipes DEF ProcessInit, ChunkInv, NumberInv, DrainedInv, FedInv, ReadInv, Buffered
    <3>4. QED
      BY <3>1, <3>2, <3>3 DEF CallInv
  <2>3. QED
    BY <2>1, <2>2 DEF Inv
<1>2. Inv /\ [ProcessNext]_processVars => Inv'
  <2> SUFFICES ASSUME Inv, [ProcessNext]_processVars PROVE Inv'
    OBVIOUS
  <2>1. ASSUME NEW c \in Calls, CallStep(c) PROVE Inv'
    <3>1. Types'
      BY <2>1, TypesStep DEF Inv
    <3>2. CallInv(c)'
      BY <2>1, CallInvStep DEF Inv
    <3>3. ASSUME NEW d \in Calls, c # d PROVE CallInv(d)'
      BY <2>1, <3>3, StepIsLocal, UntouchedKept DEF Inv
    <3>4. QED
      BY <3>1, <3>2, <3>3 DEF Inv
  <2>2. CASE UNCHANGED processVars
    <3> USE DEF processVars, thread, table, process
    <3>1. Types'
      BY <2>2 DEF Inv, Types
    <3>2. ASSUME NEW d \in Calls PROVE CallInv(d)'
      BY <2>2, UntouchedKept DEF Inv, Untouched
    <3>3. QED
      BY <3>1, <3>2 DEF Inv
  <2>3. QED
    BY <2>1, <2>2 DEF ProcessNext, CallStep
<1>3. QED
  BY <1>1, <1>2, PTL DEF ProcessSpec
-----------------------------------------------------------------------------
\* ProcessTypeOK holds for any number of calls: run_singular_process never serves a
\* pipe it has closed, and it exposes only descriptors that are open.
THEOREM ProcessTypeCorrect == ProcessSpec => []ProcessTypeOK
<1>1. Inv => ProcessTypeOK
  <2> SUFFICES ASSUME Inv PROVE ProcessTypeOK
    OBVIOUS
  <2>1. exposed \subseteq parent
    <3> SUFFICES ASSUME NEW e \in exposed PROVE e \in parent
      OBVIOUS
    <3>1. PICK c \in Calls, p \in Pipes, k \in Kinds : e = <<c, p, k>>
      BY DEF Inv, Types, Ends, Kinds
    <3>2. CallInv(c) /\ pipe[c] \in Pipes
      BY DEF Inv, Types
    <3>3. stage[c] \in {"mark_read", "mark_write"} /\ p = pipe[c]
      BY <3>1, <3>2 DEF CallInv, MadeInv
    <3>4. p <= pipe[c]
      BY <3>2, <3>3, ThreePipes
    <3>5. QED
      BY <3>1, <3>2, <3>3, <3>4 DEF CallInv, MadeInv
  <2>2. \A c \in Calls : ready[c] \subseteq {p \in Pipes : OwnEnd(c, p) \in parent}
    BY DEF Inv, Types, CallInv, ParentInv
  <2>3. QED
    BY <2>1, <2>2 DEF Inv, Types, ProcessTypeOK
<1>2. QED
  BY <1>1, InvHolds, PTL

\* OutputComplete for any number of calls, scripts and pipes: a call returns
\* with all its child wrote, and with a good status only after the child had
\* read the whole script, which is what lets the callers accept an output.
THEOREM OutputIsComplete == ProcessSpec => []OutputComplete
<1>1. Inv => OutputComplete
  <2> SUFFICES ASSUME Inv, NEW c \in Calls, stage[c] = "returned"
               PROVE  /\ \A p \in OutputPipes : taken[c][p] = put[c][p]
                      /\ status[c] = "ok" => taken[c][Stdin] = size[c]
    BY DEF OutputComplete
  <2>1. CallInv(c)
    BY DEF Inv
  <2>2. \A p \in OutputPipes : OwnEnd(c, p) \notin parent
    BY <2>1, TwoEnds, ThreePipes DEF CallInv, ParentInv, EndedStages, Kinds
  <2>3. QED
    BY <2>1, <2>2 DEF CallInv, ChunkInv, DrainedInv, ReadInv
<1>2. QED
  BY <1>1, InvHolds, PTL

\* NothingLeftBehind for any number of calls: neither a return nor an
\* exception, at whatever point, leaves a pipe or a child of the call.
THEOREM CallsCleanUp == ProcessSpec => []NothingLeftBehind
<1>1. Inv => NothingLeftBehind
  <2> SUFFICES ASSUME Inv, NEW c \in Calls, stage[c] \in EndedStages
               PROVE  /\ parent \cap EndsOf(c) = {}
                      /\ child[c] \in {"none", "reaped"} /\ held[c] = {}
    BY DEF NothingLeftBehind
  <2>1. CallInv(c)
    BY DEF Inv
  <2>2. \A p \in Pipes, k \in Kinds : <<c, p, k>> \notin parent
    BY <2>1 DEF CallInv, ParentInv
  <2>3. ASSUME NEW e \in EndsOf(c) PROVE e \notin parent
    <3>1. PICK p \in Pipes, k \in Kinds : e = <<c, p, k>>
      BY DEF EndsOf, Kinds
    <3>2. QED
      BY <2>2, <3>1
  <2>4. child[c] \in {"none", "reaped"} /\ held[c] = {}
    BY <2>1 DEF CallInv, ChildInv, EndedStages, Alive
  <2>5. QED
    BY <2>3, <2>4
<1>2. QED
  BY <1>1, InvHolds, PTL

-----------------------------------------------------------------------------
(***************************************************************************)
(* What RunFiles promises of the files, for any number of runs: the logs   *)
(* that a run finds are kept, destinations are whole, and exit code 0      *)
(* means that everything is in place.  The inductive invariant says, for   *)
(* every place of main, where the earlier log and the run's own log are.   *)
(* And what RunLog promises: names are reserved exclusively, for any       *)
(* number of runs and of suffixes.                                         *)
(***************************************************************************)

Archiving == {"reduce", "move", "copy", "copying", "replace", "remove", "restore"}

OwnLog == IF wrote THEN Text(run) ELSE Missing
Archived == IF wrote THEN Text(run) ELSE earlierArchive

\* Where the log that was there at the start of the run is.
EarlierLogAt ==
  /\ at = "protect" => source = earlier /\ backup = Missing
  /\ at \in Archiving => backup = earlier
  /\ at \in Outputs => source = earlier /\ backup = Missing
  /\ at = "restore" => source = Missing

\* Where the run's own log is, as long as no failure sends main elsewhere.
OwnLogAt ==
  /\ at = "protect" => ~wrote
  /\ at \in {"protect", "reduce"} \cup Outputs => attempt = "main"
  /\ at \in {"protect", "reduce"} => archive = earlierArchive
  /\ attempt = "main" /\ at \in {"reduce", "move", "copy", "copying", "replace"} =>
       archive = earlierArchive /\ source = OwnLog
  /\ at \in {"copy", "copying", "replace", "remove"} => source = Text(run) /\ wrote
  /\ at = "replace" => temporary = Text(run)
  /\ at = "remove" => archive = Text(run)
  /\ attempt = "main" /\ at \in {"restore"} \cup Outputs => archive = Archived
  /\ at = "basis" => outputs["results"] = Text(run)
  /\ at = "move" /\ wrote => Text(run) \in {source, archive}
  /\ at \in {"reduce", "move"} => source \in {Missing, OwnLog}

Whole ==
  /\ source.whole /\ backup.whole
  /\ DestinationsWhole

IInv == /\ TypeOK /\ EarlierLogAt /\ OwnLogAt /\ Whole
        /\ PreRunLogKept /\ OwnLogKept /\ SuccessComplete

\* The texts of a run are contents of a file, and a missing file is whole.
LEMMA TextFacts ==
  /\ Missing \in Contents /\ Missing.whole
  /\ \A r \in 0 .. MaxRuns :
       Text(r) \in Contents /\ Text(r) # Missing /\ Text(r).whole
  /\ \A r \in -1 .. MaxRuns : Partial(r) \in Contents
  /\ \A c \in Contents : c.by \in -1 .. MaxRuns
BY RunFilesAssumption DEF Contents, Missing, Text, Partial

\* The invariant holds at the start of the first run.
LEMMA InitInv == Init => IInv
<1> SUFFICES ASSUME Init PROVE IInv
  OBVIOUS
<1> USE RunFilesAssumption, TextFacts
<1>1. TypeOK
  <2>1. Text(0) \in Contents /\ 1 \in 1 .. MaxRuns
    OBVIOUS
  <2>2. outputs \in [Outputs -> Contents]
    BY <2>1 DEF Init
  <2>3. QED
    BY <2>1, <2>2 DEF Init, TypeOK, Places, StillRunning
<1>2. EarlierLogAt /\ OwnLogAt
  BY DEF Init, EarlierLogAt, OwnLogAt, Archiving, Outputs
<1>3. Whole /\ DestinationsWhole
  BY DEF Init, Whole, DestinationsWhole, Outputs
<1>4. PreRunLogKept /\ OwnLogKept /\ SuccessComplete
  BY DEF Init, PreRunLogKept, OwnLogKept, SuccessComplete, Kept, StillRunning
<1>5. QED
  BY <1>1, <1>2, <1>3, <1>4 DEF IInv

\* Every step keeps the types.
LEMMA TypeInv == TypeOK /\ [Next]_vars => TypeOK'
<1> SUFFICES ASSUME TypeOK, [Next]_vars PROVE TypeOK'
  OBVIOUS
<1> USE RunFilesAssumption, TextFacts
<1> USE DEF TypeOK, Outputs, Places, StillRunning, files, notes
<1>1. CASE Protect
  BY <1>1 DEF Protect, Exit, Goto
<1>2. CASE FireflyLogs
  BY <1>2 DEF FireflyLogs
<1>3. CASE ReductionEnds
  BY <1>3 DEF ReductionEnds, Goto
<1>4. CASE Move
  <2>1. UNCHANGED <<backup, oldBackups, temporary, outputs, notes>>
    BY <1>4 DEF Move
  <2>2. source' \in Contents /\ archive' \in Contents
    BY <1>4 DEF Move
  <2>3. /\ at' \in Places /\ attempt' \in {"main", "destructor", "retry", "gaveUp"}
        /\ exitCode' \in {StillRunning, 0, 2, 9} /\ (at' = "exit" <=> exitCode' # StillRunning)
    BY <1>4 DEF Move, Fail, Exit, Goto
  <2>4. QED
    BY <2>1, <2>2, <2>3
<1>5. CASE BeginCopy
  BY <1>5 DEF BeginCopy, CopyTo, Goto
<1>6. CASE EndCopy
  BY <1>6 DEF EndCopy, CopyTo, Fail, Exit, Goto
<1>7. CASE Replace
  BY <1>7 DEF Replace, Fail, Exit, Goto
<1>8. CASE Remove
  BY <1>8 DEF Remove, Fail, Exit, Goto
<1>9. CASE Restore
  BY <1>9 DEF Restore, Restored, Fail, Exit, Goto
<1>10. CASE BeginWrite
  BY <1>10 DEF BeginWrite
<1>11. CASE EndWrite
  BY <1>11 DEF EndWrite, Exit
<1>12. CASE Publish
  BY <1>12 DEF Publish, Exit, Goto
<1>13. CASE Crash
  BY <1>13 DEF Crash, Exit
<1>14. CASE NextRun
  <2>1. run' \in 1 .. MaxRuns /\ UNCHANGED <<source, archive, outputs, crossDevice>>
    BY <1>14 DEF NextRun
  <2>2. oldBackups' \subseteq Contents
    BY <1>14 DEF NextRun
  <2>3. QED
    BY <1>14, <2>1, <2>2 DEF NextRun
<1>15. CASE UNCHANGED vars
  BY <1>15 DEF vars
<1>16. QED
  BY <1>1, <1>2, <1>3, <1>4, <1>5, <1>6, <1>7, <1>8, <1>9, <1>10, <1>11, <1>12, <1>13, <1>14, <1>15 DEF Next, AllEnded

\* Every step keeps the logs where they are said to be.
LEMMA LogsInv == TypeOK /\ EarlierLogAt /\ OwnLogAt /\ PreRunLogKept /\ OwnLogKept /\ [Next]_vars => (EarlierLogAt /\ OwnLogAt /\ PreRunLogKept /\ OwnLogKept)'
<1> SUFFICES ASSUME TypeOK /\ EarlierLogAt /\ OwnLogAt /\ PreRunLogKept /\ OwnLogKept, [Next]_vars PROVE (EarlierLogAt /\ OwnLogAt /\ PreRunLogKept /\ OwnLogKept)'
  OBVIOUS
<1> USE TextFacts
<1> USE DEF TypeOK, EarlierLogAt, OwnLogAt, PreRunLogKept, OwnLogKept, Kept, Archiving, OwnLog, Archived, Outputs, Places, StillRunning, files, notes
<1>1. CASE Protect
  BY <1>1 DEF Protect, Exit, Goto
<1>2. CASE FireflyLogs
  BY <1>2 DEF FireflyLogs
<1>3. CASE ReductionEnds
  BY <1>3 DEF ReductionEnds, Goto
<1>4. CASE Move
  <2>1. EarlierLogAt' /\ PreRunLogKept'
    BY <1>4 DEF Move, Fail, Exit, Goto
  <2>2. OwnLogKept'
    BY <1>4 DEF Move
  <2>3. OwnLogAt'
    <3>1. CASE source = Missing /\ Goto("restore")
                 /\ UNCHANGED <<source, archive, attempt>>
      BY <1>4, <3>1 DEF Move, Goto
    <3>2. CASE source # Missing /\ Goto("restore") /\ archive' = source
                 /\ source' = Missing /\ UNCHANGED attempt
      BY <1>4, <3>2 DEF Move, Goto
    <3>3. CASE source # Missing /\ Goto("copy")
                 /\ UNCHANGED <<source, archive, attempt>>
      BY <1>4, <3>3 DEF Move, Goto
    <3>4. CASE Fail /\ UNCHANGED <<source, archive>>
      BY <1>4, <3>4 DEF Move, Fail, Exit, Goto
    <3>5. QED
      BY <1>4, <3>1, <3>2, <3>3, <3>4 DEF Move
  <2>4. QED
    BY <2>1, <2>2, <2>3
<1>5. CASE BeginCopy
  BY <1>5 DEF BeginCopy, CopyTo, Goto
<1>6. CASE EndCopy
  BY <1>6 DEF EndCopy, CopyTo, Fail, Exit, Goto
<1>7. CASE Replace
  BY <1>7 DEF Replace, Fail, Exit, Goto
<1>8. CASE Remove
  BY <1>8 DEF Remove, Fail, Exit, Goto
<1>9. CASE Restore
  BY <1>9 DEF Restore, Restored, Fail, Exit, Goto
<1>10. CASE BeginWrite
  BY <1>10 DEF BeginWrite
<1>11. CASE EndWrite
  BY <1>11 DEF EndWrite, Exit
<1>12. CASE Publish
  BY <1>12 DEF Publish, Exit, Goto
<1>13. CASE Crash
  BY <1>13 DEF Crash, Exit
<1>14. CASE NextRun
  BY <1>14 DEF NextRun
<1>15. CASE UNCHANGED vars
  BY <1>15 DEF vars
<1>16. QED
  BY <1>1, <1>2, <1>3, <1>4, <1>5, <1>6, <1>7, <1>8, <1>9, <1>10, <1>11, <1>12, <1>13, <1>14, <1>15 DEF Next, AllEnded

\* Every step keeps the destinations whole.
LEMMA WholeInv == TypeOK /\ OwnLogAt /\ Whole /\ [Next]_vars => Whole'
<1> SUFFICES ASSUME TypeOK /\ OwnLogAt /\ Whole, [Next]_vars PROVE Whole'
  OBVIOUS
<1> USE TextFacts
<1> USE DEF TypeOK, OwnLogAt, Whole, DestinationsWhole, Outputs, files, notes
<1>1. CASE Protect
  BY <1>1 DEF Protect, Exit, Goto
<1>2. CASE FireflyLogs
  BY <1>2 DEF FireflyLogs
<1>3. CASE ReductionEnds
  BY <1>3 DEF ReductionEnds, Goto
<1>4. CASE Move
  BY <1>4 DEF Move, Fail, Exit, Goto
<1>5. CASE BeginCopy
  BY <1>5 DEF BeginCopy, CopyTo, Goto
<1>6. CASE EndCopy
  BY <1>6 DEF EndCopy, CopyTo, Fail, Exit, Goto
<1>7. CASE Replace
  BY <1>7 DEF Replace, Fail, Exit, Goto
<1>8. CASE Remove
  BY <1>8 DEF Remove, Fail, Exit, Goto
<1>9. CASE Restore
  BY <1>9 DEF Restore, Restored, Fail, Exit, Goto
<1>10. CASE BeginWrite
  BY <1>10 DEF BeginWrite
<1>11. CASE EndWrite
  BY <1>11 DEF EndWrite, Exit
<1>12. CASE Publish
  BY <1>12 DEF Publish, Exit, Goto
<1>13. CASE Crash
  BY <1>13 DEF Crash, Exit
<1>14. CASE NextRun
  BY <1>14 DEF NextRun
<1>15. CASE UNCHANGED vars
  BY <1>15 DEF vars
<1>16. QED
  BY <1>1, <1>2, <1>3, <1>4, <1>5, <1>6, <1>7, <1>8, <1>9, <1>10, <1>11, <1>12, <1>13, <1>14, <1>15 DEF Next, AllEnded

\* Every step that ends with exit code 0 has everything in place.
LEMMA SuccessInv == TypeOK /\ EarlierLogAt /\ OwnLogAt /\ SuccessComplete /\ [Next]_vars => SuccessComplete'
<1> SUFFICES ASSUME TypeOK /\ EarlierLogAt /\ OwnLogAt /\ SuccessComplete, [Next]_vars PROVE SuccessComplete'
  OBVIOUS
<1> USE TextFacts
<1> USE DEF TypeOK, EarlierLogAt, OwnLogAt, SuccessComplete, Archived, Outputs, Places, StillRunning, files, notes
<1>1. CASE Protect
  BY <1>1 DEF Protect, Exit, Goto
<1>2. CASE FireflyLogs
  BY <1>2 DEF FireflyLogs
<1>3. CASE ReductionEnds
  BY <1>3 DEF ReductionEnds, Goto
<1>4. CASE Move
  BY <1>4 DEF Move, Fail, Exit, Goto
<1>5. CASE BeginCopy
  BY <1>5 DEF BeginCopy, CopyTo, Goto
<1>6. CASE EndCopy
  BY <1>6 DEF EndCopy, CopyTo, Fail, Exit, Goto
<1>7. CASE Replace
  BY <1>7 DEF Replace, Fail, Exit, Goto
<1>8. CASE Remove
  BY <1>8 DEF Remove, Fail, Exit, Goto
<1>9. CASE Restore
  BY <1>9 DEF Restore, Restored, Fail, Exit, Goto
<1>10. CASE BeginWrite
  BY <1>10 DEF BeginWrite
<1>11. CASE EndWrite
  BY <1>11 DEF EndWrite, Exit
<1>12. CASE Publish
  BY <1>12 DEF Publish, Exit, Goto
<1>13. CASE Crash
  BY <1>13 DEF Crash, Exit
<1>14. CASE NextRun
  BY <1>14 DEF NextRun
<1>15. CASE UNCHANGED vars
  BY <1>15 DEF vars
<1>16. QED
  BY <1>1, <1>2, <1>3, <1>4, <1>5, <1>6, <1>7, <1>8, <1>9, <1>10, <1>11, <1>12, <1>13, <1>14, <1>15 DEF Next, AllEnded

\* Every step keeps the invariant.
LEMMA NextInv == IInv /\ [Next]_vars => IInv'
BY TypeInv, LogsInv, WholeInv, SuccessInv DEF IInv

\* The files and the places of main keep their types.
THEOREM TypeCorrect == Spec => []TypeOK
<1>1. IInv => TypeOK
  BY DEF IInv
<1>2. QED
  BY <1>1, InitInv, NextInv, PTL DEF Spec

\* Through every failed call, retry and crash the log a run has found is in its
\* place or in a backup.
THEOREM EarlierLogIsKept == Spec => []PreRunLogKept
<1>1. IInv => PreRunLogKept
  BY DEF IInv
<1>2. QED
  BY <1>1, InitInv, NextInv, PTL DEF Spec

\* The log a run has written is in its place or archived.
THEOREM OwnLogIsKept == Spec => []OwnLogKept
<1>1. IInv => OwnLogKept
  BY DEF IInv
<1>2. QED
  BY <1>1, InitInv, NextInv, PTL DEF Spec

\* No output and no archived log is ever half written.
THEOREM DestinationsAreWhole == Spec => []DestinationsWhole
<1>1. IInv => DestinationsWhole
  BY DEF IInv, Whole
<1>2. QED
  BY <1>1, InitInv, NextInv, PTL DEF Spec

\* Exit code 0 means that the run's own log is archived, the earlier one is back
\* and every output is of this run.
THEOREM SuccessIsComplete == Spec => []SuccessComplete
<1>1. IInv => SuccessComplete
  BY DEF IInv
<1>2. QED
  BY <1>1, InitInv, NextInv, PTL DEF Spec

-----------------------------------------------------------------------------
(* The log of the run itself.  That a reservation is exclusive is inductive as *)
(* it stands: a run that becomes a holder has just created the directory, so   *)
(* no holder had it, and a holder removes no directory but its own.            *)

\* The type invariant of the log reservation: whatever the runs do, every index
\* is one of the suffixes tried.
THEOREM LogTypeCorrect == LogSpec => []LogTypeOK
<1>1. LogInit => LogTypeOK
  BY RunLogAssumption DEF LogInit, LogTypeOK, Names, NoPath
<1>2. LogTypeOK /\ [LogNext]_logVars => LogTypeOK'
  <2> SUFFICES ASSUME LogTypeOK, [LogNext]_logVars PROVE LogTypeOK'
    OBVIOUS
  <2> USE RunLogAssumption DEF LogTypeOK, Names, NoPath
  <2>1. ASSUME NEW r \in Runs, Exists(r) PROVE LogTypeOK'
    BY <2>1 DEF Exists, TryNext, Call
  <2>2. ASSUME NEW r \in Runs, Reserve(r) PROVE LogTypeOK'
    <3>1. index[r] \in Names
      BY <2>2
    <3>2. CASE reservations' = reservations \cup {index[r]} /\ Call(r, "open")
                 /\ UNCHANGED <<logs, index, path>>
      BY <3>1, <3>2 DEF Call
    <3>3. CASE TryNext(r) /\ UNCHANGED <<logs, reservations, path>>
      BY <3>1, <3>3 DEF TryNext, Call
    <3>4. QED
      BY <2>2, <3>2, <3>3 DEF Reserve
  <2>3. ASSUME NEW r \in Runs, Open(r) PROVE LogTypeOK'
    BY <2>3 DEF Open, Call
  <2>4. ASSUME NEW r \in Runs, Release(r) PROVE LogTypeOK'
    BY <2>4 DEF Release, Call
  <2>5. ASSUME NEW r \in Runs, CrashLogging(r) PROVE LogTypeOK'
    BY <2>5 DEF CrashLogging, Call
  <2>6. CASE UNCHANGED logVars
    BY <2>6 DEF logVars
  <2>7. QED
    BY <2>1, <2>2, <2>3, <2>4, <2>5, <2>6 DEF LogNext, Step, AllLogsEnded
<1>3. QED
  BY <1>1, <1>2, PTL DEF LogSpec

\* A run that is about to open its log, or to release its reservation, is the
\* only one to do so for that name and still owns the lock directory.
THEOREM ReservationsAreExclusive == LogSpec => []ReservationsExclusive
<1>1. LogInit => ReservationsExclusive
  BY DEF LogInit, ReservationsExclusive, Holders
<1>2. LogTypeOK /\ ReservationsExclusive /\ [LogNext]_logVars => ReservationsExclusive'
  <2> SUFFICES ASSUME LogTypeOK, ReservationsExclusive, [LogNext]_logVars
               PROVE  ReservationsExclusive'
    OBVIOUS
  <2> USE DEF LogTypeOK, ReservationsExclusive, Holders, Call
  <2>1. ASSUME NEW r \in Runs, Exists(r) PROVE ReservationsExclusive'
    BY <2>1 DEF Exists, TryNext
  <2>2. ASSUME NEW r \in Runs, Reserve(r) PROVE ReservationsExclusive'
    <3>1. CASE Creatable(index[r]) /\ reservations' = reservations \cup {index[r]}
                 /\ call' = [call EXCEPT ![r] = "open"] /\ UNCHANGED index
      BY <3>1 DEF Creatable
    <3>2. CASE TryNext(r) /\ UNCHANGED reservations
      BY <2>2, <3>2 DEF TryNext, Reserve
    <3>3. QED
      BY <2>2, <3>1, <3>2 DEF Reserve
  <2>3. ASSUME NEW r \in Runs, Open(r) PROVE ReservationsExclusive'
    BY <2>3 DEF Open
  <2>4. ASSUME NEW r \in Runs, Release(r) PROVE ReservationsExclusive'
    BY <2>4 DEF Release
  <2>5. ASSUME NEW r \in Runs, CrashLogging(r) PROVE ReservationsExclusive'
    BY <2>5 DEF CrashLogging
  <2>6. CASE UNCHANGED logVars
    BY <2>6 DEF logVars
  <2>7. QED
    BY <2>1, <2>2, <2>3, <2>4, <2>5, <2>6 DEF LogNext, Step, AllLogsEnded
<1>3. QED
  BY <1>1, <1>2, LogTypeCorrect, PTL DEF LogSpec
=============================================================================
