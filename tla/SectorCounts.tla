----------------------------- MODULE SectorCounts -----------------------------
(***************************************************************************)
(* count_sectors (masters/detail/SectorDimensionCounter.cpp): how many     *)
(* master integrals the sectors of a family have in total.  Each sector is *)
(* counted by Singular at two primes.  The counts of a round run in        *)
(* batches, one process each; a batch whose process or output is wrong     *)
(* gives no count at all.  A sector whose primes agree is settled, one     *)
(* whose primes disagree is tried again at other points, up to three       *)
(* rounds, and one with a failed process is given up.  From the totals     *)
(* the net counts of the sectors follow by inversion.                      *)
(*                                                                         *)
(* Singular is external: what a count prints is an input.                  *)
(***************************************************************************)
EXTENDS Integers, Sequences, FiniteSets, FiniteSetsExt

CONSTANTS
  Threads,    \* config.threads
  HeavySize,  \* variables from which on a count gets a process of its own
  Labelled    \* the sectors a family may have

ASSUME ThreadsAssumption == Threads \in Nat \ {0}
ASSUME HeavySizeAssumption == HeavySize \in Nat

VARIABLES
  inventory,  \* the nonzero sectors that are counted
  answers,    \* what Singular may print for each: its dimension at a point, -1 if
              \* that is not finite, -2 if the polynomial vanishes
  attempts,   \* Row::attempts: for each sector, the counts of its two probes by round
  dimension,  \* Row::dimension
  pending,    \* the sectors of the round
  batches,    \* the batches of the round that have not run
  round,      \* the rounds that have begun
  counter     \* what count_sectors does

countVars == <<inventory, answers, attempts, dimension, pending, batches, round, counter>>

Probes == {0, 1}
Rounds == 3

\* An optional that is empty, and a probe with an error: no count is below -2.
None == -3
Failed == -4

-----------------------------------------------------------------------------
(* singular_probe_batches *)

MaskOf(sector) == MapThenSumSet(LAMBDA v : 2 ^ (v - 1), sector)

\* Sectors with more variables come first.
HeavierFirst(S, T) ==
  \/ Cardinality(S) > Cardinality(T)
  \/ Cardinality(S) = Cardinality(T) /\ MaskOf(S) < MaskOf(T)

Tasks(sectors) == sectors \X Probes

\* Only counts with regulators are heavy.
Heavy(sectors, regulated) == {S \in sectors : regulated /\ Cardinality(S) >= HeavySize}
Light(sectors, regulated) == sectors \ Heavy(sectors, regulated)

\* The place of a task among the light ones.
Position(sectors, regulated, task) ==
  2 * Cardinality({S \in Light(sectors, regulated) : HeavierFirst(S, task[1])}) + task[2]

Smaller(a, b) == IF a < b THEN a ELSE b
LightBatches(sectors, regulated) ==
  Smaller(2 * Cardinality(Light(sectors, regulated)), Threads)

\* The batch of a task: its own, or one of the light ones in turn.
BatchOf(sectors, regulated, task) ==
  IF task[1] \in Heavy(sectors, regulated) THEN <<"heavy", task>>
  ELSE <<"light", Position(sectors, regulated, task) % LightBatches(sectors, regulated)>>

TasksOf(sectors, regulated, batch) ==
  {t \in Tasks(sectors) : BatchOf(sectors, regulated, t) = batch}
SingularProbeBatches(sectors, regulated) ==
  {BatchOf(sectors, regulated, t) : t \in Tasks(sectors)}

BatchTasks(batch) == TasksOf(pending, TRUE, batch)

-----------------------------------------------------------------------------

Latest(sector) == attempts[sector][Len(attempts[sector])]

CountInit ==
  /\ inventory = {}
  /\ answers = <<>>
  /\ attempts = <<>>
  /\ dimension = <<>>
  /\ pending = {}
  /\ batches = {}
  /\ round = 0
  /\ counter = "idle"

\* count_sectors is called.
StartCount(sectors, possible) ==
  /\ counter = "idle"
  /\ inventory' = sectors
  /\ answers' = possible
  /\ attempts' = [s \in sectors |-> <<>>]
  /\ dimension' = [s \in sectors |-> None]
  /\ pending' = sectors
  /\ counter' = "rounds"
  /\ UNCHANGED <<batches, round>>

\* Slots for the results are made before the batches start.
StartRound ==
  /\ counter = "rounds"
  /\ pending # {}
  /\ round < Rounds
  /\ round' = round + 1
  /\ attempts' = [s \in inventory |->
                    IF s \in pending THEN Append(attempts[s], [p \in Probes |-> None])
                    ELSE attempts[s]]
  /\ batches' = SingularProbeBatches(pending, TRUE)
  /\ counter' = "counting"
  /\ UNCHANGED <<inventory, answers, dimension, pending>>

\* The probes of a batch get their answers.
WithAnswers(batch, answer) ==
  [s \in inventory |->
     IF \E p \in Probes : <<s, p>> \in BatchTasks(batch)
       THEN [attempts[s] EXCEPT ![Len(attempts[s])] =
               [p \in Probes |-> IF <<s, p>> \in BatchTasks(batch)
                                   THEN answer[<<s, p>>] ELSE @[p]]]
       ELSE attempts[s]]

\* count_batch: every answer of the batch, or an error for each of its probes.
IsBatchResult(batch, answer) ==
  \/ \A t \in BatchTasks(batch) : answer[t] = Failed
  \/ \A t \in BatchTasks(batch) : answer[t] \in answers[t[1]]

CountBatch(batch) ==
  /\ counter = "counting"
  /\ batch \in batches
  /\ \E answer \in [BatchTasks(batch) ->
                      {Failed} \union UNION {answers[s] : s \in pending}] :
       /\ IsBatchResult(batch, answer)
       /\ attempts' = WithAnswers(batch, answer)
  /\ batches' = batches \ {batch}
  /\ UNCHANGED <<inventory, answers, dimension, pending, round, counter>>

HasError(attempt) == \E p \in Probes : attempt[p] = Failed

\* Regulated counts must be finite; a critical one may be -1 (Method::Critical).
Agrees(attempt) == ~HasError(attempt) /\ attempt[0] = attempt[1] /\ attempt[0] >= 0

\* Mutant: a sector whose process failed is tried again as well.
RetriedAfterAll(attempt) == ~Agrees(attempt)

Retried(attempt) == ~HasError(attempt) /\ ~Agrees(attempt)

EndRound ==
  /\ counter = "counting"
  /\ batches = {}
  /\ dimension' = [s \in inventory |->
                     IF s \in pending /\ Agrees(Latest(s)) THEN Latest(s)[0] ELSE dimension[s]]
  /\ pending' = {s \in pending : Retried(Latest(s))}
  /\ counter' = "rounds"
  /\ UNCHANGED <<inventory, answers, attempts, batches, round>>

FinishCount ==
  /\ counter = "rounds"
  /\ pending = {} \/ round = Rounds
  /\ counter' = "counted"
  /\ UNCHANGED <<inventory, answers, attempts, dimension, pending, batches, round>>

CountNext ==
  \/ StartRound
  \/ \E batch \in batches : CountBatch(batch)
  \/ EndRound
  \/ FinishCount

-----------------------------------------------------------------------------
(* compute_net_counts *)

Settled(s) == dimension[s] # None
Complete == \A s \in inventory : Settled(s)

Below(s) == {c \in inventory : c # s /\ c \subseteq s}

\* Sectors from those with the fewest variables on; what is above a sector without
\* a net count has none.
\* A count is in a set of its own, none in an empty one.
NetCounts ==
  LET net[s \in inventory] ==
        IF ~Settled(s) \/ \E c \in Below(s) : net[c] = {} THEN {}
        ELSE {dimension[s] - MapThenSumSet(LAMBDA c : CHOOSE n \in net[c] : TRUE, Below(s))}
  IN  net

-----------------------------------------------------------------------------
(* The counter on its own. *)

Outcomes == {n \in Int : n >= -2}

StartSomeCount ==
  \E sectors \in SUBSET Labelled : \E possible \in [sectors -> SUBSET Outcomes] :
    StartCount(sectors, possible)

CountSpec == CountInit /\ [][StartSomeCount \/ CountNext]_countVars

Started == counter # "idle"
HasRun(s) == attempts[s] # <<>>

\* A settled sector was counted alike at both primes of its last attempt, as a finite
\* number, and no process of any of its attempts failed.
SettledByBothPrimes ==
  \A s \in inventory : Settled(s) =>
    /\ dimension[s] >= 0
    /\ HasRun(s)
    /\ \A p \in Probes : Latest(s)[p] = dimension[s]

\* Every attempt but the last had its counts and found them at odds: nothing is counted
\* again that had settled or whose process had failed, and never a fourth time.
RetriedForDisagreement ==
  \A s \in inventory :
    /\ Len(attempts[s]) <= Rounds
    /\ \A k \in 1 .. Len(attempts[s]) - 1 :
         /\ \A p \in Probes : attempts[s][k][p] \notin {None, Failed}
         /\ ~Agrees(attempts[s][k])

\* A sector without a count has had all its rounds, or a process of it failed.
GivenUpLate ==
  counter = "counted" =>
    \A s \in inventory : ~Settled(s) =>
      HasRun(s) /\ (HasError(Latest(s)) \/ Len(attempts[s]) = Rounds)

\* The three together (SectorDimensionCounter.cpp:220-274).
CountsJustified == SettledByBothPrimes /\ RetriedForDisagreement /\ GivenUpLate
=============================================================================
