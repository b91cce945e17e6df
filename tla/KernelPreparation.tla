-------------------------- MODULE KernelPreparation --------------------------
(***************************************************************************)
(* Preparation of a reduction kernel (BlackBoxFeynman::prepare): plan an   *)
(* elimination structure at an anchor point, validate the recorded         *)
(* elimination at points of two primes, select the outputs that were seen  *)
(* nonzero, finalize the replay, validate the replay at the same points,   *)
(* and start over at the next anchor when any of it fails.                 *)
(*                                                                         *)
(* What the numerics answer is arbitrary but deterministic: one structure  *)
(* has one outcome at one point, remembered in "facts" once it was asked.  *)
(***************************************************************************)
EXTENDS Naturals, FiniteSets

CONSTANTS
  Structures,      \* the elimination structures an anchor may lead to
  Outputs,         \* coefficients, request by master
  AnchorAttempts,  \* kProbeAttemptLimit: bounds the anchors tried
  PointAttempts,   \* kProbeAttemptLimit again: bounds the points tried per prime
  PointsPerPrime   \* kValidationPointsPerPrime

ASSUME KernelPreparationAssumption ==
  {AnchorAttempts, PointAttempts} \subseteq Nat \ {0} /\ PointsPerPrime \in Nat \ {0}

Primes == {1, 2}                      \* positions in usable_firefly_primes
Points == 0 .. PointAttempts - 1      \* validation_point_index

\* The answer of evaluate_reference: the outputs that are not zero, or why there
\* are none: a zero pivot or an evaluation error, or a closure residual.
NoPoint == [kind |-> "point-rejected", nonzero |-> {}]
Residual == [kind |-> "closure-residual", nonzero |-> {}]
Answers == [kind : {"valid"}, nonzero : SUBSET Outputs]
Outcomes == Answers \cup {NoPoint, Residual}
Verdicts == {"agrees", "differs"}    \* of the replay, on what the reference answered

VARIABLES
  at,          \* where the call is
  attempt,     \* anchor_attempt
  candidate,   \* the structure of the candidate kernel
  prime,       \* FFInt::p, global
  loaders,     \* the prime the candidate's loaders are compiled for, 0 before
  point,       \* attempt of the validation loop
  samples,     \* validation_samples: prime and point
  support,     \* nonzero_outputs, then reconstructed_output_positions
  replayed,    \* the samples the replay has been compared at
  facts,       \* outcomes of evaluate_reference so far
  replayFacts, \* does the finalized replay agree with the reference, so far
  refused      \* structures an anchor was rejected for

oracle == <<facts, replayFacts>>
checking == <<point, samples, support, replayed>>
vars == <<at, attempt, candidate, prime, loaders, checking, oracle, refused>>

None == "none"

Init ==
  /\ at = "anchor" /\ attempt = 0
  /\ candidate = None /\ prime \in Primes /\ loaders = 0
  /\ point = 0 /\ samples = {} /\ support = {} /\ replayed = {}
  /\ facts = << >> /\ replayFacts = << >> /\ refused = {}

Throw == at' = "threw"

\* Mutants: the support of the candidate before is kept; one anchor too many.
StartAnchorKeepingSupport ==
  /\ at = "anchor" /\ attempt < AnchorAttempts
  /\ at' = "plan"
  /\ prime' = 1 /\ candidate' = None /\ loaders' = 0
  /\ point' = 0 /\ samples' = {} /\ replayed' = {}
  /\ UNCHANGED <<attempt, support, oracle, refused>>

\* A new candidate, with nothing carried over from the one before.
StartAnchor ==
  /\ at = "anchor" /\ attempt < AnchorAttempts
  /\ at' = "plan"
  /\ prime' = 1 /\ candidate' = None /\ loaders' = 0
  /\ point' = 0 /\ samples' = {} /\ support' = {} /\ replayed' = {}
  /\ UNCHANGED <<attempt, oracle, refused>>

\* Mutant: the same anchor again.
SameAnchor == at' = "anchor" /\ UNCHANGED attempt

NextAnchor == at' = "anchor" /\ attempt' = attempt + 1

\* plan_kernel or plan_from_source at the anchor: a structure, an anchor that is
\* rejected, or an error that another anchor cannot cure.
Plan ==
  /\ at = "plan"
  /\ \/ /\ candidate' \in Structures
        /\ at' = "reference" /\ UNCHANGED attempt
     \/ NextAnchor /\ UNCHANGED candidate
     \/ Throw /\ UNCHANGED <<attempt, candidate>>
  /\ UNCHANGED <<prime, loaders, checking, oracle, refused>>

Taken(p) == {q \in Points : <<p, q>> \in samples}
Complete(p) == Cardinality(Taken(p)) = PointsPerPrime

\* Mutant: every anchor draws points of its own.
ShiftedPointAt(i) == (i + attempt) % PointAttempts

\* Every anchor walks the same stream of points.
PointAt(i) == i

Known(f, key) == IF key \in DOMAIN f THEN {f[key]} ELSE {}
Learn(f, key, value) == [k \in DOMAIN f \cup {key} |-> IF k = key THEN value ELSE f[k]]

\* What evaluate_reference answers at the next point of the stream.
Key == <<candidate, prime, PointAt(point)>>
Ask(outcome) == Known(facts, Key) \subseteq {outcome} /\ facts' = Learn(facts, Key, outcome)

Refuse ==
  /\ NextAnchor /\ prime' = 1
  /\ refused' = refused \cup {candidate}

\* A valid point leaves its sample and the outputs it saw.
ValidPoint(outcome) ==
  /\ outcome.kind = "valid"
  /\ samples' = samples \cup {<<prime, PointAt(point)>>}
  /\ support' = support \cup outcome.nonzero
  /\ point' = point + 1
  /\ UNCHANGED <<at, attempt, prime, refused>>

\* A zero pivot or an evaluation error: try the next point.
RejectedPoint(outcome) ==
  /\ outcome = NoPoint
  /\ point' = point + 1
  /\ UNCHANGED <<at, attempt, prime, refused, samples, support>>

\* selection_invalid: the structure does not solve the system.
ResidualPoint(outcome) ==
  /\ outcome = Residual /\ Refuse
  /\ UNCHANGED <<point, samples, support>>

\* evaluate_validation_reference at one point.
Reference ==
  /\ at = "reference" /\ point < PointAttempts /\ ~Complete(prime)
  /\ \E outcome \in Outcomes :
       /\ Ask(outcome)
       /\ ValidPoint(outcome) \/ RejectedPoint(outcome) \/ ResidualPoint(outcome)
  /\ UNCHANGED <<candidate, loaders, replayed, replayFacts>>

\* The points ran out before the prime had its samples.
OutOfPoints ==
  /\ at = "reference" /\ point = PointAttempts /\ ~Complete(prime)
  /\ Refuse
  /\ UNCHANGED <<candidate, loaders, checking, oracle>>

\* Any other error of the evaluation restores the first prime and leaves.
ReferenceThrows ==
  /\ at = "reference" /\ ~Complete(prime)
  /\ Throw /\ prime' = 1
  /\ UNCHANGED <<attempt, candidate, loaders, checking, oracle, refused>>

SecondPrime ==
  /\ at = "reference" /\ prime = 1 /\ Complete(1)
  /\ prime' = 2 /\ point' = 0
  /\ UNCHANGED <<at, attempt, candidate, loaders, samples, support, replayed, oracle,
                 refused>>

\* select_reconstructed_outputs and finalize_replay, whose compile_loaders is for
\* the prime of the moment; without outputs there is nothing to replay.
Finalize ==
  /\ at = "reference" /\ prime = 2 /\ Complete(2)
  /\ prime' = 1 /\ loaders' = 1
  /\ at' = IF support = {} THEN "accept" ELSE "replay"
  /\ UNCHANGED <<attempt, candidate, checking, oracle, refused>>

\* Mutant: the loaders keep the weights of the prime before.
StalePrimeChanged == UNCHANGED loaders

\* BlackBoxFeynman::prime_changed, after the prime was set.
PrimeChanged == loaders' = prime'

\* The samples in the order they were taken.
NextSample(s) ==
  /\ s \in samples \ replayed
  /\ \A t \in samples \ replayed : s[1] < t[1] \/ (s[1] = t[1] /\ s[2] <= t[2])

\* The replay at one sample, compared with the reference there. A difference or a
\* zero pivot rejects the anchor; any other error leaves with the prime as it is.
Replay ==
  /\ at = "replay"
  /\ \E s \in samples : NextSample(s) /\
       \E verdict \in Verdicts :
         LET key == <<candidate, s>> IN
         /\ Known(replayFacts, key) \subseteq {verdict}
         /\ replayFacts' = Learn(replayFacts, key, verdict)
         /\ \/ /\ verdict = "agrees" /\ prime' = s[1]
               /\ replayed' = replayed \cup {s} /\ UNCHANGED <<at, attempt, refused>>
            \/ verdict = "differs" /\ Refuse /\ UNCHANGED replayed
         /\ PrimeChanged
  /\ UNCHANGED <<candidate, point, samples, support, facts>>

ReplayThrows ==
  /\ at = "replay"
  /\ \E s \in samples : NextSample(s) /\ prime' = s[1]
  /\ PrimeChanged /\ Throw
  /\ UNCHANGED <<attempt, candidate, checking, oracle, refused>>

\* After the last sample the kernel goes back to the first prime.
Accept ==
  /\ at = "accept" \/ (at = "replay" /\ replayed = samples)
  /\ prime' = 1 /\ PrimeChanged
  /\ at' = "returned"
  /\ UNCHANGED <<attempt, candidate, checking, oracle, refused>>

Exhausted ==
  /\ at = "anchor" /\ attempt = AnchorAttempts
  /\ Throw
  /\ UNCHANGED <<attempt, candidate, prime, loaders, checking, oracle, refused>>

Step ==
  \/ StartAnchor \/ Plan \/ Reference \/ OutOfPoints \/ ReferenceThrows
  \/ SecondPrime \/ Finalize \/ Replay \/ ReplayThrows \/ Accept \/ Exhausted

Done == at \in {"returned", "threw"} /\ UNCHANGED vars

Next == Step \/ Done

Spec == Init /\ [][Next]_vars /\ WF_vars(Step)

-----------------------------------------------------------------------------

\* Types: every answer remembered is one the evaluation can give.
TypeOK ==
  /\ at \in {"anchor", "plan", "reference", "replay", "accept", "returned", "threw"}
  /\ attempt \in 0 .. AnchorAttempts /\ candidate \in Structures \cup {None}
  /\ prime \in Primes /\ loaders \in Primes \cup {0}
  /\ point \in 0 .. PointAttempts
  /\ samples \subseteq Primes \X Points /\ replayed \subseteq samples
  /\ support \subseteq Outputs /\ refused \subseteq Structures
  /\ DOMAIN facts \subseteq Structures \X Primes \X Points
  /\ \A key \in DOMAIN facts : facts[key] \in Outcomes
  /\ DOMAIN replayFacts \subseteq Structures \X (Primes \X Points)
  /\ \A key \in DOMAIN replayFacts : replayFacts[key] \in Verdicts

\* "Every planning-anchor retry must pass the same validation stream. Otherwise a
\* retry could evade a point that already exposed an invalid numerically inferred
\* Tape structure" (BlackBoxFeynman.cpp:659): a structure an anchor was rejected
\* for is not accepted at a later anchor.
NoSecondChance == at \in {"accept", "returned"} => candidate \notin refused

\* The outputs reconstructed are exactly those this kernel was seen nonzero at, on
\* the full number of points at both primes, and the replay agreed at every one of
\* them: nothing of a rejected candidate is left in it.
SupportIsWhatWasSeen ==
  at \in {"replay", "accept", "returned"} =>
    /\ \A p \in Primes : Complete(p)
    /\ support = UNION {facts[<<candidate, s[1], s[2]>>].nonzero : s \in samples}
    /\ at = "returned" /\ support # {} => 
         \A s \in samples : replayFacts[<<candidate, s>>] = "agrees"

\* The loaders hold weights of the prime in use from the first replay on, and a kernel
\* is planned and handed over at the first prime.
LoadersFollowPrime ==
  /\ at \in {"replay", "accept", "returned"} => loaders = prime
  /\ at \in {"plan", "accept", "returned"} => prime = 1

\* However planning and validation answer, the call returns or throws: no anchor and no
\* point is tried for ever.
CallEnds == <>(at \in {"returned", "threw"})
=============================================================================
