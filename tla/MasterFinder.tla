----------------------------- MODULE MasterFinder -----------------------------
(***************************************************************************)
(* From a family to the candidates for its master integrals                *)
(* (masters/MasterFinder.cpp, detail/MasterSectorAnalysis.cpp).  Singular  *)
(* looks at the critical points of each representative sector at two       *)
(* primes, in batches on the worker pool; unless some are not isolated,    *)
(* the sectors are counted once more with regulators (SectorCounts) and    *)
(* the two numbers compared.  If all agree, the monomials of the critical  *)
(* points are the basis; otherwise they, corners and dots are candidates   *)
(* for a global selection.                                                 *)
(*                                                                         *)
(* Variables of the program's own configuration that do not change are in  *)
(* `family`.  Any process may fail.                                        *)
(***************************************************************************)
EXTENDS QuotientBasis, SectorCounts

VARIABLES
  family,      \* MasterFinderConfig: the polynomial, and the analysis of its symmetry
  points,      \* where the two critical probes are: prime, d and kinematics
  results,     \* calculate_all_sector_bases: the results by sector and probe
  running,     \* its batches that have not ended
  critical,    \* analysis.critical, by representative sector
  comparisons, \* analysis.comparisons, by sector
  candidates,  \* the MasterCandidateSet
  finder       \* what the finder does

finderVars == <<family, points, results, running, critical, comparisons, candidates, finder>>

-----------------------------------------------------------------------------
(* calculate_all_sector_bases *)

\* representative_sectors: one of each class.
Representatives(fam) ==
  {S \in fam.valid : \A c \in fam.classes : S \in DOMAIN c.relations => S = c.representative}

\* sector_symmetry: the symmetries of a sector that represents a class.
SectorGenerators(fam, sector) ==
  UNION {c.generators : c \in {k \in fam.classes : k.representative = sector}}

ProbeTasks(batch) == TasksOf(DOMAIN results, FALSE, batch)

StartProbes ==
  /\ finder = "probe"
  /\ running' = SingularProbeBatches(Representatives(family), FALSE)
  /\ results' = [s \in Representatives(family) |-> [p \in Probes |-> {}]]
  /\ finder' = "probing"
  /\ UNCHANGED <<family, points, critical, comparisons, candidates>>

ResultOf(task) ==
  ProbeResult(task[1], SectorGenerators(family, task[1]),
              CriticalIdeal(family, task[1], points[task[2]]), points[task[2]].prime)

\* calculate_probe_batch: the results of all its tasks, or an exception.
BatchResults(batch) ==
  IF \E t \in ProbeTasks(batch) : Annihilated(family, t[1], points[t[2]]) THEN {}
  ELSE {r \in {[t \in ProbeTasks(batch) |-> ResultOf(t)]} :
          \A t \in ProbeTasks(batch) : r[t] # {}}

RunProbes(batch) ==
  /\ finder = "probing"
  /\ batch \in running
  /\ running' = running \ {batch}
  /\ \E r \in BatchResults(batch) :
       results' = [s \in DOMAIN results |->
                     [p \in Probes |-> IF <<s, p>> \in DOMAIN r THEN r[<<s, p>>]
                                       ELSE results[s][p]]]
  /\ UNCHANGED <<family, points, critical, comparisons, candidates, finder>>

\* The exception of a batch leaves the finder; that of its process may come at any time.
FailProbes ==
  /\ finder = "probing"
  /\ running # {}
  /\ finder' = "failed"
  /\ UNCHANGED <<family, points, results, running, critical, comparisons, candidates>>

ProbesAgree(a, b) == a = b

Disagreeing == {s \in DOMAIN results : ~ProbesAgree(results[s][0], results[s][1])}
Nonisolated(bases) == \E s \in DOMAIN bases : bases[s].nonisolated

\* With critical points that are not isolated, no sector is counted again.
JoinProbes ==
  /\ finder = "probing"
  /\ running = {}
  /\ IF Disagreeing # {} THEN finder' = "failed" /\ UNCHANGED critical
     ELSE /\ critical' = [s \in DOMAIN results |-> CHOOSE r \in results[s][0] : TRUE]
          /\ finder' = IF Nonisolated(critical') THEN "assemble" ELSE "count"
  /\ UNCHANGED <<family, points, results, running, comparisons, candidates>>

-----------------------------------------------------------------------------
(* Counting, and compare_sector_dimensions. *)

BeginCount(possible) ==
  /\ finder = "count"
  /\ StartCount(family.valid, possible)
  /\ finder' = "counting"
  /\ UNCHANGED <<family, points, results, running, critical, comparisons, candidates>>

CountStep ==
  /\ finder = "counting"
  /\ CountNext
  /\ UNCHANGED finderVars

\* The critical points of a sector are those of the representative of its class.
RepresentativeOf(fam, sector) ==
  LET own == {c \in fam.classes : sector \in DOMAIN c.relations}
  IN  IF own = {} THEN sector ELSE (CHOOSE c \in own : TRUE).representative

CriticalDimension(sector) == critical[RepresentativeOf(family, sector)].dimension

Compared(sector, net) ==
  IF net[sector] = {} THEN "Unresolved"
  ELSE IF net[sector] = {CriticalDimension(sector)} THEN "Match" ELSE "Mismatch"

Compare ==
  /\ finder = "counting"
  /\ counter = "counted"
  /\ \E net \in {NetCounts} : comparisons' = [s \in inventory |-> Compared(s, net)]
  /\ finder' = "assemble"
  /\ UNCHANGED <<countVars, family, points, results, running, critical, candidates>>

-----------------------------------------------------------------------------
(* assemble_master_candidates *)

Unresolved == \E s \in DOMAIN comparisons : comparisons[s] = "Unresolved"

\* Representatives of the sectors whose numbers differ.
Mismatched ==
  {RepresentativeOf(family, s) : s \in {t \in DOMAIN comparisons : comparisons[t] = "Mismatch"}}

NeedsGlobalSelection == Nonisolated(critical) \/ Mismatched # {}

RelationSources ==
  {s \in DOMAIN critical :
     \/ critical[s].nonisolated
     \/ s \in Mismatched
     \/ NeedsGlobalSelection /\ critical[s].monomials = <<>>}

DotsOn(monomials) ==
  UNION {{[m EXCEPT ![i] = @ + 1] : i \in DOMAIN m} : m \in monomials}

\* Corners and dots for what the critical points do not decide: dots on every candidate
\* of a mismatch, on the corner alone if points are not isolated.
Pool(sector) ==
  LET local == Range(critical[sector].monomials)
      corner == [i \in 1 .. Cardinality(sector) |-> 0]
  IN  CASE sector \in Mismatched ->
             local \union {corner} \union DotsOn(local \union {corner})
        [] sector \notin Mismatched /\ Nonisolated(critical) ->
             local \union {corner} \union DotsOn({corner})
        [] OTHER -> local

\* Mutant: the quotient by the symmetries is not taken.
LabelledMonomials(sector) == Pool(sector)

\* Without a selection, one monomial for each orbit of critical points.
CandidateMonomials(sector) ==
  IF NeedsGlobalSelection \/ critical[sector].symmetry = {} THEN Pool(sector)
  ELSE UNION {Range(basis) : basis \in critical[sector].symmetry}

\* The integral of a monomial, by its powers.
IntegralOf(fam, sector, monomial) ==
  LET active == Ascending(sector)
      place(v) == CHOOSE i \in DOMAIN active : active[i] = v
  IN  [i \in 1 .. fam.variables + 1 |->
         CASE i = 1                      -> 0
           [] i > 1 /\ i - 1 \in sector    -> monomial[place(i - 1)]
           [] i > 1 /\ i - 1 \notin sector -> -1]

MonomialOf(powers) == [i \in DOMAIN Ascending(SectorOf(powers)) |->
                         powers[1 + Ascending(SectorOf(powers))[i]]]

\* canonical_master_integral_preferred
IntegralBefore(a, b) ==
  \/ SectorBefore(SectorOf(a), SectorOf(b))
  \/ SectorOf(a) = SectorOf(b) /\ Preferred(MonomialOf(a), MonomialOf(b))

CandidateSet ==
  [mode |-> IF NeedsGlobalSelection THEN "GlobalSelection" ELSE "FinalBasis",
   sources |-> RelationSources,
   integrals |-> InOrder(UNION {{IntegralOf(family, s, m) : m \in CandidateMonomials(s)} :
                                  s \in DOMAIN critical}, IntegralBefore)]

\* require_complete_dimensions comes first.
Assemble ==
  /\ finder = "assemble"
  /\ IF Unresolved THEN finder' = "failed" /\ UNCHANGED candidates
     ELSE candidates' = CandidateSet /\ finder' = "found"
  /\ UNCHANGED <<family, points, results, running, critical, comparisons>>
=============================================================================
