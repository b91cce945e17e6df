--------------------------- MODULE ReplayVariants ---------------------------
(***************************************************************************)
(* The replay programs of one prepared kernel (ReplaySelector.cpp, and     *)
(* prime_changed and eval_selected_compact of BlackBoxFeynman.cpp).  Probe *)
(* threads ask for the values of a set of outputs at a point; a program    *)
(* restricted to some outputs (a variant) is looked up without a lock,     *)
(* else looked up again and built under replay_variant_mutex and published *)
(* in a slot or a bounded cache.  Between probes the kernel's owner        *)
(* changes the prime, the replay policy or the set of outputs.             *)
(*                                                                         *)
(* A program is the outputs it computes, the kernel and the prime it was   *)
(* made for, its size and, for a sparse master program, the structure it   *)
(* shares with others.  The section under the mutex is one action: only    *)
(* its last store is visible outside.  prime_changed compares the loader   *)
(* layout before and after compile_loaders; after the first compilation    *)
(* the skeletons are empty and only the encoded weights change, so the     *)
(* comparison always succeeds and is left out.                             *)
(***************************************************************************)
EXTENDS Integers, FiniteSets, Sequences

CONSTANTS
  Evaluators,    \* threads that evaluate probes
  AllOutputs,    \* replay_outputs of the prepared kernel
  TargetOf, BasisOf,   \* ReplayOutput::target and ReplayOutput::basis
  Requests,      \* bound: sets of outputs that probes ask for, or a trim retains
  Points,        \* what is singular at a point: [algebra, normalization]
  Bytes,         \* sizes a program may have, by its outputs
  CacheEntries,  \* replay_cache_entries
  CacheBudget,   \* replay_cache_budget
  MaxPrime       \* bound: primes used

ASSUME ReplayAssumption ==
  /\ IsFiniteSet(AllOutputs)
  /\ Requests \subseteq (SUBSET AllOutputs) \ {{}}
  /\ Points \subseteq [algebra : SUBSET AllOutputs, normalization : SUBSET AllOutputs]
  /\ Bytes \in [SUBSET AllOutputs -> SUBSET Nat]
  /\ CacheEntries \in Nat \ {0} /\ CacheBudget \in Nat /\ MaxPrime \in Nat \ {0}

VARIABLES
  orientation,  \* replay_orientation
  refreshes,    \* `enabled` of prime_changed: a target kernel of the D-separating
                \* path
  outputs,      \* replay_outputs
  prime,        \* firefly::FFInt::p, by its position in the list of primes
  policy,       \* target_replay_policy
  grouping,     \* master_replay_grouping
  published,    \* replay_variant
  cache,        \* replay_cache
  structures,   \* selected_master_structure_cache
  pc, want, point, key, attempt, held, answer  \* by evaluator: locals

kernel == <<orientation, refreshes, outputs, prime, policy, grouping>>
shared == <<published, cache, structures>>
probe == <<pc, want, point, key, attempt, held, answer>>
vars == <<kernel, shared, probe>>

Null == [none |-> TRUE]
NoCache == [entries |-> <<>>, bytes |-> 0]

\* The outputs of the kernel that share a target, or a master, with S.
Grouped(S, of) == {o \in outputs : \E s \in S : of[o] = of[s]}
ColumnsOf(S) == {BasisOf[o] : o \in S}

\* The outputs whose algebra a program for S evaluates: a master program
\* eliminates whole columns.
Algebra(S) == IF orientation = "master" THEN Grouped(S, BasisOf) ELSE S

\* The bytes of the first i entries, by i.
Totals(entries) ==
  LET total[i \in 0 .. Len(entries)] ==
        IF i = 0 THEN 0 ELSE total[i - 1] + entries[i].bytes
  IN  total

Sum(entries) == Totals(entries)[Len(entries)]

\* The code searches from the newest entry; no two match (CacheExact).
Hit(entries, S) ==
  IF \E i \in DOMAIN entries : entries[i].outputs = S
    THEN entries[CHOOSE i \in DOMAIN entries : entries[i].outputs = S]
    ELSE Null

\* What a probe finds in the cache or in the single slot.
Lookup(S) ==
  IF policy = "TargetRowsCached" THEN Hit(cache.entries, S)
  ELSE IF published # Null /\ published.outputs = S THEN published ELSE Null

\* The lookup a builder repeats once it holds the mutex.
Recheck(S) == Lookup(S)

Init ==
  /\ orientation \in {"target", "master"}
  /\ refreshes \in (IF orientation = "target" THEN BOOLEAN ELSE {FALSE})
  /\ outputs = AllOutputs
  /\ prime = 1
  /\ policy = "Exact" /\ grouping = "Exact"
  /\ published = Null /\ cache = NoCache /\ structures = {}
  /\ pc = [e \in Evaluators |-> "idle"]
  /\ want = [e \in Evaluators |-> {}]
  /\ point = [e \in Evaluators |-> Null]
  /\ key = [e \in Evaluators |-> {}]
  /\ attempt = [e \in Evaluators |-> "exact"]
  /\ held = [e \in Evaluators |-> Null]
  /\ answer = [e \in Evaluators |-> "none"]

----------------------------------------------------------------------------
\* Sparse master programs share a structure by their columns.  The cache holds
\* weak pointers: a structure lives while a program that uses it does.
Alive == {s \in structures : \/ published # Null /\ published.structure = s
                             \/ \E e \in Evaluators :
                                  held[e] # Null /\ held[e].structure = s}

Nested(C, D) == C \subseteq D \/ D \subseteq C
AnyColumns(live, C) == TRUE
OneChain(live, C) == \A s \in live : Nested(s.columns, C)

NeedsStructure(S) == orientation = "master" /\ ColumnsOf(S) # ColumnsOf(outputs)

StructuresFor(S) ==
  LET C == ColumnsOf(S)
      fresh == [columns |-> C, kernel |-> outputs, prime |-> prime] IN
  IF \E s \in Alive : s.columns = C THEN Alive
  ELSE IF OneChain(Alive, C) THEN Alive \cup {fresh} ELSE {fresh}

\* build_replay_variant: the program, from the loaders as they are now.
Program(S, b) ==
  [outputs |-> S, kernel |-> outputs, prime |-> prime, bytes |-> b,
   structure |-> IF NeedsStructure(S)
                   THEN CHOOSE s \in StructuresFor(S) : s.columns = ColumnsOf(S)
                   ELSE Null]

\* The kernel's own program.
BaseProgram == [outputs |-> outputs, kernel |-> outputs, prime |-> prime,
                bytes |-> 0, structure |-> Null]

\* cached_replay_variant: the oldest entries go until the new one fits.
Fits(entries, b) ==
  Len(entries) < CacheEntries /\ Sum(entries) <= CacheBudget - b

EvictedUncounted(entries) == 0
Evicted(entries) == Sum(entries)

Kept(b) ==
  LET n == Len(cache.entries)
      From(i) == SubSeq(cache.entries, i, n)
      first == CHOOSE i \in 1 .. n + 1 :
                 /\ i = n + 1 \/ Fits(From(i), b)
                 /\ \A j \in 1 .. i - 1 : ~Fits(From(j), b)
  IN  [entries |-> From(first),
       bytes |-> cache.bytes - Evicted(SubSeq(cache.entries, 1, first - 1))]

\* The largest program the cache takes.
Publishable(v) == v.bytes <= CacheBudget

Publish(v) ==
  IF policy = "TargetRowsCached"
    THEN /\ cache' = IF ~Publishable(v) THEN cache
                     ELSE [entries |-> Append(Kept(v.bytes).entries, v),
                           bytes |-> Kept(v.bytes).bytes + v.bytes]
         /\ UNCHANGED published
    ELSE published' = v /\ UNCHANGED cache

----------------------------------------------------------------------------
\* eval_selected_compact, up to the choice of a program.
UsesGroups == policy # "Exact" \/ grouping # "Exact"
GroupFor(S) == Grouped(S, IF grouping = "MasterColumns" THEN BasisOf ELSE TargetOf)

\* The empty request returns at once and is left out.
Request(e, S, p) ==
  LET K == IF UsesGroups THEN GroupFor(S) ELSE S IN
  /\ pc[e] = "idle"
  /\ want' = [want EXCEPT ![e] = S]
  /\ point' = [point EXCEPT ![e] = p]
  /\ key' = [key EXCEPT ![e] = K]
  /\ attempt' = [attempt EXCEPT ![e] = IF UsesGroups /\ S # outputs
                                         THEN "grouped" ELSE "exact"]
  /\ held' = [held EXCEPT ![e] = IF K = outputs THEN BaseProgram ELSE Null]
  /\ pc' = [pc EXCEPT ![e] = IF K = outputs THEN "execute" ELSE "lookup"]
  /\ UNCHANGED <<kernel, shared, answer>>

\* The load that takes no lock.
LookupStep(e) ==
  /\ pc[e] = "lookup"
  /\ held' = [held EXCEPT ![e] = Lookup(key[e])]
  /\ pc' = [pc EXCEPT ![e] = IF Lookup(key[e]) = Null THEN "build" ELSE "execute"]
  /\ UNCHANGED <<kernel, shared, want, point, key, attempt, answer>>

\* The section under replay_variant_mutex.
Build(e) ==
  /\ pc[e] = "build"
  /\ pc' = [pc EXCEPT ![e] = "execute"]
  /\ \/ /\ Recheck(key[e]) # Null
        /\ held' = [held EXCEPT ![e] = Recheck(key[e])]
        /\ UNCHANGED shared
     \/ /\ Recheck(key[e]) = Null
        /\ \E b \in Bytes[key[e]] :
             /\ held' = [held EXCEPT ![e] = Program(key[e], b)]
             /\ Publish(Program(key[e], b))
        /\ structures' = IF NeedsStructure(key[e]) THEN StructuresFor(key[e])
                                                   ELSE structures
  /\ UNCHANGED <<kernel, want, point, key, attempt, answer>>

\* The replay fails on a singular pivot of the program, or on a singular
\* normalization of a requested output.
Fails(S, K, p) == Algebra(K) \cap p.algebra # {} \/ S \cap p.normalization # {}

\* A grouped program that fails is not the last word.
NeverRetry(e) == FALSE
Retries(e) == attempt[e] = "grouped"

Execute(e) ==
  LET failed == Fails(want[e], held[e].outputs, point[e]) IN
  /\ pc[e] = "execute"
  /\ IF failed /\ Retries(e)
       THEN /\ pc' = [pc EXCEPT ![e] = "lookup"]
            /\ key' = [key EXCEPT ![e] = want[e]]
            /\ attempt' = [attempt EXCEPT ![e] = "exact"]
            /\ UNCHANGED answer
       ELSE /\ pc' = [pc EXCEPT ![e] = "answered"]
            /\ answer' = [answer EXCEPT ![e] = IF failed THEN "empty" ELSE "values"]
            /\ UNCHANGED <<key, attempt>>
  /\ held' = [held EXCEPT ![e] = Null]
  /\ UNCHANGED <<kernel, shared, want, point>>

Return(e) ==
  /\ pc[e] = "answered"
  /\ pc' = [pc EXCEPT ![e] = "idle"]
  /\ want' = [want EXCEPT ![e] = {}]
  /\ point' = [point EXCEPT ![e] = Null]
  /\ key' = [key EXCEPT ![e] = {}]
  /\ attempt' = [attempt EXCEPT ![e] = "exact"]
  /\ answer' = [answer EXCEPT ![e] = "none"]
  /\ UNCHANGED <<kernel, shared, held>>

----------------------------------------------------------------------------
\* The owner of the kernel acts while no probe runs: FireFly joins its workers
\* before it changes the prime, and the rest happens around a reconstruction.
Quiet == \A e \in Evaluators : pc[e] = "idle"

\* refresh_target_replay_variant: same program, weights encoded again, and
\* stored in new vectors.
KeepsWeights(v, b) == [v EXCEPT !.bytes = b]
Refreshed(v, b) == [v EXCEPT !.prime = prime + 1, !.bytes = b]

\* Entries are taken over from the oldest while they fit.
Taken(c, v) ==
  IF Len(c.entries) < CacheEntries /\ v.bytes <= CacheBudget - c.bytes
    THEN [entries |-> Append(c.entries, v), bytes |-> c.bytes + v.bytes]
    ELSE c

TakeOver(sizes) ==
  LET next[i \in 0 .. Len(cache.entries)] ==
        IF i = 0 THEN NoCache
        ELSE Taken(next[i - 1], Refreshed(cache.entries[i], sizes[i]))
  IN  next[Len(cache.entries)]

SizesOf(entries) ==
  {f \in [1 .. Len(entries) -> UNION {Bytes[entries[i].outputs] : i \in DOMAIN entries}] :
     \A i \in DOMAIN entries : f[i] \in Bytes[entries[i].outputs]}

PrimeChanged ==
  /\ Quiet /\ prime < MaxPrime
  /\ prime' = prime + 1
  /\ structures' = {}
  /\ IF refreshes
       THEN /\ \/ published = Null /\ published' = Null
               \/ /\ published # Null
                  /\ \E b \in Bytes[published.outputs] :
                       published' = IF b <= CacheBudget THEN Refreshed(published, b)
                                                        ELSE Null
            /\ \E sizes \in SizesOf(cache.entries) : cache' = TakeOver(sizes)
       ELSE published' = Null /\ cache' = NoCache
  /\ UNCHANGED <<orientation, refreshes, outputs, policy, grouping, probe>>

PolicyFor(p) == IF orientation = "target" THEN p ELSE "Exact"

ConfigureTargetReplay(p) ==
  /\ Quiet
  /\ published' = Null /\ cache' = NoCache
  /\ grouping' = "Exact"
  /\ policy' = PolicyFor(p)
  /\ UNCHANGED <<orientation, refreshes, outputs, prime, structures, probe>>

ConfigureMasterReplay(g) ==
  /\ Quiet /\ orientation = "master"
  /\ published' = Null /\ cache' = NoCache
  /\ policy' = "Exact"
  /\ grouping' = g
  /\ UNCHANGED <<orientation, refreshes, outputs, prime, structures, probe>>

\* retain_outputs: the kernel itself is cut down to S.
KeepCaches == UNCHANGED shared
DropCaches == published' = Null /\ cache' = NoCache /\ structures' = {}

RetainOutputs(S) ==
  /\ Quiet /\ orientation = "target"
  /\ outputs' = S
  /\ DropCaches
  /\ UNCHANGED <<orientation, refreshes, prime, policy, grouping, probe>>

----------------------------------------------------------------------------
EvaluatorStep(e) == LookupStep(e) \/ Build(e) \/ Execute(e) \/ Return(e)

Owner ==
  \/ PrimeChanged
  \/ \E p \in {"Exact", "TargetRows", "TargetRowsCached"} : ConfigureTargetReplay(p)
  \/ \E g \in {"Exact", "TargetRows", "MasterColumns"} : ConfigureMasterReplay(g)
  \/ \E S \in Requests \cap SUBSET outputs : RetainOutputs(S)

Next ==
  \/ \E e \in Evaluators :
       \/ \E S \in Requests \cap SUBSET outputs, p \in Points : Request(e, S, p)
       \/ EvaluatorStep(e)
  \/ Owner

Spec == Init /\ [][Next]_vars

----------------------------------------------------------------------------
\* A program that runs was made from the current kernel for the current prime,
\* its shared structure too, and computes every output asked for: nothing
\* published or cached before a prime change, a reconfiguration or a trim of
\* the kernel, and nothing evicted or replaced meanwhile, is run by mistake.
Current(v) ==
  /\ v.kernel = outputs /\ v.prime = prime
  /\ v.structure # Null => v.structure.kernel = outputs /\ v.structure.prime = prime

RunsCurrentProgram ==
  \A e \in Evaluators : pc[e] = "execute" =>
    /\ Current(held[e])
    /\ held[e].outputs = key[e]
    /\ want[e] \subseteq key[e]

\* A probe is given up as singular exactly when the program for the outputs it
\* asked for is singular there: a grouped program never decides it, although
\* what others cached or evicted chooses which programs run.
AnswersExact ==
  \A e \in Evaluators : pc[e] = "answered" =>
    (answer[e] = "empty" <=> Fails(want[e], want[e], point[e]))

\* Threads that miss the same key at the same time do not build it twice: the
\* cache holds at most CacheEntries programs, for different outputs.  The bytes
\* recorded are the bytes held, through evictions and prime changes, and never
\* exceed the budget: the unsigned difference to the budget that both insertions
\* test never wraps.
CacheExact ==
  /\ Len(cache.entries) <= CacheEntries
  /\ \A i, j \in DOMAIN cache.entries :
       cache.entries[i].outputs = cache.entries[j].outputs => i = j
  /\ cache.bytes = Sum(cache.entries)
  /\ cache.bytes <= CacheBudget

\* "Share heavy master programs along the current/in-flight inclusion chain":
\* of two structures in the cache one has the columns of the other, and more.
StructuresFormChain ==
  \A s, t \in Alive :
    /\ Nested(s.columns, t.columns)
    /\ s.columns = t.columns => s = t
=============================================================================
