-------------------------- MODULE MCMasterDiscovery --------------------------
(***************************************************************************)
(* Families with one or two loops.  A term is the powers of the variables  *)
(* and its coefficient, constant and with the kinematic parameter s.       *)
(***************************************************************************)
EXTENDS MasterDiscovery

Term(powers, weights) == [powers |-> powers, weights |-> weights]

\* G = x1 + x2 + m1 x1 (x1 + x2) + m2 x2 (x1 + x2) - s x1 x2 for masses 1 and s fixed or not.
Bubble(name, mixed) ==
  [name |-> name, loops |-> 1, variables |-> 2,
   terms |-> <<Term(<<1, 0>>, <<1, 0>>), Term(<<0, 1>>, <<1, 0>>), Term(<<2, 0>>, <<1, 0>>),
               Term(<<0, 2>>, <<1, 0>>), Term(<<1, 1>>, mixed)>>]

OneMassBubble ==
  [name |-> "one mass", loops |-> 1, variables |-> 2,
   terms |-> <<Term(<<1, 0>>, <<1, 0>>), Term(<<0, 1>>, <<1, 0>>), Term(<<2, 0>>, <<1, 0>>),
               Term(<<1, 1>>, <<1, -1>>)>>]

\* U + F with U the pairs and F = U (x1 + x2 + x3) - s x1 x2 x3.
Sunrise ==
  [name |-> "sunrise", loops |-> 2, variables |-> 3,
   terms |-> <<Term(<<1, 1, 0>>, <<1, 0>>), Term(<<1, 0, 1>>, <<1, 0>>),
               Term(<<0, 1, 1>>, <<1, 0>>), Term(<<2, 1, 0>>, <<1, 0>>),
               Term(<<1, 2, 0>>, <<1, 0>>), Term(<<2, 0, 1>>, <<1, 0>>),
               Term(<<1, 0, 2>>, <<1, 0>>), Term(<<0, 2, 1>>, <<1, 0>>),
               Term(<<0, 1, 2>>, <<1, 0>>), Term(<<1, 1, 1>>, <<3, -1>>)>>]

At(prime, d, s) == [prime |-> prime, d |-> d, kinematics |-> <<s>>]
Both(first, second) == [p \in Probes |-> IF p = 0 THEN first ELSE second]

PlanningFrom(d) ==
  [q \in Probes \X Probes |->
     At(IF q[1] = 0 THEN 31 ELSE 37, IF q[2] = 0 THEN d ELSE 7, IF q[2] = 0 THEN 11 ELSE 13)]

\* d = 5 is special for some reductions, d = 12 for none that a search needs.
Planning == PlanningFrom(5)
SearchPlanning == PlanningFrom(12)

World(fam, where, prints, number) ==
  [family |-> fam, points |-> where, printed |-> prints, planning |-> Planning, truth |-> number]

Searched(world) == [world EXCEPT !.planning = SearchPlanning]

\* A selection at s = 35, which is the threshold in the field of 31 elements only.
AtThreshold(world) == [world EXCEPT !.planning = [q \in DOMAIN @ |-> [@[q] EXCEPT !.kinematics = <<35>>]]]

\* The counts of the bubble's sectors: those with one variable, that with two.
Prints(one, two) == [s \in {{1}, {2}, {1, 2}} |-> IF Cardinality(s) = 1 THEN one ELSE two]
\* Without an end for a tadpole, and a master too many at threshold.
WrongPrints == [s \in {{1}, {2}, {1, 2}} |->
                  CASE s = {1} -> {1, -1} [] s = {2} -> {1} [] s = {1, 2} -> {2, 3}]
SunrisePrints ==
  [s \in SUBSET {1, 2, 3} |-> IF Cardinality(s) = 2 THEN {1} ELSE {7, 8}]

MCWorlds ==
  { Searched(World(Bubble("separable", <<2, -1>>), Both(At(11, 0, 1), At(13, 0, 2)), Prints({1}, {3}), 2)),
    \* s = 1 and 2: below threshold.  A count may be wrong at one prime or at both.
    World(Bubble("bubble", <<2, -1>>), Both(At(11, 0, 1), At(13, 0, 2)), Prints({1}, {3, 2}), 2),
    \* one probe is at threshold, s = 4
    World(Bubble("bubble", <<2, -1>>), Both(At(11, 0, 4), At(13, 0, 2)), Prints({1}, {3}), 2),
    \* both are
    World(Bubble("bubble", <<2, -1>>), Both(At(11, 0, 4), At(13, 0, 4)), Prints({1}, {3}), 2),
    AtThreshold(World(Bubble("bubble", <<2, -1>>), Both(At(11, 0, 4), At(13, 0, 4)), Prints({1}, {3}), 2)),
    \* s = 0 and s = 4 for good
    World(Bubble("on shell", <<2, 0>>), Both(At(11, 0, 1), At(13, 0, 2)), Prints({1}, {2}), 1),
    World(Bubble("threshold", <<-2, 0>>), Both(At(11, 0, 1), At(13, 0, 2)), WrongPrints, 1),
    World(OneMassBubble, Both(At(11, 0, 3), At(13, 0, 2)), Prints({1}, {2}), 2),
    Searched(World(Sunrise, Both(At(5, 0, 3), At(7, 0, 3)), SunrisePrints, 3)),
    World([Sunrise EXCEPT !.name = "singular sunrise"], Both(At(5, 0, 9), At(7, 0, 3)), SunrisePrints, 3) }

-----------------------------------------------------------------------------
(* Requests with known answers, as numerators and denominators in d and s: by integral *)
(* and master, for the masters in the order in which they are found or given.          *)

I(indices) == [indices |-> indices, shift |-> 0]
In(indices, shift) == [indices |-> indices, shift |-> shift]

Answers(where, known(_, _)) ==
  [q \in DOMAIN where |-> known(where[q].d, where[q].kinematics[1])]

Job(basis, targets, requests, known(_, _)) ==
  [basis |-> basis, targets |-> targets, requests |-> requests, outcome |-> "planned",
   answers |-> Answers(Planning, known)]

Refused(basis, targets, outcome) ==
  [basis |-> basis, targets |-> targets, requests |-> <<>>, outcome |-> outcome, answers |-> <<>>]

\* The masters are the tadpole and the bubble.
BubbleJobs ==
  { Job(<<>>, <<I(<<2, 1>>), I(<<0, 2>>)>>, <<>>,
        LAMBDA d, s : <<<<<<2 - d, 2 * (4 - s)>>, <<d - 3, 4 - s>>>>, <<<<d - 2, 2>>, <<0, 1>>>>>>),
    \* a combination
    Job(<<>>, <<I(<<2, 1>>), I(<<2, -1>>)>>, <<1 :> 2 @@ 2 :> -1, 2 :> 1>>,
        LAMBDA d, s : <<<<<<(2 - d) * 2 - (4 - s) * (2 + s * (d - 2)), 2 * (4 - s)>>,
                          <<2 * (d - 3), 4 - s>>>>,
                        <<<<2 + s * (d - 2), 2>>, <<0, 1>>>>>>),
    \* numerators
    Job(<<>>, <<I(<<1, -1>>), I(<<-2, 1>>)>>, <<>>,
        LAMBDA d, s : <<<<<<s, 1>>, <<0, 1>>>>, <<<<s * s * d + 4 * s, d>>, <<0, 1>>>>>>),
    Job(<<I(<<1, 0>>)>>, <<I(<<1, -3>>)>>, <<>>,
        LAMBDA d, s : <<<<<<s * s * s * d + 12 * s * s, d>>>>>>),
    \* other dimensions
    Job(<<I(<<0, 1>>)>>, <<In(<<1, 0>>, 4), In(<<1, 0>>, -2), In(<<1, -1>>, 2)>>, <<>>,
        LAMBDA d, s : <<<<<<4, d * (d + 2)>>>>, <<<<2 - d, 2>>>>, <<<<-2 * s, d>>>>>>),
    Job(<<I(<<1, 0>>)>>, <<In(<<0, 1>>, 6)>>, <<>>,
        LAMBDA d, s : <<<<<<-8, d * (d + 2) * (d + 4)>>>>>>),
    Job(<<>>, <<In(<<1, 1>>, 2), In(<<1, 1>>, -2)>>, <<>>,
        LAMBDA d, s : <<<<<<-1, d - 1>>, <<s - 4, 2 * (d - 1)>>>>,
                        <<<<d - 2, 4 - s>>, <<2 * (3 - d), 4 - s>>>>>>),
    \* a master with a dot
    Job(<<I(<<2, 1>>), I(<<0, 1>>)>>, <<I(<<1, 1>>)>>, <<>>,
        LAMBDA d, s : <<<<<<4 - s, d - 3>>, <<d - 2, 2 * (d - 3)>>>>>>),
    Refused(<<I(<<0, 1>>), I(<<1, 0>>)>>, <<I(<<2, 1>>)>>, "equivalent basis"),
    Refused(<<I(<<1, 0>>)>>, <<I(<<2, 1>>)>>, "failed"),
    Refused(<<I(<<1, 1>>)>>, <<I(<<1, -1>>)>>, "failed") }

OneMassJobs ==
  { Job(<<>>, <<I(<<2, 1>>)>>, <<>>,
        LAMBDA d, s : <<<<<<2 - d, 2 * (1 - s)>>, <<d - 3, 1 - s>>>>>>) }

\* The product of two tadpoles, and two masters of the sunrise.
SunriseAnswers(d, s) == <<<<<<d - 2, 2>>, <<0, 1>>, <<0, 1>>>>, <<<<0, 1>>, <<0, 1>>, <<1, 1>>>>>>
SunriseJobs == {Job(<<>>, <<I(<<0, 2, 1>>), I(<<1, 2, 1>>)>>, <<>>, SunriseAnswers)}

\* On shell the bubble is a tadpole.
OnShellJobs ==
  { Job(<<>>, <<I(<<1, 1>>)>>, <<>>, LAMBDA d, s : <<<<<<d - 2, 2>>>>>>) }

MCJobs ==
  [name \in {"bubble", "one mass", "sunrise", "on shell", "threshold", "separable", "singular sunrise"} |->
     CASE name = "bubble" -> BubbleJobs
       [] name = "one mass" -> OneMassJobs
       [] name = "sunrise" ->
            {[j EXCEPT !.answers = Answers(SearchPlanning, SunriseAnswers)] : j \in SunriseJobs}
       [] name = "singular sunrise" -> SunriseJobs
       [] name = "on shell" -> OnShellJobs
       [] OTHER -> {}]

-----------------------------------------------------------------------------
(* Searches.  The coordinates of integrals in the masters are known functions of d at *)
(* every s: their denominators are quotients of a polynomial by a constant.            *)

SearchPrimes == <<31, 37>>
\* the training points, the one held out, and those of the planner
SearchKinematics == <<3, 6, 8, 11, 13>>
Elsewhere == [q \in Probes \X Probes |-> IF q[2] = 0 THEN 4 ELSE 5]

Constant(c) == [poly |-> <<c>>, scale |-> 1]
\* (a + b d) (e + f d) / scale
Factored(a, b, e, f, scale) == [poly |-> <<a * e, a * f + b * e, b * f>>, scale |-> scale]

FunctionOf(x, p) ==
  Probe!Normalized(Probe!Trimmed([i \in DOMAIN x.poly |-> x.poly[i] % p]), <<x.scale % p>>, p)

\* T = (0, 1), B = (1, 1) are the masters; the tadpole with dots and the bubble with dots.
KnownBubble(s) ==
  (<<0, 1>> :> <<Constant(1), Constant(0)>>) @@
  (<<0, 2>> :> <<Factored(-2, 1, 1, 0, 2), Constant(0)>>) @@
  (<<0, 3>> :> <<Factored(-2, 1, -4, 1, 8), Constant(0)>>) @@
  (<<1, 1>> :> <<Constant(0), Constant(1)>>) @@
  (<<2, 1>> :> <<Factored(2, -1, 1, 0, 2 * (4 - s)), Factored(-3, 1, 1, 0, 4 - s)>>) @@
  (<<2, 2>> :> <<Factored(-2, 1, 6 + s, -2, s * (4 - s) * (4 - s)),
                 Factored(-3, 1, 4 - 6 * s, s, s * (4 - s) * (4 - s))>>) @@
  (<<3, 1>> :> <<Factored(-2, 1, 32 * s - 24 - 4 * s * s, 8 - 8 * s + s * s, 8 * s * (4 - s) * (4 - s)),
                 Factored(-3, 1, 0 - 4 - 4 * s, s, 2 * s * (4 - s) * (4 - s))>>)

\* T2 = (0, 1, 1), (1, 1, 1) and (2, 1, 1) are the masters; dots of both sectors.
Quot(poly, scale) == [poly |-> poly, scale |-> scale]
Weighed(poly, c) == [i \in DOMAIN poly |-> poly[i] * c]

OfTadpoles(x) == <<x, Constant(0), Constant(0)>>

KnownSunrise(s) ==
  LET D == (s - 1) * (s - 9)
      s2 == s * s
      s3 == s * s2
  IN  (<<0, 1, 1>> :> OfTadpoles(Constant(1))) @@
      (<<0, 2, 1>> :> OfTadpoles(Quot(<<-2, 1>>, 2))) @@
      (<<0, 3, 1>> :> OfTadpoles(Quot(<<8, -6, 1>>, 8))) @@
      (<<0, 2, 2>> :> OfTadpoles(Quot(<<4, -4, 1>>, 4))) @@
      (<<1, 1, 1>> :> <<Constant(0), Constant(1), Constant(0)>>) @@
      (<<2, 1, 1>> :> <<Constant(0), Constant(0), Constant(1)>>) @@
      (<<3, 1, 1>> :> <<Quot(<<12, -12, 3>>, 4 * D),
                        Quot(Weighed(<<24, -17, 3>>, s - 7), 4 * D),
                        Quot(<<76 * s - 216 - 4 * s2, 69 - 22 * s + s2>>, 4 * D)>>) @@
      (<<2, 2, 1>> :> <<Quot(Weighed(<<4, -4, 1>>, s - 3), 4 * D),
                        Quot(<<24, -17, 3>>, D),
                        Quot(Weighed(<<3, -1>>, 2 * (3 + s)), D)>>) @@
      (<<2, 2, 2>> :> <<Quot(<<684 + 72 * s + 12 * s2, 0 - 828 - 120 * s - 12 * s2,
                               315 + 66 * s + 3 * s2, 0 - 36 - 12 * s>>, 4 * D * D),
                        Quot(Weighed(<<576, -552, 174, -18>>, s - 5), D * D),
                        Quot(<<612 * s - 2970 + 54 * s2, 1773 - 402 * s - 27 * s2,
                               66 * s - 261 + 3 * s2>>, D * D)>>) @@
      (<<4, 1, 1>> :> <<Quot(<<720 * s - 936 - 40 * s2, 1116 - 840 * s + 44 * s2,
                               300 * s - 414 - 14 * s2, 45 - 30 * s + s2>>, 24 * D * D),
                        Quot(<<14400 - 13968 * s + 2784 * s2 - 144 * s3,
                               12558 * s - 13152 - 2476 * s2 + 126 * s3,
                               3891 - 3633 * s + 705 * s2 - 35 * s3,
                               333 * s - 369 - 63 * s2 + 3 * s3>>, 24 * D * D),
                        Quot(<<17280 - 20016 * s + 6456 * s2 - 672 * s3 + 24 * s2 * s2,
                               10074 * s - 9108 - 3042 * s2 + 294 * s3 - 10 * s2 * s2,
                               1143 - 1194 * s + 336 * s2 - 30 * s3 + s2 * s2>>, 24 * D * D)>>)

\* In the basis that a search begins with.
InBasis(known, basis, p) ==
  LET table == [i \in DOMAIN known |-> [c \in DOMAIN known[i] |-> FunctionOf(known[i][c], p)]]
      next(all, j) == IF table[basis[j]] = [c \in DOMAIN table[basis[j]] |->
                                             IF c = j THEN Probe!Unit ELSE Probe!Zero]
                        THEN all
                        ELSE [i \in DOMAIN all |-> Probe!Rebased(all[i], all[basis[j]], j, p)]
  IN  FoldLeft(next, table, [j \in DOMAIN basis |-> j])

Coordinated(Known(_), basis) ==
  [q \in {1, 2} \X DOMAIN SearchKinematics |->
     LET table == InBasis(Known(SearchKinematics[q[2]]), basis, SearchPrimes[q[1]])
     IN  [i \in {PowersOf(I(j)) : j \in DOMAIN table} |->
            table[CHOOSE j \in DOMAIN table : PowersOf(I(j)) = i]]]

Settings(strategy, budget, simple) ==
  [strategy |-> strategy, maximumStates |-> budget, simpleStates |-> simple, width |-> 2,
   shortlist |-> 2, limit |-> 1, candidateDots |-> 2, training |-> 2, holdoutPoints |-> 1,
   initial |-> 4, batch |-> 4, maximum |-> 12, holdouts |-> 1, primes |-> SearchPrimes,
   samples |-> <<[j \in 1 .. 12 |-> 5 + j], [j \in 1 .. 12 |-> 7 + j]>>, lost |-> {}]

BubbleSearch(basis, requested, settings) ==
  [basis |-> [j \in DOMAIN basis |-> I(basis[j])], requested |-> [j \in DOMAIN requested |-> I(requested[j])],
   settings |-> settings, rows |-> Coordinated(KnownBubble, basis), elsewhere |-> Elsewhere]

SunriseSearch(basis, requested, settings) ==
  [basis |-> [j \in DOMAIN basis |-> I(basis[j])], requested |-> [j \in DOMAIN requested |-> I(requested[j])],
   settings |-> settings, rows |-> Coordinated(KnownSunrise, basis), elsewhere |-> Elsewhere]

LongSettings(strategy, budget, simple) ==
  [Settings(strategy, budget, simple) EXCEPT !.initial = 6, !.batch = 5, !.maximum = 16,
     !.samples = <<[j \in 1 .. 16 |-> 5 + j], [j \in 1 .. 16 |-> 7 + j]>>]

\* Samples that are not answered at the first point: at the first prime, or after the first.
Lost(settings, primes) ==
  [settings EXCEPT !.lost = {<<p, 1, j>> : p \in primes, j \in 2 .. settings.maximum}]

OneTrainingPoint(settings) == [settings EXCEPT !.training = 1, !.holdoutPoints = 2]

Masters == <<<<0, 1>>, <<1, 1>>>>
TwoDots == <<<<0, 1>>, <<2, 2>>>>
Cubic == <<<<0, 1>>, <<3, 1>>>>

BubbleSearches ==
  { BubbleSearch(Masters, <<<<2, 1>>>>, Settings("SingleSlot", 3, 1)),
    \* the moving pole of the basis is not one of its target, but of what is requested
    BubbleSearch(Cubic, <<<<2, 1>>>>, Settings("SingleSlot", 3, 1)),
    BubbleSearch(TwoDots, <<<<2, 1>>>>, OneTrainingPoint(Settings("SingleSlot", 3, 1))),
    BubbleSearch(TwoDots, <<>>, Settings("SequentialFactorsScored", 3, 1)),
    BubbleSearch(TwoDots, <<<<0, 2>>, <<2, 1>>>>, Settings("SingleSlotThenScored", 3, 1)),
    BubbleSearch(TwoDots, <<>>, Settings("SingleSlotThenScored", 1, 1)),
    BubbleSearch(TwoDots, <<>>, Lost(Settings("SingleSlotThenScored", 3, 2), {1})),
    BubbleSearch(TwoDots, <<>>, Lost(Settings("SequentialFactorsScored", 3, 2), {1})) }

TwoNew == <<<<0, 1, 1>>, <<2, 2, 2>>, <<4, 1, 1>>>>

SunriseSearches ==
  { SunriseSearch(<<<<0, 1, 1>>, <<2, 2, 2>>, <<1, 1, 1>>>>, <<>>, LongSettings("SingleSlot", 5, 1)),
    SunriseSearch(<<<<0, 1, 1>>, <<2, 2, 2>>, <<3, 1, 1>>>>, <<<<2, 1, 1>>>>, LongSettings("SingleSlot", 5, 1)),
    SunriseSearch(TwoNew, <<<<2, 1, 1>>>>, LongSettings("SingleSlot", 5, 1)),
    SunriseSearch(TwoNew, <<>>, LongSettings("SequentialFactorsScored", 5, 1)) }

MCSearches ==
  [name \in DOMAIN MCJobs |->
     CASE name = "separable" -> BubbleSearches
       [] name = "sunrise" -> SunriseSearches
       [] OTHER -> {}]

MCLabelled == SUBSET {1, 2, 3}
=============================================================================
