--------------------------- MODULE BlockReplayProofs ---------------------------
(***************************************************************************)
(* Pruning and transposing lose nothing: whatever outputs a kernel is made *)
(* for, in either orientation, and whatever the point, it answers what the *)
(* recording itself answers, if that has an answer.                        *)
(*                                                                         *)
(* The argument.  Blocks cover the square and are disjoint (LayoutIs); the *)
(* recording of a block reads and writes only rows of the block, and names *)
(* every column a row operation may find filled (RecordBlockFits,          *)
(* BuiltServes).  One step of the transposed pass preserves the pairing of *)
(* its vector with the words of the recording (ReferenceStep) and agrees   *)
(* with the pruned kernel where that is alive (MasterStep).  From the first*)
(* block to the last this carries the unit vector of a master, which reads *)
(* the solution off its row, to one that reads it off the right-hand side  *)
(* (MasterRuns).                                                           *)
(***************************************************************************)
EXTENDS BlockTapeProofs

-----------------------------------------------------------------------------
(* The search for components visits what is ready and nothing else. *)

\* What is on the stack.
On(st) == {st[i] : i \in 1 .. Len(st)}

Frames(n) == [block : 1 .. n, todo : SUBSET (1 .. n)]

\* Types of the search.
VisitTyped(n, f, d, l, st, cs) ==
  /\ f \in Seq(Frames(n)) /\ st \in Seq(1 .. n) /\ cs \in Seq(SUBSET (1 .. n))
  /\ DOMAIN d \subseteq 1 .. n /\ DOMAIN l = DOMAIN d
  /\ \A x \in DOMAIN d : d[x] \in Nat /\ l[x] \in Nat

\* Numbers grow along the stack and along the frames; low links reach down to the
\* lowest frame.
VisitOrdered(edges, f, d, l, st) ==
  /\ \A x \in DOMAIN d : d[x] < Cardinality(DOMAIN d) /\ l[x] <= d[x]
  /\ \A i, j \in 1 .. Len(st) : i < j => d[st[i]] < d[st[j]]
  /\ \A i, j \in 1 .. Len(f) : i < j => d[f[i].block] < d[f[j].block]
  /\ \A i \in 1 .. Len(f) :
       f[i].block \in On(st) /\ f[i].todo \subseteq Targets(edges, f[i].block)
  /\ Len(f) = 0 => Len(st) = 0
  /\ Len(f) # 0 => \A x \in On(st) : d[f[1].block] <= l[x]

\* What was discovered is on the stack or in one component.
VisitParts(d, st, cs) ==
  /\ DOMAIN d = On(st) \union UNION {cs[i] : i \in 1 .. Len(cs)}
  /\ \A i \in 1 .. Len(cs) : cs[i] # {} /\ On(st) \intersect cs[i] = {}
  /\ \A i, j \in 1 .. Len(cs) : i # j => cs[i] \intersect cs[j] = {}

\* An edge still to be followed.
Open(f, x, y) == \E i \in 1 .. Len(f) : f[i].block = x /\ y \in f[i].todo

\* The frame that a discovered block is under.
Owns(f, d, i, x) ==
  /\ i \in 1 .. Len(f) /\ d[f[i].block] <= d[x]
  /\ \A j \in 1 .. Len(f) : j > i => d[x] < d[f[j].block]

\* Every edge of a range seen leads to a range seen or is open (but those to X).
VisitFollowed(edges, f, d, X) ==
  \A x \in DOMAIN d : \A y \in Targets(edges, x) : y \in DOMAIN d \/ y \in X \/ Open(f, x, y)

\* The low link of a frame covers the edges of what is under it.
VisitLow(edges, f, d, l, st) ==
  \A x \in On(st) : \A y \in Targets(edges, x) \intersect On(st) : \A i \in 1 .. Len(f) :
    Owns(f, d, i, x) /\ ~(x = f[i].block /\ y \in f[i].todo) => l[f[i].block] <= d[y]

\* Edges of a component lead to itself or an earlier one.
Behind(edges, cs) ==
  \A i \in 1 .. Len(cs) : \A x \in cs[i] : \A y \in Targets(edges, x) :
    \E j \in 1 .. i : y \in cs[j]

\* The stack as a set.
LEMMA OnIs ==
  ASSUME NEW S, NEW st \in Seq(S)
  PROVE  On(st) \subseteq S /\ On(st) = ToSet(st)
<1>1. Len(st) \in Nat /\ DOMAIN st = 1 .. Len(st) /\ \A i \in DOMAIN st : st[i] \in S
  BY SequenceIs
<1> QED BY <1>1 DEF On, ToSet

\* The invariant of the search.
VisitSound(n, edges, f, d, l, st, cs, X) ==
  /\ VisitTyped(n, f, d, l, st, cs) /\ VisitOrdered(edges, f, d, l, st)
  /\ VisitParts(d, st, cs) /\ VisitFollowed(edges, f, d, X)
  /\ VisitLow(edges, f, d, l, st) /\ Behind(edges, cs)

\* What Discover makes of its state.
Grown(n, edges, f, d, l, st, b, g, e, m, su) ==
  /\ Len(g) = Len(f) + 1 /\ g \in Seq(Frames(n))
  /\ \A i \in 1 .. Len(f) : g[i] = f[i]
  /\ g[Len(f) + 1].block = b /\ g[Len(f) + 1].todo = Targets(edges, b)
  /\ DOMAIN e = DOMAIN d \union {b} /\ DOMAIN m = DOMAIN e
  /\ e[b] = Cardinality(DOMAIN d) /\ m[b] = Cardinality(DOMAIN d)
  /\ \A x \in DOMAIN d : e[x] = d[x] /\ m[x] = l[x]
  /\ Len(su) = Len(st) + 1 /\ su \in Seq(1 .. n)
  /\ \A i \in 1 .. Len(st) : su[i] = st[i]
  /\ su[Len(st) + 1] = b

\* It is on the stack.
LEMMA GrownOn ==
  ASSUME NEW n, NEW edges, NEW f, NEW d, NEW l, NEW st, NEW b, NEW g, NEW e, NEW m, NEW su,
         st \in Seq(1 .. n), Grown(n, edges, f, d, l, st, b, g, e, m, su)
  PROVE  On(su) = On(st) \union {b}
<1>1. Len(st) \in Nat
  BY SequenceIs
<1>2. /\ Len(su) = Len(st) + 1 /\ su[Len(st) + 1] = b
      /\ \A i \in 1 .. Len(st) : su[i] = st[i]
  BY DEF Grown
<1>3. 1 .. Len(su) = (1 .. Len(st)) \union {Len(st) + 1}
  BY <1>1, <1>2
<1> QED BY <1>2, <1>3 DEF On

\* Discovering a block keeps the invariant.
LEMMA DiscoverSound ==
  ASSUME NEW n \in Nat, NEW edges, edges \subseteq (1 .. n) \X (1 .. n), NEW f, NEW d, NEW l, NEW st, NEW cs,
         NEW b \in 1 .. n, b \notin DOMAIN d, VisitSound(n, edges, f, d, l, st, cs, {b}),
         NEW g, NEW e, NEW m, NEW su, Grown(n, edges, f, d, l, st, b, g, e, m, su)
  PROVE  VisitSound(n, edges, g, e, m, su, cs, {})
<1> DEFINE k == Len(f) + 1
<1>1. /\ Len(f) \in Nat /\ k \in Nat /\ Len(g) = k /\ 1 .. Len(g) = (1 .. Len(f)) \union {k}
      /\ \A i \in 1 .. Len(f) : f[i].block \in 1 .. n
      /\ Len(st) \in Nat /\ On(st) \subseteq DOMAIN d
      /\ 1 .. Len(su) = (1 .. Len(st)) \union {Len(st) + 1}
      /\ Len(cs) \in Nat
  <2>1. f \in Seq(Frames(n)) /\ st \in Seq(1 .. n) /\ cs \in Seq(SUBSET (1 .. n))
    BY DEF VisitSound, VisitTyped
  <2>2. Len(f) \in Nat /\ \A i \in 1 .. Len(f) : f[i] \in Frames(n)
    BY <2>1, SequenceIs
  <2>3. Len(st) \in Nat /\ Len(cs) \in Nat
    BY <2>1, SequenceIs
  <2>4. Len(g) = Len(f) + 1 /\ Len(su) = Len(st) + 1
    BY DEF Grown
  <2>5. On(st) \subseteq DOMAIN d
    BY DEF VisitSound, VisitParts
  <2> QED BY <2>2, <2>3, <2>4, <2>5 DEF Frames
<1>2. /\ \A i \in 1 .. Len(f) : g[i] = f[i]
      /\ g[k].block = b /\ g[k].todo = Targets(edges, b)
      /\ DOMAIN e = DOMAIN d \union {b} /\ DOMAIN m = DOMAIN e
      /\ e[b] = Cardinality(DOMAIN d) /\ m[b] = Cardinality(DOMAIN d)
      /\ \A x \in DOMAIN d : e[x] = d[x] /\ m[x] = l[x]
      /\ \A i \in 1 .. Len(st) : su[i] = st[i]
      /\ su[Len(st) + 1] = b
  BY DEF Grown
<1>3. On(su) = On(st) \union {b}
  BY GrownOn DEF VisitSound, VisitTyped
<1>4. /\ DOMAIN d \subseteq 1 .. n
      /\ \A x \in DOMAIN d : d[x] \in Nat /\ l[x] \in Nat /\ d[x] < Cardinality(DOMAIN d) /\ l[x] <= d[x]
      /\ Cardinality(DOMAIN d) \in Nat /\ Cardinality(DOMAIN e) = Cardinality(DOMAIN d) + 1
  <2>1. DOMAIN d \subseteq 1 .. n /\ IsFiniteSet(1 .. n)
    BY FS_Interval DEF VisitSound, VisitTyped
  <2>2. IsFiniteSet(DOMAIN d)
    BY <2>1, FS_Subset
  <2>3. Cardinality(DOMAIN d) \in Nat
    BY <2>2, FS_CardinalityType
  <2>4. Cardinality(DOMAIN d \union {b}) = Cardinality(DOMAIN d) + 1
    BY <2>2, FS_AddElement
  <2> QED BY <1>2, <2>1, <2>3, <2>4 DEF VisitSound, VisitTyped, VisitOrdered
<1> HIDE DEF k
<1>5. VisitTyped(n, g, e, m, su, cs)
  BY <1>2, <1>4 DEF VisitSound, VisitTyped, Grown
<1>6. \A i \in 1 .. Len(f) : f[i].block \in On(st) /\ f[i].block \in DOMAIN d /\ e[f[i].block] = d[f[i].block]
  BY <1>1, <1>2 DEF VisitSound, VisitOrdered
<1>7. VisitOrdered(edges, g, e, m, su)
  <2>1. \A x \in DOMAIN e : e[x] < Cardinality(DOMAIN e) /\ m[x] <= e[x]
    BY <1>2, <1>4
  <2>2. \A i, j \in 1 .. Len(su) : i < j => e[su[i]] < e[su[j]]
    <3>1. \A i \in 1 .. Len(st) : st[i] \in DOMAIN d /\ e[su[i]] = d[st[i]]
      BY <1>1, <1>2 DEF On
    <3>2. \A i, j \in 1 .. Len(st) : i < j => d[st[i]] < d[st[j]]
      BY DEF VisitSound, VisitOrdered
    <3>3. \A i \in 1 .. Len(st) : e[su[i]] < e[su[Len(st) + 1]]
      BY <1>2, <1>4, <3>1
    <3> SUFFICES ASSUME NEW i \in 1 .. Len(su), NEW j \in 1 .. Len(su), i < j
                 PROVE  e[su[i]] < e[su[j]]
      OBVIOUS
    <3>4. i \in 1 .. Len(st)
      BY <1>1
    <3>5. CASE j \in 1 .. Len(st)
      BY <3>1, <3>2, <3>4, <3>5
    <3>6. CASE j = Len(st) + 1
      BY <3>3, <3>4, <3>6
    <3> QED BY <1>1, <3>5, <3>6
  <2>3. \A i, j \in 1 .. Len(g) : i < j => e[g[i].block] < e[g[j].block]
    <3>1. \A i, j \in 1 .. Len(f) : i < j => d[f[i].block] < d[f[j].block]
      BY DEF VisitSound, VisitOrdered
    <3>2. \A i \in 1 .. Len(f) : e[g[i].block] = d[f[i].block] /\ e[g[i].block] < e[g[k].block]
      BY <1>2, <1>4, <1>6
    <3>3. \A i \in 1 .. Len(f) : i < k
      BY <1>1 DEF k
    <3> SUFFICES ASSUME NEW i \in 1 .. Len(g), NEW j \in 1 .. Len(g), i < j
                 PROVE  e[g[i].block] < e[g[j].block]
      OBVIOUS
    <3>4. i \in 1 .. Len(f)
      BY <1>1
    <3>5. CASE j \in 1 .. Len(f)
      BY <3>1, <3>2, <3>4, <3>5
    <3>6. CASE j = k
      BY <3>2, <3>4, <3>6
    <3> QED BY <1>1, <3>5, <3>6
  <2>4. \A i \in 1 .. Len(g) : g[i].block \in On(su) /\ g[i].todo \subseteq Targets(edges, g[i].block)
    <3>1. \A i \in 1 .. Len(f) : f[i].todo \subseteq Targets(edges, f[i].block)
      BY DEF VisitSound, VisitOrdered
    <3>2. \A i \in 1 .. Len(f) : g[i].block \in On(su) /\ g[i].todo \subseteq Targets(edges, g[i].block)
      BY <1>2, <1>3, <1>6, <3>1
    <3>3. g[k].block \in On(su) /\ g[k].todo \subseteq Targets(edges, g[k].block)
      BY <1>2, <1>3
    <3> QED BY <1>1, <3>2, <3>3
  <2>5. Len(g) # 0
    BY <1>1 DEF k
  <2>6. ASSUME NEW x \in On(su) PROVE e[g[1].block] <= m[x]
    <3>1. CASE Len(f) = 0
      <4>1. Len(st) = 0
        BY <3>1 DEF VisitSound, VisitOrdered
      <4>2. x = b
        BY <1>3, <4>1 DEF On
      <4>3. g[1].block = b
        BY <1>2, <3>1 DEF k
      <4> QED BY <1>2, <1>4, <4>2, <4>3
    <3>2. CASE Len(f) # 0
      <4>1. 1 \in 1 .. Len(f)
        BY <1>1, <3>2
      <4>2. \A y \in On(st) : d[f[1].block] <= l[y]
        BY <3>2 DEF VisitSound, VisitOrdered
      <4>3. g[1].block = f[1].block /\ e[g[1].block] = d[f[1].block] /\ f[1].block \in DOMAIN d
        BY <1>2, <1>6, <4>1
      <4>4. CASE x = b
        BY <1>2, <1>4, <4>3, <4>4
      <4>5. CASE x # b
        <5>1. x \in On(st) /\ x \in DOMAIN d
          BY <1>1, <1>3, <4>5
        <5> QED BY <1>2, <4>2, <4>3, <5>1
      <4> QED BY <4>4, <4>5
    <3> QED BY <3>1, <3>2
  <2> QED BY <2>1, <2>2, <2>3, <2>4, <2>5, <2>6 DEF VisitOrdered
<1>8. VisitParts(e, su, cs)
  <2>1. VisitParts(d, st, cs)
    BY DEF VisitSound
  <2>2. \A i \in 1 .. Len(cs) : b \notin cs[i]
    BY <2>1 DEF VisitParts
  <2> QED BY <1>2, <1>3, <2>1, <2>2 DEF VisitParts
<1>9. VisitFollowed(edges, g, e, {})
  <2> SUFFICES ASSUME NEW x \in DOMAIN e, NEW y \in Targets(edges, x), y \notin DOMAIN e
               PROVE  Open(g, x, y)
    BY DEF VisitFollowed
  <2>1. CASE x = b
    BY <1>1, <1>2, <2>1 DEF Open
  <2>2. CASE x # b
    <3>1. x \in DOMAIN d /\ y \notin DOMAIN d /\ y \notin {b}
      BY <1>2, <2>2
    <3>2. Open(f, x, y)
      BY <3>1 DEF VisitSound, VisitFollowed
    <3> QED BY <1>1, <1>2, <3>2 DEF Open
  <2> QED BY <2>1, <2>2
<1>10. VisitLow(edges, g, e, m, su)
  <2> SUFFICES ASSUME NEW x \in On(su), NEW y \in Targets(edges, x) \intersect On(su),
                      NEW i \in 1 .. Len(g), Owns(g, e, i, x), ~(x = g[i].block /\ y \in g[i].todo)
               PROVE  m[g[i].block] <= e[y]
    BY DEF VisitLow
  <2>1. i \in 1 .. Len(f)
    <3> SUFFICES ASSUME i = k PROVE FALSE
      BY <1>1
    <3>1. e[b] <= e[x]
      BY <1>2 DEF Owns
    <3>2. x = b
      BY <1>1, <1>2, <1>3, <1>4, <3>1
    <3> QED BY <1>2, <3>2
  <2>2. g[i] = f[i] /\ f[i].block \in DOMAIN d /\ m[f[i].block] = l[f[i].block]
    BY <1>2, <1>6, <2>1
  <2>3. CASE y = b
    BY <1>2, <1>4, <2>2, <2>3
  <2>4. CASE y # b
    <3>1. y \in On(st) /\ y \in DOMAIN d
      BY <1>1, <1>3, <2>4
    <3>2. x # b
      <4>1. k \in 1 .. Len(g) /\ k > i
        BY <1>1, <2>1 DEF k
      <4>2. e[x] < e[g[k].block]
        BY <4>1 DEF Owns
      <4> QED BY <1>2, <1>4, <4>2
    <3>3. x \in On(st) /\ x \in DOMAIN d
      BY <1>1, <1>3, <3>2
    <3>4. Owns(f, d, i, x)
      <4>1. e[x] = d[x] /\ e[f[i].block] = d[f[i].block]
        BY <1>2, <1>6, <2>1, <3>3
      <4>2. \A j \in 1 .. Len(f) : j > i => d[x] < d[f[j].block]
        BY <1>1, <1>2, <1>6, <4>1 DEF Owns
      <4> QED BY <2>1, <2>2, <4>1, <4>2 DEF Owns
    <3>5. l[f[i].block] <= d[y]
      BY <2>1, <2>2, <3>1, <3>3, <3>4 DEF VisitSound, VisitLow
    <3> QED BY <1>2, <2>2, <3>1, <3>5
  <2> QED BY <2>3, <2>4
<1> QED BY <1>5, <1>7, <1>8, <1>9, <1>10 DEF VisitSound

\* What lowering the link of b to at most v makes of l.
Lower(l, m, b, v) ==
  /\ DOMAIN m = DOMAIN l /\ \A x \in DOMAIN l : x # b => m[x] = l[x]
  /\ m[b] \in {l[b], v} /\ m[b] <= l[b] /\ m[b] <= v

\* The innermost call after it has taken the edge to y.
Narrowed(n, f, g, y) ==
  /\ Len(g) = Len(f) /\ g \in Seq(Frames(n))
  /\ \A i \in 1 .. Len(f) : /\ g[i].block = f[i].block
                            /\ g[i].todo = IF i = Len(f) THEN f[i].todo \ {y} ELSE f[i].todo

\* Following an edge keeps the invariant.
LEMMA NarrowedSound ==
  ASSUME NEW n \in Nat, NEW edges, NEW f, NEW d, NEW l, NEW st, NEW cs, NEW k, k = Len(f), k # 0,
         VisitSound(n, edges, f, d, l, st, cs, {}), NEW y \in f[k].todo,
         NEW X, y \in DOMAIN d \/ y \in X, NEW g, Narrowed(n, f, g, y),
         NEW m, \/ y \in On(st) /\ Lower(l, m, f[k].block, d[y])
                \/ y \notin On(st) /\ m = l
  PROVE  VisitSound(n, edges, g, d, m, st, cs, X)
<1>1. /\ k \in Nat /\ k \in 1 .. Len(f) /\ Len(g) = k /\ 1 \in 1 .. k
      /\ On(st) \subseteq DOMAIN d
  <2>1. f \in Seq(Frames(n))
    BY DEF VisitSound, VisitTyped
  <2>2. Len(f) \in Nat
    BY <2>1, SequenceIs
  <2>3. On(st) \subseteq DOMAIN d
    BY DEF VisitSound, VisitParts
  <2> QED BY <2>2, <2>3 DEF Narrowed
<1>2. /\ \A i \in 1 .. k : g[i].block = f[i].block /\ g[i].todo \subseteq f[i].todo
      /\ \A i \in 1 .. k : i # k => g[i].todo = f[i].todo
      /\ g[k].todo = f[k].todo \ {y}
  BY <1>1 DEF Narrowed
<1>3. \A i \in 1 .. k : f[i].block \in On(st) /\ f[i].block \in DOMAIN d
  BY <1>1 DEF VisitSound, VisitOrdered
<1>4. \A x \in DOMAIN d : d[x] \in Nat /\ l[x] \in Nat /\ l[x] <= d[x] /\ DOMAIN l = DOMAIN d
  BY DEF VisitSound, VisitTyped, VisitOrdered
<1>5. /\ DOMAIN m = DOMAIN l
      /\ \A x \in DOMAIN d : m[x] \in Nat /\ m[x] <= l[x] /\ (x # f[k].block => m[x] = l[x])
      /\ y \in On(st) => m[f[k].block] <= d[y]
      /\ m[f[k].block] = l[f[k].block] \/ (m[f[k].block] = d[y] /\ y \in On(st))
  <2>1. PICK b : b = f[k].block
    OBVIOUS
  <2>2. b \in DOMAIN d /\ d[b] \in Nat /\ l[b] \in Nat
    BY <1>1, <1>3, <1>4, <2>1
  <2>3. CASE y \in On(st) /\ Lower(l, m, b, d[y])
    <3>1. /\ DOMAIN m = DOMAIN l /\ \A x \in DOMAIN l : x # b => m[x] = l[x]
          /\ m[b] \in {l[b], d[y]} /\ m[b] <= l[b] /\ m[b] <= d[y]
      BY <2>3 DEF Lower
    <3>2. d[y] \in Nat /\ m[b] \in Nat
      BY <1>1, <1>4, <2>2, <2>3, <3>1
    <3>3. \A x \in DOMAIN d : m[x] \in Nat /\ m[x] <= l[x] /\ (x # b => m[x] = l[x])
      BY <1>4, <3>1, <3>2
    <3> QED BY <2>1, <2>3, <3>1, <3>3
  <2>4. CASE y \notin On(st) /\ m = l
    <3>1. \A x \in DOMAIN d : l[x] \in Nat /\ l[x] <= l[x]
      BY <1>4
    <3>2. \A x \in DOMAIN d : m[x] \in Nat /\ m[x] <= l[x] /\ m[x] = l[x]
      BY <2>4, <3>1
    <3>3. DOMAIN m = DOMAIN l /\ m[f[k].block] = l[f[k].block] /\ y \notin On(st)
      BY <2>4
    <3> QED BY <3>2, <3>3
  <2> QED BY <2>1, <2>3, <2>4
<1>6. VisitTyped(n, g, d, m, st, cs)
  BY <1>4, <1>5 DEF VisitSound, VisitTyped, Narrowed
<1>7. VisitOrdered(edges, g, d, m, st)
  <2>1. VisitOrdered(edges, f, d, l, st)
    BY DEF VisitSound
  <2>2. \A x \in DOMAIN d : d[x] < Cardinality(DOMAIN d) /\ m[x] <= d[x]
    BY <1>4, <1>5, <2>1 DEF VisitOrdered
  <2>3. \A i, j \in 1 .. Len(g) : i < j => d[g[i].block] < d[g[j].block]
    BY <1>1, <1>2, <2>1 DEF VisitOrdered
  <2>4. \A i \in 1 .. Len(g) : g[i].block \in On(st) /\ g[i].todo \subseteq Targets(edges, g[i].block)
    BY <1>1, <1>2, <2>1 DEF VisitOrdered
  <2>5. \A x \in On(st) : d[g[1].block] <= m[x]
    <3>1. \A x \in On(st) : d[f[1].block] <= l[x] /\ x \in DOMAIN d
      BY <1>1, <2>1 DEF VisitOrdered
    <3>2. \A x \in On(st) : m[x] = l[x] \/ (m[x] = d[y] /\ y \in On(st))
      BY <1>1, <1>5
    <3>3. d[f[1].block] \in Nat
      BY <1>1, <1>3, <1>4
    <3>4. y \in On(st) => d[f[1].block] <= d[y]
      BY <1>1, <1>4, <3>1, <3>3
    <3> QED BY <1>1, <1>2, <3>1, <3>2, <3>4
  <2>6. \A i, j \in 1 .. Len(st) : i < j => d[st[i]] < d[st[j]]
    BY <2>1 DEF VisitOrdered
  <2> QED BY <1>1, <2>2, <2>3, <2>4, <2>5, <2>6 DEF VisitOrdered
<1>8. VisitFollowed(edges, g, d, X)
  <2> SUFFICES ASSUME NEW x \in DOMAIN d, NEW z \in Targets(edges, x), z \notin DOMAIN d, z \notin X
               PROVE  Open(g, x, z)
    BY DEF VisitFollowed
  <2>1. Open(f, x, z)
    BY DEF VisitSound, VisitFollowed
  <2>2. PICK i \in 1 .. Len(f) : f[i].block = x /\ z \in f[i].todo
    BY <2>1 DEF Open
  <2>3. z # y
    OBVIOUS
  <2>4. i \in 1 .. Len(g) /\ g[i].block = x /\ z \in g[i].todo
    BY <1>1, <1>2, <2>2, <2>3
  <2> QED BY <2>4 DEF Open
<1>9. VisitLow(edges, g, d, m, st)
  <2> SUFFICES ASSUME NEW x \in On(st), NEW z \in Targets(edges, x) \intersect On(st),
                      NEW i \in 1 .. Len(g), Owns(g, d, i, x), ~(x = g[i].block /\ z \in g[i].todo)
               PROVE  m[g[i].block] <= d[z]
    BY DEF VisitLow
  <2>1. Owns(f, d, i, x)
    BY <1>1, <1>2 DEF Owns
  <2>2. f[i].block \in DOMAIN d /\ m[f[i].block] <= l[f[i].block] /\ z \in DOMAIN d
    BY <1>1, <1>3, <1>5
  <2>3. CASE x = f[i].block /\ z \in f[i].todo
    <3>1. i = k /\ z = y
      BY <1>1, <1>2, <2>3
    <3> QED BY <1>1, <1>2, <1>5, <3>1
  <2>4. CASE ~(x = f[i].block /\ z \in f[i].todo)
    <3>1. l[f[i].block] <= d[z]
      BY <1>1, <2>1, <2>4 DEF VisitSound, VisitLow
    <3>2. d[z] \in Nat /\ l[f[i].block] \in Nat /\ m[f[i].block] \in Nat /\ g[i].block = f[i].block
      BY <1>1, <1>2, <1>4, <1>5, <2>2
    <3> QED BY <2>2, <3>1, <3>2
  <2> QED BY <2>3, <2>4
<1> QED BY <1>6, <1>7, <1>8, <1>9 DEF VisitSound

\* The calls but the innermost, b, which has followed all its edges.
Returned(n, f, g, b) ==
  /\ Len(f) = Len(g) + 1 /\ g \in Seq(Frames(n))
  /\ \A i \in 1 .. Len(g) : g[i] = f[i]
  /\ f[Len(f)].block = b /\ f[Len(f)].todo = {}

\* The stack and the components: as they were, or with what is above b taken off.
Collected(n, d, l, st, cs, b, su, cu) ==
  \/ l[b] # d[b] /\ su = st /\ cu = cs
  \/ /\ l[b] = d[b]
     /\ su \in Seq(1 .. n) /\ Len(su) <= Len(st) /\ \A i \in 1 .. Len(su) : su[i] = st[i]
     /\ On(su) = {x \in On(st) : d[x] < d[b]}
     /\ Len(cu) = Len(cs) + 1 /\ cu \in Seq(SUBSET (1 .. n))
     /\ \A i \in 1 .. Len(cs) : cu[i] = cs[i]
     /\ cu[Len(cs) + 1] = {x \in On(st) : d[x] >= d[b]}

\* Returning keeps the invariant: what is collected has no edge to what stays.
LEMMA ReturnedSound ==
  ASSUME NEW n \in Nat, NEW edges, NEW f, NEW d, NEW l, NEW st, NEW cs,
         VisitSound(n, edges, f, d, l, st, cs, {}), NEW b, NEW g, Returned(n, f, g, b),
         NEW su, NEW cu, Collected(n, d, l, st, cs, b, su, cu),
         NEW m, IF Len(g) = 0 THEN m = l ELSE Lower(l, m, g[Len(g)].block, l[b])
  PROVE  VisitSound(n, edges, g, d, m, su, cu, {})
<1>1. PICK k : k = Len(f)
  OBVIOUS
<1>2. /\ k \in Nat /\ k \in 1 .. Len(f) /\ Len(g) = k - 1 /\ k - 1 \in Nat /\ 1 \in 1 .. k
      /\ Len(st) \in Nat /\ Len(cs) \in Nat /\ Len(su) \in Nat /\ Len(cu) \in Nat
      /\ Len(su) <= Len(st) /\ 1 .. Len(su) \subseteq 1 .. Len(st)
      /\ su \in Seq(1 .. n) /\ cu \in Seq(SUBSET (1 .. n))
  <2>1. /\ f \in Seq(Frames(n)) /\ g \in Seq(Frames(n)) /\ st \in Seq(1 .. n) /\ cs \in Seq(SUBSET (1 .. n))
        /\ su \in Seq(1 .. n) /\ cu \in Seq(SUBSET (1 .. n))
    BY DEF VisitSound, VisitTyped, Returned, Collected
  <2>2. Len(f) \in Nat /\ Len(g) \in Nat /\ Len(st) \in Nat /\ Len(cs) \in Nat /\ Len(su) \in Nat /\ Len(cu) \in Nat
    BY <2>1, SequenceIs
  <2>3. Len(f) = Len(g) + 1
    BY DEF Returned
  <2>4. Len(su) <= Len(st)
    BY <2>2 DEF Collected
  <2> QED BY <1>1, <2>1, <2>2, <2>3, <2>4
<1>3. /\ f[k].block = b /\ f[k].todo = {} /\ \A i \in 1 .. k - 1 : g[i] = f[i]
  BY <1>1, <1>2 DEF Returned
<1>4. /\ On(st) \subseteq DOMAIN d
      /\ \A i \in 1 .. k : f[i].block \in On(st) /\ f[i].block \in DOMAIN d
      /\ \A i, j \in 1 .. k : i < j => d[f[i].block] < d[f[j].block]
      /\ \A x \in DOMAIN d : d[x] \in Nat /\ l[x] \in Nat /\ l[x] <= d[x] /\ DOMAIN l = DOMAIN d
      /\ \A x \in On(st) : d[f[1].block] <= l[x]
      /\ \A i \in 1 .. k : f[i].todo \subseteq Targets(edges, f[i].block)
      /\ \A x \in DOMAIN d : d[x] < Cardinality(DOMAIN d)
      /\ \A i, j \in 1 .. Len(st) : i < j => d[st[i]] < d[st[j]]
  <2>1. VisitOrdered(edges, f, d, l, st) /\ VisitTyped(n, f, d, l, st, cs)
    BY DEF VisitSound
  <2>2. On(st) \subseteq DOMAIN d
    BY DEF VisitSound, VisitParts
  <2>3. \A x \in DOMAIN d : d[x] \in Nat /\ l[x] \in Nat /\ l[x] <= d[x] /\ DOMAIN l = DOMAIN d
    BY <2>1 DEF VisitTyped, VisitOrdered
  <2>4. Len(f) # 0 /\ \A x \in On(st) : d[f[1].block] <= l[x]
    BY <1>1, <1>2, <2>1 DEF VisitOrdered
  <2>5. /\ \A i \in 1 .. k : f[i].block \in On(st) /\ f[i].todo \subseteq Targets(edges, f[i].block)
        /\ \A i, j \in 1 .. k : i < j => d[f[i].block] < d[f[j].block]
        /\ \A x \in DOMAIN d : d[x] < Cardinality(DOMAIN d)
        /\ \A i, j \in 1 .. Len(st) : i < j => d[st[i]] < d[st[j]]
    BY <1>1, <2>1 DEF VisitOrdered
  <2> QED BY <2>2, <2>3, <2>4, <2>5
<1>5. /\ b \in On(st) /\ b \in DOMAIN d /\ On(su) \subseteq On(st)
      /\ \A i \in 1 .. Len(su) : su[i] = st[i]
  <2>1. b \in On(st) /\ b \in DOMAIN d
    BY <1>1, <1>2, <1>3, <1>4
  <2>2. CASE su = st /\ cu = cs
    BY <2>1, <2>2
  <2>3. CASE ~(su = st /\ cu = cs)
    BY <2>1, <2>3 DEF Collected
  <2> QED BY <2>2, <2>3
<1>6. /\ DOMAIN m = DOMAIN d
      /\ \A x \in DOMAIN d : m[x] \in Nat /\ m[x] <= l[x] /\ (m[x] = l[x] \/ m[x] = l[b])
      /\ \A x \in DOMAIN d : x # f[k - 1].block => m[x] = l[x]
      /\ k # 1 => m[f[k - 1].block] <= l[b]
  <2>1. CASE Len(g) = 0
    <3>1. m = l /\ k = 1
      BY <1>2, <2>1
    <3> QED BY <1>4, <1>5, <3>1
  <2>2. CASE Len(g) # 0
    <3>1. Lower(l, m, f[k - 1].block, l[b])
      <4>1. k - 1 \in 1 .. k - 1 /\ Len(g) = k - 1
        BY <1>2, <2>2
      <4> QED BY <1>3, <2>2, <4>1
    <3>2. f[k - 1].block \in DOMAIN d
      <4>1. k - 1 \in 1 .. k
        BY <1>2, <2>2
      <4> QED BY <1>4, <4>1
    <3> QED BY <1>4, <1>5, <3>1, <3>2 DEF Lower
  <2> QED BY <2>1, <2>2
<1>7. VisitTyped(n, g, d, m, su, cu)
  BY <1>2, <1>4, <1>6 DEF VisitSound, VisitTyped, Returned
\* Nothing remains below the outermost call.
<1>8. ASSUME k = 1 PROVE l[b] = d[b] /\ On(su) = {} /\ Len(su) = 0
  <2>1. d[b] <= l[b] /\ l[b] <= d[b] /\ d[b] \in Nat /\ l[b] \in Nat
    BY <1>3, <1>4, <1>5, <1>8
  <2>2. l[b] = d[b]
    BY <2>1
  <2>3. On(su) = {x \in On(st) : d[x] < d[b]}
    BY <2>2 DEF Collected
  <2>4. \A x \in On(st) : d[b] <= d[x]
    <3>1. \A x \in On(st) : d[b] <= l[x] /\ l[x] <= d[x] /\ d[x] \in Nat /\ l[x] \in Nat
      BY <1>3, <1>4, <1>8
    <3> QED BY <2>1, <3>1
  <2>5. On(su) = {}
    BY <1>4, <2>1, <2>3, <2>4
  <2>6. Len(su) = 0
    <3> SUFFICES ASSUME Len(su) # 0 PROVE FALSE
      OBVIOUS
    <3>1. 1 \in 1 .. Len(su)
      BY <1>2
    <3> QED BY <2>5, <3>1 DEF On
  <2> QED BY <2>2, <2>5, <2>6
<1>9. ASSUME NEW i \in 1 .. k - 1 PROVE f[i].block \in On(su) /\ g[i] = f[i] /\ i \in 1 .. k /\ i < k
  <2>1. i \in 1 .. k /\ i < k
    BY <1>2
  <2>2. d[f[i].block] < d[f[k].block] /\ f[i].block \in On(st)
    BY <1>1, <1>2, <1>4, <2>1
  <2> QED BY <1>3, <2>1, <2>2 DEF Collected
<1>10. VisitOrdered(edges, g, d, m, su)
  <2>1. \A x \in DOMAIN d : d[x] < Cardinality(DOMAIN d) /\ m[x] <= d[x]
    BY <1>4, <1>6
  <2>2. \A i, j \in 1 .. Len(g) : i < j => d[g[i].block] < d[g[j].block]
    <3> SUFFICES ASSUME NEW i \in 1 .. Len(g), NEW j \in 1 .. Len(g), i < j
                 PROVE  d[g[i].block] < d[g[j].block]
      OBVIOUS
    <3>1. i \in 1 .. k - 1 /\ j \in 1 .. k - 1
      BY <1>2
    <3>2. g[i] = f[i] /\ g[j] = f[j] /\ i \in 1 .. k /\ j \in 1 .. k
      BY <1>9, <3>1
    <3> QED BY <1>4, <3>2
  <2>3. \A i \in 1 .. Len(g) : g[i].block \in On(su) /\ g[i].todo \subseteq Targets(edges, g[i].block)
    BY <1>2, <1>4, <1>9
  <2>4. \A i, j \in 1 .. Len(su) : i < j => d[su[i]] < d[su[j]]
    BY <1>2, <1>4, <1>5
  <2>5. Len(g) = 0 => Len(su) = 0
    BY <1>2, <1>8
  <2>6. ASSUME Len(g) # 0, NEW x \in On(su) PROVE d[g[1].block] <= m[x]
    <3>1. 1 \in 1 .. k - 1
      BY <1>2, <2>6
    <3>2. g[1] = f[1]
      BY <1>9, <3>1
    <3>3. x \in On(st) /\ x \in DOMAIN d
      BY <1>4, <1>5, <2>6
    <3> QED BY <1>4, <1>5, <1>6, <3>2, <3>3
  <2> QED BY <2>1, <2>2, <2>3, <2>4, <2>5, <2>6 DEF VisitOrdered
<1>11. \A i \in 1 .. Len(cs) : cs[i] # {} /\ On(st) \intersect cs[i] = {} /\ cs[i] \subseteq DOMAIN d
  BY DEF VisitSound, VisitParts
<1>12. VisitParts(d, su, cu)
  <2>1. VisitParts(d, st, cs)
    BY DEF VisitSound
  <2>2. CASE su = st /\ cu = cs
    BY <2>1, <2>2
  <2>3. CASE ~(su = st /\ cu = cs)
    <3>1. PICK q : q = Len(cs) + 1
      OBVIOUS
    <3>2. /\ On(su) = {x \in On(st) : d[x] < d[b]}
          /\ Len(cu) = q /\ \A i \in 1 .. Len(cs) : cu[i] = cs[i]
          /\ cu[q] = {x \in On(st) : d[x] >= d[b]}
      BY <2>3, <3>1 DEF Collected
    <3>3. 1 .. q = (1 .. Len(cs)) \union {q} /\ q \notin 1 .. Len(cs)
      BY <1>2, <3>1
    <3>4. On(su) \union cu[q] = On(st) /\ On(su) \intersect cu[q] = {} /\ cu[q] \subseteq On(st)
      BY <1>4, <1>5, <3>2
    <3>5. cu[q] # {}
      BY <1>4, <1>5, <3>2
    <3>6. DOMAIN d = On(su) \union UNION {cu[i] : i \in 1 .. Len(cu)}
      <4>1. DOMAIN d = On(st) \union UNION {cs[i] : i \in 1 .. Len(cs)}
        BY <2>1 DEF VisitParts
      <4>2. ASSUME NEW x \in DOMAIN d PROVE x \in On(su) \/ \E i \in 1 .. Len(cu) : x \in cu[i]
        <5>1. x \in On(su) \/ x \in cu[q] \/ \E i \in 1 .. Len(cs) : x \in cs[i]
          BY <3>4, <4>1
        <5> QED BY <3>2, <3>3, <5>1
      <4>3. ASSUME NEW i \in 1 .. Len(cu) PROVE cu[i] \subseteq DOMAIN d
        BY <1>4, <1>11, <3>2, <3>3, <3>4
      <4>4. On(su) \subseteq DOMAIN d
        BY <1>4, <1>5
      <4> QED BY <4>2, <4>3, <4>4
    <3>7. \A i \in 1 .. Len(cu) : cu[i] # {} /\ On(su) \intersect cu[i] = {}
      BY <1>5, <1>11, <3>2, <3>3, <3>4, <3>5
    <3>8. \A i, j \in 1 .. Len(cu) : i # j => cu[i] \intersect cu[j] = {}
      <4>1. \A i \in 1 .. Len(cs) : cu[i] \intersect cu[q] = {}
        BY <1>11, <3>2, <3>4
      <4>2. \A i, j \in 1 .. Len(cs) : i # j => cu[i] \intersect cu[j] = {}
        BY <2>1, <3>2 DEF VisitParts
      <4> QED BY <3>2, <3>3, <4>1, <4>2
    <3> QED BY <3>6, <3>7, <3>8 DEF VisitParts
  <2> QED BY <2>2, <2>3
<1>13. VisitFollowed(edges, g, d, {})
  <2> SUFFICES ASSUME NEW x \in DOMAIN d, NEW z \in Targets(edges, x), z \notin DOMAIN d
               PROVE  Open(g, x, z)
    BY DEF VisitFollowed
  <2>1. Open(f, x, z)
    BY DEF VisitSound, VisitFollowed
  <2>2. PICK i \in 1 .. Len(f) : f[i].block = x /\ z \in f[i].todo
    BY <2>1 DEF Open
  <2>3. i \in 1 .. k - 1
    BY <1>1, <1>2, <1>3, <2>2
  <2> QED BY <1>2, <1>9, <2>2, <2>3 DEF Open
<1>14. VisitLow(edges, g, d, m, su)
  <2> SUFFICES ASSUME NEW x \in On(su), NEW z \in Targets(edges, x) \intersect On(su),
                      NEW i \in 1 .. Len(g), Owns(g, d, i, x), ~(x = g[i].block /\ z \in g[i].todo)
               PROVE  m[g[i].block] <= d[z]
    BY DEF VisitLow
  <2>1. /\ i \in 1 .. k - 1 /\ g[i] = f[i] /\ i \in 1 .. k /\ i < k
        /\ x \in On(st) /\ z \in On(st) /\ x \in DOMAIN d /\ z \in DOMAIN d
        /\ f[i].block \in DOMAIN d
    BY <1>2, <1>4, <1>5, <1>9
  <2>2. m[f[i].block] <= l[f[i].block] /\ m[f[i].block] \in Nat /\ l[f[i].block] \in Nat /\ d[z] \in Nat
    BY <1>4, <1>6, <2>1
  <2>3. ASSUME NEW j \in 1 .. k, j > i, j # k PROVE d[x] < d[f[j].block]
    <3>1. j \in 1 .. Len(g) /\ g[j] = f[j]
      BY <1>2, <1>9, <2>3
    <3> QED BY <2>3, <3>1 DEF Owns
  <2>4. d[f[i].block] <= d[x]
    BY <2>1 DEF Owns
  <2>5. CASE d[x] < d[b]
    <3>1. Owns(f, d, i, x)
      BY <1>1, <1>3, <2>1, <2>3, <2>4, <2>5 DEF Owns
    <3>2. l[f[i].block] <= d[z]
      BY <1>1, <2>1, <3>1 DEF VisitSound, VisitLow
    <3> QED BY <2>1, <2>2, <3>2
  <2>6. CASE ~(d[x] < d[b])
    <3>1. i = k - 1
      <4> SUFFICES ASSUME i # k - 1 PROVE FALSE
        OBVIOUS
      <4>1. k - 1 \in 1 .. k /\ k - 1 > i /\ k - 1 # k
        BY <1>2, <2>1
      <4>2. d[x] < d[f[k - 1].block] /\ d[f[k - 1].block] < d[b]
        <5>1. k - 1 < k /\ k \in 1 .. k
          BY <1>2
        <5> QED BY <1>3, <1>4, <2>3, <4>1, <5>1
      <4>3. d[x] \in Nat /\ d[f[k - 1].block] \in Nat /\ d[b] \in Nat
        BY <1>4, <1>5, <2>1, <4>1
      <4> QED BY <2>6, <4>2, <4>3
    <3>2. Owns(f, d, k, x)
      <4>1. d[b] <= d[x]
        BY <1>4, <1>5, <2>1, <2>6
      <4> QED BY <1>1, <1>2, <1>3, <4>1 DEF Owns
    <3>3. l[b] <= d[z]
      BY <1>1, <1>2, <1>3, <2>1, <3>2 DEF VisitSound, VisitLow
    <3>4. m[f[i].block] <= l[b] /\ l[b] \in Nat
      BY <1>2, <1>4, <1>5, <1>6, <2>1, <3>1
    <3> QED BY <2>1, <2>2, <3>3, <3>4
  <2> QED BY <2>5, <2>6
<1>15. Behind(edges, cu)
  <2>1. Behind(edges, cs)
    BY DEF VisitSound
  <2>2. CASE cu = cs
    BY <2>1, <2>2
  <2>3. CASE cu # cs
    <3>1. PICK q : q = Len(cs) + 1
      OBVIOUS
    <3>2. /\ l[b] = d[b] /\ Len(cu) = q /\ \A i \in 1 .. Len(cs) : cu[i] = cs[i]
          /\ cu[q] = {x \in On(st) : d[x] >= d[b]}
      BY <2>3, <3>1 DEF Collected
    <3>3. 1 .. q = (1 .. Len(cs)) \union {q} /\ q \notin 1 .. Len(cs) /\ q \in Nat
      BY <1>2, <3>1
    <3>4. ASSUME NEW i \in 1 .. Len(cs), NEW x \in cu[i], NEW y \in Targets(edges, x)
          PROVE  \E j \in 1 .. i : y \in cu[j]
      <4>1. PICK j \in 1 .. i : y \in cs[j]
        BY <2>1, <3>2 DEF Behind
      <4>2. j \in 1 .. Len(cs)
        BY <1>2
      <4> QED BY <3>2, <4>1, <4>2
    <3>5. ASSUME NEW x \in cu[q], NEW y \in Targets(edges, x)
          PROVE  \E j \in 1 .. q : y \in cu[j]
      <4>1. x \in On(st) /\ d[x] >= d[b] /\ x \in DOMAIN d
        BY <1>4, <3>2
      <4>2. Owns(f, d, k, x)
        BY <1>1, <1>2, <1>3, <1>4, <1>5, <4>1 DEF Owns
      <4>3. y \in DOMAIN d
        <5> SUFFICES ASSUME y \notin DOMAIN d PROVE FALSE
          OBVIOUS
        <5>1. Open(f, x, y)
          BY <4>1 DEF VisitSound, VisitFollowed
        <5>2. PICK i \in 1 .. k : f[i].block = x /\ y \in f[i].todo
          BY <1>1, <5>1 DEF Open
        <5>3. i # k /\ i < k
          BY <1>2, <1>3, <5>2
        <5>4. d[x] < d[b]
          <6>1. k \in 1 .. k
            BY <1>2
          <6> QED BY <1>3, <1>4, <5>2, <5>3, <6>1
        <5> QED BY <1>4, <1>5, <4>1, <5>4
      <4>4. CASE y \in On(st)
        <5>1. l[b] <= d[y]
          BY <1>1, <1>2, <1>3, <4>1, <4>2, <4>4 DEF VisitSound, VisitLow
        <5>2. y \in cu[q]
          BY <1>4, <1>5, <3>2, <4>3, <4>4, <5>1
        <5> QED BY <3>3, <5>2
      <4>5. CASE y \notin On(st)
        <5>1. \E j \in 1 .. Len(cs) : y \in cs[j]
          BY <4>3, <4>5 DEF VisitSound, VisitParts
        <5> QED BY <3>2, <3>3, <5>1
      <4> QED BY <4>4, <4>5
    <3> QED BY <3>2, <3>3, <3>4, <3>5 DEF Behind
  <2> QED BY <2>2, <2>3
<1> QED BY <1>7, <1>10, <1>12, <1>13, <1>14, <1>15 DEF VisitSound

-----------------------------------------------------------------------------
(* The search terminates: how much of it is pending. *)

\* What is still to be done: blocks to discover, frames to return from, edges to follow.
Pending(n, f, d) ==
  {w \in (1 .. n) \X (0 .. n + 1) :
     \/ w[1] \notin DOMAIN d
     \/ w[2] = n + 1 /\ \E i \in 1 .. Len(f) : f[i].block = w[1]
     \/ Open(f, w[1], w[2])}

Shrinks(A, B) == \E x \in A : B \subseteq A \ {x}

\* Discovering a block leaves less,
LEMMA PendingGrown ==
  ASSUME NEW n \in Nat, NEW edges, NEW f \in Seq(Frames(n)), NEW d, NEW l, NEW st, NEW b \in 1 .. n,
         b \notin DOMAIN d, edges \subseteq (1 .. n) \X (1 .. n),
         NEW g, NEW e, NEW m, NEW su, Grown(n, edges, f, d, l, st, b, g, e, m, su)
  PROVE  Shrinks(Pending(n, f, d), Pending(n, g, e))
<1>1. /\ Len(f) \in Nat /\ Len(g) = Len(f) + 1
      /\ \A i \in 1 .. Len(f) : g[i] = f[i]
      /\ g[Len(f) + 1].block = b /\ g[Len(f) + 1].todo = Targets(edges, b)
      /\ DOMAIN e = DOMAIN d \union {b}
      /\ \A i \in 1 .. Len(f) : f[i].todo \subseteq 1 .. n
  <2>1. Len(f) \in Nat /\ \A i \in 1 .. Len(f) : f[i] \in Frames(n)
    BY SequenceIs
  <2> QED BY <2>1 DEF Grown, Frames
<1>2. \A i \in 1 .. Len(g) : i \in 1 .. Len(f) \/ i = Len(f) + 1
  BY <1>1
<1>3. PICK x : x = <<b, 0>>
  OBVIOUS
<1>4. x \in Pending(n, f, d)
  BY <1>3 DEF Pending
<1>5. \A i \in 1 .. Len(g) : 0 \notin g[i].todo
  BY <1>1, <1>2 DEF Targets
<1>6. x \notin Pending(n, g, e)
  BY <1>1, <1>3, <1>5 DEF Pending, Open
<1>7. ASSUME NEW w \in Pending(n, g, e) PROVE w \in Pending(n, f, d)
  <2>1. w \in (1 .. n) \X (0 .. n + 1)
    BY <1>7 DEF Pending
  <2>2. CASE w[1] = b
    BY <2>1, <2>2 DEF Pending
  <2>3. CASE w[1] # b
    <3>1. CASE w[1] \notin DOMAIN e
      BY <1>1, <2>1, <3>1 DEF Pending
    <3>2. CASE w[2] = n + 1 /\ \E i \in 1 .. Len(g) : g[i].block = w[1]
      <4>1. PICK i \in 1 .. Len(g) : g[i].block = w[1]
        BY <3>2
      <4>2. i \in 1 .. Len(f) /\ f[i].block = w[1]
        BY <1>1, <1>2, <2>3, <4>1
      <4> QED BY <2>1, <3>2, <4>2 DEF Pending
    <3>3. CASE Open(g, w[1], w[2])
      <4>1. PICK i \in 1 .. Len(g) : g[i].block = w[1] /\ w[2] \in g[i].todo
        BY <3>3 DEF Open
      <4>2. i \in 1 .. Len(f) /\ f[i].block = w[1] /\ w[2] \in f[i].todo
        BY <1>1, <1>2, <2>3, <4>1
      <4> QED BY <2>1, <4>2 DEF Pending, Open
    <3> QED BY <1>7, <3>1, <3>2, <3>3 DEF Pending
  <2> QED BY <2>2, <2>3
<1> QED BY <1>4, <1>6, <1>7 DEF Shrinks

\* taking an edge not more,
LEMMA PendingNarrowed ==
  ASSUME NEW n \in Nat, NEW f \in Seq(Frames(n)), NEW d, NEW y, NEW g, Narrowed(n, f, g, y)
  PROVE  Pending(n, g, d) \subseteq Pending(n, f, d)
<1>1. /\ Len(f) \in Nat /\ Len(g) = Len(f)
      /\ \A i \in 1 .. Len(f) : g[i].block = f[i].block /\ g[i].todo \subseteq f[i].todo
  BY SequenceIs DEF Narrowed
<1> QED BY <1>1 DEF Pending, Open

\* following it less,
LEMMA PendingFollowed ==
  ASSUME NEW n \in Nat, NEW f \in Seq(Frames(n)), NEW d, NEW k, k = Len(f), k # 0,
         f[k].block \in DOMAIN d, NEW y \in f[k].todo,
         \A i, j \in 1 .. Len(f) : i # j => f[i].block # f[j].block,
         NEW g, Narrowed(n, f, g, y)
  PROVE  Shrinks(Pending(n, f, d), Pending(n, g, d))
<1>1. /\ Len(f) \in Nat /\ Len(g) = Len(f) /\ k \in 1 .. Len(f)
      /\ \A i \in 1 .. Len(f) : g[i].block = f[i].block
      /\ g[k].todo = f[k].todo \ {y}
      /\ f[k].block \in 1 .. n /\ f[k].todo \subseteq 1 .. n
  <2>1. Len(f) \in Nat /\ \A i \in 1 .. Len(f) : f[i] \in Frames(n)
    BY SequenceIs
  <2>2. k \in 1 .. Len(f)
    BY <2>1
  <2>3. f[k] \in Frames(n)
    BY <2>1, <2>2
  <2>4. f[k].block \in 1 .. n /\ f[k].todo \subseteq 1 .. n
    BY <2>3 DEF Frames
  <2> QED BY <2>1, <2>2, <2>4 DEF Narrowed
<1>2. PICK x : x = <<f[k].block, y>>
  OBVIOUS
<1>3. y \in 0 .. n + 1 /\ y # n + 1
  BY <1>1
<1>4. x \in Pending(n, f, d)
  BY <1>1, <1>2, <1>3 DEF Pending, Open
<1>5. ~Open(g, x[1], x[2])
  BY <1>1, <1>2 DEF Open
<1>6. x \notin Pending(n, g, d)
  BY <1>2, <1>3, <1>5 DEF Pending
<1> QED BY <1>4, <1>6, PendingNarrowed DEF Shrinks

\* returning less.
LEMMA PendingReturned ==
  ASSUME NEW n \in Nat, NEW f \in Seq(Frames(n)), NEW d, NEW b \in DOMAIN d,
         \A i, j \in 1 .. Len(f) : i # j => f[i].block # f[j].block,
         NEW g, Returned(n, f, g, b)
  PROVE  Shrinks(Pending(n, f, d), Pending(n, g, d))
<1>1. PICK k : k = Len(f)
  OBVIOUS
<1>2. /\ k \in Nat /\ k \in 1 .. Len(f) /\ Len(g) = k - 1 /\ f[k].block = b /\ b \in 1 .. n
      /\ \A i \in 1 .. k - 1 : g[i] = f[i] /\ i \in 1 .. Len(f) /\ i # k
  <2>1. Len(f) \in Nat /\ \A i \in 1 .. Len(f) : f[i] \in Frames(n)
    BY SequenceIs
  <2>2. g \in Seq(Frames(n)) /\ Len(f) = Len(g) + 1
    BY DEF Returned
  <2>3. Len(g) \in Nat
    BY <2>2, SequenceIs
  <2>4. k \in Nat /\ k \in 1 .. Len(f) /\ Len(g) = k - 1
    BY <1>1, <2>1, <2>2, <2>3
  <2>5. f[k].block = b /\ f[k] \in Frames(n)
    BY <1>1, <2>1, <2>4 DEF Returned
  <2>6. \A i \in 1 .. k - 1 : g[i] = f[i] /\ i \in 1 .. Len(f) /\ i # k
    BY <1>1, <2>4 DEF Returned
  <2> QED BY <2>4, <2>5, <2>6 DEF Frames
<1>3. PICK x : x = <<b, n + 1>>
  OBVIOUS
<1>4. x \in Pending(n, f, d)
  BY <1>2, <1>3 DEF Pending
<1>5. \A i \in 1 .. Len(g) : g[i].block # b
  BY <1>2
<1>6. x \notin Pending(n, g, d)
  BY <1>3, <1>5 DEF Pending, Open
<1>7. Pending(n, g, d) \subseteq Pending(n, f, d)
  BY <1>2 DEF Pending, Open
<1> QED BY <1>4, <1>6, <1>7 DEF Shrinks

\* When nothing is pending, everything was discovered and no frame is left.
LEMMA PendingNone ==
  ASSUME NEW n \in Nat, NEW f \in Seq(Frames(n)), NEW d, Pending(n, f, d) = {}
  PROVE  Len(f) = 0 /\ 1 .. n \subseteq DOMAIN d
<1>1. Len(f) \in Nat /\ \A i \in 1 .. Len(f) : f[i].block \in 1 .. n
  <2>1. Len(f) \in Nat /\ \A i \in 1 .. Len(f) : f[i] \in Frames(n)
    BY SequenceIs
  <2> QED BY <2>1 DEF Frames
<1>2. ASSUME NEW v \in 1 .. n PROVE v \in DOMAIN d
  <2>1. <<v, 0>> \notin Pending(n, f, d)
    OBVIOUS
  <2> QED BY <2>1 DEF Pending
<1>3. ASSUME Len(f) # 0 PROVE FALSE
  <2>1. 1 \in 1 .. Len(f)
    BY <1>1, <1>3
  <2>2. <<f[1].block, n + 1>> \in Pending(n, f, d)
    BY <1>1, <2>1 DEF Pending
  <2> QED BY <2>2
<1> QED BY <1>2, <1>3

\* As many steps as the model allows suffice.
LEMMA PendingBound ==
  ASSUME NEW n \in Nat, NEW f, NEW d
  PROVE  /\ IsFiniteSet(Pending(n, f, d))
         /\ Cardinality(Pending(n, f, d)) <= 2 * n + n * n
         /\ Cardinality(Pending(n, f, d)) \in Nat
<1> DEFINE U == (1 .. n) \X (0 .. n + 1)
<1>1. IsFiniteSet(1 .. n) /\ Cardinality(1 .. n) = n /\ IsFiniteSet(0 .. n + 1) /\ Cardinality(0 .. n + 1) = n + 2
  <2>1. IsFiniteSet(1 .. n) /\ Cardinality(1 .. n) = n
    BY FS_Interval
  <2>2. IsFiniteSet(0 .. n + 1) /\ Cardinality(0 .. n + 1) = n + 2
    BY FS_Interval
  <2> QED BY <2>1, <2>2
<1>2. IsFiniteSet(U) /\ Cardinality(U) = n * (n + 2)
  <2>1. PICK A, B : A = 1 .. n /\ B = 0 .. n + 1
    OBVIOUS
  <2>2. IsFiniteSet(A) /\ IsFiniteSet(B)
    BY <1>1, <2>1
  <2>3. IsFiniteSet(A \X B) /\ Cardinality(A \X B) = Cardinality(A) * Cardinality(B)
    BY <2>2, FS_Product
  <2> QED BY <1>1, <2>1, <2>3
<1>3. Pending(n, f, d) \subseteq U
  BY DEF Pending
<1>4. /\ IsFiniteSet(Pending(n, f, d)) /\ Cardinality(Pending(n, f, d)) <= Cardinality(U)
  BY <1>2, <1>3, FS_Subset
<1>5. n * (n + 2) = 2 * n + n * n
  OBVIOUS
<1> QED BY <1>2, <1>4, <1>5, FS_CardinalityType

-----------------------------------------------------------------------------
(* Indices and low links of the search. *)

\* The state of the search, as a record.
IsVisit(s) ==
  s = [frames |-> s.frames, discovery |-> s.discovery, lowlink |-> s.lowlink,
       stack |-> s.stack, components |-> s.components]

VisitInv(n, edges, s) ==
  /\ IsVisit(s)
  /\ VisitSound(n, edges, s.frames, s.discovery, s.lowlink, s.stack, s.components, {})

PendingOf(n, s) == Pending(n, s.frames, s.discovery)

\* Min of a set of naturals,
LEMMA MinIs ==
  ASSUME NEW S, S \subseteq Nat, S # {}
  PROVE  Min(S) \in S /\ \A y \in S : Min(S) <= y
<1>1. \E x \in S : \A y \in S : x <= y
  BY Least
<1> QED BY <1>1 DEF Min

\* and of two.
LEMMA MinOfTwo ==
  ASSUME NEW a \in Nat, NEW b \in Nat
  PROVE  Min({a, b}) \in {a, b} /\ Min({a, b}) <= a /\ Min({a, b}) <= b
BY MinIs

\* The invariant holds at the start.
LEMMA VisitStarts ==
  ASSUME NEW n \in Nat, NEW edges
  PROVE  VisitInv(n, edges, Unvisited)
<1>1. PICK s : s = Unvisited
  OBVIOUS
<1>2. s = [frames |-> <<>>, discovery |-> <<>>, lowlink |-> <<>>, stack |-> <<>>, components |-> <<>>]
  BY <1>1 DEF Unvisited
<1>3. IsVisit(s)
  BY <1>2 DEF IsVisit
<1>4. PICK e : e = <<>>
  OBVIOUS
<1>5. /\ DOMAIN e = {} /\ Len(e) = 0 /\ \A i \in 1 .. 0 : FALSE
      /\ e \in Seq(Frames(n)) /\ e \in Seq(1 .. n) /\ e \in Seq(SUBSET (1 .. n)) /\ On(e) = {}
  <2>1. DOMAIN e = {} /\ Len(e) = 0 /\ \A i \in 1 .. 0 : FALSE
    BY <1>4
  <2>2. e \in Seq(Frames(n)) /\ e \in Seq(1 .. n) /\ e \in Seq(SUBSET (1 .. n))
    BY <1>4
  <2>3. On(e) = {}
    BY <2>1 DEF On
  <2> QED BY <2>1, <2>2, <2>3
<1>6. VisitTyped(n, e, e, e, e, e)
  BY <1>5 DEF VisitTyped
<1>7. VisitOrdered(edges, e, e, e, e)
  BY <1>5 DEF VisitOrdered
<1>8. VisitParts(e, e, e)
  <2>1. UNION {e[i] : i \in 1 .. Len(e)} = {}
    BY <1>5
  <2> QED BY <1>5, <2>1 DEF VisitParts
<1>9. VisitFollowed(edges, e, e, {}) /\ VisitLow(edges, e, e, e, e) /\ Behind(edges, e)
  BY <1>5 DEF VisitFollowed, VisitLow, Behind
<1>10. VisitSound(n, edges, e, e, e, e, e, {})
  BY <1>6, <1>7, <1>8, <1>9 DEF VisitSound
<1> QED BY <1>1, <1>2, <1>3, <1>4, <1>10 DEF VisitInv

\* What Discover does.
LEMMA DiscoverIs ==
  ASSUME NEW n \in Nat, NEW edges, edges \subseteq (1 .. n) \X (1 .. n), NEW s, IsVisit(s),
         s.frames \in Seq(Frames(n)), s.stack \in Seq(1 .. n), DOMAIN s.lowlink = DOMAIN s.discovery,
         NEW b \in 1 .. n, b \notin DOMAIN s.discovery
  PROVE  LET h == Discover(edges, s, b)
         IN  /\ IsVisit(h) /\ h.components = s.components
             /\ Grown(n, edges, s.frames, s.discovery, s.lowlink, s.stack, b,
                      h.frames, h.discovery, h.lowlink, h.stack)
<1>1. PICK f, d, l, st, cs : /\ f = s.frames /\ d = s.discovery /\ l = s.lowlink
                             /\ st = s.stack /\ cs = s.components
  OBVIOUS
<1>2. PICK x, k : x = [block |-> b, todo |-> Targets(edges, b)] /\ k = Cardinality(DOMAIN d)
  OBVIOUS
<1>3. PICK o : o = [y \in {b} |-> k]
  OBVIOUS
<1>4. s = [frames |-> f, discovery |-> d, lowlink |-> l, stack |-> st, components |-> cs]
  BY <1>1 DEF IsVisit
<1>5. PICK h : h = Discover(edges, s, b)
  OBVIOUS
<1>6. h = [s EXCEPT !.frames = Append(@, x), !.discovery = Over(o, @), !.lowlink = Over(o, @),
                    !.stack = Append(@, b)]
  BY <1>1, <1>2, <1>3, <1>5 DEF Discover, Seen
<1>7. h = [frames |-> Append(f, x), discovery |-> Over(o, d), lowlink |-> Over(o, l),
           stack |-> Append(st, b), components |-> cs]
  BY <1>4, <1>6
<1>8. /\ IsVisit(h) /\ h.components = cs /\ h.frames = Append(f, x) /\ h.discovery = Over(o, d)
      /\ h.lowlink = Over(o, l) /\ h.stack = Append(st, b)
  BY <1>7 DEF IsVisit
<1>9. x \in Frames(n) /\ x.block = b /\ x.todo = Targets(edges, b)
  BY <1>2 DEF Frames, Targets
<1>10. /\ h.frames \in Seq(Frames(n)) /\ Len(h.frames) = Len(f) + 1 /\ h.frames[Len(f) + 1] = x
       /\ \A i \in 1 .. Len(f) : h.frames[i] = f[i]
  <2>1. f \in Seq(Frames(n))
    BY <1>1
  <2> QED BY <1>8, <1>9, <2>1, AppendProperties, SequenceIs
<1>11. /\ h.stack \in Seq(1 .. n) /\ Len(h.stack) = Len(st) + 1 /\ h.stack[Len(st) + 1] = b
       /\ \A i \in 1 .. Len(st) : h.stack[i] = st[i]
  <2>1. st \in Seq(1 .. n)
    BY <1>1
  <2> QED BY <1>8, <2>1, AppendProperties, SequenceIs
<1>12. /\ DOMAIN h.discovery = DOMAIN d \union {b} /\ h.discovery[b] = k
       /\ \A y \in DOMAIN d : h.discovery[y] = d[y]
  <2>1. DOMAIN o = {b} /\ o[b] = k
    BY <1>3
  <2> QED BY <1>1, <1>8, <2>1 DEF Over
<1>13. /\ DOMAIN h.lowlink = DOMAIN d \union {b} /\ h.lowlink[b] = k
       /\ \A y \in DOMAIN d : h.lowlink[y] = l[y]
  <2>1. DOMAIN o = {b} /\ o[b] = k /\ DOMAIN l = DOMAIN d
    BY <1>1, <1>3
  <2> QED BY <1>1, <1>8, <2>1 DEF Over
<1>14. Grown(n, edges, f, d, l, st, b, h.frames, h.discovery, h.lowlink, h.stack)
  BY <1>2, <1>9, <1>10, <1>11, <1>12, <1>13 DEF Grown
<1> QED BY <1>1, <1>5, <1>8, <1>14

\* The innermost call without the edge to y.
Taken(s, y) == [s EXCEPT !.frames[Len(s.frames)].todo = @ \ {y}]

\* What that does.
LEMMA TakenIs ==
  ASSUME NEW n \in Nat, NEW s, IsVisit(s), s.frames \in Seq(Frames(n)), Len(s.frames) # 0, NEW y
  PROVE  LET h == Taken(s, y)
         IN  /\ IsVisit(h) /\ h.components = s.components /\ h.discovery = s.discovery
             /\ h.lowlink = s.lowlink /\ h.stack = s.stack
             /\ Narrowed(n, s.frames, h.frames, y)
<1>1. PICK f, d, l, st, cs : /\ f = s.frames /\ d = s.discovery /\ l = s.lowlink
                             /\ st = s.stack /\ cs = s.components
  OBVIOUS
<1>2. s = [frames |-> f, discovery |-> d, lowlink |-> l, stack |-> st, components |-> cs]
  BY <1>1 DEF IsVisit
<1>3. PICK h : h = Taken(s, y)
  OBVIOUS
<1>4. PICK k : k = Len(f)
  OBVIOUS
<1>5. f \in Seq(Frames(n)) /\ k \in Nat /\ DOMAIN f = 1 .. k /\ k \in 1 .. k /\ \A i \in 1 .. k : f[i] \in Frames(n)
  <2>1. f \in Seq(Frames(n)) /\ Len(f) # 0
    BY <1>1
  <2>2. Len(f) \in Nat /\ DOMAIN f = 1 .. Len(f) /\ \A i \in 1 .. Len(f) : f[i] \in Frames(n)
    BY <2>1, SequenceIs
  <2> QED BY <1>4, <2>1, <2>2
<1>6. PICK g : g = [f EXCEPT ![k].todo = @ \ {y}]
  OBVIOUS
<1>7. h = [frames |-> g, discovery |-> d, lowlink |-> l, stack |-> st, components |-> cs]
  <2>1. h = [s EXCEPT !.frames[k].todo = @ \ {y}]
    BY <1>1, <1>3, <1>4 DEF Taken
  <2>2. DOMAIN h = DOMAIN s /\ h.discovery = d /\ h.lowlink = l /\ h.stack = st /\ h.components = cs
    BY <1>2, <2>1
  <2>3. h.frames = [s.frames EXCEPT ![k].todo = @ \ {y}]
    BY <1>2, <2>1
  <2>4. h.frames = g
    BY <1>1, <1>6, <2>3
  <2> QED BY <1>2, <2>1, <2>4
<1>8. /\ IsVisit(h) /\ h.components = cs /\ h.discovery = d /\ h.lowlink = l /\ h.stack = st
      /\ h.frames = g
  BY <1>7 DEF IsVisit
<1>9. /\ DOMAIN g = 1 .. k /\ \A i \in 1 .. k : i # k => g[i] = f[i]
      /\ g[k] = [f[k] EXCEPT !.todo = @ \ {y}]
  BY <1>5, <1>6
<1>10. g[k].block = f[k].block /\ g[k].todo = f[k].todo \ {y} /\ g[k] \in Frames(n)
  <2>1. PICK u, v : u = f[k] /\ v = g[k]
    OBVIOUS
  <2>2. u \in Frames(n) /\ v = [u EXCEPT !.todo = @ \ {y}]
    BY <1>5, <1>9, <2>1
  <2>3. v \in Frames(n) /\ v.block = u.block /\ v.todo = u.todo \ {y}
    BY <2>2 DEF Frames
  <2> QED BY <2>1, <2>3
<1>11. g \in Seq(Frames(n)) /\ Len(g) = k
  <2>1. \A i \in 1 .. k : g[i] \in Frames(n)
    BY <1>5, <1>9, <1>10
  <2>2. g = [i \in 1 .. k |-> g[i]]
    BY <1>5, <1>6, <1>9
  <2> QED BY <1>5, <2>1, <2>2
<1>12. Narrowed(n, f, g, y)
  BY <1>4, <1>9, <1>10, <1>11 DEF Narrowed
<1> QED BY <1>1, <1>3, <1>8, <1>12

\* What Lowered does.
LEMMA LoweredIs ==
  ASSUME NEW s, NEW b \in DOMAIN s.lowlink, NEW v \in Nat, s.lowlink[b] \in Nat
  PROVE  Lower(s.lowlink, Lowered(s, b, v), b, v)
<1>1. PICK l, m : l = s.lowlink /\ m = Lowered(s, b, v)
  OBVIOUS
<1>2. m = [l EXCEPT ![b] = Min({@, v})]
  BY <1>1 DEF Lowered
<1>3. DOMAIN m = DOMAIN l /\ (\A x \in DOMAIN l : x # b => m[x] = l[x]) /\ m[b] = Min({l[b], v})
  BY <1>1, <1>2
<1>4. Min({l[b], v}) \in {l[b], v} /\ Min({l[b], v}) <= l[b] /\ Min({l[b], v}) <= v
  BY <1>1, MinOfTwo
<1> QED BY <1>1, <1>3, <1>4 DEF Lower

-----------------------------------------------------------------------------
(* One step of the search keeps its stack and its components sound. *)

\* What else follows from the invariant.
LEMMA VisitFacts ==
  ASSUME NEW n \in Nat, NEW edges, NEW s, VisitInv(n, edges, s)
  PROVE  /\ s.frames \in Seq(Frames(n)) /\ Len(s.frames) \in Nat /\ DOMAIN s.frames = 1 .. Len(s.frames)
         /\ \A i \in 1 .. Len(s.frames) : s.frames[i] \in Frames(n)
         /\ s.stack \in Seq(1 .. n) /\ s.components \in Seq(SUBSET (1 .. n))
         /\ On(s.stack) = ToSet(s.stack) /\ On(s.stack) \subseteq DOMAIN s.discovery
         /\ DOMAIN s.lowlink = DOMAIN s.discovery /\ DOMAIN s.discovery \subseteq 1 .. n
         /\ \A x \in DOMAIN s.discovery : s.discovery[x] \in Nat /\ s.lowlink[x] \in Nat
         /\ \A i \in 1 .. Len(s.frames) : s.frames[i].block \in On(s.stack)
         /\ \A i, j \in 1 .. Len(s.frames) : i # j => s.frames[i].block # s.frames[j].block
<1>1. VisitSound(n, edges, s.frames, s.discovery, s.lowlink, s.stack, s.components, {})
  BY DEF VisitInv
<1>2. PICK f, d, l, st, cs : /\ f = s.frames /\ d = s.discovery /\ l = s.lowlink
                             /\ st = s.stack /\ cs = s.components
  OBVIOUS
<1>3. VisitTyped(n, f, d, l, st, cs) /\ VisitOrdered(edges, f, d, l, st) /\ VisitParts(d, st, cs)
  BY <1>1, <1>2 DEF VisitSound
<1>4. /\ f \in Seq(Frames(n)) /\ st \in Seq(1 .. n) /\ cs \in Seq(SUBSET (1 .. n))
      /\ DOMAIN d \subseteq 1 .. n /\ DOMAIN l = DOMAIN d
      /\ \A x \in DOMAIN d : d[x] \in Nat /\ l[x] \in Nat
  BY <1>3 DEF VisitTyped
<1>5. Len(f) \in Nat /\ DOMAIN f = 1 .. Len(f) /\ \A i \in 1 .. Len(f) : f[i] \in Frames(n)
  BY <1>4, SequenceIs
<1>6. On(st) = ToSet(st) /\ On(st) \subseteq DOMAIN d
  BY <1>3, <1>4, OnIs DEF VisitParts
<1>7. /\ \A i \in 1 .. Len(f) : f[i].block \in On(st)
      /\ \A i, j \in 1 .. Len(f) : i < j => d[f[i].block] < d[f[j].block]
  BY <1>3 DEF VisitOrdered
<1>8. ASSUME NEW i \in 1 .. Len(f), NEW j \in 1 .. Len(f), i # j PROVE f[i].block # f[j].block
  <2>1. i < j \/ j < i
    BY <1>5, <1>8
  <2>2. d[f[i].block] \in Nat /\ d[f[j].block] \in Nat
    BY <1>4, <1>6, <1>7
  <2>3. d[f[i].block] < d[f[j].block] \/ d[f[j].block] < d[f[i].block]
    BY <1>7, <2>1
  <2> QED BY <2>2, <2>3
<1> QED BY <1>2, <1>4, <1>5, <1>6, <1>7, <1>8

\* A new root keeps the invariant and leaves less to do.
LEMMA RootIs ==
  ASSUME NEW n \in Nat, NEW edges, edges \subseteq (1 .. n) \X (1 .. n), NEW s, VisitInv(n, edges, s),
         Len(s.frames) = 0, NEW b \in 1 .. n, b \notin DOMAIN s.discovery
  PROVE  /\ VisitInv(n, edges, Discover(edges, s, b))
         /\ Shrinks(PendingOf(n, s), PendingOf(n, Discover(edges, s, b)))
<1>1. PICK h : h = Discover(edges, s, b)
  OBVIOUS
<1>2. s.frames \in Seq(Frames(n)) /\ s.stack \in Seq(1 .. n) /\ DOMAIN s.lowlink = DOMAIN s.discovery /\ IsVisit(s)
  BY VisitFacts DEF VisitInv
<1>3. /\ IsVisit(h) /\ h.components = s.components
      /\ Grown(n, edges, s.frames, s.discovery, s.lowlink, s.stack, b, h.frames, h.discovery, h.lowlink, h.stack)
  BY <1>1, <1>2, DiscoverIs
<1>4. VisitSound(n, edges, s.frames, s.discovery, s.lowlink, s.stack, s.components, {b})
  BY DEF VisitInv, VisitSound, VisitFollowed
<1>5. VisitSound(n, edges, h.frames, h.discovery, h.lowlink, h.stack, h.components, {})
  BY <1>3, <1>4, DiscoverSound
<1>6. Shrinks(PendingOf(n, s), PendingOf(n, h))
  BY <1>2, <1>3, PendingGrown DEF PendingOf
<1> QED BY <1>1, <1>3, <1>5, <1>6 DEF VisitInv

\* So does following an edge,
LEMMA FollowIs ==
  ASSUME NEW n \in Nat, NEW edges, edges \subseteq (1 .. n) \X (1 .. n), NEW s, VisitInv(n, edges, s),
         Len(s.frames) # 0, Last(s.frames).todo # {}
  PROVE  /\ VisitInv(n, edges, Follow(edges, s))
         /\ Shrinks(PendingOf(n, s), PendingOf(n, Follow(edges, s)))
<1>1. PICK k, f, d, l, st, cs : /\ k = Len(f) /\ f = s.frames /\ d = s.discovery /\ l = s.lowlink
                                /\ st = s.stack /\ cs = s.components
  OBVIOUS
<1>2. /\ f \in Seq(Frames(n)) /\ k \in Nat /\ k # 0 /\ k \in 1 .. k /\ \A i \in 1 .. k : f[i] \in Frames(n)
      /\ st \in Seq(1 .. n) /\ On(st) = ToSet(st) /\ On(st) \subseteq DOMAIN d
      /\ DOMAIN l = DOMAIN d /\ DOMAIN d \subseteq 1 .. n
      /\ \A x \in DOMAIN d : d[x] \in Nat /\ l[x] \in Nat
      /\ \A i \in 1 .. k : f[i].block \in On(st)
      /\ \A i, j \in 1 .. k : i # j => f[i].block # f[j].block
      /\ IsVisit(s)
  <2>1. /\ s.frames \in Seq(Frames(n)) /\ Len(s.frames) \in Nat
        /\ \A i \in 1 .. Len(s.frames) : s.frames[i] \in Frames(n)
        /\ s.stack \in Seq(1 .. n)
        /\ On(s.stack) = ToSet(s.stack) /\ On(s.stack) \subseteq DOMAIN s.discovery
        /\ DOMAIN s.lowlink = DOMAIN s.discovery /\ DOMAIN s.discovery \subseteq 1 .. n
        /\ \A x \in DOMAIN s.discovery : s.discovery[x] \in Nat /\ s.lowlink[x] \in Nat
    BY VisitFacts
  <2>2. /\ \A i \in 1 .. Len(s.frames) : s.frames[i].block \in On(s.stack)
        /\ \A i, j \in 1 .. Len(s.frames) : i # j => s.frames[i].block # s.frames[j].block
    BY VisitFacts
  <2>3. IsVisit(s)
    BY DEF VisitInv
  <2>4. k \in Nat /\ k # 0 /\ k \in 1 .. k
    BY <1>1, <2>1
  <2> QED BY <1>1, <2>1, <2>2, <2>3, <2>4
<1>3. PICK y : y = Min(f[k].todo)
  OBVIOUS
<1>4. y \in f[k].todo /\ y \in 1 .. n
  <2>1. f[k].todo # {} /\ Last(s.frames) = f[k]
    BY <1>1 DEF Last
  <2>2. f[k].todo \subseteq 1 .. n
    BY <1>2 DEF Frames
  <2> QED BY <1>3, <2>1, <2>2, MinIs
<1>5. PICK h : h = Taken(s, y)
  OBVIOUS
<1>6. /\ IsVisit(h) /\ h.components = cs /\ h.discovery = d /\ h.lowlink = l /\ h.stack = st
      /\ Narrowed(n, f, h.frames, y)
  BY <1>1, <1>2, <1>5, TakenIs
<1>7. VisitSound(n, edges, f, d, l, st, cs, {})
  BY <1>1 DEF VisitInv
<1>8. PICK g : g = h.frames
  OBVIOUS
<1>9. Follow(edges, s) =
        IF y \notin DOMAIN d THEN Discover(edges, h, y)
        ELSE IF y \in ToSet(st) THEN [h EXCEPT !.lowlink = Lowered(s, f[k].block, d[y])]
        ELSE h
  BY <1>1, <1>3, <1>5 DEF Follow, Taken, Seen, Last
<1>10. CASE y \notin DOMAIN d
  <2>1. \A X : y \in X => VisitSound(n, edges, g, d, l, st, cs, X)
    <3>1. y \notin On(st)
      BY <1>2, <1>10
    <3> QED BY <1>1, <1>2, <1>4, <1>6, <1>7, <1>8, <3>1, NarrowedSound
  <2>2. VisitSound(n, edges, g, d, l, st, cs, {y})
    BY <2>1
  <2>3. PICK q : q = Discover(edges, h, y)
    OBVIOUS
  <2>4. /\ IsVisit(q) /\ q.components = cs
        /\ Grown(n, edges, g, d, l, st, y, q.frames, q.discovery, q.lowlink, q.stack)
    <3>1. g \in Seq(Frames(n))
      BY <1>6, <1>8 DEF Narrowed
    <3>2. /\ h.frames \in Seq(Frames(n)) /\ h.stack \in Seq(1 .. n)
          /\ DOMAIN h.lowlink = DOMAIN h.discovery /\ y \notin DOMAIN h.discovery
      BY <1>2, <1>6, <1>8, <1>10, <3>1
    <3>3. /\ IsVisit(q) /\ q.components = h.components
          /\ Grown(n, edges, h.frames, h.discovery, h.lowlink, h.stack, y, q.frames, q.discovery, q.lowlink, q.stack)
      BY <1>4, <1>6, <2>3, <3>2, DiscoverIs
    <3> QED BY <1>6, <1>8, <3>3
  <2>5. VisitSound(n, edges, q.frames, q.discovery, q.lowlink, q.stack, q.components, {})
    BY <1>4, <1>10, <2>2, <2>4, DiscoverSound
  <2>6. Shrinks(Pending(n, g, d), Pending(n, q.frames, q.discovery))
    <3>1. g \in Seq(Frames(n))
      BY <1>6, <1>8 DEF Narrowed
    <3> QED BY <1>4, <1>10, <2>4, <3>1, PendingGrown
  <2>7. Shrinks(Pending(n, f, d), Pending(n, q.frames, q.discovery))
    <3>1. Pending(n, g, d) \subseteq Pending(n, f, d)
      BY <1>2, <1>6, <1>8, PendingNarrowed
    <3> QED BY <2>6, <3>1 DEF Shrinks
  <2> QED BY <1>1, <1>9, <1>10, <2>3, <2>4, <2>5, <2>7 DEF VisitInv, PendingOf
<1>11. Shrinks(Pending(n, f, d), Pending(n, g, d)) \/ y \notin DOMAIN d
  <2>1. f[k].block \in DOMAIN d
    BY <1>2
  <2> QED BY <1>1, <1>2, <1>4, <1>6, <1>8, <2>1, PendingFollowed
<1>12. CASE y \in DOMAIN d /\ y \in ToSet(st)
  <2>1. PICK m : m = Lowered(s, f[k].block, d[y])
    OBVIOUS
  <2>2. Lower(l, m, f[k].block, d[y])
    <3>1. f[k].block \in DOMAIN s.lowlink /\ d[y] \in Nat /\ s.lowlink[f[k].block] \in Nat
      BY <1>1, <1>2, <1>12
    <3> QED BY <1>1, <2>1, <3>1, LoweredIs
  <2>3. VisitSound(n, edges, g, d, m, st, cs, {})
    BY <1>1, <1>2, <1>4, <1>6, <1>7, <1>8, <1>12, <2>2, NarrowedSound
  <2>4. PICK q : q = [h EXCEPT !.lowlink = m]
    OBVIOUS
  <2>5. IsVisit(q) /\ q.frames = g /\ q.discovery = d /\ q.lowlink = m /\ q.stack = st /\ q.components = cs
    <3>1. h = [frames |-> g, discovery |-> d, lowlink |-> l, stack |-> st, components |-> cs]
      BY <1>6, <1>8 DEF IsVisit
    <3>2. q = [frames |-> g, discovery |-> d, lowlink |-> m, stack |-> st, components |-> cs]
      BY <2>4, <3>1
    <3> QED BY <3>2 DEF IsVisit
  <2> QED BY <1>1, <1>9, <1>11, <1>12, <2>1, <2>3, <2>4, <2>5 DEF VisitInv, PendingOf
<1>13. CASE y \in DOMAIN d /\ y \notin ToSet(st)
  <2>1. VisitSound(n, edges, g, d, l, st, cs, {})
    <3>1. y \notin On(st) /\ y \in DOMAIN d
      BY <1>2, <1>13
    <3>2. Narrowed(n, f, g, y)
      BY <1>6, <1>8
    <3>3. k = Len(f) /\ k # 0
      BY <1>1
    <3> QED BY <1>4, <1>7, <3>1, <3>2, <3>3, NarrowedSound
  <2> QED BY <1>1, <1>6, <1>8, <1>9, <1>11, <1>13, <2>1 DEF VisitInv, PendingOf
<1> QED BY <1>10, <1>12, <1>13

\* The stack cut at a root: what is above has larger numbers.
LEMMA StackCut ==
  ASSUME NEW n \in Nat, NEW d, NEW st \in Seq(1 .. n), NEW at \in 1 .. Len(st),
         \A x \in On(st) : d[x] \in Nat,
         \A i, j \in 1 .. Len(st) : i < j => d[st[i]] < d[st[j]]
  PROVE  LET su == SubSeq(st, 1, at - 1)
         IN  /\ su \in Seq(1 .. n) /\ Len(su) <= Len(st) /\ \A i \in 1 .. Len(su) : su[i] = st[i]
             /\ On(su) = {x \in On(st) : d[x] < d[st[at]]}
             /\ ToSet(SubSeq(st, at, Len(st))) = {x \in On(st) : d[x] >= d[st[at]]}
             /\ ToSet(SubSeq(st, at, Len(st))) \subseteq 1 .. n
<1>1. PICK k : k = Len(st)
  OBVIOUS
<1>2. k \in Nat /\ DOMAIN st = 1 .. k /\ \A i \in 1 .. k : st[i] \in 1 .. n
  BY <1>1, SequenceIs
<1>3. PICK su, up : su = SubSeq(st, 1, at - 1) /\ up = SubSeq(st, at, k)
  OBVIOUS
<1>4. su \in Seq(1 .. n) /\ Len(su) = at - 1 /\ \A i \in 1 .. at - 1 : su[i] = st[i]
  BY <1>1, <1>2, <1>3
<1>5. up \in Seq(1 .. n) /\ Len(up) = k - at + 1 /\ \A i \in 1 .. k - at + 1 : up[i] = st[at + i - 1]
  BY <1>1, <1>2, <1>3
<1>6. /\ \A i \in 1 .. k : st[i] \in On(st) /\ d[st[i]] \in Nat
      /\ \A x \in On(st) : \E i \in 1 .. k : x = st[i]
  BY <1>1 DEF On
<1>7. \A i \in 1 .. k : i < at <=> d[st[i]] < d[st[at]]
  <2> SUFFICES ASSUME NEW i \in 1 .. k PROVE i < at <=> d[st[i]] < d[st[at]]
    OBVIOUS
  <2>1. i < at => d[st[i]] < d[st[at]]
    BY <1>1
  <2>2. at < i => d[st[at]] < d[st[i]]
    BY <1>1
  <2>3. d[st[i]] \in Nat /\ d[st[at]] \in Nat
    BY <1>1, <1>6
  <2> QED BY <1>1, <1>2, <2>1, <2>2, <2>3
<1>8. On(su) = {x \in On(st) : d[x] < d[st[at]]}
  <2>1. ASSUME NEW x \in On(su) PROVE x \in On(st) /\ d[x] < d[st[at]]
    <3>1. PICK i \in 1 .. at - 1 : x = su[i]
      BY <1>4 DEF On
    <3>2. x = st[i] /\ i \in 1 .. k /\ i < at
      BY <1>1, <1>2, <1>4, <3>1
    <3> QED BY <1>6, <1>7, <3>2
  <2>2. ASSUME NEW x \in On(st), d[x] < d[st[at]] PROVE x \in On(su)
    <3>1. PICK i \in 1 .. k : x = st[i]
      BY <1>6
    <3>2. i < at
      BY <1>7, <2>2, <3>1
    <3>3. i \in 1 .. at - 1 /\ x = su[i]
      BY <1>1, <1>2, <1>4, <3>1, <3>2
    <3> QED BY <1>4, <3>3 DEF On
  <2> QED BY <2>1, <2>2
<1>9. ToSet(up) = On(up) /\ On(up) = {x \in On(st) : d[x] >= d[st[at]]}
  <2>1. ToSet(up) = On(up)
    BY <1>5, OnIs
  <2>2. ASSUME NEW x \in On(up) PROVE x \in On(st) /\ d[x] >= d[st[at]]
    <3>1. PICK i \in 1 .. k - at + 1 : x = up[i]
      BY <1>5 DEF On
    <3>2. x = st[at + i - 1] /\ at + i - 1 \in 1 .. k /\ ~(at + i - 1 < at)
      <4>1. at + i - 1 \in 1 .. k /\ ~(at + i - 1 < at)
        BY <1>1, <1>2
      <4> QED BY <1>5, <3>1, <4>1
    <3>3. ~(d[x] < d[st[at]]) /\ d[x] \in Nat /\ d[st[at]] \in Nat
      BY <1>1, <1>6, <1>7, <3>2
    <3> QED BY <1>6, <3>2, <3>3
  <2>3. ASSUME NEW x \in On(st), d[x] >= d[st[at]] PROVE x \in On(up)
    <3>1. PICK i \in 1 .. k : x = st[i]
      BY <1>6
    <3>2. ~(i < at)
      BY <1>1, <1>6, <1>7, <2>3, <3>1
    <3>3. i - at + 1 \in 1 .. k - at + 1 /\ x = up[i - at + 1]
      <4>1. i - at + 1 \in 1 .. k - at + 1
        BY <1>1, <1>2, <3>2
      <4>2. up[i - at + 1] = st[at + (i - at + 1) - 1]
        BY <1>5, <4>1
      <4>3. at + (i - at + 1) - 1 = i
        BY <1>1, <1>2
      <4> QED BY <3>1, <4>1, <4>2, <4>3
    <3> QED BY <1>5, <3>3 DEF On
  <2> QED BY <2>1, <2>2, <2>3
<1>10. On(up) \subseteq 1 .. n
  BY <1>5, OnIs
<1> QED BY <1>1, <1>2, <1>3, <1>4, <1>8, <1>9, <1>10

\* What Collect does.
LEMMA CollectIs ==
  ASSUME NEW n \in Nat, NEW edges, NEW s, VisitInv(n, edges, s), NEW b \in On(s.stack)
  PROVE  LET h == Collect(s, b)
         IN  /\ IsVisit(h) /\ h.frames = s.frames /\ h.discovery = s.discovery /\ h.lowlink = s.lowlink
             /\ Collected(n, s.discovery, s.lowlink, s.stack, s.components, b, h.stack, h.components)
<1>1. PICK f, d, l, st, cs : /\ f = s.frames /\ d = s.discovery /\ l = s.lowlink
                             /\ st = s.stack /\ cs = s.components
  OBVIOUS
<1>2. s = [frames |-> f, discovery |-> d, lowlink |-> l, stack |-> st, components |-> cs]
  BY <1>1 DEF VisitInv, IsVisit
<1>3. PICK h : h = Collect(s, b)
  OBVIOUS
<1>4. CASE l[b] # d[b]
  <2>1. h = s
    BY <1>1, <1>3, <1>4 DEF Collect
  <2> QED BY <1>1, <1>3, <1>4, <2>1 DEF Collected, VisitInv
<1>5. CASE l[b] = d[b]
  <2>1. PICK at : at = CHOOSE i \in DOMAIN st : st[i] = b
    OBVIOUS
  <2>2. st \in Seq(1 .. n) /\ cs \in Seq(SUBSET (1 .. n)) /\ \A x \in On(st) : d[x] \in Nat
    BY <1>1, VisitFacts
  <2>3. Len(st) \in Nat /\ DOMAIN st = 1 .. Len(st) /\ Len(cs) \in Nat
    BY <2>2, SequenceIs
  <2>4. at \in 1 .. Len(st) /\ st[at] = b
    <3>1. \E i \in DOMAIN st : st[i] = b
      BY <1>1, <2>3 DEF On
    <3> QED BY <2>1, <2>3, <3>1
  <2>5. \A i, j \in 1 .. Len(st) : i < j => d[st[i]] < d[st[j]]
    BY <1>1 DEF VisitInv, VisitSound, VisitOrdered
  <2>6. PICK su, up : su = SubSeq(st, 1, at - 1) /\ up = ToSet(SubSeq(st, at, Len(st)))
    OBVIOUS
  <2>7. /\ su \in Seq(1 .. n) /\ Len(su) <= Len(st) /\ \A i \in 1 .. Len(su) : su[i] = st[i]
        /\ On(su) = {x \in On(st) : d[x] < d[b]}
        /\ up = {x \in On(st) : d[x] >= d[b]} /\ up \subseteq 1 .. n
    <3>1. /\ SubSeq(st, 1, at - 1) \in Seq(1 .. n) /\ Len(SubSeq(st, 1, at - 1)) <= Len(st)
          /\ \A i \in 1 .. Len(SubSeq(st, 1, at - 1)) : SubSeq(st, 1, at - 1)[i] = st[i]
          /\ On(SubSeq(st, 1, at - 1)) = {x \in On(st) : d[x] < d[st[at]]}
          /\ ToSet(SubSeq(st, at, Len(st))) = {x \in On(st) : d[x] >= d[st[at]]}
          /\ ToSet(SubSeq(st, at, Len(st))) \subseteq 1 .. n
      <4>1. LET su_ == SubSeq(st, 1, at - 1)
            IN  /\ su_ \in Seq(1 .. n) /\ Len(su_) <= Len(st) /\ \A i \in 1 .. Len(su_) : su_[i] = st[i]
                /\ On(su_) = {x \in On(st) : d[x] < d[st[at]]}
                /\ ToSet(SubSeq(st, at, Len(st))) = {x \in On(st) : d[x] >= d[st[at]]}
                /\ ToSet(SubSeq(st, at, Len(st))) \subseteq 1 .. n
        BY <2>2, <2>4, <2>5, StackCut
      <4> QED BY <4>1
    <3> QED BY <2>4, <2>6, <3>1
  <2>8. h = [s EXCEPT !.stack = SubSeq(@, 1, at - 1), !.components = Append(@, up)]
    BY <1>1, <1>3, <1>5, <2>1, <2>6 DEF Collect
  <2>9. h = [frames |-> f, discovery |-> d, lowlink |-> l, stack |-> su, components |-> Append(cs, up)]
    BY <1>2, <2>6, <2>8
  <2>10. /\ IsVisit(h) /\ h.frames = f /\ h.discovery = d /\ h.lowlink = l /\ h.stack = su
         /\ h.components = Append(cs, up)
    BY <2>9 DEF IsVisit
  <2>11. /\ Append(cs, up) \in Seq(SUBSET (1 .. n)) /\ Len(Append(cs, up)) = Len(cs) + 1
         /\ Append(cs, up)[Len(cs) + 1] = up /\ \A i \in 1 .. Len(cs) : Append(cs, up)[i] = cs[i]
    BY <2>2, <2>3, <2>7, AppendProperties
  <2>12. Collected(n, d, l, st, cs, b, su, h.components)
    BY <1>5, <2>7, <2>10, <2>11 DEF Collected
  <2> QED BY <1>1, <1>3, <2>10, <2>12
<1> QED BY <1>4, <1>5

\* and so does returning.
LEMMA ReturnIs ==
  ASSUME NEW n \in Nat, NEW edges, NEW s, VisitInv(n, edges, s),
         Len(s.frames) # 0, Last(s.frames).todo = {}
  PROVE  /\ VisitInv(n, edges, Return(s))
         /\ Shrinks(PendingOf(n, s), PendingOf(n, Return(s)))
<1>1. PICK f, d, l, st, cs : /\ f = s.frames /\ d = s.discovery /\ l = s.lowlink
                             /\ st = s.stack /\ cs = s.components
  OBVIOUS
<1>2. PICK k : k = Len(f)
  OBVIOUS
<1>3. /\ f \in Seq(Frames(n)) /\ k \in Nat /\ k # 0 /\ k \in 1 .. k
      /\ On(st) \subseteq DOMAIN d /\ DOMAIN l = DOMAIN d
      /\ \A x \in DOMAIN d : d[x] \in Nat /\ l[x] \in Nat
      /\ \A i \in 1 .. k : f[i].block \in On(st)
      /\ \A i, j \in 1 .. Len(f) : i # j => f[i].block # f[j].block
  <2>1. /\ s.frames \in Seq(Frames(n)) /\ Len(s.frames) \in Nat
        /\ On(s.stack) \subseteq DOMAIN s.discovery
        /\ DOMAIN s.lowlink = DOMAIN s.discovery
        /\ \A x \in DOMAIN s.discovery : s.discovery[x] \in Nat /\ s.lowlink[x] \in Nat
    BY VisitFacts
  <2>2. /\ \A i \in 1 .. Len(s.frames) : s.frames[i].block \in On(s.stack)
        /\ \A i, j \in 1 .. Len(s.frames) : i # j => s.frames[i].block # s.frames[j].block
    BY VisitFacts
  <2>3. k \in Nat /\ k # 0 /\ k \in 1 .. k
    BY <1>1, <1>2, <2>1
  <2> QED BY <1>1, <1>2, <2>1, <2>2, <2>3
<1>4. PICK b : b = f[k].block
  OBVIOUS
<1>5. b \in On(st) /\ b \in DOMAIN d /\ f[k].todo = {} /\ Last(s.frames) = f[k]
  BY <1>1, <1>2, <1>3, <1>4 DEF Last
<1>6. PICK h : h = Collect(s, b)
  OBVIOUS
<1>7. /\ IsVisit(h) /\ h.frames = f /\ h.discovery = d /\ h.lowlink = l
      /\ Collected(n, d, l, st, cs, b, h.stack, h.components)
  BY <1>1, <1>5, <1>6, CollectIs
<1>8. PICK su, cu, g : su = h.stack /\ cu = h.components /\ g = Front(f)
  OBVIOUS
<1>9. g \in Seq(Frames(n)) /\ Len(g) = k - 1 /\ \A i \in 1 .. k - 1 : g[i] = f[i]
  BY <1>2, <1>3, <1>8 DEF Front
<1>10. Returned(n, f, g, b)
  BY <1>2, <1>3, <1>4, <1>5, <1>9 DEF Returned
<1>11. PICK q : q = [h EXCEPT !.frames = Front(@)]
  OBVIOUS
<1>12. q = [frames |-> g, discovery |-> d, lowlink |-> l, stack |-> su, components |-> cu]
  <2>1. h = [frames |-> f, discovery |-> d, lowlink |-> l, stack |-> su, components |-> cu]
    BY <1>7, <1>8 DEF IsVisit
  <2> QED BY <1>8, <1>11, <2>1
<1>13. IsVisit(q) /\ q.frames = g /\ q.discovery = d /\ q.lowlink = l /\ q.stack = su /\ q.components = cu
  BY <1>12 DEF IsVisit
<1>14. Return(s) = IF q.frames = <<>> THEN q
                   ELSE [q EXCEPT !.lowlink = Lowered(s, Last(q.frames).block, s.lowlink[b])]
  BY <1>1, <1>4, <1>5, <1>6, <1>11 DEF Return
<1>15. VisitSound(n, edges, f, d, l, st, cs, {})
  BY <1>1 DEF VisitInv
<1>16. Collected(n, d, l, st, cs, b, su, cu)
  BY <1>7, <1>8
<1>17. Shrinks(Pending(n, f, d), Pending(n, g, d))
  BY <1>3, <1>5, <1>10, PendingReturned
<1>18. g = <<>> <=> Len(g) = 0
  BY <1>9, EmptySeq
<1>19. CASE Len(g) = 0
  <2>1. Return(s) = q
    BY <1>13, <1>14, <1>18, <1>19
  <2>2. VisitSound(n, edges, g, d, l, su, cu, {})
    BY <1>10, <1>15, <1>16, <1>19, ReturnedSound
  <2> QED BY <1>1, <1>13, <1>17, <2>1, <2>2 DEF VisitInv, PendingOf
<1>20. CASE Len(g) # 0
  <2>1. PICK a : a = g[Len(g)].block
    OBVIOUS
  <2>2. a \in DOMAIN d
    <3>1. Len(g) \in 1 .. k - 1 /\ Len(g) \in 1 .. k
      BY <1>3, <1>9, <1>20
    <3>2. a = f[Len(g)].block
      BY <1>9, <2>1, <3>1
    <3> QED BY <1>3, <3>1, <3>2
  <2>3. PICK m : m = Lowered(s, a, l[b])
    OBVIOUS
  <2>4. Lower(l, m, a, l[b])
    <3>1. a \in DOMAIN s.lowlink /\ l[b] \in Nat /\ s.lowlink[a] \in Nat
      BY <1>1, <1>3, <1>5, <2>2
    <3> QED BY <1>1, <2>3, <3>1, LoweredIs
  <2>5. VisitSound(n, edges, g, d, m, su, cu, {})
    BY <1>10, <1>15, <1>16, <1>20, <2>1, <2>4, ReturnedSound
  <2>6. PICK r : r = [q EXCEPT !.lowlink = m]
    OBVIOUS
  <2>7. Return(s) = r
    BY <1>1, <1>13, <1>14, <1>18, <1>20, <2>1, <2>3, <2>6 DEF Last
  <2>8. IsVisit(r) /\ r.frames = g /\ r.discovery = d /\ r.lowlink = m /\ r.stack = su /\ r.components = cu
    <3>1. r = [frames |-> g, discovery |-> d, lowlink |-> m, stack |-> su, components |-> cu]
      BY <1>12, <2>6
    <3> QED BY <3>1 DEF IsVisit
  <2> QED BY <1>1, <1>17, <2>5, <2>7, <2>8 DEF VisitInv, PendingOf
<1> QED BY <1>19, <1>20

-----------------------------------------------------------------------------
(* The components partition the rows. *)

\* Every step keeps the invariant, and leaves less to do unless nothing is.
LEMMA VisitStepIs ==
  ASSUME NEW n \in Nat, NEW edges, edges \subseteq (1 .. n) \X (1 .. n), NEW s, VisitInv(n, edges, s)
  PROVE  /\ VisitInv(n, edges, VisitStep(n, edges, s))
         /\ PendingOf(n, s) = {} => VisitStep(n, edges, s) = s
         /\ PendingOf(n, s) # {} => Shrinks(PendingOf(n, s), PendingOf(n, VisitStep(n, edges, s)))
<1>1. /\ s.frames \in Seq(Frames(n)) /\ Len(s.frames) \in Nat /\ DOMAIN s.discovery \subseteq 1 .. n
  BY VisitFacts
<1>2. s.frames = <<>> <=> Len(s.frames) = 0
  BY <1>1, EmptySeq
<1>3. CASE Len(s.frames) # 0
  <2>1. PendingOf(n, s) # {}
    BY <1>1, <1>3, PendingNone DEF PendingOf
  <2>2. CASE Last(s.frames).todo # {}
    BY <1>2, <1>3, <2>1, <2>2, FollowIs DEF VisitStep
  <2>3. CASE Last(s.frames).todo = {}
    BY <1>2, <1>3, <2>1, <2>3, ReturnIs DEF VisitStep
  <2> QED BY <2>2, <2>3
<1>4. CASE Len(s.frames) = 0 /\ Seen(s) = 1 .. n
  <2>1. VisitStep(n, edges, s) = s
    BY <1>2, <1>4 DEF VisitStep
  <2>2. PendingOf(n, s) = {}
    <3> SUFFICES ASSUME NEW w \in PendingOf(n, s) PROVE FALSE
      OBVIOUS
    <3>1. w[1] \in 1 .. n /\ (w[1] \notin DOMAIN s.discovery \/ \E i \in 1 .. Len(s.frames) : TRUE)
      BY DEF PendingOf, Pending, Open
    <3> QED BY <1>4, <3>1 DEF Seen
  <2> QED BY <2>1, <2>2
<1>5. CASE Len(s.frames) = 0 /\ Seen(s) # 1 .. n
  <2>1. PICK b : b = Min((1 .. n) \ Seen(s))
    OBVIOUS
  <2>2. b \in 1 .. n /\ b \notin DOMAIN s.discovery
    <3>1. (1 .. n) \ Seen(s) # {} /\ (1 .. n) \ Seen(s) \subseteq Nat
      <4>1. \E x \in 1 .. n : x \notin Seen(s)
        BY <1>1, <1>5 DEF Seen
      <4> QED BY <4>1
    <3>2. b \in (1 .. n) \ Seen(s)
      BY <2>1, <3>1, MinIs
    <3> QED BY <3>2 DEF Seen
  <2>3. VisitStep(n, edges, s) = Discover(edges, s, b)
    BY <1>2, <1>5, <2>1 DEF VisitStep
  <2>4. /\ VisitInv(n, edges, Discover(edges, s, b))
        /\ Shrinks(PendingOf(n, s), PendingOf(n, Discover(edges, s, b)))
    BY <1>5, <2>2, RootIs
  <2>5. PendingOf(n, s) # {}
    BY <2>4 DEF Shrinks
  <2> QED BY <2>3, <2>4, <2>5
<1> QED BY <1>3, <1>4, <1>5

\* Less is at least one less.
LEMMA ShrinksCount ==
  ASSUME NEW A, NEW B, IsFiniteSet(A), Shrinks(A, B), NEW k \in Nat, Cardinality(A) <= k + 1
  PROVE  Cardinality(B) <= k
<1>1. PICK x \in A : B \subseteq A \ {x}
  BY DEF Shrinks
<1>2. Cardinality(A \ {x}) <= k
  BY <1>1, OneLess
<1>3. IsFiniteSet(A \ {x}) /\ Cardinality(A \ {x}) \in Nat
  BY FS_RemoveElement, FS_CardinalityType
<1>4. IsFiniteSet(B) /\ Cardinality(B) <= Cardinality(A \ {x})
  BY <1>1, <1>3, FS_Subset
<1>5. Cardinality(B) \in Nat
  BY <1>4, FS_CardinalityType
<1> QED BY <1>2, <1>3, <1>4, <1>5

\* Components that partition the ranges, each with edges only to itself and those before.
ComponentsFit(n, edges, cs) ==
  /\ cs \in Seq(SUBSET (1 .. n))
  /\ 1 .. n = UNION {cs[i] : i \in 1 .. Len(cs)}
  /\ \A i \in 1 .. Len(cs) : cs[i] # {}
  /\ \A i, j \in 1 .. Len(cs) : i # j => cs[i] \intersect cs[j] = {}
  /\ Behind(edges, cs)

VisitRun(n, edges, F, k, i) ==
  VisitInv(n, edges, F[i]) /\ Cardinality(PendingOf(n, F[i])) <= k - i

\* The components are that.
LEMMA ComponentsAre ==
  ASSUME NEW n \in Nat, NEW edges, edges \subseteq (1 .. n) \X (1 .. n)
  PROVE  ComponentsFit(n, edges, Components(n, edges))
<1>1. PICK c, k : c = [n |-> n, edges |-> edges] /\ k = 2 * n + n * n
  OBVIOUS
<1>2. k \in Nat /\ c.n = n /\ c.edges = edges
  BY <1>1
<1>3. PICK q : q = [i \in 1 .. k |-> i]
  OBVIOUS
<1>4. DOMAIN q = 1 .. k
  BY <1>3
<1>5. PICK F : Chain(F, Unvisited, c, q, "visit") /\ F[k] = Folded(Unvisited, c, q, "visit")
  BY <1>2, <1>4, FoldChain
<1>6. Components(n, edges) = F[k].components
  <2>1. Components(c.n, c.edges) = Folded(Unvisited, c, [i \in 1 .. 2 * c.n + c.n * c.n |-> i], "visit").components
    BY ComponentsFold
  <2> QED BY <1>1, <1>2, <1>3, <1>5, <2>1
<1>7. F[0] = Unvisited /\ \A i \in 1 .. k : F[i] = VisitStep(n, edges, F[i - 1])
  BY <1>2, <1>4, <1>5, StepVisit DEF Chain
<1> DEFINE T == {i \in Nat : i <= k => VisitRun(n, edges, F, k, i)}
<1>8. 0 \in T
  <2>1. VisitInv(n, edges, F[0])
    BY <1>7, VisitStarts
  <2>2. Cardinality(PendingOf(n, F[0])) <= k - 0
    BY <1>1, PendingBound DEF PendingOf
  <2> QED BY <2>1, <2>2 DEF VisitRun
<1>9. ASSUME NEW i \in Nat, i \in T PROVE i + 1 \in T
  <2> SUFFICES ASSUME i + 1 <= k PROVE VisitRun(n, edges, F, k, i + 1)
    OBVIOUS
  <2>1. i + 1 \in 1 .. k /\ i <= k /\ (i + 1) - 1 = i /\ k - (i + 1) \in Nat /\ (k - (i + 1)) + 1 = k - i
    BY <1>2
  <2>2. VisitInv(n, edges, F[i]) /\ Cardinality(PendingOf(n, F[i])) <= k - i
    BY <1>9, <2>1 DEF VisitRun
  <2>3. F[i + 1] = VisitStep(n, edges, F[i])
    BY <1>7, <2>1
  <2>4. VisitInv(n, edges, F[i + 1])
    BY <2>2, <2>3, VisitStepIs
  <2>5. CASE PendingOf(n, F[i]) = {}
    <3>1. F[i + 1] = F[i]
      BY <2>2, <2>3, <2>5, VisitStepIs
    <3>2. Cardinality(PendingOf(n, F[i + 1])) = 0
      BY <2>5, <3>1, FS_EmptySet
    <3> QED BY <2>1, <2>4, <3>2 DEF VisitRun
  <2>6. CASE PendingOf(n, F[i]) # {}
    <3>1. Shrinks(PendingOf(n, F[i]), PendingOf(n, F[i + 1]))
      BY <2>2, <2>3, <2>6, VisitStepIs
    <3>2. IsFiniteSet(PendingOf(n, F[i]))
      BY PendingBound DEF PendingOf
    <3>3. Cardinality(PendingOf(n, F[i + 1])) <= k - (i + 1)
      BY <2>1, <2>2, <3>1, <3>2, ShrinksCount
    <3> QED BY <2>4, <3>3 DEF VisitRun
  <2> QED BY <2>5, <2>6
<1> HIDE DEF T
<1>10. \A i \in Nat : i \in T
  BY <1>8, <1>9, SetInduction
<1>11. VisitRun(n, edges, F, k, k)
  BY <1>2, <1>10 DEF T
<1>12. PICK s : s = F[k]
  OBVIOUS
<1>13. VisitInv(n, edges, s) /\ Cardinality(PendingOf(n, s)) <= 0
  BY <1>2, <1>11, <1>12 DEF VisitRun
<1>14. PendingOf(n, s) = {}
  <2>1. IsFiniteSet(PendingOf(n, s)) /\ Cardinality(PendingOf(n, s)) \in Nat
    BY PendingBound DEF PendingOf
  <2>2. Cardinality(PendingOf(n, s)) = 0
    BY <1>13, <2>1
  <2> QED BY <2>1, <2>2, FS_EmptySet
<1>15. Len(s.frames) = 0 /\ 1 .. n \subseteq DOMAIN s.discovery /\ DOMAIN s.discovery \subseteq 1 .. n
  <2>1. s.frames \in Seq(Frames(n)) /\ DOMAIN s.discovery \subseteq 1 .. n
    BY <1>13, VisitFacts
  <2> QED BY <1>14, <2>1, PendingNone DEF PendingOf
<1>16. Len(s.stack) = 0 /\ VisitParts(s.discovery, s.stack, s.components) /\ Behind(edges, s.components)
       /\ s.components \in Seq(SUBSET (1 .. n))
  BY <1>13, <1>15 DEF VisitInv, VisitSound, VisitOrdered, VisitTyped
<1>17. On(s.stack) = {}
  BY <1>16 DEF On
<1>18. ComponentsFit(n, edges, s.components)
  BY <1>15, <1>16, <1>17 DEF VisitParts, ComponentsFit
<1> QED BY <1>6, <1>12, <1>18

-----------------------------------------------------------------------------
(* The order of the blocks: every component once. *)

\* A component every waiting component can be placed behind of.
LEMMA ReadyExists ==
  ASSUME NEW n \in Nat, NEW edges, edges \subseteq (1 .. n) \X (1 .. n), NEW cs, ComponentsFit(n, edges, cs),
         NEW waiting, waiting \subseteq ToSet(cs), waiting # {}
  PROVE  /\ NextBlock(edges, waiting) \in waiting
         /\ \A d \in waiting : ~Waits(edges, NextBlock(edges, waiting), d)
<1>1. cs \in Seq(SUBSET (1 .. n))
  BY DEF ComponentsFit
<1>2. Len(cs) \in Nat /\ ToSet(cs) = {cs[i] : i \in 1 .. Len(cs)} /\ \A i \in 1 .. Len(cs) : cs[i] \subseteq 1 .. n
  BY <1>1, SequenceIs DEF ToSet
<1> DEFINE P == {j \in Nat : \E i \in 1 .. Len(cs) : i = Len(cs) - j /\ cs[i] \in waiting}
<1>3. P # {} /\ P \subseteq Nat
  <2>1. PICK i \in 1 .. Len(cs) : cs[i] \in waiting
    BY <1>2
  <2>2. Len(cs) - i \in Nat /\ i = Len(cs) - (Len(cs) - i)
    BY <1>2
  <2> QED BY <2>1, <2>2
<1>4. PICK j \in P : \A e \in P : j <= e
  BY <1>3, Least
<1>5. PICK i \in 1 .. Len(cs) : i = Len(cs) - j /\ cs[i] \in waiting
  BY <1>4
<1>6. \A e \in 1 .. Len(cs) : cs[e] \in waiting => e <= i
  <2> SUFFICES ASSUME NEW e \in 1 .. Len(cs), cs[e] \in waiting PROVE e <= i
    OBVIOUS
  <2>1. Len(cs) - e \in P
    <3>1. Len(cs) - e \in Nat /\ e = Len(cs) - (Len(cs) - e)
      BY <1>2
    <3> QED BY <3>1
  <2>2. j <= Len(cs) - e
    BY <1>4, <2>1
  <2> QED BY <1>2, <1>4, <1>5, <2>2
<1> HIDE DEF P
<1>7. PICK ready : ready = {c \in waiting : \A d \in waiting : ~Waits(edges, c, d)}
  OBVIOUS
<1>8. cs[i] \in ready
  <2> SUFFICES ASSUME NEW d \in waiting, Waits(edges, cs[i], d) PROVE FALSE
    BY <1>5, <1>7
  <2>1. PICK e \in edges : e[1] \in d /\ e[2] \in cs[i] /\ d # cs[i]
    BY DEF Waits
  <2>2. PICK k \in 1 .. Len(cs) : d = cs[k]
    BY <1>2
  <2>3. k <= i /\ k # i
    BY <1>6, <2>1, <2>2
  <2>4. cs[k] \intersect cs[i] = {}
    BY <2>3 DEF ComponentsFit
  <2>5. e[2] \in Targets(edges, e[1])
    <3>1. e[1] # e[2]
      BY <2>1, <2>2, <2>4
    <3> QED BY <3>1 DEF Targets
  <2>6. PICK h \in 1 .. k : e[2] \in cs[h]
    BY <2>1, <2>2, <2>5 DEF ComponentsFit, Behind
  <2>7. h \in 1 .. Len(cs) /\ h # i
    BY <1>2, <2>3
  <2>8. cs[h] \intersect cs[i] = {}
    BY <2>7 DEF ComponentsFit
  <2> QED BY <2>1, <2>6, <2>8
<1>9. \A c \in ready : Min(c) \in Nat
  <2> SUFFICES ASSUME NEW c \in ready PROVE Min(c) \in Nat
    OBVIOUS
  <2>1. PICK k \in 1 .. Len(cs) : c = cs[k]
    BY <1>2, <1>7
  <2>2. c # {} /\ c \subseteq Nat
    BY <1>2, <2>1 DEF ComponentsFit
  <2> QED BY <2>2, MinIs
<1> DEFINE N == {Min(c) : c \in ready}
<1>10. \E c \in ready : \A d \in ready : Min(c) <= Min(d)
  <2>1. N \subseteq Nat /\ N # {}
    BY <1>8, <1>9
  <2>2. PICK x \in N : \A y \in N : x <= y
    BY <2>1, Least
  <2> QED BY <2>2
<1>11. NextBlock(edges, waiting) \in ready
  BY <1>7, <1>10 DEF NextBlock
<1> QED BY <1>7, <1>11

\* Blocks that partition the ranges.
OrderFits(n, order) ==
  /\ order \in Seq(SUBSET (1 .. n))
  /\ \A x \in 1 .. n : \E b \in 1 .. Len(order) : x \in order[b]
  /\ \A b, e \in 1 .. Len(order) : b # e => order[b] \intersect order[e] = {}

PlacedSo(edges, C, blocks, k) ==
  /\ blocks \in Seq(C) /\ Len(blocks) = k
  /\ Cardinality(ToSet(blocks)) = k
  /\ \A i, j \in 1 .. k : i # j => blocks[i] # blocks[j]
  /\ k > 0 => blocks[1] = NextBlock(edges, C)

\* Placing one more block.
LEMMA PlacedMore ==
  ASSUME NEW n \in Nat, NEW edges, edges \subseteq (1 .. n) \X (1 .. n), NEW cs, ComponentsFit(n, edges, cs),
         NEW C, C = ToSet(cs), IsFiniteSet(C), NEW k \in Nat, k < Cardinality(C),
         NEW blocks, PlacedSo(edges, C, blocks, k)
  PROVE  PlacedSo(edges, C, Append(blocks, NextBlock(edges, C \ ToSet(blocks))), k + 1)
<1>1. /\ blocks \in Seq(C) /\ Len(blocks) = k /\ Cardinality(ToSet(blocks)) = k
      /\ \A i, j \in 1 .. k : i # j => blocks[i] # blocks[j]
      /\ k > 0 => blocks[1] = NextBlock(edges, C)
  BY DEF PlacedSo
<1>2. ToSet(blocks) \subseteq C /\ ToSet(blocks) = {blocks[i] : i \in 1 .. k}
  BY <1>1, SequenceIs DEF ToSet
<1>3. C \ ToSet(blocks) # {}
  <2> SUFFICES ASSUME C \ ToSet(blocks) = {} PROVE FALSE
    OBVIOUS
  <2>1. C = ToSet(blocks)
    BY <1>2
  <2> QED BY <1>1, <2>1
<1>4. PICK x : x = NextBlock(edges, C \ ToSet(blocks))
  OBVIOUS
<1>5. x \in C /\ x \notin ToSet(blocks)
  <2>1. C \ ToSet(blocks) \subseteq ToSet(cs)
    OBVIOUS
  <2>2. x \in C \ ToSet(blocks)
    BY <1>3, <1>4, <2>1, ReadyExists
  <2> QED BY <2>2
<1>6. PICK t : t = Append(blocks, x)
  OBVIOUS
<1>7. t \in Seq(C) /\ Len(t) = k + 1 /\ t[k + 1] = x /\ \A i \in 1 .. k : t[i] = blocks[i]
  BY <1>1, <1>5, <1>6, AppendProperties
<1>8. ToSet(t) = ToSet(blocks) \union {x}
  <2>1. DOMAIN t = 1 .. k + 1
    BY <1>7, SequenceIs
  <2>2. 1 .. k + 1 = (1 .. k) \union {k + 1}
    OBVIOUS
  <2>3. ToSet(t) = {t[i] : i \in 1 .. k + 1}
    BY <2>1 DEF ToSet
  <2>4. ASSUME NEW y \in ToSet(t) PROVE y \in ToSet(blocks) \union {x}
    BY <1>2, <1>7, <2>2, <2>3
  <2>5. ASSUME NEW y \in ToSet(blocks) PROVE y \in ToSet(t)
    BY <1>2, <1>7, <2>2, <2>3
  <2>6. x \in ToSet(t)
    BY <1>7, <2>2, <2>3
  <2> QED BY <2>4, <2>5, <2>6
<1>9. Cardinality(ToSet(t)) = k + 1
  <2>1. IsFiniteSet(ToSet(blocks))
    BY <1>2, FS_Subset
  <2>2. PICK B : B = ToSet(blocks)
    OBVIOUS
  <2>3. Cardinality(B \union {x}) = Cardinality(B) + 1
    BY <1>5, <2>1, <2>2, FS_AddElement
  <2> QED BY <1>1, <1>8, <2>2, <2>3
<1>10. \A i, j \in 1 .. k + 1 : i # j => t[i] # t[j]
  <2>1. \A i \in 1 .. k : t[i] # x
    BY <1>2, <1>5, <1>7
  <2>2. \A i \in 1 .. k + 1 : i \in 1 .. k \/ i = k + 1
    OBVIOUS
  <2> QED BY <1>1, <1>7, <2>1, <2>2
<1>11. t[1] = NextBlock(edges, C)
  <2>1. CASE k = 0
    <3>1. ToSet(blocks) = {}
      BY <1>2, <2>1
    <3>2. C \ ToSet(blocks) = C
      BY <3>1
    <3>3. x = NextBlock(edges, C)
      BY <1>4, <3>2
    <3>4. k + 1 = 1
      BY <2>1
    <3> QED BY <1>7, <3>3, <3>4
  <2>2. CASE k # 0
    BY <1>1, <1>7, <2>2
  <2> QED BY <2>1, <2>2
<1> QED BY <1>4, <1>6, <1>7, <1>9, <1>10, <1>11 DEF PlacedSo

\* The order is one; the first range is in its first block.
LEMMA OrderIs ==
  ASSUME NEW n \in Nat, NEW edges, edges \subseteq (1 .. n) \X (1 .. n)
  PROVE  /\ OrderFits(n, OrderByDependencies(n, edges))
         /\ n > 0 /\ {1} \X (2 .. n) \subseteq edges =>
              /\ Len(OrderByDependencies(n, edges)) > 0
              /\ 1 \in OrderByDependencies(n, edges)[1]
<1>1. PICK cs : cs = Components(n, edges)
  OBVIOUS
<1>2. ComponentsFit(n, edges, cs)
  BY <1>1, ComponentsAre
<1>3. PICK C, m : C = ToSet(cs) /\ m = Cardinality(C)
  OBVIOUS
<1>4. /\ Len(cs) \in Nat /\ C = {cs[i] : i \in 1 .. Len(cs)} /\ C \subseteq SUBSET (1 .. n)
      /\ IsFiniteSet(C) /\ m \in Nat
  <2>1. cs \in Seq(SUBSET (1 .. n))
    BY <1>2 DEF ComponentsFit
  <2>2. Len(cs) \in Nat /\ C = {cs[i] : i \in 1 .. Len(cs)} /\ C \subseteq SUBSET (1 .. n)
    BY <1>3, <2>1, SequenceIs DEF ToSet
  <2>3. IsFiniteSet(SUBSET (1 .. n))
    <3>1. IsFiniteSet(1 .. n)
      BY FS_Interval
    <3> QED BY <3>1, FS_SUBSET, Zenon
  <2>4. IsFiniteSet(C)
    BY <2>2, <2>3, FS_Subset
  <2> QED BY <1>3, <2>2, <2>4, FS_CardinalityType
<1>5. PICK c, q : c = [edges |-> edges, components |-> C] /\ q = [i \in 1 .. m |-> i]
  OBVIOUS
<1>6. c.edges = edges /\ c.components = C /\ DOMAIN q = 1 .. m
  BY <1>5
<1>7. PICK F : Chain(F, <<>>, c, q, "place") /\ F[m] = Folded(<<>>, c, q, "place")
  BY <1>4, <1>6, FoldChain
<1>8. OrderByDependencies(n, edges) = F[m]
  <2>1. Place(c.edges, c.components) = Folded(<<>>, c, [i \in 1 .. Cardinality(c.components) |-> i], "place")
    BY PlaceFold
  <2> QED BY <1>1, <1>3, <1>5, <1>6, <1>7, <2>1 DEF OrderByDependencies
<1>9. F[0] = <<>> /\ \A i \in 1 .. m : F[i] = Append(F[i - 1], NextBlock(edges, C \ ToSet(F[i - 1])))
  BY <1>6, <1>7, StepPlace DEF Chain, Placed
<1> DEFINE T == {i \in Nat : i <= m => PlacedSo(edges, C, F[i], i)}
<1>10. 0 \in T
  <2>1. PICK e : e = <<>>
    OBVIOUS
  <2>2. e \in Seq(C) /\ Len(e) = 0 /\ ToSet(e) = {}
    BY <2>1, EmptySeq DEF ToSet
  <2>3. Cardinality(ToSet(e)) = 0
    BY <2>2, FS_EmptySet
  <2>4. F[0] = e
    BY <1>9, <2>1
  <2>5. PlacedSo(edges, C, e, 0)
    BY <2>2, <2>3 DEF PlacedSo
  <2> QED BY <2>4, <2>5
<1>11. ASSUME NEW i \in Nat, i \in T PROVE i + 1 \in T
  <2> SUFFICES ASSUME i + 1 <= m PROVE PlacedSo(edges, C, F[i + 1], i + 1)
    OBVIOUS
  <2>1. i + 1 \in 1 .. m /\ i < m /\ i <= m /\ (i + 1) - 1 = i
    BY <1>4
  <2>2. PlacedSo(edges, C, F[i], i)
    BY <1>11, <2>1
  <2>3. F[i + 1] = Append(F[i], NextBlock(edges, C \ ToSet(F[i])))
    BY <1>9, <2>1
  <2>4. PICK g : g = F[i]
    OBVIOUS
  <2>5. PlacedSo(edges, C, g, i) /\ C = ToSet(cs) /\ i < Cardinality(C)
    BY <1>3, <2>1, <2>2, <2>4
  <2>6. PlacedSo(edges, C, Append(g, NextBlock(edges, C \ ToSet(g))), i + 1)
    BY <1>2, <1>4, <2>5, PlacedMore
  <2> QED BY <2>3, <2>4, <2>6
<1> HIDE DEF T
<1>12. \A i \in Nat : i \in T
  BY <1>10, <1>11, SetInduction
<1>13. PICK o : o = F[m]
  OBVIOUS
<1>14. PlacedSo(edges, C, o, m)
  <2>1. m \in T /\ m <= m
    BY <1>4, <1>12
  <2> QED BY <1>13, <2>1 DEF T
<1>15. /\ o \in Seq(C) /\ Len(o) = m /\ Cardinality(ToSet(o)) = m
       /\ \A i, j \in 1 .. m : i # j => o[i] # o[j]
       /\ m > 0 => o[1] = NextBlock(edges, C)
  BY <1>14 DEF PlacedSo
<1>16. ToSet(o) = C /\ ToSet(o) = {o[i] : i \in 1 .. m} /\ \A i \in 1 .. m : o[i] \in C
  <2>1. DOMAIN o = 1 .. m /\ \A i \in 1 .. m : o[i] \in C
    BY <1>15, SequenceIs
  <2>2. ToSet(o) \subseteq C /\ ToSet(o) = {o[i] : i \in 1 .. m}
    BY <2>1 DEF ToSet
  <2>3. ToSet(o) = C
    BY <1>3, <1>4, <1>15, <2>2, FS_Subset
  <2> QED BY <2>1, <2>2, <2>3
<1>17. OrderFits(n, o)
  <2>1. o \in Seq(SUBSET (1 .. n))
    BY <1>4, <1>15
  <2>2. ASSUME NEW x \in 1 .. n PROVE \E b \in 1 .. Len(o) : x \in o[b]
    <3>1. \E i \in 1 .. Len(cs) : x \in cs[i]
      BY <1>2 DEF ComponentsFit
    <3>2. \E d \in C : x \in d
      BY <1>4, <3>1
    <3> QED BY <1>15, <1>16, <3>2
  <2>3. ASSUME NEW b \in 1 .. Len(o), NEW e \in 1 .. Len(o), b # e PROVE o[b] \intersect o[e] = {}
    <3>1. o[b] # o[e] /\ o[b] \in C /\ o[e] \in C
      BY <1>15, <1>16, <2>3
    <3>2. PICK i, j \in 1 .. Len(cs) : o[b] = cs[i] /\ o[e] = cs[j]
      BY <1>4, <3>1
    <3> QED BY <1>2, <3>1, <3>2 DEF ComponentsFit
  <2> QED BY <2>1, <2>2, <2>3 DEF OrderFits
<1>18. ASSUME n > 0, {1} \X (2 .. n) \subseteq edges PROVE Len(o) > 0 /\ 1 \in o[1]
  <2>1. PICK b \in 1 .. Len(o) : 1 \in o[b]
    <3>1. 1 \in 1 .. n
      BY <1>18
    <3> QED BY <1>17, <3>1 DEF OrderFits
  <2>2. Len(o) > 0 /\ m > 0
    BY <1>4, <1>15, <2>1
  <2>3. o[1] = NextBlock(edges, C) /\ o[b] \in C /\ C # {} /\ o[1] \in C
    BY <1>4, <1>15, <1>16, <2>1, <2>2
  <2>4. ~Waits(edges, o[1], o[b])
    BY <1>2, <1>3, <2>3, ReadyExists
  <2>5. o[1] = o[b]
    <3> SUFFICES ASSUME o[1] # o[b] PROVE FALSE
      OBVIOUS
    <3>1. PICK i \in 1 .. Len(cs) : o[1] = cs[i]
      BY <1>4, <2>3
    <3>2. cs[i] # {} /\ cs[i] \subseteq 1 .. n
      BY <1>2, <1>4, <2>3, <3>1 DEF ComponentsFit
    <3>3. PICK x \in 1 .. n : x \in o[1]
      BY <3>1, <3>2
    <3>4. 1 \in 1 .. Len(o) /\ 1 # b
      BY <1>4, <1>15, <2>2
    <3>5. o[1] \intersect o[b] = {}
      BY <1>17, <3>4 DEF OrderFits
    <3>6. x # 1
      BY <2>1, <3>3, <3>5
    <3>7. <<1, x>> \in edges
      BY <1>18, <3>3, <3>6
    <3> QED BY <2>1, <2>4, <3>3, <3>7 DEF Waits
  <2> QED BY <2>1, <2>2, <2>5
<1> QED BY <1>8, <1>13, <1>17, <1>18

-----------------------------------------------------------------------------
(* Rows grouped by block occupy the ranges of the blocks. *)

\* The order of ByGroup.
GroupBefore(s, p, q) == s.group[p] < s.group[q] \/ (s.group[p] = s.group[q] /\ p < q)

Ranked(s, S, x) == Cardinality({y \in S : GroupBefore(s, y, x)})

Grouped(s, S) == S \subseteq Nat /\ IsFiniteSet(S) /\ \A x \in S : s.group[x] \in Nat

\* The rank of a column rises with that order.
LEMMA RankedRises ==
  ASSUME NEW s, NEW S, Grouped(s, S), NEW x \in S
  PROVE  /\ Ranked(s, S, x) \in Nat /\ Ranked(s, S, x) < Cardinality(S)
         /\ \A y \in S : GroupBefore(s, x, y) => Ranked(s, S, x) < Ranked(s, S, y)
<1>1. ASSUME NEW U, NEW V, IsFiniteSet(V), U \subseteq V, NEW z, z \in V, z \notin U
      PROVE  /\ Cardinality(U) \in Nat /\ Cardinality(V) \in Nat
             /\ Cardinality(U) < Cardinality(V)
  <2>1. IsFiniteSet(U) /\ Cardinality(U) <= Cardinality(V) /\ Cardinality(U) # Cardinality(V)
    BY <1>1, FS_Subset
  <2>2. Cardinality(U) \in Nat /\ Cardinality(V) \in Nat
    BY <1>1, <2>1, FS_CardinalityType
  <2> QED BY <2>1, <2>2
<1>2. \A y \in S : y \in Nat /\ s.group[y] \in Nat
  BY DEF Grouped
<1>3. ~GroupBefore(s, x, x)
  BY <1>2 DEF GroupBefore
<1>4. Ranked(s, S, x) \in Nat /\ Ranked(s, S, x) < Cardinality(S)
  <2> DEFINE U == {y \in S : GroupBefore(s, y, x)}
  <2>1. U \subseteq S /\ x \notin U /\ IsFiniteSet(S)
    BY <1>3 DEF Grouped
  <2> HIDE DEF U
  <2>2. Cardinality(U) \in Nat /\ Cardinality(U) < Cardinality(S)
    BY <2>1, <1>1
  <2> QED BY <2>2 DEF Ranked, U
<1>5. ASSUME NEW y \in S, GroupBefore(s, x, y) PROVE Ranked(s, S, x) < Ranked(s, S, y)
  <2> DEFINE U == {z \in S : GroupBefore(s, z, x)}
             V == {z \in S : GroupBefore(s, z, y)}
  <2>1. \A z \in S : GroupBefore(s, z, x) => GroupBefore(s, z, y)
    BY <1>2, <1>5 DEF GroupBefore
  <2>2. U \subseteq V /\ x \in V /\ x \notin U
    BY <1>3, <1>5, <2>1
  <2>3. IsFiniteSet(V)
    BY FS_Subset DEF Grouped
  <2> HIDE DEF U, V
  <2>4. Cardinality(U) < Cardinality(V)
    BY <2>2, <2>3, <1>1
  <2> QED BY <2>4 DEF Ranked, U, V
<1> QED BY <1>4, <1>5

\* ByGroup lists a set.
LEMMA ByGroupIs ==
  ASSUME NEW s, NEW S, Grouped(s, S)
  PROVE  /\ ByGroup(s, S) \in Seq(S)
         /\ DOMAIN ByGroup(s, S) = 1 .. Cardinality(S)
<1> DEFINE n == Cardinality(S)
           place == [x \in S |-> Ranked(s, S, x) + 1]
<1>1. n \in Nat
  BY FS_CardinalityType DEF Grouped
<1>2. /\ \A x \in S : x \in Nat /\ s.group[x] \in Nat /\ Ranked(s, S, x) \in Nat /\ Ranked(s, S, x) < n
      /\ \A x, y \in S : GroupBefore(s, x, y) => Ranked(s, S, x) < Ranked(s, S, y)
  BY RankedRises DEF Grouped
<1> HIDE DEF n
<1>3. IsFiniteSet(1 .. n) /\ Cardinality(1 .. n) = n
  BY <1>1, FS_Interval
<1>4. place \in [S -> 1 .. n]
  BY <1>1, <1>2
<1>5. ASSUME NEW x \in S, NEW y \in S, place[x] = place[y] PROVE x = y
  <2>1. Ranked(s, S, x) = Ranked(s, S, y)
    BY <1>5, <1>2
  <2>2. ~GroupBefore(s, x, y) /\ ~GroupBefore(s, y, x)
    BY <2>1, <1>2
  <2>3. x \in Nat /\ y \in Nat /\ s.group[x] \in Nat /\ s.group[y] \in Nat
    BY <1>2
  <2> QED BY <2>2, <2>3 DEF GroupBefore
<1>6. place \in Injection(S, 1 .. n)
  BY <1>4, <1>5 DEF Injection, IsInjective
<1>7. place \in Surjection(S, 1 .. n)
  <2>1. Cardinality(S) = Cardinality(1 .. n)
    BY <1>3 DEF n
  <2>2. IsFiniteSet(S)
    BY DEF Grouped
  <2> HIDE DEF place
  <2> QED BY <2>1, <2>2, <1>3, <1>6, FS_Injection
<1>8. \A i \in 1 .. n : \E x \in S : place[x] = i
  <2> HIDE DEF place
  <2> QED BY <1>7 DEF Surjection
<1>9. \A i \in 1 .. n : \E x \in S : Ranked(s, S, x) = i - 1
  BY <1>8, <1>2
<1> DEFINE e(i) == CHOOSE q \in S : Cardinality({p \in S : GroupBefore(s, p, q)}) = i - 1
<1>10. ByGroup(s, S) = [i \in 1 .. n |-> e(i)]
  BY DEF ByGroup, GroupBefore, n
<1>11. \A i \in 1 .. n : e(i) \in S
  <2> SUFFICES ASSUME NEW i \in 1 .. n PROVE e(i) \in S
    OBVIOUS
  <2>1. \E q \in S : Cardinality({p \in S : GroupBefore(s, p, q)}) = i - 1
    BY <1>9 DEF Ranked
  <2> QED BY <2>1
<1> HIDE DEF e
<1>12. ByGroup(s, S) \in [1 .. n -> S]
  BY <1>10, <1>11
<1>13. DOMAIN ByGroup(s, S) = 1 .. n /\ ByGroup(s, S) \in Seq(S)
  BY <1>1, <1>12
<1> QED BY <1>13 DEF n

-----------------------------------------------------------------------------
(* The ranges. *)

\* Ranges are numbered from one, the basis is in the first, which all depend on.
LEMMA RangesAre ==
  ASSUME NEW s, IsSystem(s), NEW n, n = Cardinality(Starts(s))
  PROVE  /\ n \in Nat /\ n > 0
         /\ \A p \in Positions : RangeOf(s, p) \in 1 .. n
         /\ \A p \in 1 .. s.basis : p \in Positions /\ RangeOf(s, p) = 1
         /\ Dependencies(s) \subseteq (1 .. n) \X (1 .. n)
         /\ {1} \X (2 .. n) \subseteq Dependencies(s)
<1>1. Dim \in Nat /\ s.basis \in 1 .. Dim /\ DOMAIN s.matrix \subseteq Positions \X Positions
  BY SystemsAssumption DEF IsSystem, Positions
<1>2. Starts(s) \subseteq Positions /\ 1 \in Starts(s) /\ \A p \in Starts(s) : p = 1 \/ p >= s.basis + 1
  <2>1. 1 \in Positions
    BY <1>1 DEF Positions
  <2>2. \A p \in Positions : p \in Nat
    BY <1>1 DEF Positions
  <2> QED BY <1>1, <2>1, <2>2 DEF Starts
<1>3. IsFiniteSet(Starts(s))
  <2>1. IsFiniteSet(Positions)
    BY <1>1, FS_Interval DEF Positions
  <2> QED BY <1>2, <2>1, FS_Subset
<1>4. ASSUME NEW A, A \subseteq Starts(s), 1 \in A
      PROVE  Cardinality(A) \in 1 .. n /\ n \in Nat
  <2>1. IsFiniteSet(A) /\ Cardinality(A) <= n
    BY <1>3, <1>4, FS_Subset
  <2>2. Cardinality(A) \in Nat /\ n \in Nat
    BY <1>3, <2>1, FS_CardinalityType
  <2>3. Cardinality(A) # 0
    BY <1>4, <2>1, FS_EmptySet
  <2> QED BY <2>1, <2>2, <2>3
<1>5. n \in Nat /\ n > 0
  BY <1>2, <1>4
<1>6. ASSUME NEW p \in Positions PROVE RangeOf(s, p) \in 1 .. n
  <2>1. 1 \in {q \in Starts(s) : q <= p}
    BY <1>1, <1>2 DEF Positions
  <2> QED BY <1>4, <2>1 DEF RangeOf
<1>7. ASSUME NEW p \in 1 .. s.basis PROVE p \in Positions /\ RangeOf(s, p) = 1
  <2>1. p \in Positions
    BY <1>1 DEF Positions
  <2>2. {q \in Starts(s) : q <= p} = {1}
    <3>1. \A q \in Starts(s) : q \in Nat
      BY <1>1, <1>2 DEF Positions
    <3> QED BY <1>1, <1>2, <3>1
  <2>3. Cardinality({1}) = 1
    BY FS_Singleton
  <2> QED BY <2>1, <2>2, <2>3 DEF RangeOf
<1>8. Dependencies(s) \subseteq (1 .. n) \X (1 .. n)
  <2>1. {1} \X (2 .. n) \subseteq (1 .. n) \X (1 .. n)
    BY <1>5
  <2>2. \A c \in DOMAIN s.matrix : <<RangeOf(s, c[1]), RangeOf(s, c[2])>> \in (1 .. n) \X (1 .. n)
    BY <1>1, <1>6
  <2> QED BY <2>1, <2>2 DEF Dependencies
<1>9. {1} \X (2 .. n) \subseteq Dependencies(s)
  BY DEF Dependencies
<1> QED BY <1>5, <1>6, <1>7, <1>8, <1>9

\* Sets that partition the positions, the basis in the first.
SetsFit(s, sets, n) ==
  /\ n \in Nat /\ n > 0 /\ DOMAIN sets = 1 .. n
  /\ \A b \in 1 .. n : sets[b] \subseteq Positions
  /\ \A p \in Positions : \E b \in 1 .. n : p \in sets[b]
  /\ \A b, e \in 1 .. n : b # e => sets[b] \intersect sets[e] = {}
  /\ 1 .. s.basis \subseteq sets[1]

\* BlockSets partitions the positions, the basis in the first.
LEMMA BlockSetsFit ==
  ASSUME NEW s, IsSystem(s)
  PROVE  \E n : SetsFit(s, BlockSets(s), n)
<1>1. PICK m, edges, o : /\ m = Cardinality(Starts(s)) /\ edges = Dependencies(s)
                         /\ o = OrderByDependencies(m, edges)
  OBVIOUS
<1>2. /\ m \in Nat /\ m > 0
      /\ \A p \in Positions : RangeOf(s, p) \in 1 .. m
      /\ \A p \in 1 .. s.basis : p \in Positions /\ RangeOf(s, p) = 1
      /\ edges \subseteq (1 .. m) \X (1 .. m) /\ {1} \X (2 .. m) \subseteq edges
  BY <1>1, RangesAre
<1>3. OrderFits(m, o) /\ Len(o) > 0 /\ 1 \in o[1]
  BY <1>1, <1>2, OrderIs
<1>4. PICK n : n = Len(o)
  OBVIOUS
<1>5. n \in Nat /\ DOMAIN o = 1 .. n /\ n > 0
  <2>1. o \in Seq(SUBSET (1 .. m))
    BY <1>3 DEF OrderFits
  <2> QED BY <1>3, <1>4, <2>1, SequenceIs
<1>6. PICK sets : sets = BlockSets(s)
  OBVIOUS
<1>7. sets = [b \in DOMAIN o |-> {p \in Positions : RangeOf(s, p) \in o[b]}]
  BY <1>1, <1>6 DEF BlockSets, PositionsIn
<1>8. DOMAIN sets = 1 .. n /\ \A b \in 1 .. n : sets[b] = {p \in Positions : RangeOf(s, p) \in o[b]}
  BY <1>5, <1>7
<1>9. \A p \in Positions : \E b \in 1 .. n : p \in sets[b]
  BY <1>2, <1>3, <1>4, <1>8 DEF OrderFits
<1>10. \A b, e \in 1 .. n : b # e => sets[b] \intersect sets[e] = {}
  <2> SUFFICES ASSUME NEW b \in 1 .. n, NEW e \in 1 .. n, b # e, NEW p \in sets[b], p \in sets[e] PROVE FALSE
    OBVIOUS
  <2>1. RangeOf(s, p) \in o[b] /\ RangeOf(s, p) \in o[e]
    BY <1>8
  <2>2. o[b] \intersect o[e] = {}
    BY <1>3, <1>4 DEF OrderFits
  <2> QED BY <2>1, <2>2
<1>11. 1 .. s.basis \subseteq sets[1]
  BY <1>2, <1>3, <1>5, <1>8
<1>12. \A b \in 1 .. n : sets[b] \subseteq Positions
  BY <1>8
<1>13. SetsFit(s, sets, n)
  BY <1>5, <1>8, <1>9, <1>10, <1>11, <1>12 DEF SetsFit
<1> QED BY <1>6, <1>13

-----------------------------------------------------------------------------
(* The ranges of the blocks partition the rows. *)

\* How many positions precede a block.
LEMMA BeforeIs ==
  ASSUME NEW sets, NEW b \in Nat, b > 0
  PROVE  /\ Before(sets, 1) = 0
         /\ Before(sets, b + 1) = Before(sets, b) + Cardinality(sets[b])
<1>1. Before(sets, 1) = 0
  <2>1. PICK q : q = [i \in 1 .. 1 - 1 |-> i]
    OBVIOUS
  <2>2. DOMAIN q = 1 .. 0
    BY <2>1
  <2>3. PICK f : Chain(f, 0, sets, q, "count") /\ f[0] = Folded(0, sets, q, "count")
    BY <2>2, FoldChain
  <2> QED BY <2>1, <2>3 DEF Chain, Before
<1>2. PICK k \in Nat : b = k + 1
  <2>1. b - 1 \in Nat /\ b = (b - 1) + 1
    OBVIOUS
  <2> QED BY <2>1
<1>3. PICK q, r : q = [i \in 1 .. (b + 1) - 1 |-> i] /\ r = [i \in 1 .. b - 1 |-> i]
  OBVIOUS
<1>4. (b + 1) - 1 = k + 1 /\ b - 1 = k
  BY <1>2
<1>5. DOMAIN q = 1 .. k + 1 /\ DOMAIN r = 1 .. k /\ (\A i \in 1 .. k : r[i] = q[i]) /\ q[k + 1] = b
  BY <1>2, <1>3, <1>4
<1>6. Folded(0, sets, q, "count") = StepOf(Folded(0, sets, r, "count"), sets, q[k + 1], "count")
  BY <1>5, FoldLast
<1>7. Folded(0, sets, q, "count") = Folded(0, sets, r, "count") + Cardinality(sets[b])
  BY <1>5, <1>6, StepCount
<1> QED BY <1>1, <1>3, <1>7 DEF Before

UpTo(sets, b) == UNION {sets[i] : i \in 1 .. b}

\* They add up to the dimension.
LEMMA BeforeCounts ==
  ASSUME NEW s, NEW sets, NEW n, SetsFit(s, sets, n)
  PROVE  /\ \A b \in 1 .. n + 1 : Before(sets, b) \in Nat
         /\ \A b \in 1 .. n : /\ IsFiniteSet(sets[b]) /\ Cardinality(sets[b]) \in Nat
                              /\ Before(sets, b + 1) = Before(sets, b) + Cardinality(sets[b])
         /\ Before(sets, 1) = 0 /\ Before(sets, n + 1) = Dim
<1>1. n \in Nat /\ n > 0 /\ Dim \in Nat /\ IsFiniteSet(Positions) /\ Cardinality(Positions) = Dim
  BY SystemsAssumption, FS_Interval DEF SetsFit, Positions
<1>2. \A b \in 1 .. n : IsFiniteSet(sets[b]) /\ Cardinality(sets[b]) \in Nat
  <2> SUFFICES ASSUME NEW b \in 1 .. n PROVE IsFiniteSet(sets[b]) /\ Cardinality(sets[b]) \in Nat
    OBVIOUS
  <2>1. sets[b] \subseteq Positions
    BY DEF SetsFit
  <2> QED BY <1>1, <2>1, FS_Subset, FS_CardinalityType
<1>3. Before(sets, 1) = 0 /\ \A b \in 1 .. n : Before(sets, b + 1) = Before(sets, b) + Cardinality(sets[b])
  <2>1. Before(sets, 1) = 0
    BY BeforeIs
  <2>2. ASSUME NEW b \in 1 .. n PROVE Before(sets, b + 1) = Before(sets, b) + Cardinality(sets[b])
    <3>1. b \in Nat /\ b > 0
      BY <1>1
    <3> QED BY <3>1, BeforeIs
  <2> QED BY <2>1, <2>2
<1> DEFINE T == {b \in Nat : b <= n => /\ Before(sets, b + 1) = Cardinality(UpTo(sets, b))
                                       /\ IsFiniteSet(UpTo(sets, b))}
<1>4. 0 \in T
  <2>1. UpTo(sets, 0) = {}
    BY DEF UpTo
  <2>2. Cardinality({}) = 0 /\ IsFiniteSet({})
    BY FS_EmptySet
  <2> QED BY <1>3, <2>1, <2>2
<1>5. ASSUME NEW b \in Nat, b \in T PROVE b + 1 \in T
  <2> SUFFICES ASSUME b + 1 <= n
               PROVE  /\ Before(sets, (b + 1) + 1) = Cardinality(UpTo(sets, b + 1))
                      /\ IsFiniteSet(UpTo(sets, b + 1))
    OBVIOUS
  <2>1. b <= n /\ b + 1 \in 1 .. n
    BY <1>1
  <2>2. PICK A, S : A = UpTo(sets, b) /\ S = sets[b + 1]
    OBVIOUS
  <2>3. Before(sets, b + 1) = Cardinality(A) /\ IsFiniteSet(A) /\ IsFiniteSet(S)
    BY <1>2, <1>5, <2>1, <2>2
  <2>4. UpTo(sets, b + 1) = A \union S
    <3>1. 1 .. b + 1 = (1 .. b) \union {b + 1}
      OBVIOUS
    <3>2. ASSUME NEW x \in UpTo(sets, b + 1) PROVE x \in A \union S
      BY <2>2, <3>1 DEF UpTo
    <3>3. ASSUME NEW x \in A \union S PROVE x \in UpTo(sets, b + 1)
      BY <2>2, <3>1 DEF UpTo
    <3> QED BY <3>2, <3>3
  <2>5. A \intersect S = {}
    <3> SUFFICES ASSUME NEW x \in A, x \in S PROVE FALSE
      OBVIOUS
    <3>1. PICK i \in 1 .. b : x \in sets[i]
      BY <2>2 DEF UpTo
    <3>2. i \in 1 .. n /\ i # b + 1
      BY <1>1, <2>1
    <3>3. sets[i] \intersect sets[b + 1] = {}
      BY <2>1, <3>2 DEF SetsFit
    <3> QED BY <2>2, <3>1, <3>3
  <2>6. IsFiniteSet(A \union S) /\ Cardinality(A \union S) = Cardinality(A) + Cardinality(S)
    <3>1. Cardinality(A \intersect S) = 0
      BY <2>5, FS_EmptySet
    <3>2. IsFiniteSet(A \union S)
      BY <2>3, FS_Union
    <3>3. Cardinality(A \union S) = Cardinality(A) + Cardinality(S) - Cardinality(A \intersect S)
      BY <2>3, FS_Union
    <3>4. Cardinality(A) \in Nat /\ Cardinality(S) \in Nat
      BY <2>3, FS_CardinalityType
    <3> QED BY <3>1, <3>2, <3>3, <3>4
  <2> QED BY <1>3, <2>1, <2>2, <2>3, <2>4, <2>6
<1> HIDE DEF T
<1>6. \A b \in Nat : b \in T
  BY <1>4, <1>5, SetInduction
<1>7. ASSUME NEW b \in 1 .. n + 1 PROVE Before(sets, b) \in Nat
  <2>1. PICK k \in Nat : b = k + 1 /\ k <= n
    <3>1. b - 1 \in Nat /\ b = (b - 1) + 1 /\ b - 1 <= n
      BY <1>1
    <3> QED BY <3>1
  <2>2. Before(sets, k + 1) = Cardinality(UpTo(sets, k)) /\ IsFiniteSet(UpTo(sets, k))
    BY <1>6, <2>1 DEF T
  <2> QED BY <2>1, <2>2, FS_CardinalityType
<1>8. Before(sets, n + 1) = Dim
  <2>1. Before(sets, n + 1) = Cardinality(UpTo(sets, n))
    BY <1>1, <1>6 DEF T
  <2>2. UpTo(sets, n) = Positions
    <3>1. ASSUME NEW p \in Positions PROVE p \in UpTo(sets, n)
      BY DEF UpTo, SetsFit
    <3>2. ASSUME NEW p \in UpTo(sets, n) PROVE p \in Positions
      BY DEF UpTo, SetsFit
    <3> QED BY <3>1, <3>2
  <2> QED BY <1>1, <2>1, <2>2
<1> QED BY <1>2, <1>3, <1>7, <1>8

\* The interval of a block in the new order.
Interval(sets, b) == 1 + Before(sets, b) .. 1 + Before(sets, b) + Cardinality(sets[b]) - 1

\* The intervals of the blocks partition the positions.
LEMMA IntervalsPartition ==
  ASSUME NEW s, NEW sets, NEW n, SetsFit(s, sets, n)
  PROVE  /\ \A b \in 1 .. n : Interval(sets, b) \subseteq Positions
         /\ \A b \in 1 .. n : \A i : i \in Interval(sets, b) <=>
              i \in Int /\ Before(sets, b) < i /\ i <= Before(sets, b + 1)
         /\ \A b, e \in 1 .. n : b # e => Interval(sets, b) \intersect Interval(sets, e) = {}
         /\ \A i \in Positions : \E b \in 1 .. n : i \in Interval(sets, b)
         /\ Interval(sets, 1) = 1 .. Cardinality(sets[1])
<1>1. /\ n \in Nat /\ n > 0 /\ Dim \in Nat
      /\ \A b \in 1 .. n + 1 : Before(sets, b) \in Nat
      /\ \A b \in 1 .. n : /\ Cardinality(sets[b]) \in Nat
                           /\ Before(sets, b + 1) = Before(sets, b) + Cardinality(sets[b])
      /\ Before(sets, 1) = 0 /\ Before(sets, n + 1) = Dim
  BY BeforeCounts, SystemsAssumption DEF SetsFit
<1>2. PICK B : B = [b \in 1 .. n + 1 |-> Before(sets, b)]
  OBVIOUS
<1>3. /\ \A b \in 1 .. n + 1 : B[b] \in Nat /\ B[b] = Before(sets, b)
      /\ \A b \in 1 .. n : b + 1 \in 1 .. n + 1 /\ b \in 1 .. n + 1 /\ B[b + 1] = B[b] + Cardinality(sets[b])
      /\ B[1] = 0 /\ B[n + 1] = Dim
  <2>1. \A b \in 1 .. n : b + 1 \in 1 .. n + 1 /\ b \in 1 .. n + 1
    BY <1>1
  <2>2. 1 \in 1 .. n + 1 /\ n + 1 \in 1 .. n + 1
    BY <1>1
  <2> QED BY <1>1, <1>2, <2>1, <2>2
<1>4. ASSUME NEW b \in 1 .. n, NEW i
      PROVE i \in Interval(sets, b) <=> i \in Int /\ B[b] < i /\ i <= B[b + 1]
  <2>1. Before(sets, b) = B[b] /\ B[b] \in Nat /\ B[b + 1] = B[b] + Cardinality(sets[b]) /\ Cardinality(sets[b]) \in Nat
    BY <1>1, <1>3
  <2> QED BY <2>1 DEF Interval
\* The bounds rise.
<1> DEFINE T == {k \in Nat : \A b \in 1 .. n + 1 : b + k <= n + 1 => B[b] <= B[b + k]}
<1>5. 0 \in T
  <2>1. \A b \in 1 .. n + 1 : b + 0 = b /\ B[b] <= B[b]
    BY <1>1, <1>3
  <2> QED BY <2>1
<1>6. ASSUME NEW k \in Nat, k \in T PROVE k + 1 \in T
  <2> SUFFICES ASSUME NEW b \in 1 .. n + 1, b + (k + 1) <= n + 1 PROVE B[b] <= B[b + (k + 1)]
    OBVIOUS
  <2>1. b + k \in 1 .. n /\ b + k <= n + 1 /\ b + (k + 1) = (b + k) + 1
    BY <1>1
  <2>2. B[b] <= B[b + k]
    BY <1>6, <2>1
  <2>3. B[(b + k) + 1] = B[b + k] + Cardinality(sets[b + k]) /\ Cardinality(sets[b + k]) \in Nat
    BY <1>1, <1>3, <2>1
  <2>4. B[b] \in Nat /\ B[b + k] \in Nat
    BY <1>3, <2>1
  <2> QED BY <2>1, <2>2, <2>3, <2>4
<1> HIDE DEF T
<1>7. \A k \in Nat : k \in T
  BY <1>5, <1>6, SetInduction
<1>8. ASSUME NEW b \in 1 .. n + 1, NEW e \in 1 .. n + 1, b <= e PROVE B[b] <= B[e]
  <2>1. PICK k \in Nat : e = b + k
    <3>1. e - b \in Nat /\ e = b + (e - b)
      BY <1>1, <1>8
    <3> QED BY <3>1
  <2>2. k \in T
    BY <1>7
  <2>3. b + k <= n + 1
    BY <1>1, <2>1
  <2> QED BY <2>1, <2>2, <2>3 DEF T
<1>9. ASSUME NEW b \in 1 .. n, NEW i \in Interval(sets, b) PROVE i \in Positions
  <2>1. i \in Int /\ B[b] < i /\ i <= B[b + 1]
    BY <1>4, <1>9
  <2>2. B[b + 1] <= B[n + 1]
    <3>1. b + 1 \in 1 .. n + 1 /\ n + 1 \in 1 .. n + 1 /\ b + 1 <= n + 1
      BY <1>1
    <3> QED BY <1>8, <3>1
  <2>3. B[b] \in Nat /\ B[b + 1] \in Nat
    BY <1>3
  <2> QED BY <1>1, <1>3, <2>1, <2>2, <2>3 DEF Positions
<1>10. ASSUME NEW b \in 1 .. n, NEW e \in 1 .. n, b < e, NEW i \in Interval(sets, b), i \in Interval(sets, e)
       PROVE FALSE
  <2>1. i \in Int /\ i <= B[b + 1] /\ B[e] < i
    BY <1>4, <1>10
  <2>2. B[b + 1] <= B[e]
    <3>1. b + 1 \in 1 .. n + 1 /\ e \in 1 .. n + 1 /\ b + 1 <= e
      BY <1>1, <1>10
    <3> QED BY <1>8, <3>1
  <2>3. B[b + 1] \in Nat /\ B[e] \in Nat
    BY <1>3
  <2> QED BY <2>1, <2>2, <2>3
<1>11. ASSUME NEW b \in 1 .. n, NEW e \in 1 .. n, b # e
       PROVE  Interval(sets, b) \intersect Interval(sets, e) = {}
  <2>1. b < e \/ e < b
    BY <1>1, <1>11
  <2> QED BY <1>10, <2>1
<1>12. ASSUME NEW i \in Positions PROVE \E b \in 1 .. n : i \in Interval(sets, b)
  <2> DEFINE E == {b \in Nat : b \in 1 .. n + 1 /\ i <= B[b]}
  <2>1. i \in Nat /\ i > 0 /\ i <= Dim
    BY <1>1 DEF Positions
  <2>2. n + 1 \in E /\ E \subseteq Nat
    BY <1>1, <1>3, <2>1
  <2>3. PICK m \in E : \A e \in E : m <= e
    BY <2>2, Least
  <2>4. m \in 1 .. n + 1 /\ i <= B[m]
    BY <2>3
  <2>5. m # 1
    BY <1>3, <2>1, <2>4
  <2>6. PICK b \in 1 .. n : m = b + 1
    <3>1. m - 1 \in 1 .. n /\ m = (m - 1) + 1
      BY <1>1, <2>4, <2>5
    <3> QED BY <3>1
  <2>7. b \notin E
    BY <1>1, <2>3, <2>6
  <2>8. B[b] < i
    <3>1. b \in Nat /\ b \in 1 .. n + 1 /\ B[b] \in Nat
      BY <1>1, <1>3
    <3> QED BY <2>1, <2>7, <3>1
  <2> QED BY <1>4, <2>1, <2>4, <2>6, <2>8
<1>13. Interval(sets, 1) = 1 .. Cardinality(sets[1])
  BY <1>1 DEF Interval
<1>14. \A b \in 1 .. n : \A i : i \in Interval(sets, b) <=>
              i \in Int /\ Before(sets, b) < i /\ i <= Before(sets, b + 1)
  <2>1. \A b \in 1 .. n : B[b] = Before(sets, b) /\ B[b + 1] = Before(sets, b + 1)
    BY <1>3
  <2> QED BY <1>4, <2>1
<1> QED BY <1>9, <1>11, <1>12, <1>13, <1>14

-----------------------------------------------------------------------------
(* The order of the columns: every column once. *)

\* The columns placed after block b.
ColumnsAt(s, sets, t, b) ==
  /\ t \in Seq(Positions) /\ Len(t) = Before(sets, b + 1)
  /\ Before(sets, 2) <= Len(t)
  /\ \A i \in 1 .. Before(sets, 2) : t[i] = Ascending(sets[1])[i]
  /\ \A i \in 1 .. Len(t) : i > Before(sets, 2) => t[i] \notin sets[1]

\* Concatenation.
LEMMA ConcatIs ==
  ASSUME NEW S, NEW t \in Seq(S), NEW u \in Seq(S)
  PROVE  /\ t \o u \in Seq(S) /\ Len(t \o u) = Len(t) + Len(u)
         /\ \A i \in 1 .. Len(t) : (t \o u)[i] = t[i]
         /\ \A i \in 1 .. Len(t) + Len(u) : i > Len(t) =>
              i - Len(t) \in 1 .. Len(u) /\ (t \o u)[i] = u[i - Len(t)]
<1>1. Len(t) \in Nat /\ Len(u) \in Nat
  OBVIOUS
<1>2. t \o u \in Seq(S) /\ Len(t \o u) = Len(t) + Len(u)
  OBVIOUS
<1>3. ASSUME NEW i \in 1 .. Len(t) PROVE (t \o u)[i] = t[i]
  OBVIOUS
<1>4. ASSUME NEW i \in 1 .. Len(t) + Len(u), i > Len(t)
      PROVE  i - Len(t) \in 1 .. Len(u) /\ (t \o u)[i] = u[i - Len(t)]
  <2>1. i - Len(t) \in 1 .. Len(u) /\ ~(i <= Len(t)) /\ i \in 1 .. (Len(t) + Len(u))
    BY <1>1, <1>4
  <2> QED BY <1>1, <2>1
<1> QED BY <1>2, <1>3, <1>4

\* Positions have groups.
LEMMA GroupedSets ==
  ASSUME NEW s, IsSystem(s), NEW sets, NEW n, SetsFit(s, sets, n), NEW b \in 1 .. n, b # 1
  PROVE  Grouped(s, sets[b])
<1>1. Dim \in Nat /\ s.basis \in 1 .. Dim
  BY SystemsAssumption DEF IsSystem, Positions
<1>2. sets[b] \subseteq Positions /\ IsFiniteSet(sets[b])
  BY BeforeCounts DEF SetsFit
<1>3. n \in Nat /\ 1 \in 1 .. n /\ sets[1] \intersect sets[b] = {} /\ 1 .. s.basis \subseteq sets[1]
  BY DEF SetsFit
<1>4. ASSUME NEW x \in sets[b] PROVE x \in Nat /\ s.group[x] \in Nat
  <2>1. x \in 1 .. Dim /\ x \notin 1 .. s.basis
    BY <1>2, <1>3 DEF Positions
  <2>2. x \in (s.basis + 1) .. Dim
    BY <1>1, <2>1
  <2> QED BY <1>1, <2>1, <2>2 DEF IsSystem
<1> QED BY <1>2, <1>4 DEF Grouped

\* The columns of one more block.
LEMMA ColumnsMore ==
  ASSUME NEW s, IsSystem(s), NEW sets, NEW n, SetsFit(s, sets, n), NEW b \in 1 .. n, b + 1 <= n,
         NEW t, ColumnsAt(s, sets, t, b)
  PROVE  ColumnsAt(s, sets, t \o ByGroup(s, sets[b + 1]), b + 1)
<1>1. n \in Nat /\ b + 1 \in 1 .. n /\ b + 1 # 1 /\ 1 \in 1 .. n
  BY DEF SetsFit
<1>2. PICK S, u : S = sets[b + 1] /\ u = ByGroup(s, S)
  OBVIOUS
<1>3. u \in Seq(S) /\ DOMAIN u = 1 .. Cardinality(S)
  BY <1>1, <1>2, GroupedSets, ByGroupIs
<1>4. S \subseteq Positions /\ sets[1] \intersect S = {}
  BY <1>1, <1>2 DEF SetsFit
<1>5. /\ Cardinality(S) \in Nat /\ Before(sets, b + 1 + 1) = Before(sets, b + 1) + Cardinality(S)
      /\ Before(sets, 2) \in Nat /\ Before(sets, b + 1) \in Nat
  BY <1>1, <1>2, BeforeCounts
<1>6. u \in Seq(Positions) /\ Len(u) = Cardinality(S) /\ \A i \in 1 .. Len(u) : u[i] \in S
  <2>1. Len(u) \in Nat /\ DOMAIN u = 1 .. Len(u)
    BY <1>3
  <2>2. Len(u) = Cardinality(S)
    BY <1>3, <1>5, <2>1
  <2>3. \A i \in 1 .. Len(u) : u[i] \in S
    BY <1>3, SequenceIs
  <2>4. u \in Seq(Positions)
    BY <1>3, <1>4, SeqMonotonic
  <2> QED BY <2>2, <2>3, <2>4
<1>7. PICK v : v = t \o u
  OBVIOUS
<1>8. /\ t \in Seq(Positions) /\ Len(t) = Before(sets, b + 1) /\ Before(sets, 2) <= Len(t)
      /\ \A i \in 1 .. Before(sets, 2) : t[i] = Ascending(sets[1])[i]
      /\ \A i \in 1 .. Len(t) : i > Before(sets, 2) => t[i] \notin sets[1]
  BY DEF ColumnsAt
<1>9. /\ v \in Seq(Positions) /\ Len(v) = Len(t) + Len(u)
      /\ \A i \in 1 .. Len(t) : v[i] = t[i]
      /\ \A i \in 1 .. Len(t) + Len(u) : i > Len(t) =>
              i - Len(t) \in 1 .. Len(u) /\ v[i] = u[i - Len(t)]
  <2>1. t \in Seq(Positions) /\ u \in Seq(Positions)
    BY <1>6, <1>8
  <2>2. /\ t \o u \in Seq(Positions) /\ Len(t \o u) = Len(t) + Len(u)
        /\ \A i \in 1 .. Len(t) : (t \o u)[i] = t[i]
        /\ \A i \in 1 .. Len(t) + Len(u) : i > Len(t) =>
              i - Len(t) \in 1 .. Len(u) /\ (t \o u)[i] = u[i - Len(t)]
    BY <2>1, ConcatIs
  <2> QED BY <1>7, <2>2
<1>10. Len(v) = Before(sets, b + 1 + 1) /\ Before(sets, 2) <= Len(v)
  BY <1>5, <1>6, <1>8, <1>9
<1>11. ASSUME NEW i \in 1 .. Before(sets, 2) PROVE v[i] = Ascending(sets[1])[i]
  <2>1. i \in 1 .. Len(t)
    BY <1>5, <1>8
  <2> QED BY <1>8, <1>9, <2>1
<1>12. ASSUME NEW i \in 1 .. Len(v), i > Before(sets, 2) PROVE v[i] \notin sets[1]
  <2>1. CASE i <= Len(t)
    <3>1. i \in 1 .. Len(t)
      BY <1>5, <1>8, <2>1
    <3> QED BY <1>8, <1>9, <1>12, <3>1
  <2>2. CASE i > Len(t)
    <3>1. i \in 1 .. Len(t) + Len(u)
      BY <1>9
    <3>2. v[i] = u[i - Len(t)] /\ i - Len(t) \in 1 .. Len(u)
      BY <1>9, <2>2, <3>1
    <3> QED BY <1>4, <1>6, <3>2
  <2>3. i \in Int /\ Len(t) \in Int
    BY <1>5, <1>8
  <2> QED BY <2>1, <2>2, <2>3
<1> QED BY <1>2, <1>7, <1>9, <1>10, <1>11, <1>12 DEF ColumnsAt

\* The columns of the first block.
LEMMA ColumnsFirst ==
  ASSUME NEW s, IsSystem(s), NEW sets, NEW n, SetsFit(s, sets, n)
  PROVE  ColumnsAt(s, sets, Ascending(sets[1]), 1)
<1>1. n \in Nat /\ 1 \in 1 .. n /\ sets[1] \subseteq Positions /\ Dim \in Nat
  BY SystemsAssumption DEF SetsFit
<1>2. IsFiniteSet(sets[1]) /\ Cardinality(sets[1]) \in Nat
      /\ Before(sets, 1 + 1) = Before(sets, 1) + Cardinality(sets[1]) /\ Before(sets, 1) = 0
  BY <1>1, BeforeCounts
<1>3. PICK u, S : S = sets[1] /\ u = Ascending(S)
  OBVIOUS
<1>4. S \subseteq Int
  BY <1>1, <1>3 DEF Positions
<1>5. u \in Seq(S) /\ DOMAIN u = 1 .. Cardinality(S)
  BY <1>2, <1>3, <1>4, AscendingIs
<1>6. Len(u) = Cardinality(S)
  <2>1. Len(u) \in Nat /\ DOMAIN u = 1 .. Len(u)
    BY <1>5
  <2> QED BY <1>2, <1>3, <1>5, <2>1
<1>7. u \in Seq(Positions)
  BY <1>1, <1>3, <1>5, SeqMonotonic
<1>8. Before(sets, 2) = Cardinality(S) /\ Before(sets, 1 + 1) = Cardinality(S)
  BY <1>2, <1>3
<1>9. ASSUME NEW i \in 1 .. Len(u), i > Before(sets, 2) PROVE FALSE
  BY <1>2, <1>3, <1>6, <1>8, <1>9
<1> QED BY <1>2, <1>3, <1>6, <1>7, <1>8, <1>9 DEF ColumnsAt

\* The column order is an order of the positions, the first block first.
LEMMA ColumnsAre ==
  ASSUME NEW s, IsSystem(s), NEW sets, NEW n, SetsFit(s, sets, n)
  PROVE  ColumnsAt(s, sets, ColumnOrder(s, sets), n)
<1>1. n \in Nat /\ n > 0 /\ DOMAIN sets = 1 .. n
  BY DEF SetsFit
<1>2. PICK c : c = [system |-> s, sets |-> sets]
  OBVIOUS
<1>3. PICK q : q = [b \in DOMAIN sets |-> b]
  OBVIOUS
<1>4. DOMAIN q = 1 .. n /\ \A b \in 1 .. n : q[b] = b
  BY <1>1, <1>3
<1>5. c.system = s /\ c.sets = sets
  BY <1>2
<1>6. ColumnOrder(s, sets) = Folded(<<>>, c, q, "columns")
  BY <1>3, <1>5, OrdersFold
<1>7. PICK f : Chain(f, <<>>, c, q, "columns") /\ f[n] = Folded(<<>>, c, q, "columns")
  BY <1>1, <1>4, FoldChain
<1>8. f[0] = <<>>
      /\ \A b \in 1 .. n : f[b] = f[b - 1] \o (IF b = 1 THEN Ascending(sets[1]) ELSE ByGroup(s, sets[b]))
  <2>1. f[0] = <<>> /\ \A b \in 1 .. n : f[b] = StepOf(f[b - 1], c, b, "columns")
    BY <1>4, <1>7 DEF Chain
  <2>2. ASSUME NEW b \in 1 .. n
        PROVE f[b] = f[b - 1] \o (IF b = 1 THEN Ascending(sets[1]) ELSE ByGroup(s, sets[b]))
    <3>1. StepOf(f[b - 1], c, b, "columns")
            = f[b - 1] \o (IF b = 1 THEN Ascending(c.sets[1]) ELSE ByGroup(c.system, c.sets[b]))
      BY StepColumns
    <3> QED BY <1>5, <2>1, <3>1
  <2> QED BY <2>1, <2>2
<1> DEFINE T == {k \in Nat : k + 1 <= n => ColumnsAt(s, sets, f[k + 1], k + 1)}
<1>9. 0 \in T
  <2>1. f[1] = f[0] \o Ascending(sets[1])
    <3>1. 1 \in 1 .. n /\ 1 - 1 = 0
      BY <1>1
    <3> QED BY <1>8, <3>1
  <2>2. ColumnsAt(s, sets, Ascending(sets[1]), 1)
    BY ColumnsFirst
  <2>3. Ascending(sets[1]) \in Seq(Positions)
    BY <2>2 DEF ColumnsAt
  <2>4. f[1] = Ascending(sets[1])
    BY <1>8, <2>1, <2>3
  <2> QED BY <2>2, <2>4
<1>10. ASSUME NEW k \in Nat, k \in T PROVE k + 1 \in T
  <2> SUFFICES ASSUME (k + 1) + 1 <= n PROVE ColumnsAt(s, sets, f[(k + 1) + 1], (k + 1) + 1)
    OBVIOUS
  <2>1. k + 1 \in 1 .. n /\ (k + 1) + 1 \in 1 .. n /\ (k + 1) + 1 # 1 /\ ((k + 1) + 1) - 1 = k + 1
        /\ k + 1 <= n
    BY <1>1
  <2>2. ColumnsAt(s, sets, f[k + 1], k + 1)
    BY <1>10, <2>1
  <2>3. f[(k + 1) + 1] = f[k + 1] \o ByGroup(s, sets[(k + 1) + 1])
    BY <1>8, <2>1
  <2> QED BY <2>1, <2>2, <2>3, ColumnsMore
<1> HIDE DEF T
<1>11. \A k \in Nat : k \in T
  BY <1>9, <1>10, SetInduction
<1>12. PICK k \in Nat : n = k + 1
  <2>1. n - 1 \in Nat /\ n = (n - 1) + 1
    BY <1>1
  <2> QED BY <2>1
<1>13. ColumnsAt(s, sets, f[n], n)
  BY <1>1, <1>11, <1>12 DEF T
<1> QED BY <1>6, <1>7, <1>13

-----------------------------------------------------------------------------
(* The layout: blocks that cover the square and are disjoint. *)

\* The basis columns are placed in the first block.
LEMMA ColumnPlaced ==
  ASSUME NEW s, IsSystem(s), NEW sets, NEW n, SetsFit(s, sets, n), NEW m \in 1 .. s.basis
  PROVE  (CHOOSE k \in Positions : ColumnOrder(s, sets)[k] = m) \in Interval(sets, 1)
<1>1. PICK t : t = ColumnOrder(s, sets)
  OBVIOUS
<1>2. ColumnsAt(s, sets, t, n)
  BY <1>1, ColumnsAre
<1>3. n \in Nat /\ n > 0 /\ 1 \in 1 .. n /\ sets[1] \subseteq Positions /\ m \in sets[1] /\ Dim \in Nat
  BY SystemsAssumption DEF SetsFit
<1>4. /\ Before(sets, n + 1) = Dim /\ Before(sets, 1) = 0
      /\ Before(sets, 1 + 1) = Before(sets, 1) + Cardinality(sets[1])
      /\ Cardinality(sets[1]) \in Nat /\ IsFiniteSet(sets[1])
  BY <1>3, BeforeCounts
<1>5. Before(sets, 2) = Cardinality(sets[1])
  BY <1>4
<1>6. /\ Len(t) = Dim /\ Cardinality(sets[1]) <= Dim
      /\ \A i \in 1 .. Cardinality(sets[1]) : t[i] = Ascending(sets[1])[i]
      /\ \A i \in 1 .. Dim : i > Cardinality(sets[1]) => t[i] \notin sets[1]
  BY <1>2, <1>4, <1>5 DEF ColumnsAt
<1>7. PICK j \in 1 .. Cardinality(sets[1]) : Ascending(sets[1])[j] = m
  <2>1. PICK S : S = sets[1]
    OBVIOUS
  <2>2. S \subseteq Int /\ IsFiniteSet(S) /\ m \in S
    BY <1>3, <1>4, <2>1 DEF Positions
  <2>3. DOMAIN Ascending(S) = 1 .. Cardinality(S) /\ \E i \in DOMAIN Ascending(S) : Ascending(S)[i] = m
    BY <2>2, AscendingIs
  <2> QED BY <2>1, <2>3
<1>8. j \in Positions /\ t[j] = m
  BY <1>3, <1>4, <1>6, <1>7 DEF Positions
<1>9. PICK i : i = CHOOSE k \in Positions : t[k] = m
  OBVIOUS
<1>10. i \in Positions /\ t[i] = m
  BY <1>8, <1>9
<1>11. i \in 1 .. Cardinality(sets[1])
  BY <1>3, <1>4, <1>6, <1>10 DEF Positions
<1>12. Interval(sets, 1) = 1 .. Cardinality(sets[1])
  BY IntervalsPartition
<1> QED BY <1>1, <1>9, <1>11, <1>12

\* What the recording needs to know of a layout.
LayoutFits(s, y, n) ==
  /\ n \in Nat /\ n > 0 /\ DOMAIN y.blocks = 1 .. n
  /\ \A b \in 1 .. n : y.blocks[b] \subseteq Positions
  /\ \A b, e \in 1 .. n : b # e => y.blocks[b] \intersect y.blocks[e] = {}
  /\ \A i \in Positions : \E b \in 1 .. n : i \in y.blocks[b]
  /\ DOMAIN y.matrix \subseteq Positions \X Positions
  /\ y.matrix \in [DOMAIN y.matrix -> Field]
  /\ y.rhs \subseteq Positions \X Requests
  /\ \A m \in 1 .. s.basis : (CHOOSE i \in Positions : y.columns[i] = m) \in y.blocks[1]

\* Layout is that.
LEMMA LayoutIs ==
  ASSUME NEW s, IsSystem(s)
  PROVE  \E n : LayoutFits(s, Layout(s), n)
<1>1. PICK sets, n : sets = BlockSets(s) /\ SetsFit(s, sets, n)
  BY BlockSetsFit
<1>2. PICK rows, columns : rows = RowOrder(sets) /\ columns = ColumnOrder(s, sets)
  OBVIOUS
<1>3. PICK y : y = Layout(s)
  OBVIOUS
<1>4. y = [matrix |-> [c \in {d \in Positions \X Positions :
                                     <<rows[d[1]], columns[d[2]]>> \in DOMAIN s.matrix} |->
                              s.matrix[<<rows[c[1]], columns[c[2]]>>]],
                rhs |-> {e \in Positions \X Requests : <<rows[e[1]], e[2]>> \in s.rhs},
                rows |-> rows,
                columns |-> columns,
                blocks |-> [b \in DOMAIN sets |->
                              1 + Before(sets, b) ..
                                1 + Before(sets, b) + Cardinality(sets[b]) - 1]]
  BY <1>1, <1>2, <1>3, ArrangedIs DEF Layout
<1>5. /\ y.matrix = [c \in {d \in Positions \X Positions :
                                     <<rows[d[1]], columns[d[2]]>> \in DOMAIN s.matrix} |->
                              s.matrix[<<rows[c[1]], columns[c[2]]>>]]
      /\ y.rhs = {e \in Positions \X Requests : <<rows[e[1]], e[2]>> \in s.rhs}
      /\ y.columns = columns
      /\ y.blocks = [b \in DOMAIN sets |-> 1 + Before(sets, b) ..
                                1 + Before(sets, b) + Cardinality(sets[b]) - 1]
  BY <1>4
<1>6. n \in Nat /\ n > 0 /\ DOMAIN sets = 1 .. n
  BY <1>1 DEF SetsFit
<1>7. DOMAIN y.blocks = 1 .. n /\ \A b \in 1 .. n : y.blocks[b] = Interval(sets, b)
  BY <1>5, <1>6 DEF Interval
<1>8. /\ \A b \in 1 .. n : Interval(sets, b) \subseteq Positions
      /\ \A b, e \in 1 .. n : b # e => Interval(sets, b) \intersect Interval(sets, e) = {}
      /\ \A i \in Positions : \E b \in 1 .. n : i \in Interval(sets, b)
  BY <1>1, IntervalsPartition
<1>9. /\ \A b \in 1 .. n : y.blocks[b] \subseteq Positions
      /\ \A b, e \in 1 .. n : b # e => y.blocks[b] \intersect y.blocks[e] = {}
      /\ \A i \in Positions : \E b \in 1 .. n : i \in y.blocks[b]
  BY <1>7, <1>8
<1>10. DOMAIN y.matrix \subseteq Positions \X Positions /\ y.matrix \in [DOMAIN y.matrix -> Field]
  <2>1. PICK X : X = {d \in Positions \X Positions : <<rows[d[1]], columns[d[2]]>> \in DOMAIN s.matrix}
    OBVIOUS
  <2>2. y.matrix = [c \in X |-> s.matrix[<<rows[c[1]], columns[c[2]]>>]]
    BY <1>5, <2>1
  <2>3. X \subseteq Positions \X Positions
    BY <2>1
  <2>4. ASSUME NEW c \in X PROVE s.matrix[<<rows[c[1]], columns[c[2]]>>] \in Field
    <3>1. <<rows[c[1]], columns[c[2]]>> \in DOMAIN s.matrix
      BY <2>1
    <3>2. s.matrix \in [DOMAIN s.matrix -> Field]
      BY DEF IsSystem
    <3> QED BY <3>1, <3>2
  <2>5. DOMAIN y.matrix = X
    BY <2>2
  <2>6. y.matrix \in [X -> Field]
    BY <2>2, <2>4
  <2> QED BY <2>3, <2>5, <2>6
<1>11. y.rhs \subseteq Positions \X Requests
  BY <1>5
<1>12. ASSUME NEW m \in 1 .. s.basis
       PROVE  (CHOOSE i \in Positions : y.columns[i] = m) \in y.blocks[1]
  <2>1. (CHOOSE i \in Positions : columns[i] = m) \in Interval(sets, 1)
    BY <1>1, <1>2, ColumnPlaced
  <2>2. 1 \in 1 .. n
    BY <1>6
  <2>3. y.columns = columns /\ y.blocks[1] = Interval(sets, 1)
    BY <1>5, <1>7, <2>2
  <2> QED BY <2>1, <2>3
<1>13. LayoutFits(s, y, n)
  BY <1>6, <1>7, <1>9, <1>10, <1>11, <1>12 DEF LayoutFits
<1> QED BY <1>3, <1>13

-----------------------------------------------------------------------------
(* Rows and columns of a block that are still live. *)

\* A row of the recording: its slots lie in W and name its columns.
RowFits(row, W, B) ==
  DOMAIN row \subseteq B /\ \A k \in DOMAIN row : row[k].slot \in W /\ row[k].slot[2] = k

\* A recording, as a record.
IsRecording(s) ==
  s = [rows |-> s.rows, live |-> s.live, tape |-> s.tape, ok |-> s.ok, cancelled |-> s.cancelled,
       at |-> s.at, logical |-> s.logical]

\* The recording of the block B, from the support A of the right-hand side.
RecordFits(s, W, B, A) ==
  /\ IsRecording(s) /\ s.ok \in BOOLEAN
  /\ DOMAIN s.rows = B
  /\ \A r \in B : RowFits(s.rows[r], W, B)
  /\ s.tape \in Seq(Groups(W, B, Requests))
  /\ s.live \subseteq Positions \X Requests
  /\ s.at \in [B -> B] /\ s.logical \in [B -> B]
  /\ TapeLive(s.tape, A, s.live)

\* The slots a block can use.
SlotSpace(W, B) ==
  /\ B \subseteq Positions
  /\ \A r \in B, k \in B, j \in B : <<r, k, j>> \in W

\* The live columns of a row.
LEMMA LiveColumnsAre ==
  ASSUME NEW s, s.live \subseteq Positions \X Requests, NEW row
  PROVE  /\ LiveColumns(s, row) \subseteq Requests
         /\ \A x : x \in LiveColumns(s, row) <=> <<row, x>> \in s.live
<1>1. ASSUME NEW x, x \in LiveColumns(s, row) PROVE x \in Requests /\ <<row, x>> \in s.live
  <2>1. PICK a \in s.live : a[1] = row /\ x = a[2]
    BY <1>1 DEF LiveColumns
  <2>2. a \in Positions \X Requests
    OBVIOUS
  <2>3. a = <<a[1], a[2]>> /\ a[2] \in Requests
    BY <2>2
  <2> QED BY <2>1, <2>3
<1>2. ASSUME NEW x, <<row, x>> \in s.live PROVE x \in LiveColumns(s, row)
  BY <1>2 DEF LiveColumns
<1> QED BY <1>1, <1>2

\* Groups of one source on the columns D, put behind a tape.
Batch(u, D, src, L, L2) ==
  /\ \A i \in 1 .. Len(u) : u[i].src = src /\ u[i].rhs = D
  /\ \A x : <<src, x>> \in L => x \in D
  /\ \A i \in 1 .. Len(u) : \A x \in D : <<u[i].dst, x>> \in L2

\* A tape goes on covering what may be filled when such groups are added,
LEMMA LiveMore ==
  ASSUME NEW S, NEW t \in Seq(S), NEW u \in Seq(S), NEW A, NEW L, NEW L2, TapeLive(t, A, L),
         L \subseteq L2, NEW D, NEW src, Batch(u, D, src, L, L2)
  PROVE  TapeLive(t \o u, A, L2)
<1>1. PICK n, m, v : n = Len(t) /\ m = Len(u) /\ v = t \o u
  OBVIOUS
<1>2. /\ n \in Nat /\ m \in Nat /\ Len(v) = n + m
      /\ \A i \in 1 .. n : v[i] = t[i]
      /\ \A i \in 1 .. n + m : i > n => i - n \in 1 .. m /\ v[i] = u[i - n]
  BY <1>1, ConcatIs
<1>3. A \subseteq L2
  BY DEF TapeLive
<1>4. /\ \A i \in 1 .. m : u[i].src = src /\ u[i].rhs = D
      /\ \A x : <<src, x>> \in L => x \in D
      /\ \A i \in 1 .. m : \A x \in D : <<u[i].dst, x>> \in L2
  BY <1>1 DEF Batch
<1>5. ASSUME NEW i \in 1 .. n + m, i > n
      PROVE  v[i].src = src /\ v[i].rhs = D /\ \A x \in D : <<v[i].dst, x>> \in L2
  BY <1>2, <1>4, <1>5
<1>6. ASSUME NEW i \in 1 .. n, NEW x, x \in t[i].rhs PROVE <<t[i].dst, x>> \in L
  BY <1>1, <1>6 DEF TapeLive
<1>7. ASSUME NEW i \in 1 .. n + m, NEW x,
             \/ <<v[i].src, x>> \in A
             \/ \E j \in 1 .. i - 1 : v[j].dst = v[i].src /\ x \in v[j].rhs
      PROVE  x \in v[i].rhs
  <2>1. CASE i <= n
    <3>1. i \in 1 .. n /\ v[i] = t[i]
      BY <1>2, <2>1
    <3>2. CASE <<v[i].src, x>> \in A
      BY <1>1, <3>1, <3>2 DEF TapeLive
    <3>3. CASE \E j \in 1 .. i - 1 : v[j].dst = v[i].src /\ x \in v[j].rhs
      <4>1. PICK j \in 1 .. i - 1 : v[j].dst = v[i].src /\ x \in v[j].rhs
        BY <3>3
      <4>2. j \in 1 .. n
        BY <1>2, <3>1
      <4>3. v[j] = t[j]
        BY <1>2, <4>2
      <4>4. t[j].dst = t[i].src /\ x \in t[j].rhs
        BY <3>1, <4>1, <4>3
      <4>5. x \in t[i].rhs
        BY <1>1, <3>1, <4>4 DEF TapeLive
      <4> QED BY <3>1, <4>5
    <3> QED BY <1>7, <3>2, <3>3
  <2>2. CASE i > n
    <3>1. v[i].src = src /\ v[i].rhs = D
      BY <1>5, <2>2
    <3>2. CASE <<v[i].src, x>> \in A
      BY <1>4, <3>1, <3>2 DEF TapeLive
    <3>3. CASE \E j \in 1 .. i - 1 : v[j].dst = v[i].src /\ x \in v[j].rhs
      <4>1. PICK j \in 1 .. i - 1 : v[j].dst = v[i].src /\ x \in v[j].rhs
        BY <3>3
      <4>2. CASE j <= n
        <5>1. j \in 1 .. n
          BY <1>2, <4>2
        <5>2. v[j] = t[j]
          BY <1>2, <5>1
        <5>3. <<t[j].dst, x>> \in L
          BY <1>6, <4>1, <5>1, <5>2
        <5> QED BY <1>4, <3>1, <4>1, <5>2, <5>3
      <4>3. CASE j > n
        <5>1. j \in 1 .. n + m
          BY <1>2
        <5> QED BY <1>5, <3>1, <4>1, <4>3, <5>1
      <4>4. j \in Int
        OBVIOUS
      <4> QED BY <1>2, <4>2, <4>3, <4>4
    <3> QED BY <1>7, <3>2, <3>3
  <2>3. i \in Int
    OBVIOUS
  <2> QED BY <1>2, <2>1, <2>2, <2>3
<1>8. ASSUME NEW i \in 1 .. n + m, NEW x, x \in v[i].rhs PROVE <<v[i].dst, x>> \in L2
  <2>1. CASE i <= n
    <3>1. i \in 1 .. n
      BY <1>2, <2>1
    <3>2. v[i] = t[i]
      BY <1>2, <3>1
    <3> QED BY <1>6, <1>8, <3>1, <3>2
  <2>2. CASE i > n
    BY <1>5, <1>8, <2>2
  <2>3. i \in Int
    OBVIOUS
  <2> QED BY <1>2, <2>1, <2>2, <2>3
<1>9. TapeLive(v, A, L2)
  BY <1>2, <1>3, <1>7, <1>8 DEF TapeLive
<1> QED BY <1>1, <1>9

\* or one group.
LEMMA LiveAppend ==
  ASSUME NEW S, NEW t \in Seq(S), NEW g \in S, NEW A, NEW L, NEW L2, TapeLive(t, A, L),
         L \subseteq L2, \A x : <<g.src, x>> \in L => x \in g.rhs,
         \A x \in g.rhs : <<g.dst, x>> \in L2
  PROVE  TapeLive(Append(t, g), A, L2)
<1>1. PICK u : u = <<g>>
  OBVIOUS
<1>2. u \in Seq(S) /\ Len(u) = 1 /\ u[1] = g
  BY <1>1
<1>3. \A i \in 1 .. Len(u) : i = 1
  BY <1>2
<1>4. Batch(u, g.rhs, g.src, L, L2)
  BY <1>2, <1>3 DEF Batch
<1>5. TapeLive(t \o u, A, L2)
  BY <1>2, <1>4, LiveMore
<1>6. t \o u = Append(t, g)
  BY <1>1, AppendIsConcat
<1> QED BY <1>5, <1>6

-----------------------------------------------------------------------------
(* Choosing a pivot and recording its row. *)

\* The pivot is a candidate.
LEMMA PivotChosen ==
  ASSUME NEW s, NEW W, NEW B, NEW A, RecordFits(s, W, B, A), SlotSpace(W, B), NEW column,
         Candidates(s, column) # {}
  PROVE  /\ PivotRow(s, column) \in B /\ column \in DOMAIN s.rows[PivotRow(s, column)]
         /\ PivotRow(s, column) \in Candidates(s, column)
<1>1. PICK C : C = Candidates(s, column)
  OBVIOUS
<1>2. /\ B \subseteq Positions /\ Dim \in Nat /\ DOMAIN s.rows = B /\ s.logical \in [B -> B]
      /\ \A r \in B : DOMAIN s.rows[r] \subseteq B
  BY SystemsAssumption DEF RecordFits, SlotSpace, RowFits
<1>3. C \subseteq B /\ \A r \in C : column \in DOMAIN s.rows[r]
  BY <1>1, <1>2 DEF Candidates
<1>4. ASSUME NEW r \in C PROVE Cardinality(DOMAIN s.rows[r]) \in Nat /\ s.logical[r] \in Nat
  <2>1. DOMAIN s.rows[r] \subseteq Positions /\ s.logical[r] \in Positions
    BY <1>2, <1>3
  <2>2. IsFiniteSet(DOMAIN s.rows[r])
    <3>1. IsFiniteSet(Positions)
      BY <1>2, FS_Interval DEF Positions
    <3> QED BY <2>1, <3>1, FS_Subset
  <2> QED BY <1>2, <2>1, <2>2, FS_CardinalityType DEF Positions
<1>5. PICK z : z = [r \in C |-> Cardinality(DOMAIN s.rows[r])]
  OBVIOUS
<1>6. \A r \in C : z[r] = Cardinality(DOMAIN s.rows[r]) /\ z[r] \in Nat /\ s.logical[r] \in Nat
  BY <1>4, <1>5
<1>7. PICK a \in C : \A r \in C : z[a] <= z[r]
  <2>1. PICK N : N = {z[r] : r \in C}
    OBVIOUS
  <2>2. N \subseteq Nat /\ N # {}
    BY <1>1, <1>6, <2>1
  <2>3. PICK k \in N : \A y \in N : k <= y
    BY <2>2, Least
  <2> QED BY <2>1, <2>3
<1>8. PICK q \in C : z[q] = z[a] /\ \A r \in C : z[r] = z[a] => s.logical[q] <= s.logical[r]
  <2>1. PICK N : N = {s.logical[r] : r \in {x \in C : z[x] = z[a]}}
    OBVIOUS
  <2>2. N \subseteq Nat /\ N # {}
    BY <1>6, <1>7, <2>1
  <2>3. PICK k \in N : \A y \in N : k <= y
    BY <2>2, Least
  <2>4. PICK q \in C : z[q] = z[a] /\ k = s.logical[q]
    BY <2>1, <2>3
  <2>5. ASSUME NEW r \in C, z[r] = z[a] PROVE s.logical[q] <= s.logical[r]
    BY <2>1, <2>3, <2>4, <2>5
  <2> QED BY <2>4, <2>5
<1>9. ASSUME NEW r \in C
      PROVE  \/ z[q] < z[r]
             \/ z[q] = z[r] /\ s.logical[q] <= s.logical[r]
  <2>1. z[q] <= z[r] /\ z[q] \in Nat /\ z[r] \in Nat
    BY <1>6, <1>7, <1>8
  <2>2. CASE z[q] = z[r]
    BY <1>8, <2>2
  <2> QED BY <2>1, <2>2
<1>10. \A r \in C : \/ Cardinality(DOMAIN s.rows[q]) < Cardinality(DOMAIN s.rows[r])
                    \/ Cardinality(DOMAIN s.rows[q]) = Cardinality(DOMAIN s.rows[r])
                       /\ s.logical[q] <= s.logical[r]
  BY <1>6, <1>8, <1>9
<1>11. PivotRow(s, column) \in C
  BY <1>1, <1>10 DEF PivotRow
<1> QED BY <1>1, <1>3, <1>11

\* A group, by its parts.
LEMMA GroupIs ==
  ASSUME NEW W, NEW B, NEW kind \in {"scale", "eliminate"}, NEW dst \in B, NEW src \in B,
         kind = "scale" => dst = src,
         NEW slot \in W, NEW matrix, \A o \in matrix : o \in W \X W,
         \A o, q \in matrix : o[1] = q[1] => o = q, NEW rhs, rhs \subseteq Requests
  PROVE  [kind |-> kind, dst |-> dst, src |-> src, slot |-> slot, matrix |-> matrix, rhs |-> rhs]
           \in Groups(W, B, Requests)
<1>1. PICK g : g = [kind |-> kind, dst |-> dst, src |-> src, slot |-> slot, matrix |-> matrix,
                    rhs |-> rhs]
  OBVIOUS
<1>2. /\ g.kind = kind /\ g.dst = dst /\ g.src = src /\ g.slot = slot /\ g.matrix = matrix
      /\ g.rhs = rhs
  BY <1>1
<1>3. matrix \in SUBSET (W \X W) /\ rhs \in SUBSET Requests
  OBVIOUS
<1>4. g \in [kind : {"scale", "eliminate"}, dst : B, src : B, slot : W, matrix : SUBSET (W \X W),
             rhs : SUBSET Requests]
  BY <1>1, <1>3
<1> QED BY <1>1, <1>2, <1>4 DEF Groups

TakenRow(s, column, pivot) ==
  LET row == s.rows[pivot]
      after == {k \in DOMAIN row : k > column}
      inverse == Reciprocal(row[column].value)
  IN  [k \in DOMAIN row |-> IF k \in after THEN [row[k] EXCEPT !.value = (@ * inverse) % Prime]
                            ELSE row[k]]

TakenGroup(s, column, pivot) ==
  LET row == s.rows[pivot]
      after == {k \in DOMAIN row : k > column}
  IN  [kind |-> "scale", dst |-> pivot, src |-> pivot, slot |-> row[column].slot,
       matrix |-> {<<row[k].slot, row[k].slot>> : k \in after},
       rhs |-> LiveColumns(s, pivot)]

\* A recording by its parts, and one with some of them replaced.
RecordingOf(R, l, t, k, c, a, o) ==
  [rows |-> R, live |-> l, tape |-> t, ok |-> k, cancelled |-> c, at |-> a, logical |-> o]

WithPivot(s, y, u, v, p) == [s EXCEPT !.rows = y, !.at = u, !.logical = v, !.tape = p]

\* Replacing fields of a recording.
LEMMA RecordTaken ==
  ASSUME NEW R, NEW l, NEW t, NEW k, NEW c, NEW a, NEW o, NEW s, s = RecordingOf(R, l, t, k, c, a, o),
         NEW y, NEW u, NEW v, NEW p
  PROVE  WithPivot(s, y, u, v, p) = RecordingOf(y, l, p, k, c, u, v)
<1>0. s = [rows |-> R, live |-> l, tape |-> t, ok |-> k, cancelled |-> c, at |-> a, logical |-> o]
  BY DEF RecordingOf
<1>1. [s EXCEPT !.rows = y]
        = [rows |-> y, live |-> l, tape |-> t, ok |-> k, cancelled |-> c, at |-> a, logical |-> o]
  BY <1>0
<1>2. ASSUME NEW h,
             h = [rows |-> y, live |-> l, tape |-> t, ok |-> k, cancelled |-> c, at |-> a, logical |-> o]
      PROVE  [h EXCEPT !.at = u]
               = [rows |-> y, live |-> l, tape |-> t, ok |-> k, cancelled |-> c, at |-> u, logical |-> o]
  BY <1>2
<1>3. ASSUME NEW h,
             h = [rows |-> y, live |-> l, tape |-> t, ok |-> k, cancelled |-> c, at |-> u, logical |-> o]
      PROVE  [h EXCEPT !.logical = v]
               = [rows |-> y, live |-> l, tape |-> t, ok |-> k, cancelled |-> c, at |-> u, logical |-> v]
  BY <1>3
<1>4. ASSUME NEW h,
             h = [rows |-> y, live |-> l, tape |-> t, ok |-> k, cancelled |-> c, at |-> u, logical |-> v]
      PROVE  [h EXCEPT !.tape = p]
               = [rows |-> y, live |-> l, tape |-> p, ok |-> k, cancelled |-> c, at |-> u, logical |-> v]
  BY <1>4
<1>5. [[[[s EXCEPT !.rows = y] EXCEPT !.at = u] EXCEPT !.logical = v] EXCEPT !.tape = p]
        = [rows |-> y, live |-> l, tape |-> p, ok |-> k, cancelled |-> c, at |-> u, logical |-> v]
  BY <1>1, <1>2, <1>3, <1>4, Zenon
<1> QED BY <1>5 DEF RecordingOf, WithPivot

\* What TakePivot does.
LEMMA TakePivotIs ==
  ASSUME NEW s, IsRecording(s), NEW column, NEW pivot
  PROVE  TakePivot(s, column, pivot) =
           [rows |-> [s.rows EXCEPT ![pivot] = TakenRow(s, column, pivot)],
            live |-> s.live,
            tape |-> Append(s.tape, TakenGroup(s, column, pivot)),
            ok |-> s.ok, cancelled |-> s.cancelled,
            at |-> [s.at EXCEPT ![s.logical[pivot]] = s.at[column], ![column] = pivot],
            logical |-> [s.logical EXCEPT ![s.at[column]] = s.logical[pivot], ![pivot] = column]]
<1>1. PICK R, l, t, k, c, a, o : /\ R = s.rows /\ l = s.live /\ t = s.tape /\ k = s.ok
                                 /\ c = s.cancelled /\ a = s.at /\ o = s.logical
  OBVIOUS
<1>2. s = [rows |-> R, live |-> l, tape |-> t, ok |-> k, cancelled |-> c, at |-> a, logical |-> o]
  BY <1>1 DEF IsRecording
<1>3. PICK x, g, u, v : /\ x = TakenRow(s, column, pivot) /\ g = TakenGroup(s, column, pivot)
                        /\ u = [a EXCEPT ![o[pivot]] = a[column], ![column] = pivot]
                        /\ v = [o EXCEPT ![a[column]] = o[pivot], ![pivot] = column]
  OBVIOUS
<1>4. TakePivot(s, column, pivot)
        = [s EXCEPT !.rows[pivot] = x, !.at = u, !.logical = v, !.tape = Append(s.tape, g)]
  BY <1>1, <1>3 DEF TakePivot, TakenRow, TakenGroup
<1>5. [s EXCEPT !.rows[pivot] = x, !.at = u, !.logical = v, !.tape = Append(s.tape, g)]
        = [rows |-> [R EXCEPT ![pivot] = x], live |-> l, tape |-> Append(t, g), ok |-> k,
           cancelled |-> c, at |-> u, logical |-> v]
  <2>1. PICK y, p : y = [R EXCEPT ![pivot] = x] /\ p = Append(t, g)
    OBVIOUS
  <2>2. [s EXCEPT !.rows = y, !.at = u, !.logical = v, !.tape = p]
          = [rows |-> y, live |-> l, tape |-> p, ok |-> k, cancelled |-> c, at |-> u, logical |-> v]
    <3>1. s = RecordingOf(R, l, t, k, c, a, o)
      BY <1>2 DEF RecordingOf
    <3>2. WithPivot(s, y, u, v, p) = RecordingOf(y, l, p, k, c, u, v)
      BY <3>1, RecordTaken
    <3> QED BY <3>2 DEF RecordingOf, WithPivot
  <2>3. [s EXCEPT !.rows[pivot] = x, !.at = u, !.logical = v, !.tape = Append(s.tape, g)]
          = [s EXCEPT !.rows = [s.rows EXCEPT ![pivot] = x], !.at = u, !.logical = v,
                      !.tape = Append(s.tape, g)]
    OBVIOUS
  <2> QED BY <1>1, <2>1, <2>2, <2>3
<1> QED BY <1>1, <1>3, <1>4, <1>5

\* It keeps the invariant.
LEMMA TakenFits ==
  ASSUME NEW s, NEW W, NEW B, NEW A, RecordFits(s, W, B, A), SlotSpace(W, B), NEW column \in B,
         NEW pivot \in B, column \in DOMAIN s.rows[pivot]
  PROVE  LET t == TakePivot(s, column, pivot)
         IN  /\ RecordFits(t, W, B, A)
             /\ \A r \in B : DOMAIN t.rows[r] = DOMAIN s.rows[r]
<1>1. PICK t, x, g : t = TakePivot(s, column, pivot) /\ x = TakenRow(s, column, pivot)
                     /\ g = TakenGroup(s, column, pivot)
  OBVIOUS
<1>2. /\ IsRecording(s) /\ s.ok \in BOOLEAN /\ DOMAIN s.rows = B
      /\ \A r \in B : RowFits(s.rows[r], W, B)
      /\ s.tape \in Seq(Groups(W, B, Requests)) /\ s.live \subseteq Positions \X Requests
      /\ s.at \in [B -> B] /\ s.logical \in [B -> B] /\ TapeLive(s.tape, A, s.live)
  BY DEF RecordFits
<1>3. t = [rows |-> [s.rows EXCEPT ![pivot] = x], live |-> s.live, tape |-> Append(s.tape, g),
           ok |-> s.ok, cancelled |-> s.cancelled,
           at |-> [s.at EXCEPT ![s.logical[pivot]] = s.at[column], ![column] = pivot],
           logical |-> [s.logical EXCEPT ![s.at[column]] = s.logical[pivot], ![pivot] = column]]
  BY <1>1, <1>2, TakePivotIs
<1>4. PICK row, after : row = s.rows[pivot] /\ after = {k \in DOMAIN row : k > column}
  OBVIOUS
<1>5. RowFits(row, W, B) /\ column \in DOMAIN row
  BY <1>2, <1>4
<1>6. /\ DOMAIN x = DOMAIN row
      /\ \A k \in DOMAIN row : x[k] = IF k \in after THEN [row[k] EXCEPT !.value = (@ * Reciprocal(row[column].value)) % Prime]
                                      ELSE row[k]
  BY <1>1, <1>4 DEF TakenRow
<1>7. RowFits(x, W, B)
  <2>1. ASSUME NEW k \in DOMAIN row PROVE x[k].slot \in W /\ x[k].slot[2] = k
    <3>1. row[k].slot \in W /\ row[k].slot[2] = k
      BY <1>5 DEF RowFits
    <3>2. PICK z : z = (row[k].value * Reciprocal(row[column].value)) % Prime
      OBVIOUS
    <3>3. x[k] = IF k \in after THEN [row[k] EXCEPT !.value = z] ELSE row[k]
      BY <1>6, <3>2
    <3> QED BY <3>1, <3>3
  <2> QED BY <1>5, <1>6, <2>1 DEF RowFits
<1>8. g = [kind |-> "scale", dst |-> pivot, src |-> pivot, slot |-> row[column].slot,
           matrix |-> {<<row[k].slot, row[k].slot>> : k \in after}, rhs |-> LiveColumns(s, pivot)]
  BY <1>1, <1>4 DEF TakenGroup
<1>9. LiveColumns(s, pivot) \subseteq Requests
      /\ \A y : y \in LiveColumns(s, pivot) <=> <<pivot, y>> \in s.live
  BY <1>2, LiveColumnsAre
<1>10. g \in Groups(W, B, Requests) /\ g.src = pivot /\ g.dst = pivot /\ g.rhs = LiveColumns(s, pivot)
  <2>1. PICK M : M = {<<row[k].slot, row[k].slot>> : k \in after}
    OBVIOUS
  <2>2. ASSUME NEW o \in M PROVE o \in W \X W /\ o[1] = o[2] /\ o = <<o[1], o[2]>>
    <3>1. PICK k \in after : o = <<row[k].slot, row[k].slot>>
      BY <2>1
    <3>2. row[k].slot \in W
      BY <1>4, <1>5 DEF RowFits
    <3> QED BY <3>1, <3>2
  <2>3. ASSUME NEW o \in M, NEW q \in M, o[1] = q[1] PROVE o = q
    BY <2>2, <2>3
  <2>4. row[column].slot \in W
    BY <1>5 DEF RowFits
  <2>5. [kind |-> "scale", dst |-> pivot, src |-> pivot, slot |-> row[column].slot, matrix |-> M,
         rhs |-> LiveColumns(s, pivot)] \in Groups(W, B, Requests)
    BY <1>9, <2>2, <2>3, <2>4, GroupIs
  <2> QED BY <1>8, <2>1, <2>5
<1>11. Append(s.tape, g) \in Seq(Groups(W, B, Requests)) /\ TapeLive(Append(s.tape, g), A, s.live)
  <2>1. Append(s.tape, g) \in Seq(Groups(W, B, Requests))
    BY <1>2, <1>10, AppendProperties
  <2>2. \A y : <<g.src, y>> \in s.live => y \in g.rhs
    BY <1>9, <1>10
  <2>3. \A y \in g.rhs : <<g.dst, y>> \in s.live
    BY <1>9, <1>10
  <2>4. PICK S : S = Groups(W, B, Requests)
    OBVIOUS
  <2>5. s.tape \in Seq(S) /\ g \in S
    BY <1>2, <1>10, <2>4
  <2>6. TapeLive(Append(s.tape, g), A, s.live)
    BY <1>2, <2>2, <2>3, <2>5, LiveAppend
  <2> QED BY <2>1, <2>6
<1>12. /\ t.rows = [s.rows EXCEPT ![pivot] = x] /\ t.live = s.live /\ t.tape = Append(s.tape, g)
       /\ t.ok = s.ok
       /\ t.at = [s.at EXCEPT ![s.logical[pivot]] = s.at[column], ![column] = pivot]
       /\ t.logical = [s.logical EXCEPT ![s.at[column]] = s.logical[pivot], ![pivot] = column]
       /\ IsRecording(t)
  BY <1>3 DEF IsRecording
<1>13. t.at \in [B -> B] /\ t.logical \in [B -> B]
  <2>1. PICK u, v : u = s.at /\ v = s.logical
    OBVIOUS
  <2>2. u \in [B -> B] /\ v \in [B -> B] /\ u[column] \in B /\ v[pivot] \in B
    BY <1>2, <2>1
  <2>3. [u EXCEPT ![v[pivot]] = u[column], ![column] = pivot] \in [B -> B]
    BY <2>2
  <2>4. [v EXCEPT ![u[column]] = v[pivot], ![pivot] = column] \in [B -> B]
    BY <2>2
  <2> QED BY <1>12, <2>1, <2>3, <2>4
<1>14. DOMAIN t.rows = B /\ \A r \in B : t.rows[r] = IF r = pivot THEN x ELSE s.rows[r]
  BY <1>2, <1>12
<1>15. \A r \in B : RowFits(t.rows[r], W, B) /\ DOMAIN t.rows[r] = DOMAIN s.rows[r]
  BY <1>2, <1>4, <1>6, <1>7, <1>14
<1>16. RecordFits(t, W, B, A)
  BY <1>2, <1>11, <1>12, <1>13, <1>14, <1>15 DEF RecordFits
<1> QED BY <1>1, <1>15, <1>16

-----------------------------------------------------------------------------
(* Recording a row operation. *)

\* The pieces of EliminateRow.
Old(s, column, row) == DOMAIN s.rows[row] \ {column}
SourceKeys(s, column, pivot) == {j \in DOMAIN s.rows[pivot] : j > column}
SlotAt(s, column, row, k) ==
  IF k \in Old(s, column, row) THEN s.rows[row][k].slot ELSE <<row, k, column>>
ValueAt(s, column, pivot, row, k) ==
  SubtractMultiply(IF k \in Old(s, column, row) THEN s.rows[row][k].value ELSE 0,
                   s.rows[row][column].value,
                   IF k \in SourceKeys(s, column, pivot) THEN s.rows[pivot][k].value ELSE 0)
KeptKeys(s, column, pivot, row) ==
  {k \in Old(s, column, row) \union SourceKeys(s, column, pivot) :
     ValueAt(s, column, pivot, row, k) # 0}
NewRow(s, column, pivot, row) ==
  [k \in KeptKeys(s, column, pivot, row) |->
     [slot |-> SlotAt(s, column, row, k), value |-> ValueAt(s, column, pivot, row, k)]]
NewPairs(s, column, pivot, row) ==
  {<<SlotAt(s, column, row, k), s.rows[pivot][k].slot>> : k \in SourceKeys(s, column, pivot)}
NewGroup(s, column, pivot, row) ==
  [kind |-> "eliminate", dst |-> row, src |-> pivot, slot |-> s.rows[row][column].slot,
   matrix |-> NewPairs(s, column, pivot, row), rhs |-> LiveColumns(s, pivot)]

WithRow(s, y, p, l, b) == [s EXCEPT !.rows = y, !.tape = p, !.live = l, !.cancelled = b]

\* Replacing other fields.
LEMMA RecordRow ==
  ASSUME NEW R, NEW l, NEW t, NEW k, NEW c, NEW a, NEW o, NEW s, s = RecordingOf(R, l, t, k, c, a, o),
         NEW y, NEW p, NEW u, NEW b
  PROVE  WithRow(s, y, p, u, b) = RecordingOf(y, u, p, k, b, a, o)
<1>0. s = [rows |-> R, live |-> l, tape |-> t, ok |-> k, cancelled |-> c, at |-> a, logical |-> o]
  BY DEF RecordingOf
<1>1. [s EXCEPT !.rows = y]
        = [rows |-> y, live |-> l, tape |-> t, ok |-> k, cancelled |-> c, at |-> a, logical |-> o]
  BY <1>0
<1>2. ASSUME NEW h,
             h = [rows |-> y, live |-> l, tape |-> t, ok |-> k, cancelled |-> c, at |-> a, logical |-> o]
      PROVE  [h EXCEPT !.tape = p]
               = [rows |-> y, live |-> l, tape |-> p, ok |-> k, cancelled |-> c, at |-> a, logical |-> o]
  BY <1>2
<1>3. ASSUME NEW h,
             h = [rows |-> y, live |-> l, tape |-> p, ok |-> k, cancelled |-> c, at |-> a, logical |-> o]
      PROVE  [h EXCEPT !.live = u]
               = [rows |-> y, live |-> u, tape |-> p, ok |-> k, cancelled |-> c, at |-> a, logical |-> o]
  BY <1>3
<1>4. ASSUME NEW h,
             h = [rows |-> y, live |-> u, tape |-> p, ok |-> k, cancelled |-> c, at |-> a, logical |-> o]
      PROVE  [h EXCEPT !.cancelled = b]
               = [rows |-> y, live |-> u, tape |-> p, ok |-> k, cancelled |-> b, at |-> a, logical |-> o]
  BY <1>4
<1>5. [[[[s EXCEPT !.rows = y] EXCEPT !.tape = p] EXCEPT !.live = u] EXCEPT !.cancelled = b]
        = [rows |-> y, live |-> u, tape |-> p, ok |-> k, cancelled |-> b, at |-> a, logical |-> o]
  BY <1>1, <1>2, <1>3, <1>4, Zenon
<1> QED BY <1>5 DEF RecordingOf, WithRow

\* The fields of a recording.
LEMMA RecordingParts ==
  ASSUME NEW R, NEW l, NEW t, NEW k, NEW c, NEW a, NEW o, NEW s, s = RecordingOf(R, l, t, k, c, a, o)
  PROVE  /\ IsRecording(s) /\ s.rows = R /\ s.live = l /\ s.tape = t /\ s.ok = k /\ s.cancelled = c
         /\ s.at = a /\ s.logical = o
BY DEF RecordingOf, IsRecording

\* What EliminateRow does.
LEMMA EliminateRowIs ==
  ASSUME NEW s, IsRecording(s), NEW column, NEW pivot, NEW row
  PROVE  LET x == EliminateRow(s, column, pivot, row)
         IN  /\ IsRecording(x) /\ x.rows = [s.rows EXCEPT ![row] = NewRow(s, column, pivot, row)]
             /\ x.live = s.live \union ({row} \X LiveColumns(s, pivot))
             /\ x.tape = Append(s.tape, NewGroup(s, column, pivot, row))
             /\ x.ok = s.ok /\ x.at = s.at /\ x.logical = s.logical
<1>1. PICK R, l, t, k, c, a, o : /\ R = s.rows /\ l = s.live /\ t = s.tape /\ k = s.ok
                                 /\ c = s.cancelled /\ a = s.at /\ o = s.logical
  OBVIOUS
<1>2. s = RecordingOf(R, l, t, k, c, a, o)
  BY <1>1 DEF IsRecording, RecordingOf
<1>3. PICK src : src = [k1 \in {j \in DOMAIN s.rows[pivot] : j > column} |-> s.rows[pivot][k1]]
  OBVIOUS
<1>4. DOMAIN src = SourceKeys(s, column, pivot)
      /\ \A j \in SourceKeys(s, column, pivot) : src[j] = s.rows[pivot][j]
  BY <1>3 DEF SourceKeys
<1>5. PICK y, p, u, b : /\ y = [s.rows EXCEPT ![row] = NewRow(s, column, pivot, row)]
                        /\ p = Append(s.tape, NewGroup(s, column, pivot, row))
                        /\ u = s.live \union ({row} \X LiveColumns(s, pivot))
                        /\ b = (s.cancelled \/ KeptKeys(s, column, pivot, row)
                                  # Old(s, column, row) \union SourceKeys(s, column, pivot))
  OBVIOUS
<1>6. EliminateRow(s, column, pivot, row) = WithRow(s, y, p, u, b)
  <2>1. ASSUME NEW j
        PROVE SubtractMultiply(IF j \in DOMAIN s.rows[row] \ {column} THEN s.rows[row][j].value ELSE 0,
                   s.rows[row][column].value,
                   IF j \in DOMAIN src THEN src[j].value ELSE 0) = ValueAt(s, column, pivot, row, j)
    <3>1. (IF j \in DOMAIN src THEN src[j].value ELSE 0)
            = (IF j \in SourceKeys(s, column, pivot) THEN s.rows[pivot][j].value ELSE 0)
      BY <1>4
    <3>2. (IF j \in DOMAIN s.rows[row] \ {column} THEN s.rows[row][j].value ELSE 0)
            = (IF j \in Old(s, column, row) THEN s.rows[row][j].value ELSE 0)
      BY DEF Old
    <3> QED BY <3>1, <3>2 DEF ValueAt
  <2>2. ASSUME NEW j
        PROVE (IF j \in DOMAIN s.rows[row] \ {column} THEN s.rows[row][j].slot ELSE <<row, j, column>>)
                = SlotAt(s, column, row, j)
    BY DEF SlotAt, Old
  <2>3. PICK K : K = {j \in (DOMAIN s.rows[row] \ {column}) \union DOMAIN src :
                SubtractMultiply(IF j \in DOMAIN s.rows[row] \ {column} THEN s.rows[row][j].value ELSE 0,
                   s.rows[row][column].value,
                   IF j \in DOMAIN src THEN src[j].value ELSE 0) # 0}
    OBVIOUS
  <2>4. K = KeptKeys(s, column, pivot, row)
    BY <1>4, <2>1, <2>3 DEF KeptKeys, Old
  <2>5. [j \in K |->
           [slot |-> IF j \in DOMAIN s.rows[row] \ {column} THEN s.rows[row][j].slot ELSE <<row, j, column>>,
            value |-> SubtractMultiply(
                   IF j \in DOMAIN s.rows[row] \ {column} THEN s.rows[row][j].value ELSE 0,
                   s.rows[row][column].value,
                   IF j \in DOMAIN src THEN src[j].value ELSE 0)]]
          = NewRow(s, column, pivot, row)
    BY <2>1, <2>2, <2>4 DEF NewRow
  <2>6. {<<IF j \in DOMAIN s.rows[row] \ {column} THEN s.rows[row][j].slot ELSE <<row, j, column>>,
           src[j].slot>> : j \in DOMAIN src} = NewPairs(s, column, pivot, row)
    BY <1>4, <2>2 DEF NewPairs
  <2>7. (DOMAIN s.rows[row] \ {column}) \union DOMAIN src
          = Old(s, column, row) \union SourceKeys(s, column, pivot)
    BY <1>4 DEF Old
  <2>8. EliminateRow(s, column, pivot, row) =
          [s EXCEPT !.rows[row] = [j \in K |->
                      [slot |-> IF j \in DOMAIN s.rows[row] \ {column} THEN s.rows[row][j].slot
                                ELSE <<row, j, column>>,
                       value |-> SubtractMultiply(
                         IF j \in DOMAIN s.rows[row] \ {column} THEN s.rows[row][j].value ELSE 0,
                         s.rows[row][column].value,
                         IF j \in DOMAIN src THEN src[j].value ELSE 0)]],
                    !.tape = Append(s.tape,
                      [kind |-> "eliminate", dst |-> row, src |-> pivot,
                       slot |-> s.rows[row][column].slot,
                       matrix |-> {<<IF j \in DOMAIN s.rows[row] \ {column} THEN s.rows[row][j].slot
                                     ELSE <<row, j, column>>, src[j].slot>> : j \in DOMAIN src},
                       rhs |-> LiveColumns(s, pivot)]),
                    !.live = s.live \union ({row} \X LiveColumns(s, pivot)),
                    !.cancelled = s.cancelled \/ K # (DOMAIN s.rows[row] \ {column}) \union DOMAIN src]
    BY <1>3, <2>3 DEF EliminateRow
  <2>9. EliminateRow(s, column, pivot, row) =
          [s EXCEPT !.rows[row] = NewRow(s, column, pivot, row),
                    !.tape = Append(s.tape,
                      [kind |-> "eliminate", dst |-> row, src |-> pivot,
                       slot |-> s.rows[row][column].slot,
                       matrix |-> NewPairs(s, column, pivot, row),
                       rhs |-> LiveColumns(s, pivot)]),
                    !.live = s.live \union ({row} \X LiveColumns(s, pivot)),
                    !.cancelled = s.cancelled \/ KeptKeys(s, column, pivot, row)
                       # Old(s, column, row) \union SourceKeys(s, column, pivot)]
    BY <2>4, <2>5, <2>6, <2>7, <2>8, Zenon
  <2> QED BY <1>5, <2>9 DEF WithRow, NewGroup
<1>7. EliminateRow(s, column, pivot, row) = RecordingOf(y, u, p, k, b, a, o)
  BY <1>2, <1>6, RecordRow
<1>8. PICK x : x = EliminateRow(s, column, pivot, row)
  OBVIOUS
<1>9. IsRecording(x) /\ x.rows = y /\ x.live = u /\ x.tape = p /\ x.ok = k /\ x.at = a /\ x.logical = o
  BY <1>7, <1>8, RecordingParts
<1> QED BY <1>1, <1>5, <1>8, <1>9

-----------------------------------------------------------------------------
(* An elimination that is recorded stays within its block. *)

\* It keeps the invariant.
LEMMA EliminateFits ==
  ASSUME NEW s, NEW W, NEW B, NEW A, RecordFits(s, W, B, A), SlotSpace(W, B), NEW column \in B,
         NEW pivot \in B, NEW row \in B, column \in DOMAIN s.rows[row]
  PROVE  LET x == EliminateRow(s, column, pivot, row)
         IN  /\ RecordFits(x, W, B, A)
             /\ \A r \in B : r # row => x.rows[r] = s.rows[r]
<1>1. /\ IsRecording(s) /\ s.ok \in BOOLEAN /\ DOMAIN s.rows = B
      /\ \A r \in B : RowFits(s.rows[r], W, B)
      /\ s.tape \in Seq(Groups(W, B, Requests)) /\ s.live \subseteq Positions \X Requests
      /\ s.at \in [B -> B] /\ s.logical \in [B -> B] /\ TapeLive(s.tape, A, s.live)
  BY DEF RecordFits
<1>2. PICK x, g, y, L : /\ x = EliminateRow(s, column, pivot, row) /\ g = NewGroup(s, column, pivot, row)
                        /\ y = NewRow(s, column, pivot, row) /\ L = LiveColumns(s, pivot)
  OBVIOUS
<1>3. /\ IsRecording(x) /\ x.rows = [s.rows EXCEPT ![row] = y]
      /\ x.live = s.live \union ({row} \X L)
      /\ x.tape = Append(s.tape, g)
      /\ x.ok = s.ok /\ x.at = s.at /\ x.logical = s.logical
  BY <1>1, <1>2, EliminateRowIs
<1>4. L \subseteq Requests /\ \A z : z \in L <=> <<pivot, z>> \in s.live
  BY <1>1, <1>2, LiveColumnsAre
<1>5. B \subseteq Positions /\ \A r \in B, k \in B, j \in B : <<r, k, j>> \in W
  BY DEF SlotSpace
<1>6. RowFits(s.rows[row], W, B) /\ RowFits(s.rows[pivot], W, B)
  BY <1>1
<1>7. Old(s, column, row) \subseteq DOMAIN s.rows[row] /\ Old(s, column, row) \subseteq B
      /\ SourceKeys(s, column, pivot) \subseteq DOMAIN s.rows[pivot]
      /\ SourceKeys(s, column, pivot) \subseteq B
  BY <1>6 DEF RowFits, Old, SourceKeys
<1>8. ASSUME NEW k \in B
      PROVE  SlotAt(s, column, row, k) \in W /\ SlotAt(s, column, row, k)[2] = k
  <2>1. CASE k \in Old(s, column, row)
    <3>1. k \in DOMAIN s.rows[row]
      BY <1>7, <2>1
    <3>2. s.rows[row][k].slot \in W /\ s.rows[row][k].slot[2] = k
      BY <1>6, <3>1 DEF RowFits
    <3> QED BY <2>1, <3>2 DEF SlotAt
  <2>2. CASE k \notin Old(s, column, row)
    <3>1. SlotAt(s, column, row, k) = <<row, k, column>>
      BY <2>2 DEF SlotAt
    <3>2. <<row, k, column>> \in W /\ <<row, k, column>>[2] = k
      BY <1>5
    <3> QED BY <3>1, <3>2
  <2> QED BY <2>1, <2>2
<1>9. RowFits(y, W, B)
  <2>1. PICK K : K = KeptKeys(s, column, pivot, row)
    OBVIOUS
  <2>2. K \subseteq B
    BY <1>7, <2>1 DEF KeptKeys
  <2>3. y = [k \in K |-> [slot |-> SlotAt(s, column, row, k), value |-> ValueAt(s, column, pivot, row, k)]]
    BY <1>2, <2>1 DEF NewRow
  <2>4. DOMAIN y = K /\ \A k \in K : y[k].slot = SlotAt(s, column, row, k)
    BY <2>3
  <2> QED BY <1>8, <2>2, <2>4 DEF RowFits
<1>10. g \in Groups(W, B, Requests) /\ g.src = pivot /\ g.dst = row /\ g.rhs = L
  <2>1. PICK M : M = NewPairs(s, column, pivot, row)
    OBVIOUS
  <2>2. ASSUME NEW o \in M
        PROVE  \E k \in B : /\ k \in DOMAIN s.rows[pivot]
                            /\ o = <<SlotAt(s, column, row, k), s.rows[pivot][k].slot>>
    BY <1>7, <2>1 DEF NewPairs
  <2>3. ASSUME NEW o \in M PROVE o \in W \X W
    <3>1. PICK k \in B : /\ k \in DOMAIN s.rows[pivot]
                         /\ o = <<SlotAt(s, column, row, k), s.rows[pivot][k].slot>>
      BY <2>2
    <3>2. SlotAt(s, column, row, k) \in W /\ s.rows[pivot][k].slot \in W
      BY <1>6, <1>8, <3>1 DEF RowFits
    <3> QED BY <3>1, <3>2
  <2>4. ASSUME NEW o \in M, NEW q \in M, o[1] = q[1] PROVE o = q
    <3>1. PICK k \in B : o = <<SlotAt(s, column, row, k), s.rows[pivot][k].slot>>
      BY <2>2
    <3>2. PICK j \in B : q = <<SlotAt(s, column, row, j), s.rows[pivot][j].slot>>
      BY <2>2
    <3>3. SlotAt(s, column, row, k) = SlotAt(s, column, row, j)
      BY <2>4, <3>1, <3>2
    <3>4. k = j
      BY <1>8, <3>3
    <3> QED BY <3>1, <3>2, <3>4
  <2>5. s.rows[row][column].slot \in W
    BY <1>6 DEF RowFits
  <2>6. g = [kind |-> "eliminate", dst |-> row, src |-> pivot, slot |-> s.rows[row][column].slot,
             matrix |-> M, rhs |-> L]
    BY <1>2, <2>1 DEF NewGroup
  <2>7. [kind |-> "eliminate", dst |-> row, src |-> pivot, slot |-> s.rows[row][column].slot,
             matrix |-> M, rhs |-> L] \in Groups(W, B, Requests)
    BY <1>4, <2>3, <2>4, <2>5, GroupIs
  <2> QED BY <2>6, <2>7
<1>11. /\ x.tape \in Seq(Groups(W, B, Requests)) /\ TapeLive(x.tape, A, x.live)
       /\ x.live \subseteq Positions \X Requests
  <2>1. Append(s.tape, g) \in Seq(Groups(W, B, Requests))
    BY <1>1, <1>10, AppendProperties
  <2>2. s.live \subseteq x.live /\ \A z \in L : <<row, z>> \in x.live
    BY <1>3
  <2>3. x.live \subseteq Positions \X Requests
    BY <1>1, <1>3, <1>4, <1>5
  <2>4. PICK S : S = Groups(W, B, Requests)
    OBVIOUS
  <2>5. s.tape \in Seq(S) /\ g \in S
    BY <1>1, <1>10, <2>4
  <2>6. (\A z : <<g.src, z>> \in s.live => z \in g.rhs) /\ \A z \in g.rhs : <<g.dst, z>> \in x.live
    BY <1>4, <1>10, <2>2
  <2>7. TapeLive(Append(s.tape, g), A, x.live)
    BY <1>1, <2>2, <2>5, <2>6, LiveAppend
  <2> QED BY <1>3, <2>1, <2>3, <2>7
<1>12. DOMAIN x.rows = B /\ \A r \in B : x.rows[r] = IF r = row THEN y ELSE s.rows[r]
  BY <1>1, <1>3
<1>13. \A r \in B : RowFits(x.rows[r], W, B)
  BY <1>1, <1>9, <1>12
<1>14. RecordFits(x, W, B, A)
  BY <1>1, <1>3, <1>11, <1>12, <1>13 DEF RecordFits
<1> QED BY <1>2, <1>12, <1>14

WithOk(s, n) == [s EXCEPT !.ok = n]

\* A refusal replaces one field.
LEMMA RecordRefused ==
  ASSUME NEW R, NEW l, NEW t, NEW k, NEW c, NEW a, NEW o, NEW s, s = RecordingOf(R, l, t, k, c, a, o),
         NEW n
  PROVE  WithOk(s, n) = RecordingOf(R, l, t, n, c, a, o)
<1>0. s = [rows |-> R, live |-> l, tape |-> t, ok |-> k, cancelled |-> c, at |-> a, logical |-> o]
  BY DEF RecordingOf
<1>1. [s EXCEPT !.ok = n]
        = [rows |-> R, live |-> l, tape |-> t, ok |-> n, cancelled |-> c, at |-> a, logical |-> o]
  BY <1>0
<1> QED BY <1>1 DEF RecordingOf, WithOk

\* It keeps the invariant.
LEMMA NotOkFits ==
  ASSUME NEW s, NEW W, NEW B, NEW A, RecordFits(s, W, B, A)
  PROVE  RecordFits([s EXCEPT !.ok = FALSE], W, B, A)
<1>1. ASSUME NEW n \in BOOLEAN PROVE RecordFits(WithOk(s, n), W, B, A)
  <2>1. PICK R, l, t, k, c, a, o : /\ R = s.rows /\ l = s.live /\ t = s.tape /\ k = s.ok
                                   /\ c = s.cancelled /\ a = s.at /\ o = s.logical
    OBVIOUS
  <2>2. s = RecordingOf(R, l, t, k, c, a, o)
    BY <2>1 DEF RecordFits, IsRecording, RecordingOf
  <2>3. PICK x : x = WithOk(s, n)
    OBVIOUS
  <2>4. x = RecordingOf(R, l, t, n, c, a, o)
    BY <2>2, <2>3, RecordRefused
  <2>5. /\ IsRecording(x) /\ x.rows = R /\ x.live = l /\ x.tape = t /\ x.ok = n
        /\ x.at = a /\ x.logical = o
    BY <2>4, RecordingParts
  <2>6. RecordFits(x, W, B, A)
    BY <2>1, <2>5 DEF RecordFits
  <2> QED BY <2>3, <2>6
<1>2. RecordFits(WithOk(s, FALSE), W, B, A)
  BY <1>1
<1> QED BY <1>2 DEF WithOk

-----------------------------------------------------------------------------
(* The columns of a recording, in ascending order. *)

\* Positions in ascending order.
LEMMA AscendingOf ==
  ASSUME NEW S, S \subseteq Positions
  PROVE  /\ IsFiniteSet(S) /\ Cardinality(S) \in Nat
         /\ Ascending(S) \in Seq(S) /\ DOMAIN Ascending(S) = 1 .. Cardinality(S)
         /\ Len(Ascending(S)) = Cardinality(S)
         /\ \A i \in 1 .. Cardinality(S) : Ascending(S)[i] \in S
         /\ \A i, j \in 1 .. Cardinality(S) : Ascending(S)[i] = Ascending(S)[j] => i = j
<1>1. Dim \in Nat
  BY SystemsAssumption
<1>2. IsFiniteSet(Positions)
  BY <1>1, FS_Interval DEF Positions
<1>3. IsFiniteSet(S)
  BY <1>2, FS_Subset
<1>4. S \subseteq Int
  BY <1>1 DEF Positions
<1>5. Cardinality(S) \in Nat
  BY <1>3, FS_CardinalityType
<1>6. PICK u : u = Ascending(S)
  OBVIOUS
<1>7. u \in Seq(S) /\ DOMAIN u = 1 .. Cardinality(S) /\ \A i, j \in DOMAIN u : u[i] = u[j] => i = j
  BY <1>3, <1>4, <1>6, AscendingIs
<1>8. /\ DOMAIN u = 1 .. Len(u) /\ Len(u) \in Nat
      /\ \A i \in DOMAIN u : u[i] \in S
  BY <1>7, SequenceIs
<1>9. Len(u) = Cardinality(S)
  BY <1>5, <1>7, <1>8
<1> QED BY <1>3, <1>5, <1>6, <1>7, <1>8, <1>9

\* The rows not yet eliminated are as they were.
RowsWait(g, taken, seq, n, i) == \A j \in i + 1 .. n : g[i].rows[seq[j]] = taken.rows[seq[j]]

\* Recording a column keeps the invariant.
LEMMA RecordColumnFits ==
  ASSUME NEW s, NEW W, NEW B, NEW A, RecordFits(s, W, B, A), SlotSpace(W, B), NEW column \in B
  PROVE  RecordFits(RecordColumn(s, column), W, B, A)
<1>1. PICK c : c = [column |-> column, pivot |-> PivotRow(s, column)]
  OBVIOUS
<1>2. c.column = column /\ c.pivot = PivotRow(s, column)
  BY <1>1
<1>3. RecordColumn(s, column) = ColumnRecorded(s, column, c)
  BY <1>2, RecordColumnFold
<1>4. CASE ~s.ok \/ Candidates(s, column) = {}
  BY <1>3, <1>4, NotOkFits DEF ColumnRecorded
<1>5. CASE ~(~s.ok \/ Candidates(s, column) = {})
  <2>1. PICK pivot, taken : pivot = PivotRow(s, column) /\ taken = TakePivot(s, column, pivot)
    OBVIOUS
  <2>2. pivot \in B /\ column \in DOMAIN s.rows[pivot]
    BY <1>5, <2>1, PivotChosen
  <2>3. RecordFits(taken, W, B, A)
    BY <2>1, <2>2, TakenFits
  <2>4. PICK S, seq : S = {r \in Candidates(taken, column) : taken.logical[r] > column}
                      /\ seq = Ascending(S)
    OBVIOUS
  <2>5. S \subseteq B /\ \A r \in S : column \in DOMAIN taken.rows[r]
    BY <2>3, <2>4 DEF Candidates, RecordFits
  <2>6. B \subseteq Positions
    BY DEF SlotSpace
  <2>7. PICK n : n = Cardinality(S)
    OBVIOUS
  <2>8. /\ n \in Nat /\ DOMAIN seq = 1 .. n
        /\ \A i \in 1 .. n : seq[i] \in S
        /\ \A i, j \in 1 .. n : seq[i] = seq[j] => i = j
    BY <2>4, <2>5, <2>6, <2>7, AscendingOf
  <2>9. PICK g : Chain(g, taken, c, seq, "row") /\ g[n] = Folded(taken, c, seq, "row")
    BY <2>8, FoldChain
  <2>10. g[0] = taken /\ \A i \in 1 .. n : g[i] = EliminateRow(g[i - 1], column, pivot, seq[i])
    <3>1. g[0] = taken /\ \A i \in 1 .. n : g[i] = StepOf(g[i - 1], c, seq[i], "row")
      BY <2>8, <2>9 DEF Chain
    <3>2. ASSUME NEW i \in 1 .. n PROVE g[i] = EliminateRow(g[i - 1], column, pivot, seq[i])
      <4>1. StepOf(g[i - 1], c, seq[i], "row") = EliminateRow(g[i - 1], c.column, c.pivot, seq[i])
        BY StepRow
      <4> QED BY <1>2, <2>1, <3>1, <4>1
    <3> QED BY <3>1, <3>2
  <2> DEFINE T == {i \in Nat : i <= n => RecordFits(g[i], W, B, A) /\ RowsWait(g, taken, seq, n, i)}
  <2>11. 0 \in T
    BY <2>3, <2>10 DEF RowsWait
  <2>12. ASSUME NEW i \in Nat, i \in T PROVE i + 1 \in T
    <3> SUFFICES ASSUME i + 1 <= n
                 PROVE  RecordFits(g[i + 1], W, B, A) /\ RowsWait(g, taken, seq, n, i + 1)
      OBVIOUS
    <3>1. i <= n /\ i + 1 \in 1 .. n /\ (i + 1) - 1 = i
      BY <2>8
    <3>2. PICK t, r : t = g[i] /\ r = seq[i + 1]
      OBVIOUS
    <3>3. RecordFits(t, W, B, A) /\ RowsWait(g, taken, seq, n, i)
      BY <2>12, <3>1, <3>2
    <3>4. g[i + 1] = EliminateRow(t, column, pivot, r)
      BY <2>10, <3>1, <3>2
    <3>5. r \in B /\ r \in S
      BY <2>5, <2>8, <3>1, <3>2
    <3>6. column \in DOMAIN t.rows[r]
      <4>1. i + 1 \in i + 1 .. n
        BY <2>8
      <4>2. t.rows[r] = taken.rows[r]
        BY <3>2, <3>3, <4>1 DEF RowsWait
      <4> QED BY <2>5, <3>5, <4>2
    <3>7. PICK x : x = EliminateRow(t, column, pivot, r)
      OBVIOUS
    <3>8. RecordFits(x, W, B, A) /\ \A q \in B : q # r => x.rows[q] = t.rows[q]
      BY <2>2, <3>3, <3>5, <3>6, <3>7, EliminateFits
    <3>9. ASSUME NEW j \in (i + 1) + 1 .. n PROVE x.rows[seq[j]] = taken.rows[seq[j]]
      <4>1. j \in 1 .. n /\ j # i + 1 /\ j \in i + 1 .. n
        BY <2>8
      <4>2. seq[j] # r /\ seq[j] \in B
        BY <2>5, <2>8, <3>1, <3>2, <4>1
      <4>3. t.rows[seq[j]] = taken.rows[seq[j]]
        BY <3>2, <3>3, <4>1 DEF RowsWait
      <4> QED BY <3>8, <4>2, <4>3
    <3> QED BY <3>4, <3>7, <3>8, <3>9 DEF RowsWait
  <2> HIDE DEF T
  <2>13. \A i \in Nat : i \in T
    BY <2>11, <2>12, SetInduction
  <2>14. RecordFits(g[n], W, B, A)
    BY <2>8, <2>13 DEF T
  <2>15. RecordColumn(s, column) = g[n]
    BY <1>2, <1>3, <1>5, <2>1, <2>4, <2>9 DEF ColumnRecorded
  <2> QED BY <2>14, <2>15
<1> QED BY <1>4, <1>5

-----------------------------------------------------------------------------
(* Back substitution, and with it the recording of a block. *)

\* The pieces of RecordBack.
Above(s, column) == {r \in DOMAIN s.rows : s.logical[r] < column /\ column \in DOMAIN s.rows[r]}

BackGroup(s, column, r) ==
  [kind |-> "eliminate", dst |-> r, src |-> s.at[column], slot |-> s.rows[r][column].slot,
   matrix |-> {}, rhs |-> LiveColumns(s, s.at[column])]

BackBatch(s, column) ==
  [i \in 1 .. Cardinality(Above(s, column)) |->
     BackGroup(s, column, Ascending(Above(s, column))[i])]

WithTape(s, p, l) == [s EXCEPT !.tape = p, !.live = l]

\* Replacing tape and live words.
LEMMA RecordTape ==
  ASSUME NEW R, NEW l, NEW t, NEW k, NEW c, NEW a, NEW o, NEW s, s = RecordingOf(R, l, t, k, c, a, o),
         NEW p, NEW u
  PROVE  WithTape(s, p, u) = RecordingOf(R, u, p, k, c, a, o)
<1>0. s = [rows |-> R, live |-> l, tape |-> t, ok |-> k, cancelled |-> c, at |-> a, logical |-> o]
  BY DEF RecordingOf
<1>1. [s EXCEPT !.tape = p]
        = [rows |-> R, live |-> l, tape |-> p, ok |-> k, cancelled |-> c, at |-> a, logical |-> o]
  BY <1>0
<1>2. ASSUME NEW h,
             h = [rows |-> R, live |-> l, tape |-> p, ok |-> k, cancelled |-> c, at |-> a, logical |-> o]
      PROVE  [h EXCEPT !.live = u]
               = [rows |-> R, live |-> u, tape |-> p, ok |-> k, cancelled |-> c, at |-> a, logical |-> o]
  BY <1>2
<1>3. [[s EXCEPT !.tape = p] EXCEPT !.live = u]
        = [rows |-> R, live |-> u, tape |-> p, ok |-> k, cancelled |-> c, at |-> a, logical |-> o]
  BY <1>1, <1>2, Zenon
<1> QED BY <1>3 DEF RecordingOf, WithTape

\* What back substitution records of a column.
LEMMA RecordBackIs ==
  ASSUME NEW s, IsRecording(s), NEW column
  PROVE  LET x == RecordBack(s, column)
         IN  /\ IsRecording(x) /\ x.rows = s.rows /\ x.ok = s.ok /\ x.at = s.at
             /\ x.logical = s.logical
             /\ x.tape = s.tape \o BackBatch(s, column)
             /\ x.live = s.live \union (Above(s, column) \X LiveColumns(s, s.at[column]))
<1>1. PICK R, l, t, k, c, a, o : /\ R = s.rows /\ l = s.live /\ t = s.tape /\ k = s.ok
                                 /\ c = s.cancelled /\ a = s.at /\ o = s.logical
  OBVIOUS
<1>2. s = RecordingOf(R, l, t, k, c, a, o)
  BY <1>1 DEF IsRecording, RecordingOf
<1>3. PICK p, u : /\ p = s.tape \o BackBatch(s, column)
                  /\ u = s.live \union (Above(s, column) \X LiveColumns(s, s.at[column]))
  OBVIOUS
<1>4. RecordBack(s, column) = WithTape(s, p, u)
  BY <1>3 DEF RecordBack, WithTape, BackBatch, BackGroup, Above
<1>5. PICK x : x = RecordBack(s, column)
  OBVIOUS
<1>6. x = RecordingOf(R, u, p, k, c, a, o)
  BY <1>2, <1>4, <1>5, RecordTape
<1>7. /\ IsRecording(x) /\ x.rows = R /\ x.live = u /\ x.tape = p /\ x.ok = k /\ x.at = a
      /\ x.logical = o
  BY <1>6, RecordingParts
<1> QED BY <1>1, <1>3, <1>5, <1>7

\* It keeps the invariant.
LEMMA RecordBackFits ==
  ASSUME NEW s, NEW W, NEW B, NEW A, RecordFits(s, W, B, A), SlotSpace(W, B), NEW column \in B
  PROVE  RecordFits(RecordBack(s, column), W, B, A)
<1>1. /\ IsRecording(s) /\ s.ok \in BOOLEAN /\ DOMAIN s.rows = B
      /\ \A r \in B : RowFits(s.rows[r], W, B)
      /\ s.tape \in Seq(Groups(W, B, Requests)) /\ s.live \subseteq Positions \X Requests
      /\ s.at \in [B -> B] /\ s.logical \in [B -> B] /\ TapeLive(s.tape, A, s.live)
  BY DEF RecordFits
<1>2. PICK x, u, U, L, pivot : /\ x = RecordBack(s, column) /\ u = BackBatch(s, column)
                               /\ U = Above(s, column) /\ pivot = s.at[column]
                               /\ L = LiveColumns(s, s.at[column])
  OBVIOUS
<1>3. /\ IsRecording(x) /\ x.rows = s.rows /\ x.ok = s.ok /\ x.at = s.at
      /\ x.logical = s.logical /\ x.tape = s.tape \o u /\ x.live = s.live \union (U \X L)
  BY <1>1, <1>2, RecordBackIs
<1>4. pivot \in B /\ L = LiveColumns(s, pivot)
  BY <1>1, <1>2
<1>5. L \subseteq Requests /\ \A z : z \in L <=> <<pivot, z>> \in s.live
  BY <1>1, <1>4, LiveColumnsAre
<1>6. U \subseteq B /\ \A r \in U : column \in DOMAIN s.rows[r]
  BY <1>1, <1>2 DEF Above
<1>7. B \subseteq Positions
  BY DEF SlotSpace
<1>8. PICK n, q : n = Cardinality(U) /\ q = Ascending(U)
  OBVIOUS
<1>9. n \in Nat /\ \A i \in 1 .. n : q[i] \in U
  <2>1. U \subseteq Positions
    BY <1>6, <1>7
  <2> QED BY <1>8, <2>1, AscendingOf
<1>10. u = [i \in 1 .. n |-> BackGroup(s, column, q[i])]
  BY <1>2, <1>8 DEF BackBatch
<1>11. PICK S : S = Groups(W, B, Requests)
  OBVIOUS
<1>12. ASSUME NEW i \in 1 .. n
       PROVE  /\ BackGroup(s, column, q[i]) \in S
              /\ BackGroup(s, column, q[i]).src = pivot /\ BackGroup(s, column, q[i]).rhs = L
              /\ BackGroup(s, column, q[i]).dst \in U
  <2>1. PICK r : r = q[i]
    OBVIOUS
  <2>2. r \in U /\ r \in B /\ column \in DOMAIN s.rows[r]
    BY <1>6, <1>9, <2>1
  <2>3. s.rows[r][column].slot \in W
    <3>1. RowFits(s.rows[r], W, B)
      BY <1>1, <2>2
    <3> QED BY <2>2, <3>1 DEF RowFits
  <2>4. PICK slot, M : slot = s.rows[r][column].slot /\ M = {}
    OBVIOUS
  <2>5. BackGroup(s, column, r) = [kind |-> "eliminate", dst |-> r, src |-> pivot, slot |-> slot,
                                   matrix |-> M, rhs |-> L]
    BY <1>2, <2>4 DEF BackGroup
  <2>6. /\ \A m \in M : m \in W \X W
        /\ \A m1, m2 \in M : m1[1] = m2[1] => m1 = m2
    BY <2>4
  <2>7. [kind |-> "eliminate", dst |-> r, src |-> pivot, slot |-> slot, matrix |-> M, rhs |-> L]
          \in Groups(W, B, Requests)
    BY <1>4, <1>5, <2>2, <2>3, <2>4, <2>6, GroupIs
  <2> QED BY <1>11, <2>1, <2>2, <2>5, <2>7
<1>13. u \in Seq(S) /\ Len(u) = n /\ \A i \in 1 .. n : u[i] = BackGroup(s, column, q[i])
  BY <1>9, <1>10, <1>12
<1>14. Batch(u, L, pivot, s.live, x.live)
  <2>1. \A i \in 1 .. Len(u) : u[i].src = pivot /\ u[i].rhs = L
    BY <1>12, <1>13
  <2>2. \A z : <<pivot, z>> \in s.live => z \in L
    BY <1>5
  <2>3. ASSUME NEW i \in 1 .. Len(u), NEW z \in L PROVE <<u[i].dst, z>> \in x.live
    <3>1. u[i].dst \in U
      BY <1>12, <1>13
    <3> QED BY <1>3, <3>1
  <2> QED BY <2>1, <2>2, <2>3 DEF Batch
<1>15. s.tape \in Seq(S)
  BY <1>1, <1>11
<1>16. TapeLive(s.tape \o u, A, x.live)
  <2>1. s.live \subseteq x.live
    BY <1>3
  <2> QED BY <1>1, <1>13, <1>14, <1>15, <2>1, LiveMore
<1>17. x.tape \in Seq(Groups(W, B, Requests))
  BY <1>3, <1>11, <1>13, <1>15, ConcatIs
<1>18. x.live \subseteq Positions \X Requests
  BY <1>1, <1>3, <1>5, <1>6, <1>7
<1>19. RecordFits(x, W, B, A)
  BY <1>1, <1>3, <1>16, <1>17, <1>18 DEF RecordFits
<1> QED BY <1>2, <1>19

\* So do all columns, forwards and back.
LEMMA EchelonFits ==
  ASSUME NEW s, NEW W, NEW B, NEW A, RecordFits(s, W, B, A), SlotSpace(W, B), NEW cs \in Seq(B)
  PROVE  /\ RecordFits(Echelon(s, cs), W, B, A)
         /\ RecordFits(BackSubstituted(s, cs), W, B, A)
<1>1. PICK n : n = Len(cs)
  OBVIOUS
<1>2. n \in Nat /\ DOMAIN cs = 1 .. n /\ \A i \in 1 .. n : cs[i] \in B
  BY <1>1, SequenceIs
<1>3. PICK r : r = Reverse(cs)
  OBVIOUS
<1>4. DOMAIN r = 1 .. n /\ \A i \in 1 .. n : r[i] \in B
  <2>1. DOMAIN r = 1 .. n /\ \A j \in 1 .. n : r[j] = cs[n - j + 1]
    BY <1>1, <1>3, TapeReversed
  <2>2. ASSUME NEW i \in 1 .. n PROVE r[i] \in B
    <3>1. n - i + 1 \in 1 .. n
      BY <1>2
    <3> QED BY <1>2, <2>1, <3>1
  <2> QED BY <2>1, <2>2
<1>5. /\ Echelon(s, cs) = Folded(s, 0, cs, "pivot")
      /\ BackSubstituted(s, cs) = IF s.ok THEN Folded(s, 0, r, "back") ELSE s
  BY <1>3, TapeFold
<1>6. RecordFits(Echelon(s, cs), W, B, A)
  <2>1. PICK f : Chain(f, s, 0, cs, "pivot") /\ f[n] = Folded(s, 0, cs, "pivot")
    BY <1>2, FoldChain
  <2>2. f[0] = s /\ \A i \in 1 .. n : f[i] = RecordColumn(f[i - 1], cs[i])
    BY <1>2, <2>1, StepPivot DEF Chain
  <2> DEFINE T == {i \in Nat : i <= n => RecordFits(f[i], W, B, A)}
  <2>3. 0 \in T
    BY <2>2
  <2>4. ASSUME NEW i \in Nat, i \in T PROVE i + 1 \in T
    <3> SUFFICES ASSUME i + 1 <= n PROVE RecordFits(f[i + 1], W, B, A)
      OBVIOUS
    <3>1. i + 1 \in 1 .. n /\ (i + 1) - 1 = i /\ i <= n
      BY <1>2
    <3>2. f[i + 1] = RecordColumn(f[i], cs[i + 1]) /\ cs[i + 1] \in B /\ RecordFits(f[i], W, B, A)
      BY <1>2, <2>2, <2>4, <3>1
    <3> QED BY <3>2, RecordColumnFits
  <2> HIDE DEF T
  <2>5. \A i \in Nat : i \in T
    BY <2>3, <2>4, SetInduction
  <2> QED BY <1>2, <1>5, <2>1, <2>5 DEF T
<1>7. RecordFits(BackSubstituted(s, cs), W, B, A)
  <2>1. PICK f : Chain(f, s, 0, r, "back") /\ f[n] = Folded(s, 0, r, "back")
    BY <1>2, <1>4, FoldChain
  <2>2. f[0] = s /\ \A i \in 1 .. n : f[i] = RecordBack(f[i - 1], r[i])
    BY <1>4, <2>1, StepBack DEF Chain
  <2> DEFINE T == {i \in Nat : i <= n => RecordFits(f[i], W, B, A)}
  <2>3. 0 \in T
    BY <2>2
  <2>4. ASSUME NEW i \in Nat, i \in T PROVE i + 1 \in T
    <3> SUFFICES ASSUME i + 1 <= n PROVE RecordFits(f[i + 1], W, B, A)
      OBVIOUS
    <3>1. i + 1 \in 1 .. n /\ (i + 1) - 1 = i /\ i <= n
      BY <1>2
    <3>2. f[i + 1] = RecordBack(f[i], r[i + 1]) /\ r[i + 1] \in B /\ RecordFits(f[i], W, B, A)
      BY <1>4, <2>2, <2>4, <3>1
    <3> QED BY <3>2, RecordBackFits
  <2> HIDE DEF T
  <2>5. \A i \in Nat : i \in T
    BY <2>3, <2>4, SetInduction
  <2>6. RecordFits(f[n], W, B, A)
    BY <1>2, <2>5 DEF T
  <2> QED BY <1>5, <2>1, <2>6
<1> QED BY <1>6, <1>7

-----------------------------------------------------------------------------
(* The recording of a block as the planner starts and refuses it. *)

\* The slots of a layout.
SlotsIn(y) ==
  {w \in Positions \X Positions \X Nat : w[3] = 0 => <<w[1], w[2]>> \in DOMAIN y.matrix}

\* What the proofs need of a recorded block.
BlockFits(r, W, B, A) ==
  /\ r.ok \in BOOLEAN
  /\ r.ok => /\ r.tape \in Seq(Groups(W, B, Requests))
             /\ r.live \subseteq Positions \X Requests
             /\ r.at \in [B -> B]
             /\ TapeLive(r.tape, A, r.live)

\* A block has slots for all it may fill.
LEMMA SlotsSpace ==
  ASSUME NEW y, NEW B, B \subseteq Positions
  PROVE  /\ SlotSpace(SlotsIn(y), B)
         /\ \A r \in Positions, k \in Positions : <<r, k>> \in DOMAIN y.matrix =>
              <<r, k, 0>> \in SlotsIn(y)
<1>1. Positions \subseteq Nat /\ 0 \notin Positions
  BY SystemsAssumption DEF Positions
<1>2. ASSUME NEW r \in B, NEW k \in B, NEW j \in B PROVE <<r, k, j>> \in SlotsIn(y)
  <2>1. PICK w : w = <<r, k, j>>
    OBVIOUS
  <2>2. w \in Positions \X Positions \X Nat /\ w[3] = j /\ j # 0
    BY <1>1, <2>1
  <2> QED BY <2>1, <2>2 DEF SlotsIn
<1>3. ASSUME NEW r \in Positions, NEW k \in Positions, <<r, k>> \in DOMAIN y.matrix
      PROVE  <<r, k, 0>> \in SlotsIn(y)
  <2>1. PICK w : w = <<r, k, 0>>
    OBVIOUS
  <2>2. w \in Positions \X Positions \X Nat /\ w[1] = r /\ w[2] = k
    BY <1>1, <2>1
  <2> QED BY <1>3, <2>1, <2>2 DEF SlotsIn
<1> QED BY <1>2, <1>3 DEF SlotSpace

\* The invariant holds when a block is started.
LEMMA StartedFits ==
  ASSUME NEW y, NEW b, NEW B, B = y.blocks[b], B \subseteq Positions,
         NEW live, live \subseteq Positions \X Requests
  PROVE  RecordFits(Started(Diagonal(y, b), live), SlotsIn(y), B, live)
<1>1. PICK R, W, s : R = Diagonal(y, b) /\ W = SlotsIn(y) /\ s = Started(R, live)
  OBVIOUS
<1>2. R = [r \in B |-> [k \in {j \in B : <<r, j>> \in DOMAIN y.matrix} |->
                          [slot |-> <<r, k, 0>>, value |-> y.matrix[<<r, k>>]]]]
  BY <1>1 DEF Diagonal
<1>3. DOMAIN R = B
  BY <1>2
<1>4. ASSUME NEW r \in B PROVE RowFits(R[r], W, B)
  <2>1. R[r] = [k \in {j \in B : <<r, j>> \in DOMAIN y.matrix} |->
                  [slot |-> <<r, k, 0>>, value |-> y.matrix[<<r, k>>]]]
    BY <1>2
  <2>2. DOMAIN R[r] = {j \in B : <<r, j>> \in DOMAIN y.matrix}
    BY <2>1
  <2>3. ASSUME NEW k \in DOMAIN R[r] PROVE R[r][k].slot \in W /\ R[r][k].slot[2] = k
    <3>1. k \in B /\ <<r, k>> \in DOMAIN y.matrix
      BY <2>2
    <3>2. R[r][k].slot = <<r, k, 0>>
      BY <2>1, <3>1
    <3>3. <<r, k, 0>> \in W
      BY <1>1, <3>1, SlotsSpace
    <3> QED BY <3>2, <3>3
  <2> QED BY <2>2, <2>3 DEF RowFits
<1>5. s = [rows |-> R, live |-> live, tape |-> <<>>, ok |-> TRUE, cancelled |-> FALSE,
           at |-> [i \in B |-> i], logical |-> [i \in B |-> i]]
  BY <1>1, <1>3 DEF Started
<1>6. PICK I : I = [i \in B |-> i]
  OBVIOUS
<1>7. /\ s.rows = R /\ s.live = live /\ s.tape = <<>> /\ s.ok \in BOOLEAN /\ s.at = I /\ s.logical = I
  BY <1>5, <1>6
<1>8. IsRecording(s)
  BY <1>5 DEF IsRecording
<1>9. I \in [B -> B]
  BY <1>6
<1>10. TapeLive(<<>>, live, live)
  <2>1. Len(<<>>) = 0
    OBVIOUS
  <2>2. \A i \in 1 .. Len(<<>>) : FALSE
    BY <2>1
  <2> QED BY <2>2 DEF TapeLive
<1>11. <<>> \in Seq(Groups(W, B, Requests))
  BY EmptySeq
<1>12. RecordFits(s, W, B, live)
  BY <1>3, <1>4, <1>7, <1>8, <1>9, <1>10, <1>11 DEF RecordFits
<1> QED BY <1>1, <1>12

\* A recording that fits is a block that does,
LEMMA FitsBlock ==
  ASSUME NEW s, NEW W, NEW B, NEW A, RecordFits(s, W, B, A)
  PROVE  BlockFits(s, W, B, A)
BY DEF RecordFits, BlockFits

\* and so is a refusal.
LEMMA RefusedFits ==
  ASSUME NEW W, NEW B, NEW A
  PROVE  BlockFits(Refused, W, B, A)
<1>1. Started(<<>>, {}).ok = TRUE
  BY DEF Started
<1>2. PICK s : s = Started(<<>>, {})
  OBVIOUS
<1>3. s = [rows |-> s.rows, live |-> s.live, tape |-> s.tape, ok |-> s.ok, cancelled |-> s.cancelled,
           at |-> s.at, logical |-> s.logical]
  BY <1>2 DEF Started
<1>4. [s EXCEPT !.ok = FALSE].ok = FALSE
  BY <1>3
<1>5. Refused.ok = FALSE
  BY <1>2, <1>4 DEF Refused
<1> QED BY <1>5 DEF BlockFits

\* RecordBlock records what the proofs need.
LEMMA RecordBlockFits ==
  ASSUME NEW s, NEW y, NEW b, NEW B, B = y.blocks[b], B \subseteq Positions,
         NEW live, live \subseteq Positions \X Requests
  PROVE  BlockFits(RecordBlock(s, y, b, live), SlotsIn(y), B, live)
<1>1. PICK R, W : R = Diagonal(y, b) /\ W = SlotsIn(y)
  OBVIOUS
<1>2. PICK t : t = Started(R, live)
  OBVIOUS
<1>3. RecordFits(t, W, B, live)
  BY <1>1, <1>2, StartedFits
<1>4. SlotSpace(W, B)
  BY <1>1, SlotsSpace
<1>5. DOMAIN R = B
  BY <1>1 DEF Diagonal
<1>6. PICK cs : cs = Ascending(B)
  OBVIOUS
<1>7. cs \in Seq(B)
  BY <1>6, AscendingOf
<1>8. PICK e : e = Echelon(t, cs)
  OBVIOUS
<1>9. RecordFits(e, W, B, live)
  BY <1>3, <1>4, <1>7, <1>8, EchelonFits
<1>10. RecordFits(BackSubstituted(e, cs), W, B, live)
  BY <1>4, <1>7, <1>9, EchelonFits
<1>11. RecordSparseTape(R, live) = BackSubstituted(e, cs)
  BY <1>2, <1>5, <1>6, <1>8 DEF RecordSparseTape
<1>12. BlockFits(RecordSparseTape(R, live), W, B, live)
  BY <1>10, <1>11, FitsBlock
<1>13. BlockFits(Started(R, live), W, B, live) /\ BlockFits(Refused, W, B, live)
  BY <1>2, <1>3, FitsBlock, RefusedFits
<1>14. \/ RecordBlock(s, y, b, live) = Refused
       \/ RecordBlock(s, y, b, live) = Started(R, live)
       \/ RecordBlock(s, y, b, live) = RecordSparseTape(R, live)
  BY <1>1 DEF RecordBlock
<1> QED BY <1>1, <1>12, <1>13, <1>14

-----------------------------------------------------------------------------
(* Plans, block by block. *)

\* A plan, as a record.
IsPlan(p) ==
  p = [ok |-> p.ok, exact |-> p.exact, layout |-> p.layout, live |-> p.live, at |-> p.at,
       tapes |-> p.tapes]

PlanOf(k, e, y, l, a, t) ==
  [ok |-> k, exact |-> e, layout |-> y, live |-> l, at |-> a, tapes |-> t]

PlanWith(p, k, e, a, t, l) ==
  [p EXCEPT !.ok = k, !.exact = e, !.at = a, !.tapes = t, !.live = l]

\* Replacing fields of a plan.
LEMMA PlanReplaced ==
  ASSUME NEW k, NEW e, NEW y, NEW l, NEW a, NEW t, NEW p, p = PlanOf(k, e, y, l, a, t),
         NEW k2, NEW e2, NEW a2, NEW t2, NEW l2
  PROVE  PlanWith(p, k2, e2, a2, t2, l2) = PlanOf(k2, e2, y, l2, a2, t2)
<1>0. p = [ok |-> k, exact |-> e, layout |-> y, live |-> l, at |-> a, tapes |-> t]
  BY DEF PlanOf
<1>1. [p EXCEPT !.ok = k2]
        = [ok |-> k2, exact |-> e, layout |-> y, live |-> l, at |-> a, tapes |-> t]
  BY <1>0
<1>2. ASSUME NEW h, h = [ok |-> k2, exact |-> e, layout |-> y, live |-> l, at |-> a, tapes |-> t]
      PROVE  [h EXCEPT !.exact = e2]
               = [ok |-> k2, exact |-> e2, layout |-> y, live |-> l, at |-> a, tapes |-> t]
  BY <1>2
<1>3. ASSUME NEW h, h = [ok |-> k2, exact |-> e2, layout |-> y, live |-> l, at |-> a, tapes |-> t]
      PROVE  [h EXCEPT !.at = a2]
               = [ok |-> k2, exact |-> e2, layout |-> y, live |-> l, at |-> a2, tapes |-> t]
  BY <1>3
<1>4. ASSUME NEW h, h = [ok |-> k2, exact |-> e2, layout |-> y, live |-> l, at |-> a2, tapes |-> t]
      PROVE  [h EXCEPT !.tapes = t2]
               = [ok |-> k2, exact |-> e2, layout |-> y, live |-> l, at |-> a2, tapes |-> t2]
  BY <1>4
<1>5. ASSUME NEW h, h = [ok |-> k2, exact |-> e2, layout |-> y, live |-> l, at |-> a2, tapes |-> t2]
      PROVE  [h EXCEPT !.live = l2]
               = [ok |-> k2, exact |-> e2, layout |-> y, live |-> l2, at |-> a2, tapes |-> t2]
  BY <1>5
<1>6. [[[p EXCEPT !.ok = k2] EXCEPT !.exact = e2] EXCEPT !.at = a2]
        = [ok |-> k2, exact |-> e2, layout |-> y, live |-> l, at |-> a2, tapes |-> t]
  BY <1>1, <1>2, <1>3, Zenon
<1>7. PICK h : h = [[[p EXCEPT !.ok = k2] EXCEPT !.exact = e2] EXCEPT !.at = a2]
  OBVIOUS
<1>8. [[h EXCEPT !.tapes = t2] EXCEPT !.live = l2]
        = [ok |-> k2, exact |-> e2, layout |-> y, live |-> l2, at |-> a2, tapes |-> t2]
  BY <1>4, <1>5, <1>6, <1>7, Zenon
<1>9. PlanWith(p, k2, e2, a2, t2, l2) = [[h EXCEPT !.tapes = t2] EXCEPT !.live = l2]
  BY <1>7, Zenon DEF PlanWith
<1> QED BY <1>8, <1>9, Zenon DEF PlanOf

\* The fields of a plan.
LEMMA PlanParts ==
  ASSUME NEW k, NEW e, NEW y, NEW l, NEW a, NEW t, NEW p, p = PlanOf(k, e, y, l, a, t)
  PROVE  /\ IsPlan(p) /\ p.ok = k /\ p.exact = e /\ p.layout = y /\ p.live = l /\ p.at = a
         /\ p.tapes = t
BY DEF PlanOf, IsPlan

\* What WithBlock does.
LEMMA WithBlockIs ==
  ASSUME NEW p, IsPlan(p), NEW b, NEW r, p.ok \in BOOLEAN, r.ok \in BOOLEAN
  PROVE  LET x == WithBlock(p, b, r)
         IN  /\ IsPlan(x) /\ x.ok \in BOOLEAN /\ (x.ok <=> p.ok /\ r.ok)
             /\ x.layout = p.layout /\ x.at = Over(r.at, p.at) /\ x.tapes = <<r.tape>> \o p.tapes
             /\ r.ok => x.live = r.live \union Carried(Couplings(p.layout, b), x.at, r.live)
             /\ ~r.ok => x.live = p.live
<1>1. PICK k, e, y, l, a, t : /\ k = p.ok /\ e = p.exact /\ y = p.layout /\ l = p.live /\ a = p.at
                              /\ t = p.tapes
  OBVIOUS
<1>2. p = PlanOf(k, e, y, l, a, t)
  BY <1>1 DEF IsPlan, PlanOf
<1>3. PICK k2 \in BOOLEAN : k2 <=> p.ok /\ r.ok
  OBVIOUS
<1>4. PICK e2 : e2 = (p.exact /\ ~r.cancelled)
  OBVIOUS
<1>5. PICK a2, t2 : a2 = Over(r.at, p.at) /\ t2 = <<r.tape>> \o p.tapes
  OBVIOUS
<1>6. PICK l2 : l2 = IF r.ok THEN r.live \union Carried(Couplings(p.layout, b), a2, r.live) ELSE p.live
  OBVIOUS
<1>7. PICK x : x = WithBlock(p, b, r)
  OBVIOUS
<1>8. (p.ok /\ r.ok) = k2
  BY <1>3
<1>9. x = PlanWith(p, k2, e2, a2, t2, l2)
  <2>1. x = [p EXCEPT !.ok = (p.ok /\ r.ok), !.exact = (p.exact /\ ~r.cancelled),
                      !.at = Over(r.at, p.at), !.tapes = <<r.tape>> \o p.tapes,
                      !.live = IF r.ok THEN r.live \union Carried(Couplings(p.layout, b), Over(r.at, p.at), r.live)
                               ELSE p.live]
    BY <1>7 DEF WithBlock
  <2> QED BY <1>4, <1>5, <1>6, <1>8, <2>1, Zenon DEF PlanWith
<1>10. x = PlanOf(k2, e2, y, l2, a2, t2)
  BY <1>2, <1>9, PlanReplaced
<1>11. IsPlan(x) /\ x.ok = k2 /\ x.layout = y /\ x.live = l2 /\ x.at = a2 /\ x.tapes = t2
  BY <1>10, PlanParts
<1> QED BY <1>1, <1>3, <1>5, <1>6, <1>7, <1>11

\* The chain of plans that the recording of the blocks passes through, from the last block.
Plans(P, s, y, n) ==
  /\ P[0] = [ok |-> TRUE, exact |-> TRUE, layout |-> y, live |-> y.rhs, at |-> <<>>, tapes |-> <<>>]
  /\ \A j \in 1 .. n :
       P[j] = WithBlock(P[j - 1], n - j + 1, RecordBlock(s, y, n - j + 1, P[j - 1].live))

\* The recording of a block.
RecordOf(P, s, y, n, b) == RecordBlock(s, y, b, P[n - b].live)

LayoutTapes(y, n) == UNION {Seq(Groups(SlotsIn(y), y.blocks[b], Requests)) : b \in 1 .. n}

\* Block b in the plan x.
BlockIn(P, s, y, n, x, j, b) ==
  LET r == RecordOf(P, s, y, n, b)
  IN  /\ r.ok /\ BlockFits(r, SlotsIn(y), y.blocks[b], P[n - b].live)
      /\ x.tapes[b - (n - j)] = r.tape
      /\ \A i \in y.blocks[b] : i \in DOMAIN x.at /\ x.at[i] = r.at[i]
      /\ P[n - b + 1].live = r.live \union Carried(Couplings(y, b), P[n - b + 1].at, r.live)
      /\ \A i \in y.blocks[b] : P[n - b + 1].at[i] = r.at[i]

PlansAt(P, s, y, n, j) ==
  /\ IsPlan(P[j]) /\ P[j].ok \in BOOLEAN /\ P[j].layout = y
  /\ P[j].live \subseteq Positions \X Requests
  /\ P[j].ok => /\ P[j].tapes \in Seq(LayoutTapes(y, n)) /\ Len(P[j].tapes) = j
                /\ \A b \in n - j + 1 .. n : BlockIn(P, s, y, n, P[j], j, b)

\* RecordBlocks comes from its steps.
LEMMA PlansExist ==
  ASSUME NEW s, NEW y, NEW n \in Nat, DOMAIN y.blocks = 1 .. n
  PROVE  \E P : Plans(P, s, y, n) /\ P[n] = RecordBlocks(s, y)
<1>1. PICK c : c = [system |-> s, layout |-> y]
  OBVIOUS
<1>2. c.system = s /\ c.layout = y
  BY <1>1
<1>3. PICK q, base : /\ q = Reverse([b \in DOMAIN y.blocks |-> b])
                     /\ base = [ok |-> TRUE, exact |-> TRUE, layout |-> y, live |-> y.rhs,
                                at |-> <<>>, tapes |-> <<>>]
  OBVIOUS
<1>4. RecordBlocks(s, y) = Folded(base, c, q, "record")
  <2>1. RecordBlocks(c.system, c.layout) =
           Folded([ok |-> TRUE, exact |-> TRUE, layout |-> c.layout, live |-> c.layout.rhs,
                   at |-> <<>>, tapes |-> <<>>],
                  c, Reverse([b \in DOMAIN c.layout.blocks |-> b]), "record")
    BY RecordBlocksFold
  <2> QED BY <1>2, <1>3, <2>1
<1>5. DOMAIN q = 1 .. n /\ \A j \in 1 .. n : q[j] = n - j + 1
  <2>1. q = Reverse([b \in 1 .. n |-> b])
    BY <1>3
  <2> QED BY <2>1, NumbersReversed
<1>6. PICK P : Chain(P, base, c, q, "record") /\ P[n] = Folded(base, c, q, "record")
  BY <1>5, FoldChain
<1>7. ASSUME NEW j \in 1 .. n
      PROVE  P[j] = WithBlock(P[j - 1], n - j + 1, RecordBlock(s, y, n - j + 1, P[j - 1].live))
  <2>1. P[j] = StepOf(P[j - 1], c, n - j + 1, "record")
    BY <1>5, <1>6 DEF Chain
  <2>2. StepOf(P[j - 1], c, n - j + 1, "record")
          = WithBlock(P[j - 1], n - j + 1, RecordBlock(c.system, c.layout, n - j + 1, P[j - 1].live))
    BY StepRecord
  <2> QED BY <1>2, <2>1, <2>2
<1>8. Plans(P, s, y, n)
  BY <1>3, <1>6, <1>7 DEF Plans, Chain
<1> QED BY <1>4, <1>6, <1>8

\* What couplings carry.
LEMMA CarriedIs ==
  ASSUME NEW y, NEW n, NEW s, LayoutFits(s, y, n), NEW b, NEW at, NEW live,
         live \subseteq Positions \X Requests
  PROVE  /\ Carried(Couplings(y, b), at, live) \subseteq Positions \X Requests
         /\ \A x \in Couplings(y, b) : \A t : <<at[x[2]], t>> \in live =>
              <<x[1], t>> \in Carried(Couplings(y, b), at, live)
<1>1. ASSUME NEW w \in Carried(Couplings(y, b), at, live) PROVE w \in Positions \X Requests
  <2>1. PICK p \in Couplings(y, b) \X live : w = <<p[1][1], p[2][2]>>
    BY DEF Carried
  <2>2. p[1] \in DOMAIN y.matrix /\ p[2] \in live
    BY <2>1 DEF Couplings
  <2>3. p[1] \in Positions \X Positions /\ p[2] \in Positions \X Requests
    BY <2>2 DEF LayoutFits
  <2>4. p[1][1] \in Positions /\ p[2][2] \in Requests
    BY <2>3
  <2> QED BY <2>1, <2>4
<1>2. ASSUME NEW x \in Couplings(y, b), NEW t, <<at[x[2]], t>> \in live
      PROVE  <<x[1], t>> \in Carried(Couplings(y, b), at, live)
  <2>1. PICK v, q : v = <<at[x[2]], t>> /\ q = <<x, v>>
    OBVIOUS
  <2>2. q \in Couplings(y, b) \X live /\ q[1] = x /\ q[2] = v /\ v[1] = at[x[2]] /\ v[2] = t
    BY <1>2, <2>1
  <2>3. at[q[1][2]] = q[2][1] /\ <<x[1], t>> = <<q[1][1], q[2][2]>>
    BY <2>2
  <2> QED BY <2>2, <2>3 DEF Carried
<1> QED BY <1>1, <1>2

-----------------------------------------------------------------------------
(* A plan that is made is not changed afterwards. *)

\* Solution rows of one block,
LEMMA OverLate ==
  ASSUME NEW f, NEW g, NEW i, i \in DOMAIN g \ DOMAIN f, NEW h, h = Over(f, g)
  PROVE  i \in DOMAIN h /\ h[i] = g[i]
BY DEF Over

\* over those of others.
LEMMA OverEarly ==
  ASSUME NEW f, NEW g, NEW i, i \in DOMAIN f, NEW h, h = Over(f, g)
  PROVE  i \in DOMAIN h /\ h[i] = f[i]
BY DEF Over

\* Blocks are recorded from the last to the first.
LEMMA RecordedLater ==
  ASSUME NEW n \in Nat, NEW j \in 0 .. n - 1, NEW b \in n - j + 1 .. n
  PROVE  /\ j \in Nat /\ b \in 1 .. n /\ n - j \in 1 .. n /\ b # n - j
         /\ b - (n - j) \in 1 .. j /\ b - (n - (j + 1)) = (b - (n - j)) + 1
OBVIOUS

\* What a plan shows of a block recorded before the last step.
LEMMA BlockKept ==
  ASSUME NEW s, NEW y, NEW n, LayoutFits(s, y, n), NEW P, NEW j \in 0 .. n - 1,
         NEW b \in n - j + 1 .. n, BlockIn(P, s, y, n, P[j], j, b),
         P[j].tapes \in Seq(LayoutTapes(y, n)), Len(P[j].tapes) = j,
         NEW x, NEW r, r.at \in [y.blocks[n - j] -> y.blocks[n - j]], x.at = Over(r.at, P[j].at),
         r.tape \in LayoutTapes(y, n), x.tapes = <<r.tape>> \o P[j].tapes
  PROVE  BlockIn(P, s, y, n, x, j + 1, b)
<1>1. n \in Nat /\ j \in Nat /\ b \in 1 .. n /\ n - j \in 1 .. n /\ b # n - j
      /\ b - (n - j) \in 1 .. j /\ b - (n - (j + 1)) = (b - (n - j)) + 1
  <2>1. n \in Nat
    BY DEF LayoutFits
  <2>2. j \in Nat /\ b \in 1 .. n /\ n - j \in 1 .. n
    BY <2>1, RecordedLater
  <2>3. b # n - j /\ b - (n - j) \in 1 .. j
    BY <2>1, RecordedLater
  <2>4. b - (n - (j + 1)) = (b - (n - j)) + 1
    BY <2>1, RecordedLater
  <2> QED BY <2>1, <2>2, <2>3, <2>4
<1>2. x.tapes[(b - (n - j)) + 1] = P[j].tapes[b - (n - j)]
  <2>1. PICK tapes, t, u, S : /\ tapes = P[j].tapes /\ t = r.tape /\ S = LayoutTapes(y, n)
                              /\ u = <<t>> \o tapes
    OBVIOUS
  <2>2. \A i \in 1 .. Len(tapes) : u[i + 1] = tapes[i]
    BY <2>1, PrefixedIs
  <2> QED BY <1>1, <2>1, <2>2
<1>3. ASSUME NEW i \in y.blocks[b]
      PROVE  i \in DOMAIN x.at /\ x.at[i] = P[j].at[i]
  <2>1. i \notin y.blocks[n - j]
    BY <1>1 DEF LayoutFits
  <2>2. PICK f, g : f = r.at /\ g = P[j].at
    OBVIOUS
  <2>3. i \in DOMAIN g \ DOMAIN f
    BY <2>1, <2>2 DEF BlockIn
  <2>4. x.at = Over(f, g)
    BY <2>2
  <2>5. i \in DOMAIN x.at /\ x.at[i] = g[i]
    BY <2>3, <2>4, OverLate
  <2> QED BY <2>2, <2>5
<1> QED BY <1>1, <1>2, <1>3 DEF BlockIn

\* The invariant of RecordBlocks is kept,
LEMMA PlansMore ==
  ASSUME NEW s, NEW y, NEW n, LayoutFits(s, y, n), NEW P, Plans(P, s, y, n), NEW j \in 0 .. n - 1,
         PlansAt(P, s, y, n, j)
  PROVE  PlansAt(P, s, y, n, j + 1)
<1>1. PICK b : b = n - j
  OBVIOUS
<1>2. n \in Nat /\ j \in Nat /\ b \in 1 .. n /\ n - b = j /\ n - (j + 1) + 1 = b /\ n - b + 1 = j + 1
      /\ j + 1 \in 1 .. n /\ (j + 1) - 1 = j /\ b - (n - (j + 1)) = 1
  <2>1. n \in Nat
    BY DEF LayoutFits
  <2>2. j \in Nat /\ j <= n - 1
    BY <2>1
  <2> QED BY <1>1, <2>1, <2>2
<1>3. PICK p, r, x : p = P[j] /\ r = RecordOf(P, s, y, n, b) /\ x = P[j + 1]
  OBVIOUS
<1>4. x = WithBlock(p, b, r)
  BY <1>2, <1>3 DEF Plans, RecordOf
<1>5. /\ IsPlan(p) /\ p.ok \in BOOLEAN /\ p.layout = y /\ p.live \subseteq Positions \X Requests
      /\ p.ok => p.tapes \in Seq(LayoutTapes(y, n)) /\ Len(p.tapes) = j
  BY <1>3 DEF PlansAt
<1>6. BlockFits(r, SlotsIn(y), y.blocks[b], p.live)
  <2>1. PICK B, live : B = y.blocks[b] /\ live = p.live
    OBVIOUS
  <2>2. B \subseteq Positions /\ live \subseteq Positions \X Requests
    BY <1>2, <1>5, <2>1 DEF LayoutFits
  <2>3. BlockFits(RecordBlock(s, y, b, live), SlotsIn(y), B, live)
    BY <2>1, <2>2, RecordBlockFits
  <2> QED BY <1>2, <1>3, <2>1, <2>3 DEF RecordOf
<1>7. /\ r.ok \in BOOLEAN
      /\ r.ok => /\ r.tape \in Seq(Groups(SlotsIn(y), y.blocks[b], Requests))
                 /\ r.live \subseteq Positions \X Requests
                 /\ r.at \in [y.blocks[b] -> y.blocks[b]]
  BY <1>6 DEF BlockFits
<1>8. /\ IsPlan(x) /\ x.ok \in BOOLEAN /\ (x.ok <=> p.ok /\ r.ok) /\ x.layout = y
      /\ x.at = Over(r.at, p.at) /\ x.tapes = <<r.tape>> \o p.tapes
      /\ r.ok => x.live = r.live \union Carried(Couplings(y, b), x.at, r.live)
      /\ ~r.ok => x.live = p.live
  BY <1>4, <1>5, <1>7, WithBlockIs
<1>9. x.live \subseteq Positions \X Requests
  <2>1. CASE r.ok
    <3>1. PICK at, live : at = x.at /\ live = r.live
      OBVIOUS
    <3>2. Carried(Couplings(y, b), at, live) \subseteq Positions \X Requests
      BY <1>7, <2>1, <3>1, CarriedIs
    <3> QED BY <1>7, <1>8, <2>1, <3>1, <3>2
  <2>2. CASE ~r.ok
    BY <1>5, <1>8, <2>2
  <2> QED BY <2>1, <2>2
<1>10. ASSUME x.ok
       PROVE  /\ x.tapes \in Seq(LayoutTapes(y, n)) /\ Len(x.tapes) = j + 1
              /\ \A e \in n - (j + 1) + 1 .. n : BlockIn(P, s, y, n, x, j + 1, e)
  <2>1. p.ok /\ r.ok
    BY <1>8, <1>10
  <2>2. r.tape \in LayoutTapes(y, n)
    BY <1>2, <1>7, <2>1 DEF LayoutTapes
  <2>3. x.tapes \in Seq(LayoutTapes(y, n)) /\ Len(x.tapes) = j + 1 /\ x.tapes[1] = r.tape
    <3>1. PICK tapes, t, u, S : /\ tapes = p.tapes /\ t = r.tape /\ S = LayoutTapes(y, n)
                                /\ u = <<t>> \o tapes
      OBVIOUS
    <3>2. u \in Seq(S) /\ Len(u) = Len(tapes) + 1 /\ u[1] = t
      BY <1>5, <2>1, <2>2, <3>1, PrefixedIs
    <3> QED BY <1>5, <1>8, <2>1, <3>1, <3>2
  <2>4. ASSUME NEW i \in y.blocks[b]
        PROVE  i \in DOMAIN x.at /\ x.at[i] = r.at[i]
    <3>1. PICK f, g : f = r.at /\ g = p.at
      OBVIOUS
    <3>2. i \in DOMAIN f
      BY <1>7, <2>1, <3>1
    <3>3. x.at = Over(f, g)
      BY <1>8, <3>1
    <3>4. i \in DOMAIN x.at /\ x.at[i] = f[i]
      BY <3>2, <3>3, OverEarly
    <3> QED BY <3>1, <3>4
  <2>5. BlockIn(P, s, y, n, x, j + 1, b)
    BY <1>2, <1>3, <1>6, <1>8, <2>1, <2>3, <2>4 DEF BlockIn
  <2>6. ASSUME NEW e \in n - j + 1 .. n
        PROVE  BlockIn(P, s, y, n, x, j + 1, e)
    <3>1. BlockIn(P, s, y, n, P[j], j, e)
      BY <1>3, <2>1 DEF PlansAt
    <3>2. r.at \in [y.blocks[n - j] -> y.blocks[n - j]]
      BY <1>1, <1>7, <2>1
    <3> QED BY <1>3, <1>5, <1>8, <2>1, <2>2, <3>1, <3>2, BlockKept
  <2>7. ASSUME NEW e \in n - (j + 1) + 1 .. n
        PROVE  BlockIn(P, s, y, n, x, j + 1, e)
    <3>1. e = b \/ e \in n - j + 1 .. n
      BY <1>1, <1>2
    <3> QED BY <2>5, <2>6, <3>1
  <2> QED BY <2>3, <2>7
<1> QED BY <1>3, <1>8, <1>9, <1>10 DEF PlansAt

\* and holds for each step.
LEMMA PlansHold ==
  ASSUME NEW s, NEW y, NEW n, LayoutFits(s, y, n), NEW P, Plans(P, s, y, n)
  PROVE  \A j \in 0 .. n : PlansAt(P, s, y, n, j)
<1> DEFINE T == {j \in Nat : j <= n => PlansAt(P, s, y, n, j)}
<1>1. n \in Nat
  BY DEF LayoutFits
<1>2. 0 \in T
  <2>1. PICK p : p = P[0]
    OBVIOUS
  <2>2. p = [ok |-> TRUE, exact |-> TRUE, layout |-> y, live |-> y.rhs, at |-> <<>>, tapes |-> <<>>]
    BY <2>1 DEF Plans
  <2>3. /\ IsPlan(p) /\ p.ok \in BOOLEAN /\ p.layout = y /\ p.live = y.rhs /\ p.tapes = <<>>
    BY <2>2 DEF IsPlan
  <2>4. p.live \subseteq Positions \X Requests
    BY <2>3 DEF LayoutFits
  <2>5. p.tapes \in Seq(LayoutTapes(y, n)) /\ Len(p.tapes) = 0
    BY <2>3
  <2>6. n - 0 + 1 .. n = {}
    BY <1>1
  <2> QED BY <2>1, <2>3, <2>4, <2>5, <2>6 DEF PlansAt
<1>3. ASSUME NEW k \in Nat, k \in T PROVE k + 1 \in T
  <2>1. CASE k + 1 <= n
    <3>1. k \in 0 .. n - 1 /\ PlansAt(P, s, y, n, k)
      BY <1>1, <1>3, <2>1
    <3> QED BY <3>1, PlansMore
  <2> QED BY <2>1
<1> HIDE DEF T
<1>4. \A k \in Nat : k \in T
  BY <1>2, <1>3, SetInduction
<1> QED BY <1>1, <1>4 DEF T

-----------------------------------------------------------------------------
(* What is built serves every system with the pattern of the first. *)

\* The support of the right-hand side before and after the tape of every block.
PlanLive(p, n, L, E) ==
  /\ p.layout.rhs \subseteq L[n]
  /\ \A b \in 1 .. n : /\ TapeLive(p.tapes[b], L[b], E[b])
                       /\ LiveCoupled(p, b, E[b], L[b - 1])

\* A plan that serves its system.
PlanServes(s, p, n) ==
  /\ PlanFits(p, n) /\ n > 0 /\ p.layout = Layout(s)
  /\ p.layout.matrix \in [DOMAIN p.layout.matrix -> Field]
  /\ \E L, E : PlanLive(p, n, L, E)
  /\ \A m \in 1 .. s.basis : SolutionRow(p, m) \in p.layout.blocks[1]

\* A block of the finished plan.
LEMMA PlanBlock ==
  ASSUME NEW s, NEW y, NEW n, LayoutFits(s, y, n), NEW P, Plans(P, s, y, n), P[n].ok,
         NEW b \in 1 .. n
  PROVE  LET p == P[n]
             r == RecordOf(P, s, y, n, b)
         IN  /\ p.tapes[b] = r.tape /\ p.tapes[b] \in Seq(Groups(SlotsIn(y), y.blocks[b], Requests))
             /\ \A i \in y.blocks[b] : p.at[i] \in y.blocks[b] /\ p.at[i] = P[n - b + 1].at[i]
             /\ TapeLive(p.tapes[b], P[n - b].live, r.live)
             /\ r.live \subseteq Positions \X Requests
             /\ P[n - b + 1].live = r.live \union Carried(Couplings(y, b), P[n - b + 1].at, r.live)
<1>1. n \in Nat
  BY DEF LayoutFits
<1>2. n \in 0 .. n /\ b \in n - n + 1 .. n /\ b - (n - n) = b
  BY <1>1
<1>3. PlansAt(P, s, y, n, n)
  BY <1>2, PlansHold
<1>4. BlockIn(P, s, y, n, P[n], n, b)
  BY <1>2, <1>3 DEF PlansAt
<1>5. PICK p, r : p = P[n] /\ r = RecordOf(P, s, y, n, b)
  OBVIOUS
<1>6. /\ r.ok /\ BlockFits(r, SlotsIn(y), y.blocks[b], P[n - b].live) /\ p.tapes[b] = r.tape
      /\ \A i \in y.blocks[b] : i \in DOMAIN p.at /\ p.at[i] = r.at[i]
      /\ P[n - b + 1].live = r.live \union Carried(Couplings(y, b), P[n - b + 1].at, r.live)
      /\ \A i \in y.blocks[b] : P[n - b + 1].at[i] = r.at[i]
  BY <1>2, <1>4, <1>5 DEF BlockIn
<1>7. /\ r.tape \in Seq(Groups(SlotsIn(y), y.blocks[b], Requests))
      /\ r.live \subseteq Positions \X Requests
      /\ r.at \in [y.blocks[b] -> y.blocks[b]]
      /\ TapeLive(r.tape, P[n - b].live, r.live)
  BY <1>6 DEF BlockFits
<1>8. \A i \in y.blocks[b] : p.at[i] \in y.blocks[b] /\ p.at[i] = P[n - b + 1].at[i]
  BY <1>6, <1>7
<1>9. TapeLive(p.tapes[b], P[n - b].live, r.live)
  BY <1>6, <1>7
<1> QED BY <1>5, <1>6, <1>7, <1>8, <1>9

\* Its couplings carry what is live.
LEMMA BlockCarries ==
  ASSUME NEW s, NEW y, NEW n, LayoutFits(s, y, n), NEW P, Plans(P, s, y, n), P[n].ok,
         NEW b \in 1 .. n, NEW p, p = P[n], p.layout = y
  PROVE  LiveCoupled(p, b, RecordOf(P, s, y, n, b).live, P[n - b + 1].live)
<1>1. PICK B, L, at : B = RecordOf(P, s, y, n, b).live /\ L = P[n - b + 1].live /\ at = P[n - b + 1].at
  OBVIOUS
<1>2. /\ \A i \in y.blocks[b] : p.at[i] = at[i]
      /\ B \subseteq Positions \X Requests /\ L = B \union Carried(Couplings(y, b), at, B)
  BY <1>1, PlanBlock
<1>3. ASSUME NEW x \in Couplings(y, b), NEW t, <<p.at[x[2]], t>> \in B
      PROVE  <<x[1], t>> \in L
  <2>1. x[2] \in y.blocks[b]
    BY DEF Couplings
  <2>2. <<at[x[2]], t>> \in B
    BY <1>2, <1>3, <2>1
  <2>3. <<x[1], t>> \in Carried(Couplings(y, b), at, B)
    BY <1>2, <2>2, CarriedIs
  <2> QED BY <1>2, <2>3
<1> QED BY <1>1, <1>2, <1>3 DEF LiveCoupled

\* A plan that BuildReplay accepts serves its system.
LEMMA BuiltServes ==
  ASSUME NEW s, IsSystem(s), NEW p, p = BuildReplay(s), p.ok
  PROVE  \E n : PlanServes(s, p, n)
<1>1. PICK y, n : y = Layout(s) /\ LayoutFits(s, y, n)
  BY LayoutIs
<1>2. n \in Nat /\ n > 0 /\ DOMAIN y.blocks = 1 .. n
  BY <1>1 DEF LayoutFits
<1>3. PICK P : Plans(P, s, y, n) /\ P[n] = RecordBlocks(s, y)
  BY <1>2, PlansExist
<1>4. p = P[n] /\ P[n].ok
  BY <1>1, <1>3 DEF BuildReplay
<1>5. p.layout = y
  <2>1. PlansAt(P, s, y, n, n)
    <3>1. n \in 0 .. n
      BY <1>2
    <3> QED BY <1>1, <1>3, <3>1, PlansHold
  <2> QED BY <1>4, <2>1 DEF PlansAt
<1>6. Slots(p) = SlotsIn(y)
  BY <1>5 DEF Slots, SlotsIn
<1>7. ASSUME NEW b \in 1 .. n
      PROVE  /\ p.tapes[b] \in Seq(Groups(Slots(p), y.blocks[b], Requests))
             /\ \A i \in y.blocks[b] : p.at[i] \in y.blocks[b]
             /\ TapeLive(p.tapes[b], P[n - b].live, RecordOf(P, s, y, n, b).live)
  BY <1>1, <1>3, <1>4, <1>6, PlanBlock
<1>8. PlanFits(p, n)
  BY <1>1, <1>5, <1>7 DEF PlanFits, LayoutFits
<1>9. \E L, E : PlanLive(p, n, L, E)
  <2>1. PICK L, E : /\ L = [b \in 0 .. n |-> P[n - b].live]
                    /\ E = [b \in 1 .. n |-> RecordOf(P, s, y, n, b).live]
    OBVIOUS
  <2>2. y.rhs \subseteq L[n]
    <3>1. n \in 0 .. n /\ n - n = 0
      BY <1>2
    <3>2. L[n] = P[0].live
      BY <2>1, <3>1
    <3> QED BY <1>3, <3>2 DEF Plans
  <2>3. ASSUME NEW b \in 1 .. n
        PROVE  TapeLive(p.tapes[b], L[b], E[b]) /\ LiveCoupled(p, b, E[b], L[b - 1])
    <3>1. b \in 0 .. n /\ b - 1 \in 0 .. n /\ n - (b - 1) = n - b + 1
      BY <1>2
    <3>2. L[b] = P[n - b].live /\ L[b - 1] = P[n - b + 1].live /\ E[b] = RecordOf(P, s, y, n, b).live
      BY <2>1, <3>1
    <3>3. LiveCoupled(p, b, RecordOf(P, s, y, n, b).live, P[n - b + 1].live)
      BY <1>1, <1>3, <1>4, <1>5, BlockCarries
    <3> QED BY <1>7, <3>2, <3>3
  <2> QED BY <1>5, <2>2, <2>3 DEF PlanLive
<1>10. ASSUME NEW m \in 1 .. s.basis
       PROVE  SolutionRow(p, m) \in y.blocks[1]
  <2>1. PICK i : i = CHOOSE k \in Positions : y.columns[k] = m
    OBVIOUS
  <2>2. i \in y.blocks[1]
    BY <1>1, <2>1 DEF LayoutFits
  <2>3. p.at[i] \in y.blocks[1]
    BY <1>2, <1>7, <2>2
  <2> QED BY <1>5, <2>1, <2>3 DEF SolutionRow
<1> QED BY <1>1, <1>2, <1>5, <1>8, <1>9, <1>10 DEF PlanServes, LayoutFits

-----------------------------------------------------------------------------
(* One dual step of the reference. *)

\* A word of a row.
LEMMA PairOf ==
  ASSUME NEW i, NEW S, NEW w, w \in {i} \X S
  PROVE  \E m \in S : w = <<i, m>>
<1>1. w = <<w[1], w[2]>> /\ w[1] = i /\ w[2] \in S
  OBVIOUS
<1> QED BY <1>1

\* A transposed group leaves other words alone.
LEMMA TransposedApart ==
  ASSUME NEW r, NEW g, NEW f, NEW w, w \in DOMAIN r, w \notin {g.src} \X g.rhs,
         NEW y, y = ApplyTransposed(r, g, f)
  PROVE  w \in DOMAIN y /\ y[w] = r[w]
<1>1. /\ DOMAIN ApplyTransposed(r, g, f) = DOMAIN r
      /\ \A v \in DOMAIN r : v \notin {g.src} \X g.rhs => ApplyTransposed(r, g, f)[v] = r[v]
  BY ApplyTransposedIs
<1> QED BY <1>1

\* How the couplings of a block act in the kernel of the masters (c), and widened to every
\* master (d): `after` is what is alive once they have acted.
DualCouplings(c, d, b, M, reach, alive, after) ==
  /\ c.plan = d.plan /\ c.point = d.point
  /\ OfPairs(reach, M) /\ OfPairs(alive, M) /\ alive \subseteq after
  /\ \A x \in Couplings(c.plan.layout, b) :
       /\ d.kernel.columns[x] = M
       /\ c.kernel.columns[x] = At(reach, x[1]) \intersect At(alive, c.plan.at[x[2]])
       /\ \A m \in c.kernel.columns[x] : <<x[1], m>> \in after

\* The words of both after some couplings.
DualHolds(it, kt, b, e, D, M, I, reach, alive, T) ==
  /\ it[T] \in Words(M) /\ IsWords(kt[T])
  /\ \A w \in Positions \X M : w[1] \notin I => it[T][w] = e[w]
  /\ \A w \in DOMAIN D : w[1] \notin I => w \in DOMAIN kt[T] /\ kt[T][w] = D[w]
  /\ ZeroOff(it[T], reach) /\ Agree(it[T], kt[T], alive)

\* Couplings add nothing to the rows they lead to.
LEMMA ReachRows ==
  ASSUME NEW p, NEW n, PlanFits(p, n), NEW b \in 1 .. n, NEW M, NEW reach, OfPairs(reach, M),
         NEW x \in Couplings(p.layout, b)
  PROVE  At(ReachCoupled(p, reach, b), x[1]) = At(reach, x[1])
<1>1. PICK wide, i : wide = ReachCoupled(p, reach, b) /\ i = x[1]
  OBVIOUS
<1>2. OfPairs(wide, M) /\ reach \subseteq wide
  BY <1>1, ReachCoupledIs
<1>3. i \notin p.layout.blocks[b]
  BY <1>1, CouplingsAre
<1>4. ASSUME NEW m, <<i, m>> \in wide PROVE <<i, m>> \in reach
  <2>1. \/ <<i, m>> \in reach
        \/ \E y \in Couplings(p.layout, b) : <<i, m>> \in {p.at[y[2]]} \X At(reach, y[1])
    BY <1>1, <1>4 DEF ReachCoupled
  <2>2. ASSUME NEW y \in Couplings(p.layout, b), <<i, m>> \in {p.at[y[2]]} \X At(reach, y[1])
        PROVE  FALSE
    <3>1. i = p.at[y[2]]
      BY <2>2
    <3>2. p.at[y[2]] \in p.layout.blocks[b]
      BY CouplingsAre
    <3> QED BY <1>3, <3>1, <3>2
  <2> QED BY <2>1, <2>2
<1>5. \A m : <<i, m>> \in wide <=> <<i, m>> \in reach
  BY <1>2, <1>4
<1>6. /\ At(wide, i) \subseteq M /\ \A m : m \in At(wide, i) <=> <<i, m>> \in wide
      /\ At(reach, i) \subseteq M /\ \A m : m \in At(reach, i) <=> <<i, m>> \in reach
  BY <1>2, AtIs
<1> QED BY <1>1, <1>5, <1>6

\* One transposed coupling.
LEMMA DualStep ==
  ASSUME NEW c, NEW d, NEW n, PlanFits(c.plan, n), PointFits(c.plan, c.point), NEW b \in 1 .. n,
         NEW M, NEW reach, NEW alive, NEW after, DualCouplings(c, d, b, M, reach, alive, after),
         NEW e \in Words(M), NEW D, Agree(e, D, after),
         NEW x \in Couplings(c.plan.layout, b), NEW it, NEW kt, NEW V, NEW T,
         DualHolds(it, kt, b, e, D, M, c.plan.layout.blocks[b], ReachCoupled(c.plan, reach, b), alive, V),
         it[T] = StepOf(it[V], d, x, "transpose"),
         kt[T] = StepOf(kt[V], c, x, "transpose")
  PROVE  DualHolds(it, kt, b, e, D, M, c.plan.layout.blocks[b], ReachCoupled(c.plan, reach, b), alive, T)
<1>1. PICK I, R, q, k, f, g, h, a :
        /\ I = c.plan.layout.blocks[b] /\ R = ReachCoupled(c.plan, reach, b)
        /\ q = it[V] /\ k = kt[V] /\ f = c.point.matrix[x]
        /\ g = CoupleGroup(d, x) /\ h = CoupleGroup(c, x) /\ a = c.plan.at[x[2]]
  OBVIOUS
<1>2. /\ x \in DOMAIN c.plan.layout.matrix /\ x[1] \in Positions /\ x[1] \notin I
      /\ a \in I /\ a \in Positions
  <2>1. /\ x \in DOMAIN c.plan.layout.matrix /\ x \in Positions \X Positions
        /\ x[1] \notin I /\ a \in I
    BY <1>1, CouplingsAre
  <2>2. I \subseteq Positions
    BY <1>1 DEF PlanFits
  <2>3. x[1] \in Positions
    BY <2>1
  <2> QED BY <2>1, <2>2, <2>3
<1>3. f \in Field
  BY <1>1, <1>2 DEF PointFits
<1>4. /\ g.kind = "eliminate" /\ g.dst = x[1] /\ g.src = a /\ g.rhs = M
      /\ h.kind = "eliminate" /\ h.dst = x[1] /\ h.src = a /\ h.rhs = At(reach, x[1]) \intersect At(alive, a)
  BY <1>1 DEF CoupleGroup, DualCouplings
<1>5. it[T] = ApplyTransposed(q, g, f) /\ kt[T] = ApplyTransposed(k, h, f)
  <2>1. StepOf(q, d, x, "transpose") = ApplyTransposed(q, CoupleGroup(d, x), d.point.matrix[x])
    BY CoupleIs
  <2>2. StepOf(k, c, x, "transpose") = ApplyTransposed(k, CoupleGroup(c, x), c.point.matrix[x])
    BY CoupleIs
  <2> QED BY <1>1, <2>1, <2>2 DEF DualCouplings
<1>6. /\ q \in Words(M) /\ IsWords(k) /\ ZeroOff(q, R) /\ Agree(q, k, alive)
      /\ \A w \in Positions \X M : w[1] \notin I => q[w] = e[w]
      /\ \A w \in DOMAIN D : w[1] \notin I => w \in DOMAIN k /\ k[w] = D[w]
  BY <1>1 DEF DualHolds
<1>7. OfPairs(reach, M) /\ OfPairs(R, M) /\ OfPairs(alive, M) /\ At(R, x[1]) = At(reach, x[1])
  <2>1. OfPairs(reach, M) /\ OfPairs(alive, M)
    BY DEF DualCouplings
  <2>2. OfPairs(R, M)
    BY <1>1, <2>1, ReachCoupledIs
  <2>3. At(R, x[1]) = At(reach, x[1])
    <3>1. At(ReachCoupled(c.plan, reach, b), x[1]) = At(reach, x[1])
      BY <2>1, ReachRows
    <3> QED BY <1>1, <3>1
  <2> QED BY <2>1, <2>2, <2>3
<1>8. ActsOn(g, M)
  BY <1>2, <1>4 DEF ActsOn
<1>9. h.rhs = At(R, g.dst) \intersect At(alive, g.src)
  BY <1>4, <1>7
<1>10. Agree(q, k, alive \union ({g.dst} \X h.rhs))
  <2>1. ASSUME NEW w \in {g.dst} \X h.rhs
        PROVE  w \in DOMAIN q /\ w \in DOMAIN k /\ q[w] = k[w]
    <3>1. PICK m \in h.rhs : w = <<x[1], m>>
      <4>1. PICK m \in h.rhs : w = <<g.dst, m>>
        BY <2>1, PairOf
      <4> QED BY <1>4, <4>1
    <3>2. m \in M
      BY <1>4, <1>7, AtIs
    <3>3. w \in after
      BY <1>1, <1>4, <3>1 DEF DualCouplings, CoupleGroup
    <3>4. w \in DOMAIN e /\ w \in DOMAIN D /\ e[w] = D[w]
      BY <3>3 DEF Agree
    <3>5. w \in Positions \X M /\ w[1] \notin I
      BY <1>2, <3>1, <3>2
    <3> QED BY <1>6, <3>4, <3>5 DEF Words
  <2> QED BY <1>6, <2>1 DEF Agree
<1>11. /\ it[T] \in Words(M)
       /\ ZeroOff(it[T], R \union ({g.src} \X At(R, g.dst)))
       /\ Agree(it[T], kt[T], alive)
  <2>1. h.kind = g.kind /\ h.dst = g.dst /\ h.src = g.src /\ g.rhs = M
    BY <1>4
  <2>2. q \in Words(M) /\ ZeroOff(q, R) /\ OfPairs(R, M) /\ OfPairs(alive, M)
    BY <1>6, <1>7
  <2>3. /\ ApplyTransposed(q, g, f) \in Words(M)
        /\ ZeroOff(ApplyTransposed(q, g, f), R \union ({g.src} \X At(R, g.dst)))
        /\ Agree(ApplyTransposed(q, g, f), ApplyTransposed(k, h, f), alive)
    BY <1>3, <1>8, <1>9, <1>10, <2>1, <2>2, GroupAgrees
  <2> QED BY <1>5, <2>3
<1>12. ZeroOff(it[T], R)
  <2>1. \A m \in At(reach, x[1]) : <<a, m>> \in R
    BY <1>1, <1>7, ReachCoupledIs
  <2>2. {g.src} \X At(R, g.dst) \subseteq R
    <3>1. ASSUME NEW w \in {g.src} \X At(R, g.dst) PROVE w \in R
      <4>1. PICK m \in At(R, g.dst) : w = <<g.src, m>>
        BY <3>1, PairOf
      <4>2. g.src = a /\ m \in At(reach, x[1])
        BY <1>4, <1>7, <4>1
      <4> QED BY <2>1, <4>1, <4>2
    <3> QED BY <3>1
  <2>3. R \union ({g.src} \X At(R, g.dst)) = R
    BY <2>2
  <2> QED BY <1>11, <2>3
<1>13. IsWords(kt[T])
  BY <1>5, <1>6, TransposedWords
<1>14. ASSUME NEW w \in Positions \X M, w[1] \notin I PROVE it[T][w] = e[w]
  <2>1. w \in DOMAIN q /\ w \notin {g.src} \X g.rhs
    BY <1>2, <1>4, <1>6, <1>14 DEF Words
  <2>2. it[T][w] = q[w]
    BY <1>5, <2>1, TransposedApart
  <2> QED BY <1>6, <1>14, <2>2
<1>15. ASSUME NEW w \in DOMAIN D, w[1] \notin I PROVE w \in DOMAIN kt[T] /\ kt[T][w] = D[w]
  <2>1. w \in DOMAIN k /\ k[w] = D[w] /\ w \notin {h.src} \X h.rhs
    BY <1>2, <1>4, <1>6, <1>15
  <2>2. w \in DOMAIN kt[T] /\ kt[T][w] = k[w]
    BY <1>5, <2>1, TransposedApart
  <2> QED BY <2>1, <2>2
<1> QED BY <1>1, <1>11, <1>12, <1>13, <1>14, <1>15 DEF DualHolds

\* The kept couplings agree, where alive, with those for all columns.
LEMMA CouplingsAgreeDual ==
  ASSUME NEW c, NEW d, NEW n, PlanFits(c.plan, n), PointFits(c.plan, c.point), NEW b \in 1 .. n,
         NEW M, NEW reach, NEW alive, NEW after, DualCouplings(c, d, b, M, reach, alive, after),
         NEW e \in Words(M), ZeroOff(e, reach), NEW D, IsWords(D), Agree(e, D, after)
  PROVE  LET h == Gathered(e, d, Couplings(c.plan.layout, b), "transpose")
             q == Gathered(D, c, Couplings(c.plan.layout, b), "transpose")
         IN  /\ h \in Words(M) /\ ZeroOff(h, ReachCoupled(c.plan, reach, b))
             /\ IsWords(q) /\ Agree(h, q, alive)
<1>1. PICK S, I, R : /\ S = Couplings(c.plan.layout, b) /\ I = c.plan.layout.blocks[b]
                     /\ R = ReachCoupled(c.plan, reach, b)
  OBVIOUS
<1>2. IsFiniteSet(S)
  BY <1>1, CouplingsFinite
<1>3. PICK it : Gathers(it, e, d, S, "transpose")
  BY <1>2, GatherIs
<1>4. PICK kt : Gathers(kt, D, c, S, "transpose")
  BY <1>2, GatherIs
<1> DEFINE Q == {T \in SUBSET S : DualHolds(it, kt, b, e, D, M, I, R, alive, T)}
<1>5. {} \in Q
  <2>1. it[{}] = e /\ kt[{}] = D
    <3>1. {} \in SUBSET S
      OBVIOUS
    <3>2. GatherAt(it, e, d, "transpose", {}) /\ GatherAt(kt, D, c, "transpose", {})
      BY <1>3, <1>4, <3>1 DEF Gathers
    <3> QED BY <3>2 DEF GatherAt
  <2>2. reach \subseteq R
    BY <1>1, ReachCoupledIs DEF DualCouplings
  <2>3. ZeroOff(e, R)
    BY <2>2 DEF ZeroOff
  <2>4. Agree(e, D, alive)
    BY DEF Agree, DualCouplings
  <2> QED BY <2>1, <2>3, <2>4 DEF DualHolds
<1>6. ASSUME NEW T \in SUBSET S, T # {}, T \ {Chosen(T)} \in Q PROVE T \in Q
  <2>1. PICK x, V : x = Chosen(T) /\ V = T \ {x}
    OBVIOUS
  <2>2. x \in S
    BY <1>6, <2>1 DEF Chosen
  <2>3. /\ it[T] = StepOf(it[V], d, x, "transpose")
        /\ kt[T] = StepOf(kt[V], c, x, "transpose")
    <3>1. GatherAt(it, e, d, "transpose", T) /\ GatherAt(kt, D, c, "transpose", T)
      BY <1>3, <1>4 DEF Gathers
    <3> QED BY <1>6, <2>1, <3>1 DEF GatherAt
  <2>4. DualHolds(it, kt, b, e, D, M, I, R, alive, V)
    BY <1>6, <2>1
  <2>5. DualHolds(it, kt, b, e, D, M, I, R, alive, T)
    BY <1>1, <2>2, <2>3, <2>4, DualStep
  <2> QED BY <2>5
<1> HIDE DEF Q
<1>7. S \in Q
  BY <1>2, <1>5, <1>6, SubsetInduction
<1>8. DualHolds(it, kt, b, e, D, M, I, R, alive, S)
  BY <1>7 DEF Q
<1>9. it[S] = Gathered(e, d, S, "transpose") /\ kt[S] = Gathered(D, c, S, "transpose")
  BY <1>3, <1>4 DEF Gathers
<1> QED BY <1>1, <1>8, <1>9 DEF DualHolds

-----------------------------------------------------------------------------
(* What is pruned for a master kernel, and its backward pass. *)

\* The passes of Backward.
BackwardPass(K, c, sinks, n) ==
  /\ K[0] = [alive |-> sinks, columns |-> <<>>, tape |-> <<>>, tapes |-> <<>>]
  /\ \A j \in 1 .. n : K[j] = BackwardBlock(K[j - 1], c, n - j + 1)

ForwardFits(c, n, M) ==
  \A b \in 1 .. n : c.forward.tapes[b] \in Seq(Groups(Slots(c.plan), c.plan.layout.blocks[b], M))

KeptIn(x, c, h, a, i, b) ==
  /\ x.tapes[i] = PruneFactors(h).tape
  /\ \A y \in Couplings(c.plan.layout, b) :
       y \in DOMAIN x.columns /\ x.columns[y] = KeptColumns(c, a[Len(c.forward.tapes[b])], y)

BackwardExplained(K, c, M, n, x, j, b) ==
  \E h, a : /\ BackwardBlockDoes(K[n - b], K[n - b + 1], h, a, c, M, b)
            /\ KeptIn(x, c, h, a, b - (n - j), b)

BackwardAt(K, c, M, n, j) ==
  /\ IsBackward(K[j]) /\ OfPairs(K[j].alive, M)
  /\ K[j].tapes \in Seq(TapesFor(c.plan, n, M)) /\ Len(K[j].tapes) = j
  /\ \A b \in n - j + 1 .. n : BackwardExplained(K, c, M, n, K[j], j, b)

\* A pruned tape is one of its block.
LEMMA PrunedFits ==
  ASSUME NEW p, NEW n, NEW M, NEW b \in 1 .. n,
         NEW h \in Seq(Groups(Slots(p), p.layout.blocks[b], M))
  PROVE  PruneFactors(h).tape \in TapesFor(p, n, M)
<1>1. PICK W, R, q : W = Slots(p) /\ R = p.layout.blocks[b] /\ q = PruneFactors(h)
  OBVIOUS
<1>2. Pruned2(q, W, R, M)
  BY <1>1, PruneFactorsIs
<1>3. q.slots \subseteq W /\ q.tape \in Seq(Groups(q.slots, R, M))
  BY <1>2 DEF Pruned2
<1>4. PICK X : X = q.slots
  OBVIOUS
<1>5. Seq(Groups(X, R, M)) \subseteq Seq(Groups(W, R, M))
  BY <1>3, <1>4, GroupsGrow
<1>6. q.tape \in TapeSet(p, b, M)
  BY <1>1, <1>3, <1>4, <1>5 DEF TapeSet
<1> QED BY <1>1, <1>6, TapesForIs

\* A block explained before the last step still is.
LEMMA BackwardStays ==
  ASSUME NEW K, NEW c, NEW n, PlanFits(c.plan, n), NEW M, NEW j \in 0 .. n - 1,
         NEW b \in n - j + 1 .. n, NEW f, BackwardExplained(K, c, M, n, f, j, b),
         NEW S, f.tapes \in Seq(S), Len(f.tapes) = j, NEW t \in S,
         NEW x, x.tapes = <<t>> \o f.tapes, NEW g, DOMAIN g = Couplings(c.plan.layout, n - j),
         x.columns = Over(g, f.columns)
  PROVE  BackwardExplained(K, c, M, n, x, j + 1, b)
<1>1. n \in Nat
  BY DEF PlanFits
<1>2. /\ b \in 1 .. n /\ n - j \in 1 .. n /\ b # n - j
      /\ b - (n - j) \in 1 .. j /\ b - (n - (j + 1)) = (b - (n - j)) + 1
  <2>1. j \in Nat /\ j <= n - 1 /\ b \in Int /\ b >= n - j + 1 /\ b <= n
    BY <1>1
  <2> QED BY <1>1, <2>1
<1>3. PICK i, m : i = b - (n - j) /\ m = n - j
  OBVIOUS
<1>4. PICK h, a : /\ BackwardBlockDoes(K[n - b], K[n - b + 1], h, a, c, M, b)
                  /\ KeptIn(f, c, h, a, i, b)
  BY <1>3 DEF BackwardExplained
<1>5. x.tapes[i + 1] = f.tapes[i]
  <2>1. PICK s, u : s = f.tapes /\ u = <<t>> \o s
    OBVIOUS
  <2>2. s \in Seq(S)
    BY <2>1
  <2>3. \A k \in 1 .. Len(s) : u[k + 1] = s[k]
    BY <2>1, <2>2, PrefixedIs
  <2> QED BY <1>2, <1>3, <2>1, <2>3
<1>6. ASSUME NEW y \in Couplings(c.plan.layout, b)
      PROVE  /\ y \in DOMAIN x.columns
             /\ x.columns[y] = KeptColumns(c, a[Len(c.forward.tapes[b])], y)
  <2>1. y \in DOMAIN f.columns /\ f.columns[y] = KeptColumns(c, a[Len(c.forward.tapes[b])], y)
    BY <1>4 DEF KeptIn
  <2>2. y \notin DOMAIN g
    <3>1. m \in 1 .. n /\ b # m
      BY <1>2, <1>3
    <3>2. y \notin Couplings(c.plan.layout, m)
      BY <1>2, <3>1, CouplingsApart
    <3> QED BY <1>3, <3>2
  <2>3. PICK C, Z : C = f.columns /\ Z = x.columns
    OBVIOUS
  <2>4. y \in DOMAIN C \ DOMAIN g /\ Z = Over(g, C)
    BY <2>1, <2>2, <2>3
  <2>5. y \in DOMAIN Z /\ Z[y] = C[y]
    BY <2>4, OverLate
  <2> QED BY <2>1, <2>3, <2>5
<1>7. x.tapes[i + 1] = PruneFactors(h).tape
  BY <1>4, <1>5 DEF KeptIn
<1>8. KeptIn(x, c, h, a, i + 1, b)
  BY <1>6, <1>7 DEF KeptIn
<1>9. i + 1 = b - (n - (j + 1))
  BY <1>2, <1>3
<1> QED BY <1>4, <1>8, <1>9 DEF BackwardExplained

\* The invariant of Backward is kept,
LEMMA BackwardMore ==
  ASSUME NEW K, NEW c, NEW n, PlanFits(c.plan, n), NEW M, ForwardFits(c, n, M), NEW sinks,
         BackwardPass(K, c, sinks, n), NEW j \in 0 .. n - 1, BackwardAt(K, c, M, n, j)
  PROVE  BackwardAt(K, c, M, n, j + 1)
<1>1. n \in Nat
  BY DEF PlanFits
<1>2. PICK b : b = n - j
  OBVIOUS
<1>3. /\ j \in Nat /\ b \in 1 .. n /\ n - b = j /\ n - b + 1 = j + 1 /\ j + 1 \in 1 .. n
      /\ (j + 1) - 1 = j /\ n - (j + 1) + 1 = b /\ b - (n - (j + 1)) = 1
  <2>1. j \in Nat /\ j <= n - 1
    BY <1>1
  <2> QED BY <1>1, <1>2, <2>1
<1>4. PICK f, x : f = K[j] /\ x = K[j + 1]
  OBVIOUS
<1>5. /\ IsBackward(f) /\ OfPairs(f.alive, M)
      /\ f.tapes \in Seq(TapesFor(c.plan, n, M)) /\ Len(f.tapes) = j
      /\ \A e \in n - j + 1 .. n : BackwardExplained(K, c, M, n, f, j, e)
  BY <1>4 DEF BackwardAt
<1>6. x = BackwardBlock(f, c, b)
  BY <1>3, <1>4 DEF BackwardPass
<1>7. PICK h, a : BackwardBlockDoes(f, x, h, a, c, M, b)
  <2>1. c.forward.tapes[b] \in Seq(Groups(Slots(c.plan), c.plan.layout.blocks[b], M))
    BY <1>3 DEF ForwardFits
  <2> QED BY <1>3, <1>5, <1>6, <2>1, BackwardBlockIs
<1>8. PICK g, t, m, Y : /\ m = a[Len(c.forward.tapes[b])] /\ Y = Couplings(c.plan.layout, b)
                        /\ g = [y \in Y |-> KeptColumns(c, m, y)] /\ t = PruneFactors(h).tape
  OBVIOUS
<1>9. /\ IsBackward(x) /\ x.tapes = <<t>> \o f.tapes /\ x.columns = Over(g, f.columns)
      /\ h \in Seq(Groups(Slots(c.plan), c.plan.layout.blocks[b], M)) /\ OfPairs(x.alive, M)
  BY <1>7, <1>8 DEF BackwardBlockDoes
<1>10. t \in TapesFor(c.plan, n, M)
  BY <1>3, <1>8, <1>9, PrunedFits
<1>11. x.tapes \in Seq(TapesFor(c.plan, n, M)) /\ Len(x.tapes) = j + 1 /\ x.tapes[1] = t
  <2>1. PICK s, u, S : s = f.tapes /\ u = <<t>> \o s /\ S = TapesFor(c.plan, n, M)
    OBVIOUS
  <2>2. s \in Seq(S) /\ t \in S
    BY <1>5, <1>10, <2>1
  <2>3. u \in Seq(S) /\ Len(u) = Len(s) + 1 /\ u[1] = t
    BY <2>1, <2>2, PrefixedIs
  <2> QED BY <1>5, <1>9, <2>1, <2>3
<1>12. BackwardExplained(K, c, M, n, x, j + 1, b)
  <2>1. ASSUME NEW y \in Y
        PROVE  y \in DOMAIN x.columns /\ x.columns[y] = KeptColumns(c, m, y)
    <3>1. PICK C, Z : C = f.columns /\ Z = x.columns
      OBVIOUS
    <3>2. y \in DOMAIN g /\ Z = Over(g, C) /\ g[y] = KeptColumns(c, m, y)
      BY <1>8, <1>9, <3>1
    <3>3. y \in DOMAIN Z /\ Z[y] = g[y]
      BY <3>2, OverEarly
    <3> QED BY <3>1, <3>2, <3>3
  <2>2. KeptIn(x, c, h, a, 1, b)
    BY <1>8, <1>11, <2>1 DEF KeptIn
  <2>3. BackwardBlockDoes(K[n - b], K[n - b + 1], h, a, c, M, b)
    BY <1>3, <1>4, <1>7
  <2> QED BY <1>3, <2>2, <2>3 DEF BackwardExplained
<1>13. ASSUME NEW e \in n - j + 1 .. n PROVE BackwardExplained(K, c, M, n, x, j + 1, e)
  <2>1. BackwardExplained(K, c, M, n, f, j, e)
    BY <1>5
  <2>2. DOMAIN g = Couplings(c.plan.layout, n - j)
    BY <1>2, <1>8
  <2>3. PICK S : S = TapesFor(c.plan, n, M)
    OBVIOUS
  <2>4. f.tapes \in Seq(S) /\ Len(f.tapes) = j /\ t \in S
    BY <1>5, <1>10, <2>3
  <2> QED BY <1>9, <2>1, <2>2, <2>4, BackwardStays
<1>14. ASSUME NEW e \in n - (j + 1) + 1 .. n PROVE BackwardExplained(K, c, M, n, x, j + 1, e)
  <2>1. e = b \/ e \in n - j + 1 .. n
    BY <1>1, <1>2, <1>3
  <2> QED BY <1>12, <1>13, <2>1
<1> QED BY <1>4, <1>9, <1>11, <1>14 DEF BackwardAt

\* and holds for each pass.
LEMMA BackwardPassIs ==
  ASSUME NEW K, NEW c, NEW n, PlanFits(c.plan, n), NEW M, ForwardFits(c, n, M), NEW sinks,
         OfPairs(sinks, M), BackwardPass(K, c, sinks, n)
  PROVE  \A j \in 0 .. n : BackwardAt(K, c, M, n, j)
<1>1. n \in Nat
  BY DEF PlanFits
<1> DEFINE T == {j \in Nat : j <= n => BackwardAt(K, c, M, n, j)}
<1>2. 0 \in T
  <2>1. PICK f : f = K[0]
    OBVIOUS
  <2>2. f = [alive |-> sinks, columns |-> <<>>, tape |-> <<>>, tapes |-> <<>>]
    BY <2>1 DEF BackwardPass
  <2>3. IsBackward(f) /\ f.alive = sinks /\ f.tapes = <<>>
    BY <2>2 DEF IsBackward
  <2>4. <<>> \in Seq(TapesFor(c.plan, n, M)) /\ Len(<<>>) = 0
    OBVIOUS
  <2>5. n - 0 + 1 .. n = {}
    BY <1>1
  <2> QED BY <2>1, <2>3, <2>4, <2>5 DEF BackwardAt
<1>3. ASSUME NEW k \in Nat, k \in T PROVE k + 1 \in T
  <2>1. CASE k + 1 <= n
    <3>1. k \in 0 .. n - 1 /\ BackwardAt(K, c, M, n, k)
      BY <1>1, <1>3, <2>1
    <3> QED BY <3>1, BackwardMore
  <2> QED BY <2>1
<1> HIDE DEF T
<1>4. \A j \in Nat : j \in T
  BY <1>2, <1>3, SetInduction
<1> QED BY <1>1, <1>4 DEF T

\* Backward comes from its passes.
LEMMA BackwardExists ==
  ASSUME NEW c, NEW n, PlanFits(c.plan, n), NEW sinks
  PROVE  \E K : BackwardPass(K, c, sinks, n) /\ Backward(c.plan, c.forward, sinks) = K[n]
<1>1. n \in Nat /\ DOMAIN c.plan.layout.blocks = 1 .. n
  BY DEF PlanFits
<1>2. PICK s, f : /\ s = Reverse(BlockNumbers(c.plan))
                  /\ f = [alive |-> sinks, columns |-> <<>>, tape |-> <<>>, tapes |-> <<>>]
  OBVIOUS
<1>3. DOMAIN s = 1 .. n /\ \A j \in 1 .. n : s[j] = n - j + 1
  BY <1>1, <1>2, NumbersAre
<1>4. PICK K : Chain(K, f, c, s, "backwards") /\ K[n] = Folded(f, c, s, "backwards")
  BY <1>1, <1>3, FoldChain
<1>5. Backward(c.plan, c.forward, sinks) = K[n]
  BY <1>2, <1>4, BackwardFold
<1>6. K[0] = f
  BY <1>4 DEF Chain
<1>7. ASSUME NEW j \in 1 .. n PROVE K[j] = BackwardBlock(K[j - 1], c, n - j + 1)
  <2>1. K[j] = StepOf(K[j - 1], c, n - j + 1, "backwards")
    BY <1>3, <1>4 DEF Chain
  <2> QED BY <2>1, StepBackwards
<1> QED BY <1>2, <1>5, <1>6, <1>7 DEF BackwardPass

-----------------------------------------------------------------------------
(* The forward pass, and the blocks of a master kernel. *)

\* What block b of the kernel of the masters is, from what is reached and alive around it.
BlockPruned(c, M, b, before, reach, alive, left, u, r, h, a) ==
  LET t == c.plan.tapes[b]
      N == Len(t)
  IN  /\ OfPairs(before, M)
      /\ u \in Seq(Groups(Slots(c.plan), c.plan.layout.blocks[b], M)) /\ Len(u) = N
      /\ ForwardTape(t, u, r, N) /\ r[N] = ReachCoupled(c.plan, before, b) /\ r[0] = reach
      /\ h \in Seq(Groups(Slots(c.plan), c.plan.layout.blocks[b], M)) /\ Len(h) = N
      /\ BackwardTape(u, h, a, N) /\ a[0] = left
      /\ \A i \in 0 .. N : OfPairs(r[i], M) /\ OfPairs(a[i], M)
      /\ a[N] \subseteq alive
      /\ c.kernel.tapes[b] = PruneFactors(h).tape
      /\ \A x \in Couplings(c.plan.layout, b) :
           /\ c.kernel.columns[x] = At(before, x[1]) \intersect At(a[N], c.plan.at[x[2]])
           /\ \A m \in c.kernel.columns[x] : <<x[1], m>> \in alive

\* The kernel that finalize_replay makes for the masters, from its two passes.
MasterMade(c, n, M, seeds, sinks, F, K) ==
  /\ PlanFits(c.plan, n) /\ OfPairs(seeds, M) /\ OfPairs(sinks, M)
  /\ ForwardPass(F, c, seeds, n) /\ c.forward = F[n] /\ BackwardPass(K, c, sinks, n)
  /\ c.kernel.tapes = K[n].tapes /\ c.kernel.columns = K[n].columns /\ c.kernel.alive = K[n].alive

\* Its forward tapes,
LEMMA ForwardTapes ==
  ASSUME NEW c, NEW n, NEW M, NEW seeds, NEW sinks, NEW F, NEW K,
         MasterMade(c, n, M, seeds, sinks, F, K), NEW b \in 1 .. n
  PROVE  \E r : /\ c.forward.tapes[b] = F[b].tape
                /\ ForwardBlockDoes(F[b - 1], F[b], r, c, M, b)
                /\ \A x \in Couplings(c.plan.layout, b) : c.forward.columns[x] = At(F[b - 1].reach, x[1])
<1>1. n \in Nat /\ n \in 0 .. n /\ PlanFits(c.plan, n)
  BY DEF MasterMade, PlanFits
<1>2. ForwardAt(F, c, M, n, n)
  BY <1>1, ForwardPassIs DEF MasterMade
<1>3. ForwardExplained(F, c, M, n, b)
  BY <1>2 DEF ForwardAt
<1> QED BY <1>3 DEF ForwardExplained, MasterMade

\* which are tapes of their blocks.
LEMMA MasterForwardFits ==
  ASSUME NEW c, NEW n, NEW M, NEW seeds, NEW sinks, NEW F, NEW K,
         MasterMade(c, n, M, seeds, sinks, F, K)
  PROVE  ForwardFits(c, n, M)
<1>1. ASSUME NEW b \in 1 .. n
      PROVE  c.forward.tapes[b] \in Seq(Groups(Slots(c.plan), c.plan.layout.blocks[b], M))
  <2>1. PICK r : /\ c.forward.tapes[b] = F[b].tape
                 /\ ForwardBlockDoes(F[b - 1], F[b], r, c, M, b)
    BY ForwardTapes
  <2> QED BY <2>1 DEF ForwardBlockDoes
<1> QED BY <1>1 DEF ForwardFits

\* Its blocks come from both passes.
LEMMA MasterBlockMade ==
  ASSUME NEW c, NEW n, NEW M, NEW seeds, NEW sinks, NEW F, NEW K,
         MasterMade(c, n, M, seeds, sinks, F, K), NEW b \in 1 .. n
  PROVE  \E u, r, h, a : BlockPruned(c, M, b, F[b - 1].reach, F[b].reach, K[n - b + 1].alive,
                                     K[n - b].alive, u, r, h, a)
<1>1. n \in Nat /\ PlanFits(c.plan, n)
  BY DEF MasterMade, PlanFits
<1>2. PICK r : /\ c.forward.tapes[b] = F[b].tape
               /\ ForwardBlockDoes(F[b - 1], F[b], r, c, M, b)
               /\ \A x \in Couplings(c.plan.layout, b) : c.forward.columns[x] = At(F[b - 1].reach, x[1])
  BY ForwardTapes
<1>3. PICK t, u, N, W, R : /\ t = c.plan.tapes[b] /\ u = c.forward.tapes[b] /\ N = Len(t)
                           /\ W = Slots(c.plan) /\ R = c.plan.layout.blocks[b]
  OBVIOUS
<1>4. /\ u \in Seq(Groups(W, R, M)) /\ Len(u) = N /\ ForwardTape(t, u, r, N)
      /\ r[N] = ReachCoupled(c.plan, F[b - 1].reach, b) /\ r[0] = F[b].reach
      /\ \A i \in 0 .. N : OfPairs(r[i], M)
  BY <1>2, <1>3 DEF ForwardBlockDoes
<1>5. OfPairs(F[b - 1].reach, M)
  <2>1. b - 1 \in 0 .. n
    BY <1>1
  <2>2. ForwardAt(F, c, M, n, b - 1)
    BY <1>1, <2>1, ForwardPassIs DEF MasterMade
  <2> QED BY <2>2 DEF ForwardAt
<1>6. BackwardAt(K, c, M, n, n)
  <2>1. n \in 0 .. n
    BY <1>1
  <2>2. ForwardFits(c, n, M)
    BY MasterForwardFits
  <2> QED BY <1>1, <2>1, <2>2, BackwardPassIs DEF MasterMade
<1>7. PICK h, a : /\ BackwardBlockDoes(K[n - b], K[n - b + 1], h, a, c, M, b)
                  /\ KeptIn(K[n], c, h, a, b, b)
  <2>1. b \in n - n + 1 .. n /\ b - (n - n) = b
    BY <1>1
  <2>2. BackwardExplained(K, c, M, n, K[n], n, b)
    BY <1>6, <2>1 DEF BackwardAt
  <2> QED BY <2>1, <2>2 DEF BackwardExplained
<1>8. /\ h \in Seq(Groups(W, R, M)) /\ Len(h) = N /\ BackwardTape(u, h, a, N) /\ a[0] = K[n - b].alive
      /\ K[n - b + 1].alive = AliveCoupled(c, a[N], b)
      /\ \A i \in 0 .. N : OfPairs(a[i], M)
  BY <1>3, <1>4, <1>7 DEF BackwardBlockDoes
<1>9. PICK A, alive : A = a[N] /\ alive = K[n - b + 1].alive
  OBVIOUS
<1>10. OfPairs(A, M)
  <2>1. N \in Nat
    <3>1. t \in Seq(Groups(W, R, Requests))
      BY <1>1, <1>3 DEF PlanFits
    <3> QED BY <1>3, <3>1, SequenceIs
  <2>2. N \in 0 .. N
    BY <2>1
  <2> QED BY <1>8, <1>9, <2>2
<1>11. /\ A \subseteq AliveCoupled(c, A, b)
       /\ \A x \in Couplings(c.plan.layout, b) : \A m \in KeptColumns(c, A, x) :
            <<x[1], m>> \in AliveCoupled(c, A, b)
  BY <1>1, <1>10, AliveCoupledIs
<1>12. ASSUME NEW x \in Couplings(c.plan.layout, b)
       PROVE  /\ c.kernel.columns[x] = KeptColumns(c, A, x)
              /\ KeptColumns(c, A, x) = At(F[b - 1].reach, x[1]) \intersect At(A, c.plan.at[x[2]])
  <2>1. c.kernel.columns[x] = KeptColumns(c, A, x)
    BY <1>3, <1>4, <1>7, <1>9 DEF KeptIn, MasterMade
  <2>2. c.forward.columns[x] = At(F[b - 1].reach, x[1])
    BY <1>2
  <2> QED BY <2>1, <2>2 DEF KeptColumns
<1>13. c.kernel.tapes[b] = PruneFactors(h).tape
  BY <1>7 DEF KeptIn, MasterMade
<1>14. A \subseteq alive /\ \A x \in Couplings(c.plan.layout, b) : \A m \in c.kernel.columns[x] : <<x[1], m>> \in alive
  BY <1>8, <1>9, <1>11, <1>12
<1>15. BlockPruned(c, M, b, F[b - 1].reach, F[b].reach, alive, K[n - b].alive, u, r, h, a)
  BY <1>3, <1>4, <1>5, <1>8, <1>9, <1>12, <1>13, <1>14 DEF BlockPruned
<1> QED BY <1>9, <1>15

-----------------------------------------------------------------------------
(* One step of a master kernel agrees with the reference where it is alive. *)

\* A block of the transposed pass on every word of the masters, with the factors fs.
WideBlock(e, w, b, M, fs) ==
  ApplyTapeTransposed(Gathered(e, w, Couplings(w.plan.layout, b), "transpose"),
                      Widened(w.plan.tapes[b], M), fs)

\* The same block of a master kernel.
PrunedBlock(D, c, b) ==
  ApplyTapeTransposed(Gathered(D, c, Couplings(c.plan.layout, b), "transpose"),
                      c.kernel.tapes[b], FactorsAt(c, b).factors)

\* The factors of a block as it was recorded.
PlanFactors(c, b) == Factors(c.plan.tapes[b], MatrixOf(c.point.matrix, Slots(c.plan)))

\* There is one for each group.
LEMMA PlanFactorsFit ==
  ASSUME NEW c, NEW n, PlanFits(c.plan, n), PointFits(c.plan, c.point), NEW b \in 1 .. n,
         PlanFactors(c, b).ok
  PROVE  PlanFactors(c, b).factors \in Seq(Field) /\ Len(PlanFactors(c, b).factors) = Len(c.plan.tapes[b])
<1>1. PICK t, m, W, R : /\ t = c.plan.tapes[b] /\ m = MatrixOf(c.point.matrix, Slots(c.plan))
                        /\ W = Slots(c.plan) /\ R = c.plan.layout.blocks[b]
  OBVIOUS
<1>2. t \in Seq(Groups(W, R, Requests))
  BY <1>1 DEF PlanFits
<1>3. m \in [W -> Field]
  BY <1>1, MatrixTyped
<1>4. FactorsFit(t, m)
  BY <1>2, <1>3, FactorsFirst
<1> QED BY <1>1, <1>4 DEF FactorsFit, PlanFactors

\* The kernel runs on the same factors, and its last pruning changes no word.
LEMMA PrunedRuns ==
  ASSUME NEW c, NEW n, PlanFits(c.plan, n), PointFits(c.plan, c.point), NEW b \in 1 .. n,
         PlanFactors(c, b).ok, NEW M, NEW h,
         h \in Seq(Groups(Slots(c.plan), c.plan.layout.blocks[b], M)), Alter(c.plan.tapes[b], h),
         c.kernel.tapes[b] = PruneFactors(h).tape, NEW D, IsWords(D)
  PROVE  /\ FactorsAt(c, b).ok
         /\ ApplyTapeTransposed(D, c.kernel.tapes[b], FactorsAt(c, b).factors)
              = ApplyTapeTransposed(D, h, PlanFactors(c, b).factors)
<1>1. PICK t, v, m, W, R, q, k :
        /\ t = c.plan.tapes[b] /\ v = c.point.matrix /\ m = MatrixOf(v, W) /\ W = Slots(c.plan)
        /\ R = c.plan.layout.blocks[b] /\ q = PruneFactors(h) /\ k = q.tape
  <2>1. PICK W : W = Slots(c.plan)
    OBVIOUS
  <2> QED BY <2>1
<1>2. t \in Seq(Groups(W, R, Requests)) /\ h \in Seq(Groups(W, R, M)) /\ Alter(t, h)
  BY <1>1 DEF PlanFits
<1>3. m \in [W -> Field]
  BY <1>1, MatrixTyped
<1>4. Factors(h, m) = Factors(t, m)
  <2>1. PICK S : S = Groups(W, R, Requests) \union Groups(W, R, M)
    OBVIOUS
  <2>2. t \in Seq(S) /\ h \in Seq(S)
    BY <1>2, <2>1, SeqMonotonic
  <2> QED BY <1>2, <2>2, AlterFactors
<1>5. Factors(h, m).ok /\ Factors(h, m) = PlanFactors(c, b)
  BY <1>1, <1>4 DEF PlanFactors
<1>6. q.slots \subseteq W /\ k \in Seq(Groups(q.slots, R, M))
  <2>1. Pruned2(q, W, R, M)
    BY <1>1, <1>2, PruneFactorsIs
  <2> QED BY <1>1, <2>1 DEF Pruned2
<1>7. k \in Seq(Groups(W, R, M))
  <2>1. PICK X : X = q.slots
    OBVIOUS
  <2>2. Seq(Groups(X, R, M)) \subseteq Seq(Groups(W, R, M))
    BY <1>6, <2>1, GroupsGrow
  <2> QED BY <1>6, <2>1, <2>2
<1>8. /\ Factors(k, m).ok
      /\ ApplyTapeTransposed(D, k, Factors(k, m).factors) = ApplyTapeTransposed(D, h, Factors(h, m).factors)
  <2>1. FactorsSound(h, W)
    BY <1>2, PruneFactorsKeeps
  <2>2. W \in SUBSET W
    OBVIOUS
  <2>3. SoundAt(h, W, m, m, D)
    BY <1>3, <2>1, <2>2 DEF FactorsSound
  <2> QED BY <1>1, <1>5, <1>6, <2>3 DEF SoundAt
<1>9. SameFactors(k, Loaded(k, v), k, m)
  BY <1>1, <1>3, <1>7, LoadedFactors
<1>10. Factors(k, Loaded(k, v)).ok /\ Factors(k, Loaded(k, v)).factors = Factors(k, m).factors
  BY <1>8, <1>9 DEF SameFactors
<1>11. FactorsAt(c, b) = Factors(k, Loaded(k, v)) /\ c.kernel.tapes[b] = k
  BY <1>1 DEF FactorsAt
<1> QED BY <1>5, <1>8, <1>10, <1>11

\* The passes change columns only.
LEMMA PassesAlter ==
  ASSUME NEW t, NEW u, NEW h, NEW r, NEW a, NEW N, N = Len(t), Len(u) = N, Len(h) = N,
         ForwardTape(t, u, r, N), BackwardTape(u, h, a, N)
  PROVE  Alter(t, h)
<1>1. ASSUME NEW i \in 1 .. N
      PROVE  /\ h[i].kind = t[i].kind /\ h[i].dst = t[i].dst /\ h[i].src = t[i].src
             /\ h[i].slot = t[i].slot /\ h[i].matrix = t[i].matrix
  <2>1. u[i] = [t[i] EXCEPT !.rhs = At(r[i], t[i].dst)]
    BY DEF ForwardTape
  <2>2. h[i] = [u[i] EXCEPT !.rhs = u[i].rhs \intersect At(a[i - 1], u[i].src)]
    BY DEF BackwardTape
  <2> QED BY <2>1, <2>2
<1> QED BY <1>1 DEF Alter

MasterStepHolds(e2, D2, M, reach, left) ==
  e2 \in Words(M) /\ ZeroOff(e2, reach) /\ IsWords(D2) /\ Agree(e2, D2, left)

\* A block of a master kernel agrees, where alive, with the block for all columns.
LEMMA MasterStep ==
  ASSUME NEW c, NEW w, NEW n, PlanFits(c.plan, n), PointFits(c.plan, c.point), NEW b \in 1 .. n,
         NEW M, w.plan = c.plan, w.point = c.point,
         \A x \in DOMAIN c.plan.layout.matrix : w.kernel.columns[x] = M,
         NEW before, NEW reach, NEW alive, NEW left, NEW u, NEW r, NEW h, NEW a,
         BlockPruned(c, M, b, before, reach, alive, left, u, r, h, a),
         NEW e \in Words(M), ZeroOff(e, before), NEW D, IsWords(D), Agree(e, D, alive),
         PlanFactors(c, b).ok
  PROVE  /\ FactorsAt(c, b).ok
         /\ MasterStepHolds(WideBlock(e, w, b, M, PlanFactors(c, b).factors), PrunedBlock(D, c, b),
                            M, reach, left)
<1>1. PICK t, N, W, R, fs, S, A : /\ t = c.plan.tapes[b] /\ N = Len(t) /\ W = Slots(c.plan)
                                  /\ R = c.plan.layout.blocks[b] /\ fs = PlanFactors(c, b).factors
                                  /\ S = Couplings(c.plan.layout, b) /\ A = a[N]
  OBVIOUS
<1>2. /\ OfPairs(before, M)
      /\ u \in Seq(Groups(W, R, M)) /\ Len(u) = N
      /\ ForwardTape(t, u, r, N) /\ r[N] = ReachCoupled(c.plan, before, b) /\ r[0] = reach
      /\ h \in Seq(Groups(W, R, M)) /\ Len(h) = N
      /\ BackwardTape(u, h, a, N) /\ a[0] = left
      /\ \A i \in 0 .. N : OfPairs(r[i], M) /\ OfPairs(a[i], M)
      /\ A \subseteq alive /\ c.kernel.tapes[b] = PruneFactors(h).tape
      /\ \A x \in S : /\ c.kernel.columns[x] = At(before, x[1]) \intersect At(A, c.plan.at[x[2]])
                      /\ \A m \in c.kernel.columns[x] : <<x[1], m>> \in alive
  BY <1>1 DEF BlockPruned
<1>3. t \in Seq(Groups(W, R, Requests)) /\ R \subseteq Positions /\ fs \in Seq(Field) /\ Len(fs) = N
  <2>1. t \in Seq(Groups(W, R, Requests)) /\ R \subseteq Positions
    BY <1>1 DEF PlanFits
  <2> QED BY <1>1, <2>1, PlanFactorsFit
<1>4. N \in Nat /\ N \in 0 .. N
  <2>1. N \in Nat
    BY <1>1, <1>3, SequenceIs
  <2> QED BY <2>1
<1>5. OfPairs(A, M)
  BY <1>1, <1>2, <1>4
<1>6. DualCouplings(c, w, b, M, before, A, alive)
  <2>1. \A x \in S : w.kernel.columns[x] = M
    BY <1>1 DEF Couplings
  <2> QED BY <1>1, <1>2, <1>5, <2>1 DEF DualCouplings
<1>7. PICK g, q : g = Gathered(e, w, S, "transpose") /\ q = Gathered(D, c, S, "transpose")
  OBVIOUS
<1>8. g \in Words(M) /\ ZeroOff(g, r[N]) /\ IsWords(q) /\ Agree(g, q, A)
  <2>1. LET h2 == Gathered(e, w, Couplings(c.plan.layout, b), "transpose")
            q2 == Gathered(D, c, Couplings(c.plan.layout, b), "transpose")
        IN  /\ h2 \in Words(M) /\ ZeroOff(h2, ReachCoupled(c.plan, before, b))
            /\ IsWords(q2) /\ Agree(h2, q2, A)
    BY <1>6, CouplingsAgreeDual
  <2> QED BY <1>1, <1>2, <1>7, <2>1
<1>9. /\ ApplyTapeTransposed(g, Widened(t, M), fs) \in Words(M)
      /\ ZeroOff(ApplyTapeTransposed(g, Widened(t, M), fs), r[0])
      /\ Agree(ApplyTapeTransposed(g, Widened(t, M), fs), ApplyTapeTransposed(q, h, fs), a[0])
  <2>1. Agree(g, q, a[N]) /\ g \in Words(M) /\ ZeroOff(g, r[N])
    BY <1>1, <1>8
  <2>2. /\ R \subseteq Positions /\ t \in Seq(Groups(W, R, Requests)) /\ N = Len(t)
        /\ u \in Seq(Groups(W, R, M)) /\ Len(u) = N /\ ForwardTape(t, u, r, N)
    BY <1>1, <1>2, <1>3
  <2>3. /\ h \in Seq(Groups(W, R, M)) /\ Len(h) = N /\ BackwardTape(u, h, a, N)
        /\ \A i \in 0 .. N : OfPairs(r[i], M) /\ OfPairs(a[i], M)
    BY <1>2
  <2>4. fs \in Seq(Field) /\ Len(fs) = N
    BY <1>3
  <2> QED BY <2>1, <2>2, <2>3, <2>4, TapeAgrees
<1>10. Alter(t, h)
  BY <1>1, <1>2, PassesAlter
<1>11. /\ FactorsAt(c, b).ok
       /\ ApplyTapeTransposed(q, c.kernel.tapes[b], FactorsAt(c, b).factors) = ApplyTapeTransposed(q, h, fs)
  <2>1. /\ h \in Seq(Groups(Slots(c.plan), c.plan.layout.blocks[b], M)) /\ Alter(c.plan.tapes[b], h)
        /\ c.kernel.tapes[b] = PruneFactors(h).tape /\ IsWords(q)
    BY <1>1, <1>2, <1>8, <1>10
  <2>2. /\ FactorsAt(c, b).ok
        /\ ApplyTapeTransposed(q, c.kernel.tapes[b], FactorsAt(c, b).factors)
              = ApplyTapeTransposed(q, h, PlanFactors(c, b).factors)
    BY <2>1, PrunedRuns
  <2> QED BY <1>1, <2>2
<1>12. IsWords(ApplyTapeTransposed(q, h, fs))
  BY <1>2, <1>3, <1>8, TransposedTapeWords
<1>13. PICK e2, D2 : /\ e2 = WideBlock(e, w, b, M, fs) /\ D2 = PrunedBlock(D, c, b)
  OBVIOUS
<1>14. e2 = ApplyTapeTransposed(g, Widened(t, M), fs) /\ D2 = ApplyTapeTransposed(q, h, fs)
  BY <1>1, <1>7, <1>11, <1>13 DEF WideBlock, PrunedBlock
<1>15. e2 \in Words(M) /\ ZeroOff(e2, reach) /\ IsWords(D2) /\ Agree(e2, D2, left)
  BY <1>2, <1>9, <1>12, <1>14
<1>16. MasterStepHolds(e2, D2, M, reach, left)
  BY <1>15 DEF MasterStepHolds
<1> QED BY <1>1, <1>11, <1>13, <1>16

-----------------------------------------------------------------------------
(* One step of the reference preserves the pairing with the words. *)

\* Adjointness is transitive.
LEMMA AdjointTrans ==
  ASSUME NEW M, NEW x, NEW a, NEW h, NEW q, Adjoint(x, a, h, q, M), NEW e, NEW z, Adjoint(h, q, e, z, M)
  PROVE  Adjoint(x, a, e, z, M)
BY DEF Adjoint, Congruent

\* The reference uses the factors of the recording.
LEMMA ReferenceFactors ==
  ASSUME NEW d, NEW n, PlanFits(d.plan, n), PointFits(d.plan, d.point), NEW b \in 1 .. n,
         d.kernel.tapes = d.plan.tapes, FactorsAt(d, b).ok
  PROVE  PlanFactors(d, b).ok /\ FactorsAt(d, b).factors = PlanFactors(d, b).factors
<1>1. PICK W, R, t, v : /\ W = Slots(d.plan) /\ R = d.plan.layout.blocks[b] /\ t = d.plan.tapes[b]
                        /\ v = d.point.matrix
  OBVIOUS
<1>2. t \in Seq(Groups(W, R, Requests))
  BY <1>1 DEF PlanFits
<1>3. MatrixOf(v, W) \in [W -> Field]
  BY <1>1, MatrixTyped
<1>4. SameFactors(t, Loaded(t, v), t, MatrixOf(v, W))
  BY <1>2, <1>3, LoadedFactors
<1>5. FactorsAt(d, b) = Factors(t, Loaded(t, v)) /\ PlanFactors(d, b) = Factors(t, MatrixOf(v, W))
  BY <1>1 DEF FactorsAt, PlanFactors
<1> QED BY <1>4, <1>5 DEF SameFactors

ReferenceStepHolds(q, z, e, x, M, L) ==
  z \in Words(Requests) /\ ZeroOff(z, L) /\ x \in Words(M) /\ Adjoint(x, q, e, z, M)

\* A block of the reference and the transposed block for all columns are adjoint.
LEMMA ReferenceStep ==
  ASSUME NEW d, NEW w, NEW n, PlanFits(d.plan, n), PointFits(d.plan, d.point), NEW b \in 1 .. n,
         NEW L, NEW E, PlanLive(d.plan, n, L, E), d.kernel.tapes = d.plan.tapes,
         \A x \in DOMAIN d.plan.layout.matrix : d.kernel.columns[x] = Requests,
         NEW M, w.plan = d.plan, w.point = d.point,
         \A x \in DOMAIN d.plan.layout.matrix : w.kernel.columns[x] = M,
         NEW q \in Words(Requests), ZeroOff(q, L[b]), NEW e \in Words(M), FactorsAt(d, b).ok
  PROVE  /\ PlanFactors(d, b).ok
         /\ ReferenceStepHolds(q, CoupledWords(q, d, b), e,
                               WideBlock(e, w, b, M, PlanFactors(d, b).factors), M, L[b - 1])
<1>1. PICK W, R, t, fs, S, A, B, C :
        /\ W = Slots(d.plan) /\ R = d.plan.layout.blocks[b] /\ t = d.plan.tapes[b]
        /\ fs = PlanFactors(d, b).factors /\ S = Couplings(d.plan.layout, b)
        /\ A = L[b] /\ B = E[b] /\ C = L[b - 1]
  OBVIOUS
<1>2. t \in Seq(Groups(W, R, Requests)) /\ R \subseteq Positions
  BY <1>1 DEF PlanFits
<1>3. PlanFactors(d, b).ok /\ FactorsAt(d, b).factors = fs
  BY <1>1, ReferenceFactors
<1>4. fs \in Seq(Field) /\ Len(fs) = Len(t)
  BY <1>1, <1>3, PlanFactorsFit
<1>5. TapeLive(t, A, B) /\ LiveCoupled(d.plan, b, B, C)
  BY <1>1 DEF PlanLive
<1>6. PICK p : p = ApplyTape(q, t, fs)
  OBVIOUS
<1>7. ASSUME NEW h \in Words(M)
      PROVE  /\ ApplyTapeTransposed(h, Widened(t, M), fs) \in Words(M)
             /\ p \in Words(Requests) /\ ZeroOff(p, B)
             /\ Adjoint(ApplyTapeTransposed(h, Widened(t, M), fs), q, h, p, M)
  <2>1. TapePairs(t, M)
    BY <1>2, TapeAdjoint
  <2>2. TapePairsAt(t, M, fs, A, B, q, h)
    BY <1>4, <2>1 DEF TapePairs
  <2>3. ZeroOff(q, A)
    BY <1>1
  <2> QED BY <1>4, <1>5, <1>6, <2>2, <2>3 DEF TapePairsAt
<1>8. p \in Words(Requests) /\ ZeroOff(p, B)
  BY <1>7
<1>9. PICK g, z : g = Gathered(e, w, S, "transpose") /\ z = Gathered(p, d, S, "couple")
  OBVIOUS
<1>10. /\ z \in Words(Requests) /\ g \in Words(M) /\ ZeroOff(z, C)
       /\ Adjoint(g, p, e, z, M)
  <2>1. d.plan = w.plan /\ d.point = w.point
    OBVIOUS
  <2>2. LET S1 == Couplings(d.plan.layout, b)
            q1 == Gathered(p, d, S1, "couple")
            h1 == Gathered(e, w, S1, "transpose")
        IN  /\ q1 \in Words(Requests) /\ h1 \in Words(M) /\ ZeroOff(q1, C)
            /\ Adjoint(h1, p, e, q1, M)
    BY <1>5, <1>8, <2>1, CouplingsAdjoint
  <2> QED BY <1>1, <1>9, <2>2
<1>11. PICK x : x = ApplyTapeTransposed(g, Widened(t, M), fs)
  OBVIOUS
<1>12. x \in Words(M) /\ Adjoint(x, q, g, p, M)
  BY <1>7, <1>10, <1>11
<1>13. Adjoint(x, q, e, z, M)
  BY <1>10, <1>12, AdjointTrans
<1>14. CoupledWords(q, d, b) = z
  BY <1>1, <1>3, <1>6, <1>9 DEF CoupledWords
<1>15. WideBlock(e, w, b, M, fs) = x
  BY <1>1, <1>9, <1>11 DEF WideBlock
<1>16. ReferenceStepHolds(q, z, e, x, M, C)
  BY <1>10, <1>12, <1>13 DEF ReferenceStepHolds
<1> QED BY <1>1, <1>3, <1>14, <1>15, <1>16

-----------------------------------------------------------------------------
(* The reference, from the first block to the last. *)

\* The kernel of the masters (c), the recording itself (d) and the transposed pass on every
\* word (w), of one plan at one point.
MasterSetting(c, d, w, n, M, seeds, sinks, F, K, L, E) ==
  /\ MasterMade(c, n, M, seeds, sinks, F, K) /\ PointFits(c.plan, c.point)
  /\ d.plan = c.plan /\ d.point = c.point /\ d.kernel.tapes = c.plan.tapes
  /\ d.kernel.alive = Positions \X Requests
  /\ \A x \in DOMAIN c.plan.layout.matrix : d.kernel.columns[x] = Requests
  /\ w.plan = c.plan /\ w.point = c.point
  /\ \A x \in DOMAIN c.plan.layout.matrix : w.kernel.columns[x] = M
  /\ PlanLive(c.plan, n, L, E)

\* The words of the reference after j blocks.
ReferenceAt(r, n, L, j) ==
  /\ r[j] = [ok |-> r[j].ok, words |-> r[j].words] /\ r[j].ok \in BOOLEAN
  /\ r[j].ok => r[j].words \in Words(Requests) /\ ZeroOff(r[j].words, L[n - j])

ReferenceStarted(r, d) ==
  r[0] = [ok |-> TRUE, words |-> [i \in d.kernel.alive |->
                                    IF i \in d.plan.layout.rhs THEN d.point.rhs[i] ELSE 0]]

\* It starts from the right-hand side.
LEMMA ReferenceStarts ==
  ASSUME NEW d, NEW n, PlanFits(d.plan, n), PointFits(d.plan, d.point), NEW L,
         d.plan.layout.rhs \subseteq L[n], d.kernel.alive = Positions \X Requests,
         NEW r, ReferenceStarted(r, d)
  PROVE  ReferenceAt(r, n, L, 0)
<1>1. n - 0 = n
  BY DEF PlanFits
<1>2. PICK q, b, v : q = r[0] /\ b = d.plan.layout.rhs /\ v = d.point.rhs
  OBVIOUS
<1>3. q = [ok |-> TRUE, words |-> [i \in Positions \X Requests |-> IF i \in b THEN v[i] ELSE 0]]
  BY <1>2 DEF ReferenceStarted
<1>4. q = [ok |-> q.ok, words |-> q.words] /\ q.ok \in BOOLEAN
  BY <1>3
<1>5. q.words = [i \in Positions \X Requests |-> IF i \in b THEN v[i] ELSE 0]
  BY <1>3
<1>6. v \in [b -> Field] /\ b \subseteq L[n] /\ 0 \in Field
  BY <1>2, PrimeIs DEF PointFits
<1>7. q.words \in Words(Requests) /\ ZeroOff(q.words, L[n])
  BY <1>5, <1>6 DEF Words, ZeroOff
<1> QED BY <1>1, <1>2, <1>4, <1>7 DEF ReferenceAt

\* A step of the recording's own run that succeeds.
LEMMA ReferenceGoes ==
  ASSUME NEW d, NEW n, n \in Nat, NEW r, Replayed(r, d, n), NEW j \in 1 .. n,
         r[j - 1] = [ok |-> r[j - 1].ok, words |-> r[j - 1].words], r[j - 1].ok \in BOOLEAN
  PROVE  /\ r[j] = [ok |-> r[j].ok, words |-> r[j].words] /\ r[j].ok \in BOOLEAN
         /\ r[j].ok => /\ r[j - 1].ok /\ FactorsAt(d, n - j + 1).ok
                       /\ r[j].words = CoupledWords(r[j - 1].words, d, n - j + 1)
<1>1. PICK s, x, b : s = r[j - 1] /\ x = r[j] /\ b = n - j + 1
  OBVIOUS
<1>2. x = TargetBlock(s, d, b)
  BY <1>1 DEF Replayed
<1>3. s = [ok |-> s.ok, words |-> s.words] /\ s.ok \in BOOLEAN
  BY <1>1
<1>4. LET y == TargetBlock(s, d, b)
      IN  /\ y = [ok |-> y.ok, words |-> y.words] /\ y.ok \in BOOLEAN
          /\ y.ok <=> s.ok /\ FactorsAt(d, b).ok
          /\ y.ok => y.words = CoupledWords(s.words, d, b)
  BY <1>3, BlockStep
<1> QED BY <1>1, <1>2, <1>4

\* Its words are zero where nothing is live.
LEMMA ReferenceRun ==
  ASSUME NEW d, NEW n, PlanFits(d.plan, n), PointFits(d.plan, d.point),
         NEW L, NEW E, PlanLive(d.plan, n, L, E), d.kernel.tapes = d.plan.tapes,
         d.kernel.alive = Positions \X Requests,
         \A x \in DOMAIN d.plan.layout.matrix : d.kernel.columns[x] = Requests,
         NEW r, Replayed(r, d, n)
  PROVE  \A j \in 0 .. n : ReferenceAt(r, n, L, j)
<1>1. n \in Nat
  BY DEF PlanFits
<1> DEFINE T == {j \in Nat : j <= n => ReferenceAt(r, n, L, j)}
<1>2. 0 \in T
  <2>1. ReferenceStarted(r, d)
    BY DEF Replayed, ReferenceStarted
  <2>2. ReferenceAt(r, n, L, 0)
    BY <2>1, ReferenceStarts DEF PlanLive
  <2> QED BY <2>2
<1>3. ASSUME NEW k \in Nat, k \in T PROVE k + 1 \in T
  <2>1. CASE k + 1 <= n
    <3>1. PICK j, b, M : j = k + 1 /\ b = n - k /\ M = {}
      OBVIOUS
    <3>2. j \in 1 .. n /\ j - 1 = k /\ b \in 1 .. n /\ n - j + 1 = b /\ b - 1 = n - j /\ n - k = b
      BY <1>1, <2>1, <3>1
    <3>x. k <= n
      BY <1>1, <2>1
    <3>3. ReferenceAt(r, n, L, k)
      BY <1>3, <3>x
    <3>4. r[j - 1] = [ok |-> r[j - 1].ok, words |-> r[j - 1].words] /\ r[j - 1].ok \in BOOLEAN
      BY <3>2, <3>3 DEF ReferenceAt
    <3>5. /\ r[j] = [ok |-> r[j].ok, words |-> r[j].words] /\ r[j].ok \in BOOLEAN
          /\ r[j].ok => /\ r[j - 1].ok /\ FactorsAt(d, n - j + 1).ok
                        /\ r[j].words = CoupledWords(r[j - 1].words, d, n - j + 1)
      BY <1>1, <3>2, <3>4, ReferenceGoes
    <3>6. ASSUME r[j].ok PROVE r[j].words \in Words(Requests) /\ ZeroOff(r[j].words, L[n - j])
      <4>1. PICK q : q = r[k].words
        OBVIOUS
      <4>2. q \in Words(Requests) /\ ZeroOff(q, L[b]) /\ FactorsAt(d, b).ok /\ r[j].words = CoupledWords(q, d, b)
        BY <3>2, <3>3, <3>5, <3>6, <4>1 DEF ReferenceAt
      <4>3. PICK w : w = [plan |-> d.plan, point |-> d.point,
                          kernel |-> [columns |-> [x \in DOMAIN d.plan.layout.matrix |-> M]]]
        OBVIOUS
      <4>4. /\ w.plan = d.plan /\ w.point = d.point
            /\ \A x \in DOMAIN d.plan.layout.matrix : w.kernel.columns[x] = M
        BY <4>3
      <4>5. PICK e : e = [i \in Positions \X M |-> 0]
        OBVIOUS
      <4>6. e \in Words(M)
        BY <4>5, PrimeIs DEF Words
      <4>7. ReferenceStepHolds(q, CoupledWords(q, d, b), e,
                               WideBlock(e, w, b, M, PlanFactors(d, b).factors), M, L[b - 1])
        BY <3>2, <4>2, <4>4, <4>6, ReferenceStep
      <4> QED BY <3>2, <4>2, <4>7 DEF ReferenceStepHolds
    <3>7. ReferenceAt(r, n, L, j)
      BY <3>5, <3>6 DEF ReferenceAt
    <3> QED BY <3>1, <3>7
  <2> QED BY <2>1
<1> HIDE DEF T
<1>4. \A j \in Nat : j \in T
  BY <1>2, <1>3, SetInduction
<1> QED BY <1>1, <1>4 DEF T

\* If it has an answer it never stopped.
LEMMA ReferenceStaysOk ==
  ASSUME NEW d, NEW n, n \in Nat, NEW r, Replayed(r, d, n), NEW L,
         \A j \in 0 .. n : ReferenceAt(r, n, L, j), r[n].ok
  PROVE  \A j \in 0 .. n : r[j].ok
<1> DEFINE T == {j \in 0 .. n : r[j].ok}
<1>1. n \in T
  OBVIOUS
<1>2. ASSUME NEW j \in 1 .. n, j \in T PROVE j - 1 \in T
  <2>1. j - 1 \in 0 .. n
    OBVIOUS
  <2>2. r[j - 1] = [ok |-> r[j - 1].ok, words |-> r[j - 1].words] /\ r[j - 1].ok \in BOOLEAN
    BY <2>1 DEF ReferenceAt
  <2>3. r[j].ok => r[j - 1].ok
    BY <2>2, ReferenceGoes
  <2> QED BY <1>2, <2>1, <2>3
<1> HIDE DEF T
<1>3. \A j \in 0 .. n : j \in T
  BY <1>1, <1>2, DownInduction
<1> QED BY <1>3 DEF T

-----------------------------------------------------------------------------
(* A master kernel, from the first block to the last. *)

\* The steps of a master replay, from the first block to the last.
MasterRun(s, c, n) ==
  /\ s[0] = [ok |-> TRUE, words |-> [i \in c.kernel.alive |-> IF i \in c.kernel.seeds THEN 1 ELSE 0]]
  /\ \A b \in 1 .. n : s[b] = MasterBlock(s[b - 1], c, b)

\* The unit vectors of the seeds.
Unit(seeds, M) == [i \in Positions \X M |-> IF i \in seeds THEN 1 ELSE 0]

\* Where the transposed pass stands after b blocks: a vector e on every word, that
\* pairs with what the recording held there as the seeds pair with its solution.
MasterAt(e, s, q, x, z, M, reach, alive) ==
  /\ e \in Words(M) /\ ZeroOff(e, reach)
  /\ s = [ok |-> TRUE, words |-> s.words] /\ IsWords(s.words) /\ Agree(e, s.words, alive)
  /\ Adjoint(e, q, x, z, M)

\* At the start it is the unit vectors.
LEMMA MasterStarts ==
  ASSUME NEW c, NEW M, NEW seeds, OfPairs(seeds, M), NEW A, OfPairs(A, M), NEW q, NEW z, q = z,
         NEW s, s = [ok |-> TRUE, words |-> [i \in A |-> IF i \in seeds \intersect A THEN 1 ELSE 0]]
  PROVE  MasterAt(Unit(seeds, M), s, q, Unit(seeds, M), z, M, seeds, A)
<1>1. PICK e : e = Unit(seeds, M)
  OBVIOUS
<1>2. 0 \in Field /\ 1 \in Field
  BY PrimeIs DEF Field
<1>3. e \in Words(M) /\ ZeroOff(e, seeds)
  BY <1>1, <1>2 DEF Unit, Words, ZeroOff
<1>4. PICK y : y = s.words
  OBVIOUS
<1>5. s = [ok |-> TRUE, words |-> s.words] /\ y = [i \in A |-> IF i \in seeds \intersect A THEN 1 ELSE 0]
  BY <1>4
<1>6. IsWords(y)
  BY <1>5 DEF IsWords
<1>7. Agree(e, y, A)
  BY <1>1, <1>5 DEF Agree, Unit, OfPairs
<1>8. Adjoint(e, q, e, z, M)
  BY DEF Adjoint, Congruent
<1> QED BY <1>1, <1>3, <1>4, <1>5, <1>6, <1>7, <1>8 DEF MasterAt

\* A block of the transposed pass, where the recording's own run succeeds.
LEMMA MasterGoes ==
  ASSUME NEW c, NEW d, NEW w, NEW n, NEW M, NEW seeds, NEW sinks, NEW F, NEW K, NEW L, NEW E,
         MasterSetting(c, d, w, n, M, seeds, sinks, F, K, L, E), NEW b \in 1 .. n,
         NEW e, NEW s, NEW q, NEW g, NEW x, NEW z,
         MasterAt(e, s, g, x, z, M, F[b - 1].reach, K[n - b + 1].alive),
         q \in Words(Requests), ZeroOff(q, L[b]), FactorsAt(d, b).ok, g = CoupledWords(q, d, b)
  PROVE  \E h : MasterAt(h, MasterBlock(s, c, b), q, x, z, M, F[b].reach, K[n - b].alive)
<1>1. /\ MasterMade(c, n, M, seeds, sinks, F, K) /\ PointFits(c.plan, c.point)
      /\ d.plan = c.plan /\ d.point = c.point /\ d.kernel.tapes = c.plan.tapes
      /\ \A y \in DOMAIN c.plan.layout.matrix : d.kernel.columns[y] = Requests
      /\ w.plan = c.plan /\ w.point = c.point
      /\ \A y \in DOMAIN c.plan.layout.matrix : w.kernel.columns[y] = M
      /\ PlanLive(c.plan, n, L, E)
  BY DEF MasterSetting
<1>2. PlanFits(c.plan, n)
  BY <1>1 DEF MasterMade
<1>3. /\ e \in Words(M) /\ ZeroOff(e, F[b - 1].reach) /\ Adjoint(e, g, x, z, M)
      /\ s = [ok |-> TRUE, words |-> s.words] /\ IsWords(s.words) /\ Agree(e, s.words, K[n - b + 1].alive)
  BY DEF MasterAt
<1>4. /\ PlanFactors(d, b).ok
      /\ ReferenceStepHolds(q, CoupledWords(q, d, b), e, WideBlock(e, w, b, M, PlanFactors(d, b).factors),
                            M, L[b - 1])
  <2>1. /\ PlanFits(d.plan, n) /\ PointFits(d.plan, d.point) /\ PlanLive(d.plan, n, L, E)
        /\ d.kernel.tapes = d.plan.tapes
        /\ \A y \in DOMAIN d.plan.layout.matrix : d.kernel.columns[y] = Requests
        /\ w.plan = d.plan /\ w.point = d.point
        /\ \A y \in DOMAIN d.plan.layout.matrix : w.kernel.columns[y] = M
    BY <1>1, <1>2
  <2> QED BY <1>3, <2>1, ReferenceStep
<1>5. PlanFactors(d, b) = PlanFactors(c, b)
  BY <1>1 DEF PlanFactors
<1>6. PICK h : h = WideBlock(e, w, b, M, PlanFactors(c, b).factors)
  OBVIOUS
<1>7. Adjoint(h, q, e, g, M) /\ PlanFactors(c, b).ok
  <2>1. Adjoint(WideBlock(e, w, b, M, PlanFactors(d, b).factors), q, e, CoupledWords(q, d, b), M)
    BY <1>4 DEF ReferenceStepHolds
  <2> QED BY <1>4, <1>5, <1>6, <2>1
<1>8. Adjoint(h, q, x, z, M)
  BY <1>3, <1>7, AdjointTrans
<1>9. PICK u, r, v, a : BlockPruned(c, M, b, F[b - 1].reach, F[b].reach, K[n - b + 1].alive,
                                    K[n - b].alive, u, r, v, a)
  BY <1>1, MasterBlockMade
<1>10. /\ FactorsAt(c, b).ok
       /\ MasterStepHolds(WideBlock(e, w, b, M, PlanFactors(c, b).factors), PrunedBlock(s.words, c, b),
                          M, F[b].reach, K[n - b].alive)
  BY <1>1, <1>2, <1>3, <1>7, <1>9, MasterStep
<1>11. PICK D : D = PrunedBlock(s.words, c, b)
  OBVIOUS
<1>12. h \in Words(M) /\ ZeroOff(h, F[b].reach) /\ IsWords(D) /\ Agree(h, D, K[n - b].alive)
  <2>1. MasterStepHolds(h, D, M, F[b].reach, K[n - b].alive)
    BY <1>6, <1>10, <1>11
  <2> QED BY <2>1 DEF MasterStepHolds
<1>13. PICK o : o = MasterBlock(s, c, b)
  OBVIOUS
<1>14. o = [ok |-> TRUE, words |-> D]
  <2>1. o = [s EXCEPT !.words = D]
    <3>1. o = IF ~s.ok \/ ~FactorsAt(c, b).ok THEN [s EXCEPT !.ok = FALSE]
              ELSE [s EXCEPT !.words =
                      ApplyTapeTransposed(Gathered(s.words, c, Couplings(c.plan.layout, b), "transpose"),
                                          c.kernel.tapes[b], FactorsAt(c, b).factors)]
      BY <1>13, MasterBlockIs
    <3>2. s.ok
      BY <1>3
    <3> QED BY <1>10, <1>11, <3>1, <3>2 DEF PrunedBlock
  <2>2. PICK y, t : y = s.words /\ t = s.ok
    OBVIOUS
  <2>3. s = [ok |-> t, words |-> y] /\ t = TRUE
    BY <1>3, <2>2
  <2>4. [[ok |-> t, words |-> y] EXCEPT !.words = D] = [ok |-> t, words |-> D]
    OBVIOUS
  <2> QED BY <2>1, <2>3, <2>4
<1>15. o = [ok |-> TRUE, words |-> o.words] /\ o.words = D
  BY <1>14
<1>16. MasterAt(h, o, q, x, z, M, F[b].reach, K[n - b].alive)
  BY <1>8, <1>12, <1>15 DEF MasterAt
<1> QED BY <1>13, <1>16

\* So the pairing is the same after every block.
LEMMA MasterRuns ==
  ASSUME NEW c, NEW d, NEW w, NEW n, NEW M, NEW seeds, NEW sinks, NEW F, NEW K, NEW L, NEW E,
         MasterSetting(c, d, w, n, M, seeds, sinks, F, K, L, E),
         c.kernel.seeds = seeds \intersect c.kernel.alive,
         NEW s, MasterRun(s, c, n), NEW r, Replayed(r, d, n), r[n].ok
  PROVE  \A b \in 0 .. n : \E e : MasterAt(e, s[b], r[n - b].words, Unit(seeds, M), r[n].words, M,
                                           F[b].reach, K[n - b].alive)
<1>1. /\ MasterMade(c, n, M, seeds, sinks, F, K) /\ PointFits(c.plan, c.point)
      /\ d.plan = c.plan /\ d.point = c.point /\ d.kernel.tapes = c.plan.tapes
      /\ d.kernel.alive = Positions \X Requests
      /\ \A y \in DOMAIN c.plan.layout.matrix : d.kernel.columns[y] = Requests
      /\ PlanLive(c.plan, n, L, E)
  BY DEF MasterSetting
<1>2. /\ PlanFits(c.plan, n) /\ OfPairs(seeds, M) /\ OfPairs(sinks, M)
      /\ ForwardPass(F, c, seeds, n) /\ BackwardPass(K, c, sinks, n) /\ c.kernel.alive = K[n].alive
  BY <1>1 DEF MasterMade
<1>3. n \in Nat
  BY <1>2 DEF PlanFits
<1>4. \A j \in 0 .. n : ReferenceAt(r, n, L, j)
  <2>1. /\ PlanFits(d.plan, n) /\ PointFits(d.plan, d.point) /\ PlanLive(d.plan, n, L, E)
        /\ d.kernel.tapes = d.plan.tapes
        /\ \A y \in DOMAIN d.plan.layout.matrix : d.kernel.columns[y] = Requests
    BY <1>1, <1>2
  <2> QED BY <1>1, <2>1, ReferenceRun
<1>5. \A j \in 0 .. n : r[j].ok
  BY <1>3, <1>4, ReferenceStaysOk
<1>6. OfPairs(K[n].alive, M)
  <2>1. ForwardFits(c, n, M)
    BY <1>1, MasterForwardFits
  <2>2. \A j \in 0 .. n : BackwardAt(K, c, M, n, j)
    BY <1>2, <2>1, BackwardPassIs
  <2>3. n \in 0 .. n
    BY <1>3
  <2> QED BY <2>2, <2>3 DEF BackwardAt
<1>7. PICK x, z : x = Unit(seeds, M) /\ z = r[n].words
  OBVIOUS
<1> DEFINE At2(e, b) == MasterAt(e, s[b], r[n - b].words, x, z, M, F[b].reach, K[n - b].alive)
           T == {b \in Nat : b <= n => \E e : At2(e, b)}
<1>8. 0 \in T
  <2>1. n - 0 = n /\ F[0].reach = seeds
    BY <1>2, <1>3 DEF ForwardPass
  <2>2. s[0] = [ok |-> TRUE, words |-> [i \in K[n].alive |-> IF i \in seeds \intersect K[n].alive THEN 1 ELSE 0]]
    BY <1>2 DEF MasterRun
  <2>3. MasterAt(Unit(seeds, M), s[0], r[n].words, Unit(seeds, M), r[n].words, M, seeds, K[n].alive)
    BY <1>2, <1>6, <2>2, MasterStarts
  <2>4. MasterAt(x, s[0], r[n - 0].words, x, z, M, F[0].reach, K[n - 0].alive)
    BY <1>7, <2>1, <2>3
  <2> QED BY <2>4
<1>9. ASSUME NEW k \in Nat, k \in T PROVE k + 1 \in T
  <2>1. CASE k + 1 <= n
    <3>1. PICK b, j : b = k + 1 /\ j = n - k
      OBVIOUS
    <3>2. /\ k <= n /\ b \in 1 .. n /\ b - 1 = k /\ j \in 1 .. n /\ j - 1 = n - b /\ n - b + 1 = n - k
          /\ n - b \in 0 .. n /\ n - j + 1 = b /\ n - (n - b) = b /\ j - 1 \in 0 .. n
      BY <1>3, <2>1, <3>1
    <3>3. PICK e : MasterAt(e, s[k], r[n - k].words, x, z, M, F[k].reach, K[n - k].alive)
      BY <1>9, <3>2
    <3>4. r[n - b].words \in Words(Requests) /\ ZeroOff(r[n - b].words, L[b])
      BY <1>4, <1>5, <3>2 DEF ReferenceAt
    <3>5. FactorsAt(d, b).ok /\ r[n - k].words = CoupledWords(r[n - b].words, d, b)
      <4>1. r[j - 1] = [ok |-> r[j - 1].ok, words |-> r[j - 1].words] /\ r[j - 1].ok \in BOOLEAN
        BY <1>4, <3>2 DEF ReferenceAt
      <4>2. r[j].ok => /\ r[j - 1].ok /\ FactorsAt(d, n - j + 1).ok
                       /\ r[j].words = CoupledWords(r[j - 1].words, d, n - j + 1)
        BY <1>3, <3>2, <4>1, ReferenceGoes
      <4>3. r[j].ok
        BY <1>5, <3>2
      <4> QED BY <3>1, <3>2, <4>2, <4>3
    <3>6. PICK g, q, y : g = r[n - k].words /\ q = r[n - b].words /\ y = s[k]
      OBVIOUS
    <3>7. MasterAt(e, y, g, x, z, M, F[b - 1].reach, K[n - b + 1].alive)
      BY <3>2, <3>3, <3>6
    <3>8. q \in Words(Requests) /\ ZeroOff(q, L[b]) /\ FactorsAt(d, b).ok /\ g = CoupledWords(q, d, b)
      BY <3>4, <3>5, <3>6
    <3>9. \E h : MasterAt(h, MasterBlock(y, c, b), q, x, z, M, F[b].reach, K[n - b].alive)
      BY <3>2, <3>7, <3>8, MasterGoes
    <3>10. s[b] = MasterBlock(y, c, b)
      BY <3>2, <3>6 DEF MasterRun
    <3>11. \E h : At2(h, b)
      BY <3>6, <3>9, <3>10
    <3> QED BY <3>1, <3>11
  <2> QED BY <2>1
<1> HIDE DEF T
<1>10. \A b \in Nat : b \in T
  BY <1>8, <1>9, SetInduction
<1>11. \A b \in 0 .. n : \E e : At2(e, b)
  BY <1>3, <1>10 DEF T
<1> QED BY <1>7, <1>11

-----------------------------------------------------------------------------
(* Contraction with the right-hand side, and the pairing of a unit vector.  *)

\* The dimension.
LEMMA DimIs == Dim \in Nat /\ Positions = 1 .. Dim
BY SystemsAssumption DEF Positions

\* Sums over the positions that differ in one term.
LEMMA TotalsDiffer ==
  ASSUME NEW f, NEW g, NEW j \in Positions,
         \A i \in Positions : f[i] \in Int /\ g[i] \in Int /\ (i # j => f[i] = g[i])
  PROVE  /\ Total(f, Dim) = Total(g, Dim) + (f[j] - g[j])
         /\ Total(f, Dim) \in Int /\ Total(g, Dim) \in Int
<1>1. /\ j \in 1 .. Dim /\ Dim \in Nat
      /\ \A i \in 1 .. Dim : f[i] \in Int /\ g[i] \in Int /\ (i # j => f[i] = g[i])
  BY DimIs
<1>2. Total(f, Dim) = Total(g, Dim) + (f[j] - g[j])
  BY <1>1, TotalOne
<1>3. Total(f, Dim) \in Int /\ Total(g, Dim) \in Int
  BY <1>1, TotalInt
<1> QED BY <1>2, <1>3

\* The unit vector of a master reads the solution off its row.
LEMMA PairUnit ==
  ASSUME NEW seeds, NEW M, NEW z \in Words(Requests), NEW m \in M, NEW t \in Requests,
         NEW j \in Positions, \A i \in Positions : <<i, m>> \in seeds <=> i = j
  PROVE  Pair(Unit(seeds, M), z, m, t) = z[<<j, t>>] /\ z[<<j, t>>] \in Field
<1>1. PICK e, f, g : /\ e = Unit(seeds, M) /\ g = [i \in Positions |-> 0]
                     /\ f = [i \in Positions |-> e[<<i, m>>] * z[<<i, t>>]]
  OBVIOUS
<1>2. \A i \in Positions : z[<<i, t>>] \in Field /\ z[<<i, t>>] \in Int
  BY PrimeIs DEF Words
<1>3. \A i \in Positions : e[<<i, m>>] = IF i = j THEN 1 ELSE 0
  BY <1>1 DEF Unit
<1>4. \A i \in Positions : f[i] = IF i = j THEN z[<<i, t>>] ELSE 0
  <2> SUFFICES ASSUME NEW i \in Positions PROVE f[i] = IF i = j THEN z[<<i, t>>] ELSE 0
    OBVIOUS
  <2>1. f[i] = e[<<i, m>>] * z[<<i, t>>]
    BY <1>1
  <2>2. PICK a, b : a = e[<<i, m>>] /\ b = z[<<i, t>>]
    OBVIOUS
  <2>3. b \in Int /\ a = IF i = j THEN 1 ELSE 0
    BY <1>2, <1>3, <2>2
  <2>4. a * b = IF i = j THEN b ELSE 0
    BY <2>3
  <2> QED BY <2>1, <2>2, <2>4
<1>5. \A i \in Positions : f[i] \in Int /\ g[i] \in Int /\ (i # j => f[i] = g[i])
  <2> SUFFICES ASSUME NEW i \in Positions PROVE f[i] \in Int /\ g[i] \in Int /\ (i # j => f[i] = g[i])
    OBVIOUS
  <2>1. g[i] = 0 /\ z[<<i, t>>] \in Int /\ f[i] = IF i = j THEN z[<<i, t>>] ELSE 0
    BY <1>1, <1>2, <1>4
  <2> QED BY <2>1
<1>6. Total(f, Dim) = Total(g, Dim) + (f[j] - g[j])
  BY <1>5, TotalsDiffer
<1>7. Total(g, Dim) = 0
  <2>1. \A i \in 1 .. Dim : g[i] = 0
    BY <1>1, DimIs
  <2> QED BY <2>1, DimIs, TotalZero
<1>8. f[j] = z[<<j, t>>] /\ g[j] = 0 /\ z[<<j, t>>] \in Int
  BY <1>1, <1>2, <1>4
<1>9. Total(f, Dim) = z[<<j, t>>]
  BY <1>6, <1>7, <1>8
<1> QED BY <1>1, <1>2, <1>9 DEF Pair

\* A contraction as a fold by name of step.
LEMMA ContractFold ==
  ASSUME NEW v, NEW o, NEW y, NEW S
  PROVE  FoldSet(LAMBDA w, sum : (sum + v.rhs[<<w[1], o[1]>>] * y[w]) % Prime, 0, S) =
           Gathered(0, [point |-> v, output |-> o, words |-> y], S, "contract")
BY DEF FoldSet, MapThenFoldSet, StepOf, Gathered, IsGather, GatherOf

\* What the contraction adds up.
Terms(v, y, m, t, T) ==
  [i \in Positions |-> IF <<i, m>> \in T THEN v.rhs[<<i, t>>] * y[<<i, m>>] ELSE 0]

\* One term more.
LEMMA ContractStep ==
  ASSUME NEW v, NEW y, NEW m, NEW t, NEW T, NEW j \in Positions, <<j, m>> \in T,
         \A i \in Positions : <<i, m>> \in T => v.rhs[<<i, t>>] \in Field /\ y[<<i, m>>] \in Field,
         NEW a \in Field, Congruent(a, Total(Terms(v, y, m, t, T \ {<<j, m>>}), Dim)),
         NEW b, b = (a + v.rhs[<<j, t>>] * y[<<j, m>>]) % Prime
  PROVE  b \in Field /\ Congruent(b, Total(Terms(v, y, m, t, T), Dim))
<1>1. PICK f, g, x : /\ f = Terms(v, y, m, t, T) /\ g = Terms(v, y, m, t, T \ {<<j, m>>})
                     /\ x = v.rhs[<<j, t>>] * y[<<j, m>>]
  OBVIOUS
<1>2. \A i \in Positions : <<i, m>> \in T => v.rhs[<<i, t>>] * y[<<i, m>>] \in Int
  BY ProductInt
<1>3. \A i \in Positions : f[i] \in Int /\ g[i] \in Int /\ (i # j => f[i] = g[i])
  <2> SUFFICES ASSUME NEW i \in Positions PROVE f[i] \in Int /\ g[i] \in Int /\ (i # j => f[i] = g[i])
    OBVIOUS
  <2>1. /\ f[i] = IF <<i, m>> \in T THEN v.rhs[<<i, t>>] * y[<<i, m>>] ELSE 0
        /\ g[i] = IF <<i, m>> \in T \ {<<j, m>>} THEN v.rhs[<<i, t>>] * y[<<i, m>>] ELSE 0
    BY <1>1 DEF Terms
  <2>2. <<i, m>> \in T => v.rhs[<<i, t>>] * y[<<i, m>>] \in Int
    BY <1>2
  <2>3. i # j => <<i, m>> # <<j, m>>
    OBVIOUS
  <2> QED BY <2>1, <2>2, <2>3
<1>4. f[j] = x /\ g[j] = 0 /\ x \in Int
  BY <1>1, <1>2 DEF Terms
<1>5. Total(f, Dim) = Total(g, Dim) + (f[j] - g[j])
  BY <1>3, TotalsDiffer
<1>6. Total(g, Dim) \in Int
  BY <1>3, TotalsDiffer
<1>7. PICK p, q : p = Total(g, Dim) /\ q = Total(f, Dim)
  OBVIOUS
<1>8. p \in Int /\ q = p + x /\ q \in Int /\ a \in Int /\ a + x \in Int
  BY <1>4, <1>5, <1>6, <1>7, PrimeIs
<1>9. b = (a + x) % Prime /\ Congruent(a, p)
  BY <1>1, <1>7
<1>10. b \in Field /\ Congruent(b, a + x)
  BY <1>8, <1>9, RemainderIs, CongruentRemainder
<1>11. Congruent(a + x, q)
  <2>1. Congruent(x, x)
    BY DEF Congruent
  <2> QED BY <1>4, <1>8, <1>9, <2>1, CongruentSum
<1>12. Congruent(b, q)
  BY <1>10, <1>11, CongruentTrans
<1> QED BY <1>1, <1>7, <1>10, <1>12

\* A contraction is congruent to the sum of its terms.
LEMMA ContractIs ==
  ASSUME NEW c, NEW v, NEW y, NEW m, NEW t, c.point = v, c.words = y, c.output = <<t, m>>,
         NEW S, S \subseteq Positions \X {m},
         \A i \in Positions : <<i, m>> \in S => v.rhs[<<i, t>>] \in Field /\ y[<<i, m>>] \in Field
  PROVE  /\ Gathered(0, c, S, "contract") \in Field
         /\ Congruent(Gathered(0, c, S, "contract"), Total(Terms(v, y, m, t, S), Dim))
<1>1. IsFiniteSet(S)
  <2>1. IsFiniteSet(Positions)
    BY DimIs, FS_Interval
  <2>2. IsFiniteSet(Positions \X {m})
    BY <2>1, FS_Singleton, FS_Product
  <2> QED BY <2>2, FS_Subset
<1>2. PICK it : Gathers(it, 0, c, S, "contract")
  BY <1>1, GatherIs
<1> DEFINE Q == {T \in SUBSET S : it[T] \in Field /\ Congruent(it[T], Total(Terms(v, y, m, t, T), Dim))}
<1>3. {} \in Q
  <2>1. it[{}] = 0
    BY <1>2 DEF Gathers, GatherAt
  <2>2. PICK f : f = Terms(v, y, m, t, {})
    OBVIOUS
  <2>3. \A i \in 1 .. Dim : f[i] = 0
    BY <2>2, DimIs DEF Terms
  <2>4. Total(f, Dim) = 0
    BY <2>3, DimIs, TotalZero
  <2> QED BY <2>1, <2>2, <2>4, PrimeIs DEF Congruent
<1>4. ASSUME NEW T \in SUBSET S, T # {}, T \ {Chosen(T)} \in Q PROVE T \in Q
  <2>1. PICK w : w = Chosen(T)
    OBVIOUS
  <2>2. w \in T
    BY <1>4, <2>1 DEF Chosen
  <2>3. PICK j \in Positions : w = <<j, m>>
    <3>1. w \in Positions \X {m}
      BY <2>2
    <3> QED BY <3>1
  <2>4. PICK a, b : a = it[T \ {w}] /\ b = it[T]
    OBVIOUS
  <2>5. a \in Field /\ Congruent(a, Total(Terms(v, y, m, t, T \ {<<j, m>>}), Dim))
    BY <1>4, <2>1, <2>3, <2>4
  <2>6. b = (a + v.rhs[<<j, t>>] * y[<<j, m>>]) % Prime
    <3>1. b = StepOf(a, c, w, "contract")
      BY <1>2, <1>4, <2>1, <2>4 DEF Gathers, GatherAt
    <3>2. b = (a + c.point.rhs[<<w[1], c.output[1]>>] * c.words[w]) % Prime
      BY <3>1, StepContract
    <3> QED BY <2>3, <3>2
  <2>7. \A i \in Positions : <<i, m>> \in T => v.rhs[<<i, t>>] \in Field /\ y[<<i, m>>] \in Field
    OBVIOUS
  <2>8. <<j, m>> \in T
    BY <2>2, <2>3
  <2>9. b \in Field /\ Congruent(b, Total(Terms(v, y, m, t, T), Dim))
    BY <2>5, <2>6, <2>7, <2>8, ContractStep
  <2> QED BY <2>4, <2>9
<1> HIDE DEF Q
<1>5. S \in Q
  BY <1>1, <1>3, <1>4, SubsetInduction
<1>6. it[S] = Gathered(0, c, S, "contract")
  BY <1>2 DEF Gathers
<1> QED BY <1>5, <1>6 DEF Q

-----------------------------------------------------------------------------
(* A master kernel that runs contracts to the pairing of the reference. *)

\* The contraction for an output.
ContractedAt(v, words, S, o) ==
  Gathered(0, [point |-> v, output |-> o, words |-> words], S, "contract")

\* A master replay comes from its steps.
LEMMA MasterRunExists ==
  ASSUME NEW c, NEW n \in Nat, DOMAIN c.plan.layout.blocks = 1 .. n
  PROVE  \E s : /\ MasterRun(s, c, n)
                /\ MasterReplay(c.plan, c.kernel, c.point) =
                     IF s[n].ok
                       THEN [o \in c.kernel.outputs |->
                               ContractedAt(c.point, s[n].words, c.kernel.contractions[o], o)]
                       ELSE NoAnswer
<1>1. PICK u, base : /\ u = BlockNumbers(c.plan)
                     /\ base = [ok |-> TRUE, words |-> [i \in c.kernel.alive |->
                                  IF i \in c.kernel.seeds THEN 1 ELSE 0]]
  OBVIOUS
<1>2. DOMAIN u = 1 .. n /\ \A j \in 1 .. n : u[j] = j
  BY <1>1, NumbersAre
<1>3. PICK s : Chain(s, base, c, u, "dual") /\ s[n] = Folded(base, c, u, "dual")
  BY <1>2, FoldChain
<1>4. MasterRun(s, c, n)
  <2>1. \A j \in 1 .. n : s[j] = StepOf(s[j - 1], c, j, "dual")
    BY <1>2, <1>3 DEF Chain
  <2>2. \A j \in 1 .. n : s[j] = MasterBlock(s[j - 1], c, j)
    BY <2>1, StepDual
  <2> QED BY <1>1, <1>3, <2>2 DEF Chain, MasterRun
<1> DEFINE final == Folded([ok |-> TRUE, words |-> [w \in c.kernel.alive |->
                              IF w \in c.kernel.seeds THEN 1 ELSE 0]], c, BlockNumbers(c.plan), "dual")
<1>5. final = s[n]
  BY <1>1, <1>3
<1>6. MasterReplay(c.plan, c.kernel, c.point) =
        IF final.ok
          THEN [o \in c.kernel.outputs |->
                  FoldSet(LAMBDA w, sum : (sum + c.point.rhs[<<w[1], o[1]>>] * final.words[w]) % Prime,
                          0, c.kernel.contractions[o])]
          ELSE NoAnswer
  BY MasterReplayFold
<1>7. ASSUME NEW o
      PROVE  FoldSet(LAMBDA w, sum : (sum + c.point.rhs[<<w[1], o[1]>>] * final.words[w]) % Prime,
                     0, c.kernel.contractions[o]) =
               ContractedAt(c.point, final.words, c.kernel.contractions[o], o)
  BY ContractFold DEF ContractedAt
<1>8. MasterReplay(c.plan, c.kernel, c.point) =
        IF final.ok
          THEN [o \in c.kernel.outputs |->
                  ContractedAt(c.point, final.words, c.kernel.contractions[o], o)]
          ELSE NoAnswer
  BY <1>6, <1>7
<1> HIDE DEF final
<1> QED BY <1>4, <1>5, <1>8

\* The contraction of one output is the pairing of the vector with the right-hand side.
LEMMA ContractedPair ==
  ASSUME NEW p, NEW v, NEW n, PlanFits(p, n), PointFits(p, v), NEW M, NEW m \in M, NEW t \in Requests,
         NEW A, NEW reach, OfPairs(reach, M), NEW S,
         S = {<<e[1], m>> : e \in {f \in p.layout.rhs : f[2] = t}} \intersect reach, S \subseteq A,
         NEW e \in Words(M), ZeroOff(e, reach), NEW y, Agree(e, y, A),
         NEW r, r = [i \in Positions \X Requests |-> IF i \in p.layout.rhs THEN v.rhs[i] ELSE 0]
  PROVE  /\ ContractedAt(v, y, S, <<t, m>>) \in Field
         /\ Congruent(ContractedAt(v, y, S, <<t, m>>), Pair(e, r, m, t))
<1>1. S \subseteq Positions \X {m}
  BY DEF PlanFits
<1>2. ASSUME NEW i \in Positions
      PROVE  <<i, m>> \in S <=> <<i, t>> \in p.layout.rhs /\ <<i, m>> \in reach
  <2>1. ASSUME <<i, m>> \in S PROVE <<i, t>> \in p.layout.rhs /\ <<i, m>> \in reach
    <3>1. PICK f \in p.layout.rhs : f[2] = t /\ <<i, m>> = <<f[1], m>>
      BY <2>1
    <3>2. f = <<f[1], f[2]>>
      BY DEF PlanFits
    <3> QED BY <2>1, <3>1, <3>2
  <2>2. ASSUME <<i, t>> \in p.layout.rhs, <<i, m>> \in reach PROVE <<i, m>> \in S
    <3>1. PICK f : f = <<i, t>>
      OBVIOUS
    <3>2. f \in {g \in p.layout.rhs : g[2] = t} /\ <<i, m>> = <<f[1], m>>
      BY <2>2, <3>1
    <3> QED BY <2>2, <3>2
  <2> QED BY <2>1, <2>2
<1>3. ASSUME NEW i \in Positions, <<i, m>> \in S
      PROVE  /\ v.rhs[<<i, t>>] \in Field /\ y[<<i, m>>] \in Field /\ y[<<i, m>>] = e[<<i, m>>]
  <2>1. <<i, t>> \in p.layout.rhs /\ <<i, m>> \in A
    BY <1>2, <1>3
  <2>2. v.rhs[<<i, t>>] \in Field
    BY <2>1 DEF PointFits
  <2>3. y[<<i, m>>] = e[<<i, m>>]
    BY <2>1 DEF Agree
  <2>4. e[<<i, m>>] \in Field
    BY DEF Words
  <2> QED BY <2>2, <2>3, <2>4
<1>4. PICK c : c = [point |-> v, output |-> <<t, m>>, words |-> y]
  OBVIOUS
<1>5. /\ Gathered(0, c, S, "contract") \in Field
      /\ Congruent(Gathered(0, c, S, "contract"), Total(Terms(v, y, m, t, S), Dim))
  <2>1. c.point = v /\ c.words = y /\ c.output = <<t, m>>
    BY <1>4
  <2> QED BY <1>1, <1>3, <2>1, ContractIs
<1>6. PICK f, g : f = Terms(v, y, m, t, S) /\ g = [i \in Positions |-> e[<<i, m>>] * r[<<i, t>>]]
  OBVIOUS
<1>7. \A i \in Positions : f[i] = g[i]
  <2> SUFFICES ASSUME NEW i \in Positions PROVE f[i] = g[i]
    OBVIOUS
  <2>1. PICK a, b : a = e[<<i, m>>] /\ b = r[<<i, t>>]
    OBVIOUS
  <2>2. a \in Int /\ g[i] = a * b /\ f[i] = IF <<i, m>> \in S THEN v.rhs[<<i, t>>] * y[<<i, m>>] ELSE 0
    BY <1>6, <2>1, PrimeIs DEF Words, Terms
  <2>3. b = IF <<i, t>> \in p.layout.rhs THEN v.rhs[<<i, t>>] ELSE 0
    BY <2>1
  <2>4. CASE <<i, m>> \in S
    <3>1. <<i, t>> \in p.layout.rhs /\ v.rhs[<<i, t>>] \in Int /\ y[<<i, m>>] = a
      BY <1>2, <1>3, <2>1, <2>4, PrimeIs
    <3>2. f[i] = b * a /\ b \in Int
      BY <2>2, <2>3, <2>4, <3>1
    <3> QED BY <2>2, <3>2
  <2>5. CASE <<i, m>> \notin S
    <3>1. f[i] = 0
      BY <2>2, <2>5
    <3>2. CASE <<i, t>> \notin p.layout.rhs
      <4>1. b = 0
        BY <2>3, <3>2
      <4> QED BY <2>2, <3>1, <4>1
    <3>3. CASE <<i, t>> \in p.layout.rhs
      <4>1. <<i, m>> \notin reach
        BY <1>2, <2>5, <3>3
      <4>2. <<i, m>> \in DOMAIN e
        BY DEF Words
      <4>3. a = 0
        BY <2>1, <4>1, <4>2 DEF ZeroOff
      <4>4. b \in Int
        BY <2>3, <3>3, PrimeIs DEF PointFits
      <4> QED BY <2>2, <3>1, <4>3, <4>4
    <3> QED BY <3>2, <3>3
  <2> QED BY <2>4, <2>5
<1>8. Total(f, Dim) = Total(g, Dim)
  BY <1>7, DimIs, TotalSame
<1> QED BY <1>4, <1>5, <1>6, <1>8 DEF ContractedAt, Pair

-----------------------------------------------------------------------------
(* The master kernel of given outputs. *)

\* The words a master kernel starts from and ends with.
Seeds(p, outputs) == {<<SolutionRow(p, o[2]), o[2]>> : o \in outputs}
SinksOf(p, reach, o) == {<<e[1], o[2]>> : e \in {f \in p.layout.rhs : f[2] = o[1]}} \intersect reach

\* A seed for each master, in a row of its own.
LEMMA SeedsFit ==
  ASSUME NEW s, NEW p, NEW n, PlanServes(s, p, n), NEW outputs, outputs \subseteq AllOutputs(s),
         NEW M, M = {o[2] : o \in outputs}
  PROVE  /\ OfPairs(Seeds(p, outputs), M)
         /\ \A reach : OfPairs(UNION {SinksOf(p, reach, o) : o \in outputs}, M)
         /\ \A o \in outputs : \E t \in Requests, m \in M :
              /\ o = <<t, m>> /\ SolutionRow(p, m) \in Positions
              /\ \A i \in Positions : <<i, m>> \in Seeds(p, outputs) <=> i = SolutionRow(p, m)
<1>1. p.layout.blocks[1] \subseteq Positions /\ \A e \in p.layout.rhs : e[1] \in Positions
  BY DEF PlanServes, PlanFits
<1>2. ASSUME NEW o \in outputs
      PROVE  \E t \in Requests, m \in M : o = <<t, m>> /\ SolutionRow(p, m) \in Positions
  <2>1. PICK t \in Requests, m \in 1 .. s.basis : o = <<t, m>>
    BY DEF AllOutputs
  <2>2. m \in M
    BY <2>1
  <2>3. SolutionRow(p, m) \in Positions
    BY <1>1 DEF PlanServes
  <2> QED BY <2>1, <2>2, <2>3
<1>3. ASSUME NEW o \in outputs
      PROVE  <<SolutionRow(p, o[2]), o[2]>> \in Positions \X M
  <2>1. PICK t \in Requests, m \in M : o = <<t, m>> /\ SolutionRow(p, m) \in Positions
    BY <1>2
  <2> QED BY <2>1
<1>4. OfPairs(Seeds(p, outputs), M)
  BY <1>3 DEF OfPairs, Seeds
<1>5. ASSUME NEW reach PROVE OfPairs(UNION {SinksOf(p, reach, o) : o \in outputs}, M)
  <2>1. ASSUME NEW o \in outputs, NEW w \in SinksOf(p, reach, o) PROVE w \in Positions \X M
    <3>1. PICK e \in p.layout.rhs : w = <<e[1], o[2]>>
      BY <2>1 DEF SinksOf
    <3>2. o[2] \in M
      OBVIOUS
    <3> QED BY <1>1, <3>1, <3>2
  <2> QED BY <2>1 DEF OfPairs
<1>6. ASSUME NEW m, NEW i, NEW o \in outputs, o[2] = m
      PROVE  <<i, m>> \in Seeds(p, outputs) <=> i = SolutionRow(p, m)
  <2>1. ASSUME <<i, m>> \in Seeds(p, outputs) PROVE i = SolutionRow(p, m)
    <3>1. PICK q \in outputs : <<i, m>> = <<SolutionRow(p, q[2]), q[2]>>
      BY <2>1 DEF Seeds
    <3>2. q[2] = m /\ i = SolutionRow(p, q[2])
      BY <3>1
    <3> QED BY <3>2
  <2>2. ASSUME i = SolutionRow(p, m) PROVE <<i, m>> \in Seeds(p, outputs)
    <3>1. <<SolutionRow(p, o[2]), o[2]>> \in Seeds(p, outputs)
      BY DEF Seeds
    <3> QED BY <1>6, <2>2, <3>1
  <2> QED BY <2>1, <2>2
<1>7. ASSUME NEW o \in outputs
      PROVE  \E t \in Requests, m \in M :
              /\ o = <<t, m>> /\ SolutionRow(p, m) \in Positions
              /\ \A i \in Positions : <<i, m>> \in Seeds(p, outputs) <=> i = SolutionRow(p, m)
  <2>1. PICK t \in Requests, m \in M : o = <<t, m>> /\ SolutionRow(p, m) \in Positions
    BY <1>2
  <2>2. o[2] = m
    BY <2>1
  <2>3. \A i : <<i, m>> \in Seeds(p, outputs) <=> i = SolutionRow(p, m)
    BY <1>6, <2>2
  <2> QED BY <2>1, <2>3
<1> QED BY <1>4, <1>5, <1>7

\* The fields of a master kernel.
LEMMA MasterKernelIs ==
  ASSUME NEW p, NEW outputs
  PROVE  LET forward == Forward(p, Seeds(p, outputs))
             backward == Backward(p, forward, UNION {SinksOf(p, forward.reach, o) : o \in outputs})
         IN  MasterKernel(p, outputs) =
               [orientation |-> "master", outputs |-> outputs, tapes |-> backward.tapes,
                alive |-> backward.alive, columns |-> backward.columns,
                seeds |-> Seeds(p, outputs) \intersect backward.alive,
                contractions |-> [o \in outputs |-> SinksOf(p, forward.reach, o)]]
BY DEF MasterKernel, Seeds, SinksOf

\* The kernel, with its two passes and the words of both.
MasterParts(c, n, outputs, seeds, sinks, F, K) ==
  /\ c.kernel.outputs = outputs /\ c.kernel.tapes = K[n].tapes /\ c.kernel.alive = K[n].alive
  /\ c.kernel.columns = K[n].columns /\ c.kernel.seeds = seeds \intersect c.kernel.alive
  /\ c.forward = F[n] /\ ForwardPass(F, c, seeds, n) /\ BackwardPass(K, c, sinks, n)
  /\ sinks = UNION {SinksOf(c.plan, F[n].reach, o) : o \in outputs}
  /\ \A o \in outputs : c.kernel.contractions[o] = SinksOf(c.plan, F[n].reach, o)

MasterOf(c, p, v, n, outputs, seeds, sinks, F, K) ==
  /\ c.plan = p /\ c.point = v /\ c.kernel = MasterKernel(p, outputs)
  /\ seeds = Seeds(p, outputs) /\ MasterParts(c, n, outputs, seeds, sinks, F, K)

\* Every master kernel has that.
LEMMA MasterKernelMade ==
  ASSUME NEW p, NEW n, PlanFits(p, n), NEW outputs, NEW v
  PROVE  \E c, seeds, sinks, F, K : MasterOf(c, p, v, n, outputs, seeds, sinks, F, K)
<1>1. PICK seeds, g : seeds = Seeds(p, outputs) /\ g = Forward(p, seeds)
  OBVIOUS
<1>2. PICK sinks : sinks = UNION {SinksOf(p, g.reach, o) : o \in outputs}
  OBVIOUS
<1>3. PICK k, h : k = MasterKernel(p, outputs) /\ h = Backward(p, g, sinks)
  OBVIOUS
<1>4. PICK c : c = [plan |-> p, point |-> v, forward |-> g, kernel |-> k]
  OBVIOUS
<1>5. c.plan = p /\ c.point = v /\ c.forward = g /\ c.kernel = k
  BY <1>4
<1>6. PICK F : ForwardPass(F, c, seeds, n) /\ g = F[n]
  <2>1. PlanFits(c.plan, n)
    BY <1>5
  <2>2. \E F : ForwardPass(F, c, seeds, n) /\ Forward(c.plan, seeds) = F[n]
    BY <2>1, ForwardExists
  <2> QED BY <1>1, <1>5, <2>2
<1>7. PICK K : BackwardPass(K, c, sinks, n) /\ h = K[n]
  <2>1. PlanFits(c.plan, n)
    BY <1>5
  <2>2. \E K : BackwardPass(K, c, sinks, n) /\ Backward(c.plan, c.forward, sinks) = K[n]
    BY <2>1, BackwardExists
  <2> QED BY <1>3, <1>5, <2>2
<1>8. k = [orientation |-> "master", outputs |-> outputs, tapes |-> h.tapes,
           alive |-> h.alive, columns |-> h.columns,
           seeds |-> seeds \intersect h.alive,
           contractions |-> [o \in outputs |-> SinksOf(p, g.reach, o)]]
  <2>1. LET forward == Forward(p, Seeds(p, outputs))
            backward == Backward(p, forward, UNION {SinksOf(p, forward.reach, o) : o \in outputs})
        IN  MasterKernel(p, outputs) =
               [orientation |-> "master", outputs |-> outputs, tapes |-> backward.tapes,
                alive |-> backward.alive, columns |-> backward.columns,
                seeds |-> Seeds(p, outputs) \intersect backward.alive,
                contractions |-> [o \in outputs |-> SinksOf(p, forward.reach, o)]]
    BY MasterKernelIs
  <2> QED BY <1>1, <1>2, <1>3, <2>1
<1>9. /\ k.outputs = outputs /\ k.tapes = h.tapes /\ k.alive = h.alive /\ k.columns = h.columns
      /\ k.seeds = seeds \intersect h.alive
      /\ \A o \in outputs : k.contractions[o] = SinksOf(p, g.reach, o)
  BY <1>8
<1>10. MasterParts(c, n, outputs, seeds, sinks, F, K)
  BY <1>2, <1>5, <1>6, <1>7, <1>9 DEF MasterParts
<1> QED BY <1>1, <1>3, <1>5, <1>10 DEF MasterOf

-----------------------------------------------------------------------------
(* A master kernel answers what the recording answers. *)

\* In master orientation the kernel answers what the reference does.
LEMMA MasterMatches ==
  ASSUME NEW s, NEW p, NEW n, PlanServes(s, p, n), NEW outputs, outputs \subseteq AllOutputs(s),
         NEW v, PointFits(p, v), TargetReplay(p, ReferenceKernel(s, p), v) # NoAnswer
  PROVE  MasterReplay(p, MasterKernel(p, outputs), v) =
           [o \in outputs |-> TargetReplay(p, ReferenceKernel(s, p), v)[o]]
<1>1. PlanFits(p, n) /\ n > 0 /\ n \in Nat /\ DOMAIN p.layout.blocks = 1 .. n
  BY DEF PlanServes, PlanFits
<1>2. PICK L, E : PlanLive(p, n, L, E)
  BY DEF PlanServes
<1>3. PICK c, seeds, sinks, F, K : MasterOf(c, p, v, n, outputs, seeds, sinks, F, K)
  BY <1>1, MasterKernelMade
<1>x. /\ c.plan = p /\ c.point = v /\ c.kernel = MasterKernel(p, outputs)
      /\ seeds = Seeds(p, outputs) /\ MasterParts(c, n, outputs, seeds, sinks, F, K)
  BY <1>3 DEF MasterOf
<1>4. PICK M : M = {o[2] : o \in outputs}
  OBVIOUS
<1>5. PICK d, w : /\ d = [plan |-> p, point |-> v, kernel |-> ReferenceKernel(s, p)]
                  /\ w = [plan |-> p, point |-> v,
                          kernel |-> [columns |-> [x \in DOMAIN p.layout.matrix |-> M]]]
  OBVIOUS
<1>6. /\ d.plan = p /\ d.point = v /\ d.kernel = ReferenceKernel(s, p)
      /\ w.plan = p /\ w.point = v /\ \A x \in DOMAIN p.layout.matrix : w.kernel.columns[x] = M
  BY <1>5
<1>7. /\ d.kernel.tapes = p.tapes /\ d.kernel.alive = Positions \X Requests
      /\ \A x \in DOMAIN p.layout.matrix : d.kernel.columns[x] = Requests
      /\ d.kernel.outputs = AllOutputs(s)
  BY <1>6 DEF ReferenceKernel
<1>8. /\ OfPairs(seeds, M) /\ OfPairs(sinks, M)
      /\ \A o \in outputs : \E t \in Requests, m \in M :
              /\ o = <<t, m>> /\ SolutionRow(p, m) \in Positions
              /\ \A i \in Positions : <<i, m>> \in seeds <=> i = SolutionRow(p, m)
  <2>1. /\ OfPairs(Seeds(p, outputs), M)
        /\ \A reach : OfPairs(UNION {SinksOf(p, reach, o) : o \in outputs}, M)
        /\ \A o \in outputs : \E t \in Requests, m \in M :
              /\ o = <<t, m>> /\ SolutionRow(p, m) \in Positions
              /\ \A i \in Positions : <<i, m>> \in Seeds(p, outputs) <=> i = SolutionRow(p, m)
    BY <1>4, SeedsFit
  <2>2. sinks = UNION {SinksOf(p, F[n].reach, o) : o \in outputs}
    BY <1>x DEF MasterParts
  <2> QED BY <1>x, <2>1, <2>2
<1>9. /\ c.kernel.outputs = outputs /\ c.kernel.tapes = K[n].tapes /\ c.kernel.alive = K[n].alive
      /\ c.kernel.columns = K[n].columns /\ c.kernel.seeds = seeds \intersect c.kernel.alive
      /\ c.forward = F[n] /\ ForwardPass(F, c, seeds, n) /\ BackwardPass(K, c, sinks, n)
      /\ sinks = UNION {SinksOf(p, F[n].reach, o) : o \in outputs}
      /\ \A o \in outputs : c.kernel.contractions[o] = SinksOf(p, F[n].reach, o)
  BY <1>x DEF MasterParts
<1>10. MasterSetting(c, d, w, n, M, seeds, sinks, F, K, L, E)
  <2>1. MasterMade(c, n, M, seeds, sinks, F, K)
    BY <1>1, <1>x, <1>8, <1>9 DEF MasterMade
  <2>2. c.plan = p /\ c.point = v
    BY <1>x
  <2> QED BY <1>2, <1>6, <1>7, <2>1, <2>2 DEF MasterSetting
<1>11. PICK q : /\ MasterRun(q, c, n)
                /\ MasterReplay(p, MasterKernel(p, outputs), v) =
                     IF q[n].ok
                       THEN [o \in outputs |-> ContractedAt(v, q[n].words, c.kernel.contractions[o], o)]
                       ELSE NoAnswer
  <2>1. DOMAIN c.plan.layout.blocks = 1 .. n
    BY <1>1, <1>x
  <2>2. PICK q : /\ MasterRun(q, c, n)
                 /\ MasterReplay(c.plan, c.kernel, c.point) =
                      IF q[n].ok
                        THEN [o \in c.kernel.outputs |->
                                ContractedAt(c.point, q[n].words, c.kernel.contractions[o], o)]
                        ELSE NoAnswer
    BY <1>1, <2>1, MasterRunExists
  <2> QED BY <1>x, <1>9, <2>2
<1>12. PICK r : /\ Replayed(r, d, n)
                /\ TargetReplay(p, ReferenceKernel(s, p), v) =
                     IF r[n].ok
                       THEN [o \in AllOutputs(s) |-> r[n].words[<<SolutionRow(p, o[2]), o[1]>>]]
                       ELSE NoAnswer
  <2>1. DOMAIN d.plan.layout.blocks = 1 .. n
    BY <1>1, <1>6
  <2>2. PICK r : /\ Replayed(r, d, n)
                 /\ TargetReplay(d.plan, d.kernel, d.point) =
                       IF r[n].ok
                         THEN [o \in d.kernel.outputs |->
                                 r[n].words[<<SolutionRow(d.plan, o[2]), o[1]>>]]
                         ELSE NoAnswer
    BY <1>1, <2>1, ReplayedExists
  <2> QED BY <1>6, <1>7, <2>2
<1>13. r[n].ok /\ TargetReplay(p, ReferenceKernel(s, p), v) =
                   [o \in AllOutputs(s) |-> r[n].words[<<SolutionRow(p, o[2]), o[1]>>]]
  BY <1>12
<1>14. PICK e : MasterAt(e, q[n], r[n - n].words, Unit(seeds, M), r[n].words, M, F[n].reach, K[n - n].alive)
  <2>1. \A b \in 0 .. n : \E e : MasterAt(e, q[b], r[n - b].words, Unit(seeds, M), r[n].words, M,
                                          F[b].reach, K[n - b].alive)
    BY <1>9, <1>10, <1>11, <1>12, <1>13, MasterRuns
  <2>2. n \in 0 .. n
    BY <1>1
  <2> QED BY <2>1, <2>2
<1>15. n - n = 0 /\ K[0].alive = sinks
  BY <1>1, <1>9 DEF BackwardPass
<1>16. PICK x, y, z, R : x = r[0].words /\ y = q[n].words /\ z = r[n].words /\ R = F[n].reach
  OBVIOUS
<1>17. /\ e \in Words(M) /\ ZeroOff(e, R) /\ Agree(e, y, sinks) /\ q[n].ok
       /\ Adjoint(e, x, Unit(seeds, M), z, M)
  <2>1. MasterAt(e, q[n], x, Unit(seeds, M), z, M, R, sinks)
    BY <1>14, <1>15, <1>16
  <2>2. q[n] = [ok |-> TRUE, words |-> q[n].words]
    BY <2>1 DEF MasterAt
  <2>3. q[n].ok
    BY <2>2
  <2> QED BY <1>16, <2>1, <2>3 DEF MasterAt
<1>18. x = [i \in Positions \X Requests |-> IF i \in p.layout.rhs THEN v.rhs[i] ELSE 0]
  <2>1. r[0] = [ok |-> TRUE, words |-> [i \in Positions \X Requests |->
                                          IF i \in p.layout.rhs THEN v.rhs[i] ELSE 0]]
    BY <1>6, <1>7, <1>12 DEF Replayed
  <2> QED BY <1>16, <2>1
<1>19. z \in Words(Requests)
  <2>1. /\ PlanFits(d.plan, n) /\ PointFits(d.plan, d.point) /\ PlanLive(d.plan, n, L, E)
        /\ d.kernel.tapes = d.plan.tapes
        /\ \A i \in DOMAIN d.plan.layout.matrix : d.kernel.columns[i] = Requests
    BY <1>1, <1>2, <1>6, <1>7
  <2>2. \A j \in 0 .. n : ReferenceAt(r, n, L, j)
    BY <1>7, <1>12, <2>1, ReferenceRun
  <2>3. n \in 0 .. n
    BY <1>1
  <2> QED BY <1>13, <1>16, <2>2, <2>3 DEF ReferenceAt
<1>20. OfPairs(R, M)
  <2>1. OfPairs(seeds, M) /\ PlanFits(c.plan, n) /\ ForwardPass(F, c, seeds, n)
    BY <1>1, <1>x, <1>8, <1>9
  <2>2. \A b \in 0 .. n : ForwardAt(F, c, M, n, b)
    BY <2>1, ForwardPassIs
  <2>3. n \in 0 .. n
    BY <1>1
  <2> QED BY <1>16, <2>2, <2>3 DEF ForwardAt
<1>21. ASSUME NEW o \in outputs
       PROVE  ContractedAt(v, y, c.kernel.contractions[o], o) = z[<<SolutionRow(p, o[2]), o[1]>>]
  <2>1. PICK t \in Requests, m \in M :
              /\ o = <<t, m>> /\ SolutionRow(p, m) \in Positions
              /\ \A i \in Positions : <<i, m>> \in seeds <=> i = SolutionRow(p, m)
    BY <1>8
  <2>2. PICK S, j : S = c.kernel.contractions[o] /\ j = SolutionRow(p, m)
    OBVIOUS
  <2>3. S = SinksOf(p, R, o) /\ S \subseteq sinks
    BY <1>9, <1>16, <2>2
  <2>4. o[1] = t /\ o[2] = m
    BY <2>1
  <2>5. S = {<<f[1], m>> : f \in {g \in p.layout.rhs : g[2] = t}} \intersect R
    BY <2>3, <2>4 DEF SinksOf
  <2>6. /\ ContractedAt(v, y, S, <<t, m>>) \in Field
        /\ Congruent(ContractedAt(v, y, S, <<t, m>>), Pair(e, x, m, t))
    BY <1>1, <1>17, <1>18, <1>20, <2>3, <2>5, ContractedPair
  <2>7. Pair(Unit(seeds, M), z, m, t) = z[<<j, t>>] /\ z[<<j, t>>] \in Field
    <3>1. j \in Positions /\ \A i \in Positions : <<i, m>> \in seeds <=> i = j
      BY <2>1, <2>2
    <3> QED BY <1>19, <3>1, PairUnit
  <2>8. Congruent(Pair(e, x, m, t), Pair(Unit(seeds, M), z, m, t))
    BY <1>17 DEF Adjoint
  <2>9. PICK a, b, g : a = ContractedAt(v, y, S, <<t, m>>) /\ b = Pair(e, x, m, t) /\ g = z[<<j, t>>]
    OBVIOUS
  <2>10. a \in Field /\ g \in Field /\ Congruent(a, b) /\ Congruent(b, g)
    BY <2>6, <2>7, <2>8, <2>9
  <2>11. a = g
    <3>1. Congruent(a, g)
      BY <2>10, CongruentTrans
    <3> QED BY <2>10, <3>1, CongruentEqual
  <2> QED BY <2>1, <2>2, <2>4, <2>9, <2>11
<1>22. MasterReplay(p, MasterKernel(p, outputs), v) =
         [o \in outputs |-> ContractedAt(v, y, c.kernel.contractions[o], o)]
  BY <1>11, <1>16, <1>17
<1>23. MasterReplay(p, MasterKernel(p, outputs), v) =
         [o \in outputs |-> z[<<SolutionRow(p, o[2]), o[1]>>]]
  BY <1>21, <1>22
<1>24. \A o \in outputs : TargetReplay(p, ReferenceKernel(s, p), v)[o] = z[<<SolutionRow(p, o[2]), o[1]>>]
  BY <1>13, <1>16
<1> QED BY <1>23, <1>24

-----------------------------------------------------------------------------
(* The invariant, and the theorem. *)

\* What stands in every state: the plan is that of the system, the kernel one of the plan,
\* the answer the kernel's at the point.
Prepared ==
  /\ system \in Systems
  /\ Built => plan = BuildReplay(system) /\ plan.ok
  /\ phase \in {"ready", "answered"} =>
       \E outputs \in SUBSET AllOutputs(system) :
         kernel = TargetKernel(plan, outputs) \/ kernel = MasterKernel(plan, outputs)
  /\ phase = "answered" => PointFits(plan, point) /\ answer = Execute(plan, kernel, point)

\* The matrices of a system fit its plan.
LEMMA MatrixFits ==
  ASSUME NEW s, NEW p, p.layout.matrix \in [DOMAIN p.layout.matrix -> Field],
         NEW m \in Matrices(s, p)
  PROVE  m \in [DOMAIN p.layout.matrix -> Field]
<1>1. PICK C, f : /\ C \subseteq DOMAIN p.layout.matrix /\ f \in [C -> Field]
                  /\ m = Over(f, p.layout.matrix)
  BY DEF Matrices
<1>2. PICK D, g : D = DOMAIN p.layout.matrix /\ g = p.layout.matrix
  OBVIOUS
<1>3. m = [x \in DOMAIN f \union D |-> IF x \in DOMAIN f THEN f[x] ELSE g[x]]
  BY <1>1, <1>2 DEF Over
<1>4. DOMAIN f = C /\ C \union D = D
  BY <1>1, <1>2
<1>5. m = [x \in D |-> IF x \in C THEN f[x] ELSE g[x]]
  BY <1>3, <1>4
<1>6. \A x \in D : (IF x \in C THEN f[x] ELSE g[x]) \in Field
  BY <1>1, <1>2
<1> QED BY <1>2, <1>5, <1>6

\* Execute runs a kernel in its orientation.
LEMMA Orientations ==
  ASSUME NEW s, NEW p, NEW outputs, NEW v
  PROVE  /\ Execute(p, ReferenceKernel(s, p), v) = TargetReplay(p, ReferenceKernel(s, p), v)
         /\ Execute(p, TargetKernel(p, outputs), v) = TargetReplay(p, TargetKernel(p, outputs), v)
         /\ Execute(p, MasterKernel(p, outputs), v) = MasterReplay(p, MasterKernel(p, outputs), v)
         /\ TargetKernel(p, outputs).outputs = outputs /\ MasterKernel(p, outputs).outputs = outputs
<1>1. ReferenceKernel(s, p).orientation = "target"
  BY DEF ReferenceKernel
<1>2. TargetKernel(p, outputs).orientation = "target" /\ TargetKernel(p, outputs).outputs = outputs
  BY DEF TargetKernel
<1>3. MasterKernel(p, outputs).orientation = "master" /\ MasterKernel(p, outputs).outputs = outputs
  BY DEF MasterKernel
<1> QED BY <1>1, <1>2, <1>3 DEF Execute

\* A kernel, in either orientation, answers what the recording answers.
LEMMA KernelMatches ==
  ASSUME NEW s, IsSystem(s), NEW p, p = BuildReplay(s), p.ok, NEW v, PointFits(p, v),
         NEW outputs \in SUBSET AllOutputs(s), NEW k,
         k = TargetKernel(p, outputs) \/ k = MasterKernel(p, outputs),
         NEW q, q = Execute(p, ReferenceKernel(s, p), v), q # NoAnswer
  PROVE  Execute(p, k, v) = [o \in k.outputs |-> q[o]]
<1>1. PICK n : PlanServes(s, p, n)
  BY BuiltServes
<1>2. TargetReplay(p, ReferenceKernel(s, p), v) = q
  BY Orientations
<1>3. PlanFits(p, n) /\ n > 0
  BY <1>1 DEF PlanServes
<1>4. OutputsFit(p, outputs)
  <2>1. ASSUME NEW o \in outputs PROVE o[1] \in Requests /\ SolutionRow(p, o[2]) \in p.layout.blocks[1]
    <3>1. o[1] \in Requests /\ o[2] \in 1 .. s.basis
      BY DEF AllOutputs
    <3> QED BY <1>1, <3>1 DEF PlanServes
  <2> QED BY <2>1 DEF OutputsFit
<1>5. CASE k = TargetKernel(p, outputs)
  <2>1. TargetReplay(p, TargetKernel(p, outputs), v) =
          [o \in outputs |-> TargetReplay(p, ReferenceKernel(s, p), v)[o]]
    BY <1>2, <1>3, <1>4, TargetMatches
  <2>2. k.outputs = outputs /\ Execute(p, k, v) = TargetReplay(p, TargetKernel(p, outputs), v)
    BY <1>5, Orientations
  <2> QED BY <1>2, <2>1, <2>2
<1>6. CASE k = MasterKernel(p, outputs)
  <2>1. MasterReplay(p, MasterKernel(p, outputs), v) =
          [o \in outputs |-> TargetReplay(p, ReferenceKernel(s, p), v)[o]]
    BY <1>1, <1>2, MasterMatches
  <2>2. k.outputs = outputs /\ Execute(p, k, v) = MasterReplay(p, MasterKernel(p, outputs), v)
    BY <1>6, Orientations
  <2> QED BY <1>2, <2>1, <2>2
<1> QED BY <1>5, <1>6

\* The invariant implies the property,
LEMMA PreparedMatches == Prepared => MatchesReference
<1> SUFFICES ASSUME Prepared, phase = "answered",
                    NEW q, q = Execute(plan, ReferenceKernel(system, plan), point), q # NoAnswer
             PROVE  answer = [o \in kernel.outputs |-> q[o]]
  BY DEF MatchesReference
<1>1. IsSystem(system)
  BY SystemsAssumption DEF Prepared
<1>2. plan = BuildReplay(system) /\ plan.ok
  BY DEF Prepared, Built
<1>3. PICK outputs \in SUBSET AllOutputs(system) :
        kernel = TargetKernel(plan, outputs) \/ kernel = MasterKernel(plan, outputs)
  BY DEF Prepared
<1>4. PointFits(plan, point) /\ answer = Execute(plan, kernel, point)
  BY DEF Prepared
<1>5. Execute(plan, kernel, point) = [o \in kernel.outputs |-> q[o]]
  BY <1>1, <1>2, <1>3, <1>4, KernelMatches
<1> QED BY <1>4, <1>5

\* holds initially,
LEMMA PreparedFirst == Init => Prepared
BY DEF Init, Prepared, Built

\* and is kept by every step.
LEMMA PreparedStays == Prepared /\ [Next]_vars => Prepared'
<1> SUFFICES ASSUME Prepared, [Next]_vars PROVE Prepared'
  OBVIOUS
<1>1. CASE Build
  <2>1. system' = system /\ phase' \in {"pending", "refused"}
    BY <1>1 DEF Build
  <2>2. phase' = "pending" => plan' = BuildReplay(system) /\ plan'.ok
    BY <1>1 DEF Build
  <2> QED BY <2>1, <2>2 DEF Prepared, Built
<1>2. CASE Finalize
  <2>1. /\ phase = "pending" /\ phase' = "ready" /\ system' = system /\ plan' = plan
        /\ \E outputs \in SUBSET AllOutputs(system) :
             kernel' = TargetKernel(plan, outputs) \/ kernel' = MasterKernel(plan, outputs)
    BY <1>2 DEF Finalize
  <2>2. system \in Systems /\ plan = BuildReplay(system) /\ plan.ok
    BY <2>1 DEF Prepared, Built
  <2> QED BY <2>1, <2>2 DEF Prepared, Built
<1>3. CASE Evaluate
  <2>1. /\ phase = "ready" /\ phase' = "answered" /\ system' = system /\ plan' = plan /\ kernel' = kernel
    BY <1>3 DEF Evaluate
  <2>2. PICK matrix \in Matrices(system, plan), rhs \in [plan.layout.rhs -> RhsValues] :
          point' = [matrix |-> matrix, rhs |-> rhs] /\ answer' = Execute(plan, kernel, point')
    BY <1>3 DEF Evaluate
  <2>3. /\ system \in Systems /\ plan = BuildReplay(system) /\ plan.ok
        /\ \E outputs \in SUBSET AllOutputs(system) :
             kernel = TargetKernel(plan, outputs) \/ kernel = MasterKernel(plan, outputs)
    BY <2>1 DEF Prepared, Built
  <2>4. PICK n : PlanServes(system, plan, n)
    <3>1. IsSystem(system)
      BY <2>3, SystemsAssumption
    <3> QED BY <2>3, <3>1, BuiltServes
  <2>5. matrix \in [DOMAIN plan.layout.matrix -> Field]
    <3>1. plan.layout.matrix \in [DOMAIN plan.layout.matrix -> Field]
      BY <2>4 DEF PlanServes
    <3> QED BY <2>2, <3>1, MatrixFits
  <2>6. PICK v : v = point'
    OBVIOUS
  <2>7. v.matrix = matrix /\ v.rhs = rhs
    BY <2>2, <2>6
  <2>8. rhs \in [plan.layout.rhs -> Field]
    BY <2>2, ValuesAssumption
  <2>9. PointFits(plan, v)
    BY <2>5, <2>7, <2>8 DEF PointFits
  <2>10. PointFits(plan', point') /\ answer' = Execute(plan', kernel', point')
    BY <2>1, <2>2, <2>6, <2>9
  <2> QED BY <2>1, <2>3, <2>10 DEF Prepared, Built
<1>4. CASE Take
  <2>1. /\ phase = "answered" /\ phase' = "ready" /\ system' = system /\ plan' = plan /\ kernel' = kernel
    BY <1>4 DEF Take
  <2> QED BY <2>1 DEF Prepared, Built
<1>5. CASE UNCHANGED vars
  BY <1>5 DEF vars, Prepared, Built
<1>6. CASE Done
  BY <1>6 DEF Done, vars, Prepared, Built
<1> QED BY <1>1, <1>2, <1>3, <1>4, <1>5, <1>6 DEF Next

\* Pruning and transposing lose nothing: whatever outputs a kernel was finalized for, in
\* either orientation, and at whatever point it is executed, it answers what the recording
\* answers there, for every system and every field.
THEOREM AnswersMatchReference == Spec => []MatchesReference
<1>1. Prepared /\ [Next]_vars => Prepared'
  BY PreparedStays
<1>2. Prepared => MatchesReference
  BY PreparedMatches
<1> QED BY PreparedFirst, <1>1, <1>2, PTL DEF Spec
=============================================================================
