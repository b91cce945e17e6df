----------------------------- MODULE BlockOrder -----------------------------
(***************************************************************************)
(* block_triangular::order_by_dependencies (BlockTriangular.cpp): the      *)
(* execution blocks of a square system and their order.  The nodes are the *)
(* initial row ranges 1 .. n, an edge leads from the range of a row to the *)
(* range of a column it has a coefficient in.  Ranges that depend on each  *)
(* other become one block (Tarjan's algorithm: one record per call of      *)
(* `visit`), and blocks are laid out so that every edge leads forward, the *)
(* block of the smallest range first among those ready.                    *)
(***************************************************************************)
EXTENDS Integers, SequencesExt

\* What f says, and what g says of the rest (@@ of TLC, which the provers do not know).
Over(f, g) == [x \in DOMAIN f \union DOMAIN g |-> IF x \in DOMAIN f THEN f[x] ELSE g[x]]

\* The ranges `block` depends on (`graph`).
Targets(edges, block) == {e[2] : e \in {d \in edges : d[1] = block /\ d[2] # block}}

\* What `visit` works on: the calls that have not returned, `discovery` and
\* `lowlink` of the ranges seen, the stack and the components complete.
Unvisited == [frames |-> <<>>, discovery |-> <<>>, lowlink |-> <<>>,
              stack |-> <<>>, components |-> <<>>]

Seen(s) == DOMAIN s.discovery

Lowered(s, block, by) == [s.lowlink EXCEPT ![block] = Min({@, by})]

Discover(edges, s, block) ==
  LET number == Cardinality(Seen(s))
  IN  [s EXCEPT !.frames = Append(@, [block |-> block, todo |-> Targets(edges, block)]),
                !.discovery = Over([b \in {block} |-> number], @),
                !.lowlink = Over([b \in {block} |-> number], @),
                !.stack = Append(@, block)]

\* The next edge of the innermost call.
Follow(edges, s) ==
  LET frame == Last(s.frames)
      target == Min(frame.todo)
      next == [s EXCEPT !.frames[Len(s.frames)].todo = @ \ {target}]
  IN  IF target \notin Seen(s) THEN Discover(edges, next, target)
      ELSE IF target \in ToSet(s.stack)
        THEN [next EXCEPT !.lowlink = Lowered(s, frame.block, s.discovery[target])]
        ELSE next

\* The root of a component takes its members off the stack.
Collect(s, block) ==
  IF s.lowlink[block] # s.discovery[block] THEN s
  ELSE LET at == CHOOSE i \in DOMAIN s.stack : s.stack[i] = block
       IN  [s EXCEPT !.stack = SubSeq(@, 1, at - 1),
                     !.components = Append(@, ToSet(SubSeq(s.stack, at, Len(s.stack))))]

Return(s) ==
  LET block == Last(s.frames).block
      done == [Collect(s, block) EXCEPT !.frames = Front(@)]
  IN  IF done.frames = <<>> THEN done
      ELSE [done EXCEPT !.lowlink = Lowered(s, Last(done.frames).block, s.lowlink[block])]

VisitStep(n, edges, s) ==
  IF s.frames # <<>>
    THEN IF Last(s.frames).todo # {} THEN Follow(edges, s) ELSE Return(s)
    ELSE IF Seen(s) = 1 .. n THEN s
    ELSE Discover(edges, s, Min((1 .. n) \ Seen(s)))

\* Every range is discovered and returns once, every edge is followed once.
Components(n, edges) ==
  FoldLeft(LAMBDA s, i : VisitStep(n, edges, s), Unvisited,
           [i \in 1 .. 2 * n + n * n |-> i]).components

Waits(edges, component, on) ==
  \E e \in edges : e[1] \in on /\ e[2] \in component /\ on # component

\* Mutant: the smallest range, ready or not.
UnorderedNextBlock(edges, waiting) ==
  CHOOSE c \in waiting : \A d \in waiting : Min(c) <= Min(d)

\* The components without an unplaced predecessor, the one with the smallest
\* range next.
NextBlock(edges, waiting) ==
  LET ready == {c \in waiting : \A d \in waiting : ~Waits(edges, c, d)}
  IN  CHOOSE c \in ready : \A d \in ready : Min(c) <= Min(d)

Place(edges, components) ==
  LET append(blocks, i) == Append(blocks, NextBlock(edges, components \ ToSet(blocks)))
  IN  FoldLeft(append, <<>>, [i \in 1 .. Cardinality(components) |-> i])

OrderByDependencies(n, edges) == Place(edges, ToSet(Components(n, edges)))
=============================================================================
