---------------------------- MODULE MCBlockReplay ----------------------------
(* Every square of three rows, with one or two basis columns and every      *)
(* grouping and order of the groups of the others, over the field of three  *)
(* elements, in which coefficients do cancel.  At the anchor coefficients   *)
(* are one, or zero at one coordinate, or two on the diagonal.  One request *)
(* is loaded at two rows, the other at the last row alone.                  *)
EXTENDS BlockReplay

MCAnchors ==
  {[c \in Positions \X Positions |-> 1],
   [c \in Positions \X Positions |-> IF c = <<2, 3>> THEN 0 ELSE 1],
   [c \in Positions \X Positions |-> IF c \in {<<2, 2>>, <<3, 3>>} THEN 2 ELSE 1]}
MCMatrices ==
  {Restrict(a, C) : <<a, C>> \in MCAnchors
                      \X {D \in SUBSET (Positions \X Positions) : <<1, 1>> \in D}}
MCRhs == {<<1, "t1">>, <<2, "t1">>, <<3, "t2">>}
MCGroups ==
  {[basis |-> 1, group |-> (2 :> a) @@ (3 :> b)] : <<a, b>> \in {<<1, 1>>, <<1, 2>>, <<2, 1>>}}
    \union {[basis |-> 2, group |-> (3 :> 1)]}
MCSystems ==
  {[basis |-> g.basis, group |-> g.group, matrix |-> m, rhs |-> MCRhs] :
     <<g, m>> \in MCGroups \X MCMatrices}
MCRequests == {"t1", "t2"}
MCOutputSets == {{<<"t1", 1>>}, {<<"t2", 1>>, <<"t1", 2>>}}
=============================================================================
