-------------------------- MODULE MCReplayVariants --------------------------
(* Four outputs on two targets and three masters: requests have proper     *)
(* groups by target and by master and some groups are the whole kernel;    *)
(* the sparse master structures have one or two of the three columns, so   *)
(* they may be nested, equal or incomparable.  At the one point some       *)
(* requests are singular, in their algebra or in their normalization, and  *)
(* some are regular although their group is singular.  Two small programs  *)
(* fit the budget, a larger one only at its smallest size, one never.      *)
EXTENDS ReplayVariants, FiniteSetsExt

MCOutputs == 1 .. 4
MCTargetOf == <<"t1", "t1", "t2", "t2">>
MCBasisOf == <<"b1", "b2", "b3", "b1">>
MCPoints == {[algebra |-> {2}, normalization |-> {3}]}
MCRequests == {{1}, {2}, {3}, {1, 2}, {2, 3}, {1, 2, 3}, MCOutputs}
MCBytes ==
  [S \in SUBSET MCOutputs |->
     CASE S = {1}    -> {1, 2}
       [] S = {2, 3} -> {4}
       [] OTHER      -> {Min({Cardinality(S), 2})}]
=============================================================================
