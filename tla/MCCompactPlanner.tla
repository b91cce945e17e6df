--------------------------- MODULE MCCompactPlanner ---------------------------
(***************************************************************************)
(* Four rows in two groups over the field of three elements, with one      *)
(* basis column and three relations or two and two.  The third target has  *)
(* weight zero in both combinations of the projected plan.                 *)
(***************************************************************************)
EXTENDS CompactPlanner

Unit(r) == r :> 1
Pair == 1 :> 1 @@ 2 :> 1
Low == 2 :> 1 @@ 3 :> 1
Full == 1 :> 1 @@ 2 :> 2 @@ 3 :> 1 @@ 4 :> 1
Ends == 1 :> 2 @@ 4 :> 1
Vanishing == 1 :> 1 @@ 3 :> 0
Nothing == 2 :> 0

Relation(terms, group, rank, dots) ==
  [terms |-> terms, group |-> group, rank |-> rank, dots |-> dots]

Source(basis, relations, targets, order, check) ==
  [basis |-> basis, initialBasis |-> basis, relations |-> relations, targets |-> targets,
   rowGroup |-> <<1, 1, 2, 2>>, groups |-> <<2, 1>>, order |-> order, check |-> check,
   capture |-> TRUE]

Three(a, b, c) == <<Relation(a, 1, 2, 1), Relation(b, 2, 1, 0), Relation(c, 1, 3, 0)>>
Two(a, b) == <<Relation(a, 1, 2, 1), Relation(b, 1, 1, 0)>>

FewTargets == <<Low>>
ManyTargets == <<Unit(1), Pair, Low>>
Orders == {"Ignore", "Ascending", "Descending"}

MCSources ==
  {Source(<<b>>, Three(x, y, z), targets, order, check) :
     b \in {Unit(3), Full, Nothing}, x \in {Pair, Full, Ends}, y \in {Unit(2), Full, Vanishing},
     z \in {Ends, Low, Vanishing}, targets \in {FewTargets, ManyTargets},
     order \in Orders, check \in BOOLEAN}
  \union
  {Source(<<a, b>>, Two(x, y), targets, "Descending", check) :
     a \in {Unit(1), Pair}, b \in {Low, Pair}, x \in {Full, Low}, y \in {Unit(2), Vanishing},
     targets \in {FewTargets, ManyTargets}, check \in BOOLEAN}

MCLaterBases == {<<Unit(2)>>, <<Full>>, <<Low, Unit(1)>>}
MCLaterTargets == {<<Unit(1)>>, <<Full, Unit(3), Low>>}

(* Six rows, of which the first is the pivot of column 1.  That cancels the best choice
   of column 2 in another group, so that column 2 is scored again and its good choice in
   row 3 goes when the queue is compacted; column 3 then has the best choice that is
   left, in row 1. *)
StaleRelations ==
  <<Relation(1 :> 1 @@ 2 :> 1 @@ 4 :> 1 @@ 5 :> 1 @@ 6 :> 1, 1, 1, 0),
    Relation(1 :> 1 @@ 2 :> 1 @@ 3 :> 1, 1, 2, 1),
    Relation(1 :> 1 @@ 4 :> 2, 1, 3, 1),
    Relation(1 :> 1 @@ 3 :> 1 @@ 4 :> 1, 2, 4, 1),
    Relation(4 :> 1, 2, 5, 1)>>

StaleSources ==
  {[Source(<<>>, StaleRelations, <<3 :> 1 @@ 4 :> 1, 5 :> 1>>, "Ascending", FALSE) EXCEPT
      !.rowGroup = <<1, 2, 1, 2, 2, 2>>, !.groups = <<1, 2>>]}
=============================================================================
