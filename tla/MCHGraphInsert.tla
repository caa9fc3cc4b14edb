--------------------------- MODULE MCHGraphInsert ---------------------------
(* HGraphInsert with three insertions on four levels: a point of the bottom  *)
(* graph, one of the first route level, which descends through two levels,   *)
(* and one of the highest level, which the second may find on its way down.  *)
EXTENDS HGraphInsert

MCTopOf == [p \in Ids \ {0} |-> IF p = 3 THEN 3 ELSE p - 1]
=============================================================================
