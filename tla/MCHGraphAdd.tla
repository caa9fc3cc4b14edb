---------------------------- MODULE MCHGraphAdd ----------------------------
(* HGraphAdd with two threads, two labels (so that both may add one label)   *)
(* and three ids, enough for a point to be linked beside another while a     *)
(* third becomes the entry of a new level.  Neither threads nor labels are   *)
(* ordered, so both are symmetric.                                           *)
EXTENDS HGraphAdd, TLC

CONSTANTS t1, t2, l1, l2, v1

MCThreads == {t1, t2}
MCLabels == {l1, l2}
MCSymmetry == Permutations(MCThreads) \cup Permutations(MCLabels)
=============================================================================
