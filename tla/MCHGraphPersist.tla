--------------------------- MODULE MCHGraphPersist ---------------------------
(* HGraphPersist on small instances.                                         *)
EXTENDS HGraphPersist, TLC

CONSTANTS v1, v2

\* Nothing tells the vectors apart.
VectorSymmetry == Permutations(Vectors)

\* What holds until the entry point is lost (see the run hg_entry).
EntryNeverLost == EntryIsAPoint
=============================================================================
