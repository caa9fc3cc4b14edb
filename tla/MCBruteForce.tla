---------------------------- MODULE MCBruteForce ----------------------------
(* BruteForce with two adding threads, two labels (one is the blank label 0) *)
(* and three ids, enough to remove and add a label again.                    *)
EXTENDS BruteForce, TLC

CONSTANTS t1, t2, v1, v2

MCThreads == {t1, t2}
MCVectors == {v1, v2}

\* Nothing tells the threads, or the vectors, apart.
MCSymmetry == Permutations(MCThreads) \cup Permutations(MCVectors)
=============================================================================
