----------------------------- MODULE MCFastHnsw -----------------------------
(***************************************************************************)
(* Six points of a grid with doubled points and ties, two clusters with a    *)
(* point between them, and points of another dimension.                     *)
(***************************************************************************)
EXTENDS FastHnsw

Config(M, K0, candidates, L, Workers, Seed) ==
    [M |-> M, K0 |-> K0, CandidateK |-> candidates, ConstructionL |-> L, Iterations |-> 1,
     RecallNum |-> 98, RecallDen |-> 100, Controls |-> 4, Workers |-> Workers,
     Dim |-> 0, Seed |-> Seed]

\* Sparse and one layer, with three workers; two layers of which the upper is
\* not complete; two layers of which the upper is.
MCConfigs == {Config(1, 1, 2, 3, 3, 21), Config(2, 2, 2, 3, 2, 1), Config(2, 5, 3, 4, 2, 2)}

\* The distances of a sequence of points.
FromPoints(s) ==
    LET square(k) == k * k
        d(a, b) == FoldLeft(LAMBDA sum, i : sum + square(a[i] - b[i]), 0, [i \in DOMAIN a |-> i])
    IN  [dist |-> [a \in 0 .. Len(s) - 1 |-> [b \in 0 .. Len(s) - 1 |-> d(s[a + 1], s[b + 1])]],
         dims |-> {Len(s[1])}, first |-> Len(s[1])]

MCDataSets ==
    {FromPoints(<< <<0, 0>>, <<1, 0>>, <<0, 0>>, <<2, 0>>, <<1, 1>>, <<3, 1>> >>),
     FromPoints(<< <<0, 0>>, <<1, 2>>, <<2, 1>>, <<20, 1>>, <<22, 2>>, <<21, 5>>, <<9, 4>> >>),
     FromPoints(<< <<3>>, <<1>>, <<2>> >>)}

MCDraw(stream, i) == FoldLeft(LAMBDA acc, s : 3 * acc + 5 * s, 7 * i, stream)

MCLevel(seed, id) == IF id % 3 < seed % 3 THEN 0 ELSE (id * seed) % 3
=============================================================================
