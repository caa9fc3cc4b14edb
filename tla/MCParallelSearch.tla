-------------------------- MODULE MCParallelSearch --------------------------
(* ParallelSearch on a graph of six points in which one hop gathers four     *)
(* points, another two, and the others one or none, so that every split of a *)
(* hop among two workers and the searching thread happens, empty ones too.   *)
EXTENDS ParallelSearch

CONSTANTS s1, s2

MCPoints == 0 .. 5

\* Lists of the points 0 .. 5.
MCLists ==
    [p \in MCPoints |->
        CASE p = 0 -> <<1, 2, 3, 4>>
          [] p = 1 -> <<0, 2, 5>>
          [] p = 2 -> <<1>>
          [] p = 3 -> <<0>>
          [] p = 4 -> <<0, 5>>
          [] p = 5 -> <<1, 4>>]

\* Distances by point: the start is the nearest, in the middle, the farthest,
\* or the second nearest is hidden behind far points.
Hidden == <<1, 5, 3, 4, 6, 2>>
Near == <<1, 2, 3, 4, 5, 6>>
Far == <<6, 3, 2, 5, 4, 1>>
Middle == <<3, 1, 5, 2, 6, 4>>

Q(mode, ef, order, allowed) ==
    [mode |-> mode, ef |-> ef, dist |-> [p \in MCPoints |-> order[p + 1]],
     allowed |-> allowed]

\* One search takes several hops; the other ends after its first.
MCQueries ==
    [s \in Searches |->
        IF s = s1
        THEN {Q("KNN_SEARCH", 2, Middle, MCPoints), Q("KNN_SEARCH", 6, Hidden, MCPoints),
              Q("KNN_SEARCH", 2, Far, {0, 2, 5}), Q("RANGE_SEARCH", 1, Middle, MCPoints)}
        ELSE {Q("KNN_SEARCH", 1, Near, MCPoints)}]
=============================================================================
