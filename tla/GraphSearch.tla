----------------------------- MODULE GraphSearch -----------------------------
(***************************************************************************)
(* The search of one level of a graph (impl/searcher): the best candidate   *)
(* is taken off a heap, its unvisited neighbours are gathered, their        *)
(* distances computed, and each is considered for the candidates and for    *)
(* the result.  BasicSearcher does this on the calling thread and           *)
(* ParallelSearcher (module ParallelSearch) shares the distances out, with   *)
(* the same code around them, so the steps are operators both use.          *)
(*                                                                         *)
(* A query is a record                                                     *)
(*   mode     "KNN_SEARCH" or "RANGE_SEARCH"                               *)
(*   ef       how many results the search keeps while it runs              *)
(*   dist     the distance of each point to the query, no two the same     *)
(*   allowed  the points the filters let through                           *)
(* and the state of a search is a record                                   *)
(*   visited  the visited list                                             *)
(*   cand     candidate_set, as pairs <<distance, point>>                   *)
(*   top      top_candidates, as such pairs                                *)
(*   bound    lower_bound                                                  *)
(*                                                                         *)
(* Left out: duplicates (a graph without support_duplicate_ has none), the  *)
(* lower bounds of RaBitQ, limits on hops, time and range results (none     *)
(* set), and the random waiver of the filter check (skip_ratio 0).          *)
(***************************************************************************)
EXTENDS Integers, FiniteSets, Sequences, Functions

CONSTANTS
    Points,     \* the ids of the graph
    Neighbors,  \* the list of each point
    Ep,         \* where the search starts
    TopK,       \* topk: how many it returns
    Radius      \* radius of a range search

ASSUME SearchAssumption ==
    /\ Points \subseteq Nat /\ IsFiniteSet(Points) /\ Ep \in Points
    /\ Neighbors \in [Points -> Seq(Points)]
    /\ TopK \in Nat \ {0} /\ Radius \in Nat

\* numeric_limits<float>::max(): distances are 1 .. Cardinality(Points).
FloatMax == Cardinality(Points) + 1

Queries == [mode : {"KNN_SEARCH", "RANGE_SEARCH"},
            ef : Nat \ {0},
            dist : [Points -> 1 .. Cardinality(Points)],
            allowed : SUBSET Points]

Nearest(heap) == CHOOSE e \in heap : \A f \in heap : e[1] <= f[1]

Farthest(heap) == CHOOSE e \in heap : \A f \in heap : e[1] >= f[1]

\* Before the first hop.  In a range search the entry is taken back when it is
\* outside the radius, but the bound it set stays.
Started(q) ==
    LET ep  == <<q.dist[Ep], Ep>>
        top == IF Ep \in q.allowed THEN {ep} ELSE {}
    IN  [visited |-> {Ep}, cand |-> {ep},
         top |-> IF q.mode = "RANGE_SEARCH" /\ q.dist[Ep] > Radius THEN {} ELSE top,
         bound |-> IF top = {} THEN FloatMax ELSE q.dist[Ep]]

\* The loop ends when no candidate is left, or the best is too far.
Finished(q, st) ==
    st.cand # {} =>
       /\ q.mode = "KNN_SEARCH"
       /\ Nearest(st.cand)[1] > st.bound
       /\ Cardinality(st.top) = q.ef

\* visit, one neighbour: an unvisited one is gathered if the filter lets it
\* through.  The first is gathered whatever the filter says, so that a search
\* can cross a region of filtered points; one that is not counts as visited.
Gather(q, acc, n) ==
    IF n \in acc.visited THEN acc
    ELSE [batch |-> IF acc.batch = <<>> \/ n \in q.allowed
                    THEN Append(acc.batch, n) ELSE acc.batch,
          visited |-> acc.visited \cup {n}]

\* The loop over a list: what was gathered after each neighbour.
Gathering(q, visited, list) ==
    LET after[i \in 0 .. Len(list)] ==
            IF i = 0 THEN [batch |-> <<>>, visited |-> visited]
            ELSE LET before == after[i - 1] IN Gather(q, before, list[i])
    IN  after

\* visit: the neighbours of a point, in the order of its list.
Visit(q, st, point) ==
    Gathering(q, st.visited, Neighbors[point])[Len(Neighbors[point])]

\* A look that trusts a bound although the result has room.
ConsiderByBound(q, st, d, id) ==
    LET top == IF id \in q.allowed THEN st.top \cup {<<d, id>>} ELSE st.top
        kept == IF q.mode = "KNN_SEARCH" /\ Cardinality(top) > q.ef
                THEN top \ {Farthest(top)} ELSE top
    IN  IF st.bound > d \/ (q.mode = "RANGE_SEARCH" /\ d <= Radius)
        THEN [st EXCEPT !.cand = @ \cup {<<d, id>>}, !.top = kept,
                        !.bound = IF kept = {} THEN @ ELSE Farthest(kept)[1]]
        ELSE st

\* One round of the loop over the gathered points.
Consider(q, st, d, id) ==
    LET top == IF id \in q.allowed THEN st.top \cup {<<d, id>>} ELSE st.top
        kept == IF q.mode = "KNN_SEARCH" /\ Cardinality(top) > q.ef
                THEN top \ {Farthest(top)} ELSE top
    IN  IF \/ Cardinality(st.top) < q.ef
           \/ st.bound > d
           \/ q.mode = "RANGE_SEARCH" /\ d <= Radius
        THEN [st EXCEPT !.cand = @ \cup {<<d, id>>}, !.top = kept,
                        !.bound = IF kept = {} THEN @ ELSE Farthest(kept)[1]]
        ELSE st

\* The loop, after each round: line_dists[i] is taken for the distance of
\* batch[i].
Merging(q, st, batch, line_dists) ==
    LET after[i \in 0 .. Len(batch)] ==
            IF i = 0 THEN st
            ELSE LET before == after[i - 1] IN Consider(q, before, line_dists[i], batch[i])
    IN  after

Merge(q, st, batch, line_dists) == Merging(q, st, batch, line_dists)[Len(batch)]

\* What is returned: the topk nearest, or what is inside the radius.
Result(q, st) ==
    IF q.mode = "KNN_SEARCH"
    THEN {e \in st.top : Cardinality({f \in st.top : f[1] < e[1]}) < TopK}
    ELSE {e \in st.top : e[1] <= Radius}

\* One hop on the calling thread (BasicSearcher).
Hop(q, st) ==
    LET best  == Nearest(st.cand)
        found == Visit(q, st, best[2])
    IN  Merge(q, [st EXCEPT !.cand = @ \ {best}, !.visited = found.visited],
              found.batch, [i \in DOMAIN found.batch |-> q.dist[found.batch[i]]])

\* The state after each hop of BasicSearcher::search_impl.  Every hop takes a
\* candidate and no point is a candidate twice, so there are at most as many
\* hops as points.
Hops(q) ==
    LET after[n \in 0 .. Cardinality(Points)] ==
            IF n = 0 THEN Started(q)
            ELSE LET before == after[n - 1]
                 IN  IF Finished(q, before) THEN before ELSE Hop(q, before)
    IN  after

BasicSearch(q) == Result(q, Hops(q)[Cardinality(Points)])

----------------------------------------------------------------------------
(* What a search is for.                                                    *)

\* The points that can be reached from the start: those in every set that has
\* the start and, with a point, its neighbours.
InReach ==
    {p \in Points : \A S \in SUBSET Points :
        Ep \in S /\ (\A x \in S : Range(Neighbors[x]) \subseteq S) => p \in S}

\* The exact answer over those points.
ExactAnswer(q) ==
    LET all == {<<q.dist[p], p>> : p \in InReach}
    IN  IF q.mode = "KNN_SEARCH"
        THEN {e \in all : Cardinality({f \in all : f[1] < e[1]}) < TopK}
        ELSE {e \in all : e[1] <= Radius}
=============================================================================
