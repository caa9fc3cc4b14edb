---------------------------- MODULE FastHnswGraph ----------------------------
(***************************************************************************)
(* The pure parts of FastHNSW (internal/core): orders on candidates, the    *)
(* id collector, the two pruning rules, SEARCH-LAYER, the relabelling of    *)
(* the nodes by level, and the checks of the persistence format.            *)
(*                                                                         *)
(* Vectors are known by their squared L2 distances: dist[a][b] for the      *)
(* nodes a and b of 0 .. n - 1, and a query is one of the stored vectors.   *)
(* A candidate is the id of a node: its distance to the source is           *)
(* recomputed, or is the one of the table.                                 *)
(***************************************************************************)
EXTENDS Integers, FiniteSets, SequencesExt

CONSTANTS
    MarkLimit,          \* marks are counted modulo MarkLimit (uint32: 2^32)
    CosNum, CosDen,     \* the square of the cosine of Alpha, as a fraction
    Draw(_, _)          \* the n-th number of a stream of pseudo-random numbers

ASSUME GraphAssumption ==
    /\ MarkLimit \in Nat \ {0, 1}
    /\ CosNum \in Nat /\ CosDen \in Nat \ {0}

Count(f) == Cardinality(DOMAIN f)

AtMost(a, b) == IF a < b THEN a ELSE b

\* compareDistanceID: d is the distance of each node to the query; the smaller
\* id comes first where the distances agree.
Better(d, a, b) == d[a] < d[b] \/ (d[a] = d[b] /\ a < b)

Best(d, S) == CHOOSE a \in S : \A b \in S : ~ Better(d, b, a)

Worst(d, S) == CHOOSE a \in S : \A b \in S : ~ Better(d, a, b)

\* What a heap bounded by limit keeps of a set of ids, sorted.
Nearest(d, S, limit) ==
    [i \in 1 .. AtMost(limit, Cardinality(S)) |->
        CHOOSE a \in S : Cardinality({b \in S : Better(d, b, a)}) = i - 1]

\* The members of a set of ids in their order.
InOrder(S) ==
    [i \in 1 .. Cardinality(S) |-> CHOOSE a \in S : Cardinality({b \in S : b < a}) = i - 1]

ExactCandidatesForNode(dist, s, limit) == Nearest(dist[s], DOMAIN dist \ {s}, limit)

----------------------------------------------------------------------------
(* Scratch: a table of marks that is cleared by raising the mark.  What was  *)
(* found is a sequence of ids.                                              *)

NewScratch(n) == [marks |-> [id \in 0 .. n - 1 |-> 0], mark |-> 0, found |-> <<>>]

\* reset: the table is cleared only when the mark wraps.
Reset(sc) ==
    LET next == (sc.mark + 1) % MarkLimit
    IN  IF next # 0 THEN [sc EXCEPT !.mark = next, !.found = <<>>]
        ELSE [marks |-> [id \in DOMAIN sc.marks |-> 0], mark |-> 1, found |-> <<>>]

\* add: a node of the current generation, or the source, is not added.
Add(sc, id, s) ==
    IF id = s \/ sc.marks[id] = sc.mark THEN sc
    ELSE [sc EXCEPT !.marks[id] = sc.mark, !.found = Append(@, id)]

\* The loops over ids are written as the state after each round.
Adding(sc, ids, s) ==
    LET after[i \in 0 .. Len(ids)] ==
            IF i = 0 THEN sc ELSE Add(after[i - 1], ids[i], s)
    IN  after

\* addCandidates
AddAll(sc, ids, s) == Adding(sc, ids, s)[Len(ids)]

AddIfRoom(sc, id, s, limit) == IF Len(sc.found) < limit THEN Add(sc, id, s) ELSE sc

AddingUpTo(sc, ids, s, limit) ==
    LET after[i \in 0 .. Len(ids)] ==
            IF i = 0 THEN sc ELSE AddIfRoom(after[i - 1], ids[i], s, limit)
    IN  after

\* Adds until limit ids are there.
AddUpTo(sc, ids, s, limit) == AddingUpTo(sc, ids, s, limit)[Len(ids)]

\* The lists of some nodes.
AddingLists(sc, ids, lists, s) ==
    LET after[i \in 0 .. Len(ids)] ==
            IF i = 0 THEN sc ELSE AddAll(after[i - 1], lists[ids[i]], s)
    IN  after

AddLists(sc, ids, lists, s) == AddingLists(sc, ids, lists, s)[Len(ids)]

\* initialApproxNeighborIDs: nearby ids for half the budget, then ids from a
\* stream of the seed, then, if those ran out, the ids in order.
InitialIds(sc, n, s, limit, stream) ==
    LET near == [i \in 1 .. 2 * (n - 1) |->
                    LET offset == (i + 1) \div 2
                    IN  IF i % 2 = 1 THEN (s + offset) % n ELSE (s - offset + n) % n]
        random == [a \in 1 .. 4 * n |-> Draw(Append(stream, s), a) % n]
        start == Draw(Append(stream, s), 0)
        rest == [o \in 1 .. n |-> (start + o - 1) % n]
    IN  AddUpTo(AddUpTo(Reset(sc), near, s, limit \div 2), random \o rest, s, limit)

\* reverseCandidateIDs, for one node.
HeldBy(lists, s, n) == InOrder({u \in 0 .. n - 1 : s \in ToSet(lists[u])})

\* One exchange of the NN-Descent rounds: the candidates, who holds the node as
\* a candidate, and the candidates of both.
Exchange(sc, lists, s, n) ==
    LET reverse == HeldBy(lists, s, n)
        near == AddAll(AddAll(Reset(sc), lists[s], s), reverse, s)
    IN  AddLists(AddLists(near, lists[s], lists, s), reverse, lists, s)

----------------------------------------------------------------------------
(* Pruning.                                                                *)

\* angleUWVGreaterThanAlpha: the angle at w is wider than Alpha.  Alpha is at
\* least 60 degrees, and here at most 90 (the default is 67), so its cosine is
\* not negative.  Twice the dot product follows from the three distances; no
\* triangle of the instances meets Alpha exactly.
WideAngle(dist, u, w, x) ==
    LET dot2  == dist[u][w] + dist[x][w] - dist[u][x]
        norms == dist[u][w] * dist[x][w]
    IN  norms # 0 /\ (dot2 < 0 \/ dot2 * dot2 * CosDen < 4 * norms * CosNum)

\* An accepted neighbour that is nearer to the source, and to the candidate,
\* than the candidate is to the source.
Dominates(mode, dist, s, accepted, next) ==
    /\ dist[s][accepted] < dist[s][next]
    /\ dist[next][accepted] < dist[s][next]
    /\ mode = "alpha" => WideAngle(dist, s, accepted, next)

\* normalizePruneCandidates: the source and doubled ids are dropped.
Normalized(dist, s, candidates) ==
    Nearest(dist[s], ToSet(candidates) \ {s}, Len(candidates))

\* One candidate, with the bound tested one too late.
KeepOneMore(mode, dist, s, kept, next, maxDegree) ==
    IF \/ Len(kept) > maxDegree
       \/ \E i \in DOMAIN kept : Dominates(mode, dist, s, kept[i], next)
    THEN kept ELSE Append(kept, next)

\* One candidate: it is kept unless the list is full or it is dominated.
Keep(mode, dist, s, kept, next, maxDegree) ==
    IF \/ Len(kept) >= maxDegree
       \/ \E i \in DOMAIN kept : Dominates(mode, dist, s, kept[i], next)
    THEN kept ELSE Append(kept, next)

Pruning(mode, dist, s, sorted, maxDegree) ==
    LET after[i \in 0 .. Len(sorted)] ==
            IF i = 0 THEN <<>> ELSE Keep(mode, dist, s, after[i - 1], sorted[i], maxDegree)
    IN  after

\* pruneCandidates: from nearest to farthest.
Prune(mode, dist, s, candidates, maxDegree) ==
    LET sorted == Normalized(dist, s, candidates)
    IN  Pruning(mode, dist, s, sorted, maxDegree)[Len(sorted)]

\* The serial loop between the two prunings: kept edges, and back, as the
\* sources come.
MergeReverse(forward, n) ==
    LET back(u, sources) == InOrder({s \in sources : u \in ToSet(forward[s])})
    IN  [u \in 0 .. n - 1 |-> back(u, 0 .. u - 1) \o forward[u] \o back(u, u .. n - 1)]

----------------------------------------------------------------------------
(* SEARCH-LAYER.  A search is [sc, cand, res]: scratch, and the two heaps as  *)
(* sets of ids; d is the distance of each node to the query.                *)

\* A node that was not visited before goes to both heaps, if there is room or
\* it is better than the worst result.
Visit(d, ef, st, id) ==
    IF id \notin DOMAIN d \/ st.sc.marks[id] = st.sc.mark THEN st
    ELSE IF Cardinality(st.res) < ef
    THEN [sc |-> [st.sc EXCEPT !.marks[id] = st.sc.mark],
          cand |-> st.cand \cup {id}, res |-> st.res \cup {id}]
    ELSE IF Better(d, id, Worst(d, st.res))
    THEN [sc |-> [st.sc EXCEPT !.marks[id] = st.sc.mark],
          cand |-> st.cand \cup {id}, res |-> (st.res \ {Worst(d, st.res)}) \cup {id}]
    ELSE [st EXCEPT !.sc.marks[id] = st.sc.mark]

Visiting(d, ef, st, ids) ==
    LET after[i \in 0 .. Len(ids)] ==
            IF i = 0 THEN st ELSE Visit(d, ef, after[i - 1], ids[i])
    IN  after

VisitAll(d, ef, st, ids) == Visiting(d, ef, st, ids)[Len(ids)]

\* A search that takes a tie with the worst result for the end.
OverAtTie(d, st) == d[Best(d, st.cand)] >= d[Worst(d, st.res)]

\* The search is over once the nearest candidate is farther than the worst
\* result.
Over(d, st) == d[Best(d, st.cand)] > d[Worst(d, st.res)]

\* One round of the loop.
Hop(adjacency, d, ef, st) ==
    IF st.cand = {} THEN st
    ELSE IF Over(d, st) THEN [st EXCEPT !.cand = {}]
    ELSE VisitAll(d, ef, [st EXCEPT !.cand = @ \ {Best(d, st.cand)}],
                  adjacency[Best(d, st.cand)])

\* The search after each round.  No node is a candidate twice, which bounds
\* the rounds.
Searching(adjacency, d, ef, begin) ==
    LET after[h \in 0 .. Count(d)] ==
            IF h = 0 THEN begin
            ELSE LET before == after[h - 1] IN Hop(adjacency, d, ef, before)
    IN  after

\* graphSearchLayerFromEntries: the scratch after the search, the results in
\* order.
SearchLayer(adjacency, d, entries, ef, scratch) ==
    LET begin == VisitAll(d, ef, [sc |-> Reset(scratch), cand |-> {}, res |-> {}], entries)
        end == Searching(adjacency, d, ef, begin)[Count(d)]
    IN  [end.sc EXCEPT !.found = Nearest(d, end.res, ef)]

\* candidatesFromResults, one result: the source is left out.
TakeResult(s, out, id, limit) ==
    IF id = s \/ Len(out) >= limit THEN out ELSE Append(out, id)

TakingResults(s, results, limit) ==
    LET after[i \in 0 .. Len(results)] ==
            IF i = 0 THEN <<>> ELSE TakeResult(s, after[i - 1], results[i], limit)
    IN  after

FromResults(s, results, limit) == TakingResults(s, results, limit)[Len(results)]

----------------------------------------------------------------------------
(* Layers.                                                                 *)

\* layerMaxDegree, baseLayerMaxDegree
LayerMaxDegree(M, layer) == IF layer = 0 THEN 2 * M ELSE M

\* maxAssignedLayer
MaxAssignedLayer(levels) ==
    CHOOSE l \in Range(levels) : \A k \in Range(levels) : k <= l

\* buildConstructionLayout: the nodes of a layer, by level from the top and by
\* id within a level.  The labels of a layer are a prefix of those below.
Layout(levels, layer) ==
    LET ids == {id \in DOMAIN levels : levels[id] >= layer}
        before(a, b) == levels[a] > levels[b] \/ (levels[a] = levels[b] /\ a < b)
    IN  [i \in 0 .. Cardinality(ids) - 1 |->
            CHOOSE id \in ids : Cardinality({b \in ids : before(b, id)}) = i]

\* selectEntryPointFromLayout: a node of the top level, drawn with the seed.
EntryPoint(levels, seed) ==
    LET top == MaxAssignedLayer(levels)
        labels == Layout(levels, top)
    IN  labels[Draw(<<seed, top, Count(labels)>>, 0) % Count(labels)]

\* buildCompleteLayer
CompleteLayer(labels, dist) ==
    LET nodes == Range(labels)
    IN  [id \in DOMAIN dist |->
            IF id \in nodes THEN Nearest(dist[id], nodes \ {id}, Count(labels)) ELSE <<>>]

\* mapLayerAdjacencyToGlobal
ToGlobal(adjacency, labels, dist) ==
    LET local(id) == CHOOSE i \in DOMAIN labels : labels[i] = id
    IN  [id \in DOMAIN dist |->
            IF id \notin Range(labels) THEN <<>>
            ELSE [j \in DOMAIN adjacency[local(id)] |-> labels[adjacency[local(id)][j]]]]

----------------------------------------------------------------------------
(* Incremental HNSW (standard_hnsw.go), the baseline of the benchmarks.     *)

\* One candidate: it is kept unless the list is full or one that is kept is
\* nearer to it than the source.
KeepStandard(dist, s, kept, next, maxDegree) ==
    IF \/ Len(kept) >= maxDegree
       \/ \E i \in DOMAIN kept : dist[next][kept[i]] < dist[s][next]
    THEN kept ELSE Append(kept, next)

Selecting(dist, s, sorted, maxDegree) ==
    LET after[i \in 0 .. Len(sorted)] ==
            IF i = 0 THEN <<>> ELSE KeepStandard(dist, s, after[i - 1], sorted[i], maxDegree)
    IN  after

\* selectStandardHNSWNeighbors, without extending and without keeping pruned.
SelectStandard(dist, s, candidates, maxDegree) ==
    LET sorted == Normalized(dist, s, candidates)
    IN  Selecting(dist, s, sorted, maxDegree)[Len(sorted)]

\* connectStandardHNSWNeighbors: the other side is appended to, and shrunk when
\* it is over its bound.
Linked(dist, list, u, s, maxDegree) ==
    LET longer == IF s \in ToSet(list) THEN list ELSE Append(list, s)
    IN  IF Len(longer) > maxDegree THEN SelectStandard(dist, u, longer, maxDegree) ELSE longer

ConnectStandard(dist, adjacency, s, selected, maxDegree) ==
    [u \in DOMAIN adjacency |->
        IF u = s THEN selected
        ELSE IF u \in ToSet(selected) THEN Linked(dist, adjacency[u], u, s, maxDegree)
        ELSE adjacency[u]]

----------------------------------------------------------------------------
(* The checks around a file.  ix is an index: cfg, dist, levels, layers,   *)
(* entryPoint, maxLayer, graphReady.                                       *)

\* validateLayerAdjacency
ValidAdjacency(ix) ==
    /\ DOMAIN ix.layers = 0 .. ix.maxLayer
    /\ \A layer \in DOMAIN ix.layers :
          LET adjacency == ix.layers[layer]
          IN  /\ DOMAIN adjacency = DOMAIN ix.dist
              /\ \A s \in DOMAIN adjacency :
                    IF ix.levels[s] < layer THEN adjacency[s] = <<>>
                    ELSE /\ Len(adjacency[s]) <= LayerMaxDegree(ix.cfg.M, layer)
                         /\ IsInjective(adjacency[s])
                         /\ \A u \in ToSet(adjacency[s]) :
                               u \in DOMAIN ix.dist /\ u # s /\ ix.levels[u] >= layer
    /\ ix.levels[ix.entryPoint] >= ix.maxLayer

\* validatePersistableIndex: what save asks of an index, its limits on sizes
\* aside.
SaveAccepts(ix) ==
    /\ ix.graphReady
    /\ ix.dist # << >>
    /\ DOMAIN ix.levels = DOMAIN ix.dist
    /\ ix.entryPoint \in DOMAIN ix.dist
    /\ ix.maxLayer >= 0
    /\ ValidAdjacency(ix)

\* readConfig: nothing is left at 0, and normalizeConfig lets it through.
ReadConfig(c) ==
    /\ \A value \in {c.M, c.K0, c.CandidateK, c.ConstructionL, c.Iterations, c.Workers,
                     c.Controls, c.RecallNum} : value > 0
    /\ c.Seed # 0
    /\ c.ConstructionL >= c.CandidateK
    /\ c.RecallNum <= c.RecallDen

\* validateLoadedIndex: what load asks, which is more.
LoadAccepts(ix) ==
    /\ ix.cfg.Dim > 0 /\ ReadConfig(ix.cfg)
    /\ ix.entryPoint \in DOMAIN ix.dist
    /\ ix.levels[ix.entryPoint] = ix.maxLayer
    /\ MaxAssignedLayer(ix.levels) = ix.maxLayer
    /\ ValidAdjacency(ix)

\* Index.search down to layer 0: every layer above gives one result, which is
\* where the next is entered.  The scratch is the query's own.
Descending(ix, q) ==
    LET after[i \in 0 .. ix.maxLayer] ==
            IF i = 0 THEN [NewScratch(Count(ix.dist)) EXCEPT !.found = <<ix.entryPoint>>]
            ELSE LET above == after[i - 1]
                 IN  SearchLayer(ix.layers[ix.maxLayer + 1 - i], ix.dist[q],
                                 <<above.found[1]>>, 1, above)
    IN  after

Descend(ix, q) == Descending(ix, q)[ix.maxLayer]

\* Index.search: the k best of a search of layer 0.
Search(ix, q, k, ef) ==
    LET at == Descend(ix, q)
        results == SearchLayer(ix.layers[0], ix.dist[q], <<at.found[1]>>, ef, at).found
    IN  SubSeq(results, 1, AtMost(k, Len(results)))

\* The nodes that layer 0 reaches from one of them, in at most h steps and at
\* all.
Within(ix, entry) ==
    LET after[h \in 0 .. Count(ix.dist)] ==
            IF h = 0 THEN {entry}
            ELSE LET S == after[h - 1]
                 IN  S \cup UNION {ToSet(ix.layers[0][u]) : u \in S}
    IN  after

Reached(ix, entry) == Within(ix, entry)[Count(ix.dist)]
=============================================================================
