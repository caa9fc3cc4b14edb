------------------------------ MODULE FastHnsw ------------------------------
(***************************************************************************)
(* A FastHNSW index (internal/core/index.go, construction.go, candidate.go, *)
(* optkcna.go, graph_build.go, persistence.go).  Build replaces the         *)
(* vectors, takes the graph down, and builds the layers from the top one     *)
(* down.  A layer that is too large to be complete goes through a series of  *)
(* fork-joins (parallelForNodes): each stage reads the lists of the stage    *)
(* before it, and its workers write one list per node with scratch of their  *)
(* own.  The caller's own work lies between two fork-joins.                 *)
(*                                                                         *)
(* The stages, in order:                                                   *)
(*   exact, or init and exchange    the approximate nearest neighbours     *)
(*   acquire, estimate              candidates by graph search, and how    *)
(*                                  good they are                          *)
(*   alpha forward, alpha back, refresh, estimate     while they are not   *)
(*   rng forward, rng back          the layer                              *)
(*                                                                         *)
(* The API is not synchronized, and is used here by one caller at a time.   *)
(* The only errors a stage can report are ids out of range and a search     *)
(* narrower than CandidateK; CandidatesAreSound and the checked             *)
(* configuration rule both out, so the error returns of Build after         *)
(* FlattenVectors are not modelled.                                        *)
(***************************************************************************)
EXTENDS FastHnswGraph, Workers

CONSTANTS
    Configs,        \* configurations that normalizeConfig lets through
    DataSets,       \* what Build may be given: dist, the dimensions of the vectors
                    \* (dims) and that of the first
    Level(_, _)     \* the level the seed gives to an id

Positive == Nat \ {0}

\* What normalizeConfig returns: no field is left at 0 but the dimension, which
\* may wait for the first vectors.  A seed is any positive number.
ConfigType ==
    {c \in [M : Positive, K0 : Positive, CandidateK : Positive, ConstructionL : Positive,
            Iterations : Positive, Workers : Positive, Controls : Positive,
            RecallNum : Positive, RecallDen : Positive, Dim : Nat, Seed : Positive] :
       c.ConstructionL >= c.CandidateK /\ c.RecallNum <= c.RecallDen}

ASSUME ConfigAssumption == Configs \subseteq ConfigType

\* A table of distances, numbers for any two of n vectors.
Tables(size) == [0 .. size - 1 -> [0 .. size - 1 -> Nat]]

ASSUME DataAssumption ==
    \A v \in DataSets :
       /\ IsFiniteSet(DOMAIN v.dist) /\ v.dist \in Tables(Count(v.dist))
       /\ v.first \in Nat
       /\ \A c \in Configs, id \in DOMAIN v.dist : Level(c.Seed, id) \in Nat

VARIABLES
    idx,        \* the index; builder tells which builder published its graph
    file,       \* what the last Save wrote
    stage,      \* the fork-join under way, "layer" between layers, or "idle"
    layer,      \* the layer under construction
    layers,     \* the layers that are complete
    local,      \* layerVectors: the distances of the layer by local id
    round,      \* rounds of the loop that is under way, or the node inserted
    input,      \* the lists the stage reads
    output,     \* the lists it writes
    left,       \* the nodes each worker has still to do
    busy,       \* whether the worker's scratch holds what it is about to write
    scratch

work == <<layer, layers, local, round, input, output, left, busy, scratch>>
vars == <<idx, file, stage, work>>

\* New
NewIndex(c) ==
    [cfg |-> c, dist |-> << >>, levels |-> << >>, layers |-> << >>,
     entryPoint |-> -1, maxLayer |-> -1, graphReady |-> FALSE, builder |-> "none"]

\* resetSearchableGraph
NoGraph(ix) ==
    [ix EXCEPT !.layers = << >>, !.levels = << >>, !.entryPoint = -1, !.maxLayer = -1,
               !.graphReady = FALSE, !.builder = "none"]

NoFile == [kind |-> "none"]

cfg == idx.cfg

Least(S) == CHOOSE m \in S : \A k \in S : m <= k

\* assignLevels
Levels(c, dist) ==
    [id \in DOMAIN dist |-> IF c.M <= 1 THEN 0 ELSE Level(c.Seed, id)]

----------------------------------------------------------------------------
(* parallelForNodes                                                        *)

\* What the functions of a stage are given.
job == [cfg |-> cfg, stage |-> stage, layer |-> layer, local |-> local, input |-> input]

n == Count(local)

InitialK(c, size) == AtMost(c.K0, size - 1)
CandidateK(c, size) == AtMost(c.CandidateK, size - 1)
SearchEf(c, size) == AtMost(c.ConstructionL, size - 1)

\* approxKNNGIterations
KnngRounds(c) == IF 2 * c.Iterations < 4 THEN 4 ELSE 2 * c.Iterations

\* selectCandidateControls: all nodes, or as many as asked in a random order.
Controls(j) ==
    LET nodes == DOMAIN j.local
        key(id) == Draw(<<j.cfg.Seed, j.layer, CandidateK(j.cfg, Count(j.local))>>, id)
        before(a, b) == key(a) < key(b) \/ (key(a) = key(b) /\ a < b)
    IN  {id \in nodes : Cardinality({b \in nodes : before(b, id)}) < j.cfg.Controls}

\* They are numbered in the order of their ids.
Control(j, i) == CHOOSE id \in Controls(j) : Cardinality({b \in Controls(j) : b < id}) = i

\* Goroutines that all use one scratch.
SharedScratch(w) == 0

\* One scratch for each worker.
ScratchOf(w) == w

\* The caller hands the nodes out.
Fork(name, v, lists, sc) ==
    LET count == IF name = "estimate" THEN AtMost(cfg.Controls, Count(v)) ELSE Count(v)
        workers == EffectiveWorkerCount(cfg.Workers, count)
    IN  /\ stage' = name
        /\ input' = lists
        /\ output' = [i \in 0 .. count - 1 |-> <<>>]
        /\ left' = [w \in 0 .. workers - 1 |-> NodesOf(w, count, workers)]
        /\ busy' = [w \in 0 .. workers - 1 |-> FALSE]
        /\ scratch' = sc

\* Scratch made for one call, for the workers that share it.
Fresh(v) == [w \in 0 .. EffectiveWorkerCount(cfg.Workers, Count(v)) - 1 |-> NewScratch(Count(v))]

\* What the function of the stage leaves in its scratch for node s.
Computed(j, s, sc) ==
    LET size == Count(j.local)
        degree == LayerMaxDegree(j.cfg.M, j.layer)
    IN  CASE j.stage = "exact" ->
               [sc EXCEPT !.found = ExactCandidatesForNode(j.local, s, InitialK(j.cfg, size))]
          [] j.stage = "init" ->
               InitialIds(sc, size, s, InitialK(j.cfg, size), <<j.cfg.Seed, j.layer, size>>)
          [] j.stage = "exchange" -> Exchange(sc, j.input, s, size)
          [] j.stage \in {"acquire", "refresh"} ->
               SearchLayer(j.input, j.local[s], <<s>>, SearchEf(j.cfg, size), sc)
          [] j.stage = "estimate" ->
               [sc EXCEPT !.found = ExactCandidatesForNode(j.local, Control(j, s),
                                                           CandidateK(j.cfg, size))]
          [] j.stage \in {"alpha forward", "alpha back"} ->
               [sc EXCEPT !.found = Prune("alpha", j.local, s, j.input[s], degree)]
          [] j.stage \in {"rng forward", "rng back"} ->
               [sc EXCEPT !.found = Prune("rng", j.local, s, j.input[s], degree)]

\* What it writes for the node.  An estimate is <<hits, total>>.
Written(j, s, found) ==
    CASE j.stage \in {"init", "exchange"} ->
            Nearest(j.local[s], ToSet(found), InitialK(j.cfg, Count(j.local)))
      [] j.stage \in {"acquire", "refresh"} ->
            FromResults(s, found, CandidateK(j.cfg, Count(j.local)))
      [] j.stage = "estimate" ->
            <<Cardinality(ToSet(j.input[Control(j, s)]) \cap ToSet(found)), Len(found)>>
      [] OTHER -> found

Scan(w) ==
    /\ w \in DOMAIN left /\ left[w] # {} /\ ~ busy[w]
    /\ scratch' = [scratch EXCEPT ![ScratchOf(w)] = Computed(job, Least(left[w]), @)]
    /\ busy' = [busy EXCEPT ![w] = TRUE]
    /\ UNCHANGED <<idx, file, stage, layer, layers, local, round, input, output, left>>

\* An exchange that writes where the other workers read.
WriteInPlace(w) ==
    /\ w \in DOMAIN left /\ left[w] # {} /\ busy[w]
    /\ LET s == Least(left[w])
           list == Written(job, s, scratch[ScratchOf(w)].found)
       IN  /\ output' = [output EXCEPT ![s] = list]
           /\ input' = IF stage = "exchange" THEN [input EXCEPT ![s] = list] ELSE input
           /\ left' = [left EXCEPT ![w] = @ \ {s}]
    /\ busy' = [busy EXCEPT ![w] = FALSE]
    /\ UNCHANGED <<idx, file, stage, layer, layers, local, round, scratch>>

Write(w) ==
    /\ w \in DOMAIN left /\ left[w] # {} /\ busy[w]
    /\ LET s == Least(left[w])
       IN  /\ output' = [output EXCEPT ![s] = Written(job, s, scratch[ScratchOf(w)].found)]
           /\ left' = [left EXCEPT ![w] = @ \ {s}]
    /\ busy' = [busy EXCEPT ![w] = FALSE]
    /\ UNCHANGED <<idx, file, stage, layer, layers, local, round, input, scratch>>

\* wg.Wait
Joined(name) == stage = name /\ \A w \in DOMAIN left : left[w] = {}

----------------------------------------------------------------------------
(* The caller.                                                             *)

\* What a call leaves when it returns.
Return ==
    /\ stage' = "idle" /\ layer' = -1 /\ round' = 0
    /\ layers' = << >> /\ local' = << >> /\ input' = << >> /\ output' = << >>
    /\ left' = << >> /\ busy' = << >> /\ scratch' = << >>

\* The dimension that is configured, or that of the first vector.
Dimension(c, vectors) == IF c.Dim = 0 THEN vectors.first ELSE c.Dim

\* FlattenVectors: one positive dimension for all.
Accepted(c, vectors) ==
    /\ vectors.dist # << >>
    /\ Dimension(c, vectors) > 0
    /\ vectors.dims = {Dimension(c, vectors)}

\* The vectors are replaced and the graph is taken down.
Taking(ix, vectors) ==
    [NoGraph(ix) EXCEPT !.dist = vectors.dist, !.cfg.Dim = Dimension(ix.cfg, vectors)]

Build(vectors) ==
    /\ stage = "idle" /\ Accepted(cfg, vectors)
    /\ idx' = Taking(idx, vectors)
    /\ stage' = "layer"
    /\ layer' = MaxAssignedLayer(Levels(cfg, vectors.dist))
    /\ UNCHANGED <<file, layers, local, round, input, output, left, busy, scratch>>

\* The distances within a layer.
LayerVectors(labels, dist) ==
    [i \in DOMAIN labels |-> [j \in DOMAIN labels |-> dist[labels[i]][labels[j]]]]

WithLayer(ls, l, adjacency) ==
    [k \in DOMAIN ls \cup {l} |-> IF k = l THEN adjacency ELSE ls[k]]

\* buildHNSWLayer
StartLayer ==
    /\ stage = "layer" /\ layer >= 0
    /\ LET labels == Layout(Levels(cfg, idx.dist), layer)
           v == LayerVectors(labels, idx.dist)
       IN  \/ /\ Count(v) - 1 <= LayerMaxDegree(cfg.M, layer)
              /\ layers' = WithLayer(layers, layer, CompleteLayer(labels, idx.dist))
              /\ layer' = layer - 1
              /\ UNCHANGED <<stage, local, round, input, output, left, busy, scratch>>
           \/ /\ Count(v) - 1 > LayerMaxDegree(cfg.M, layer)
              /\ local' = v
              /\ round' = 0
              /\ Fork(IF cfg.K0 >= Count(v) - 1 THEN "exact" ELSE "init", v, << >>, Fresh(v))
              /\ UNCHANGED <<layer, layers>>
    /\ UNCHANGED <<idx, file>>

\* approximateKNNGCandidates: another exchange, with the collectors as they
\* are, or the first search.
JoinKnng ==
    /\ \/ /\ Joined("init") \/ (Joined("exchange") /\ round < KnngRounds(cfg))
          /\ Fork("exchange", local, output, scratch)
          /\ round' = round + 1
       \/ /\ Joined("exact") \/ (Joined("exchange") /\ round = KnngRounds(cfg))
          /\ Fork("acquire", local, output, Fresh(local))
          /\ round' = 0
    /\ UNCHANGED <<idx, file, layer, layers, local>>

JoinAcquire ==
    /\ Joined("acquire")
    /\ Fork("estimate", local, output, Fresh(local))
    /\ UNCHANGED <<idx, file, layer, layers, local, round>>

Sum(estimates, k) ==
    FoldLeft(LAMBDA acc, i : acc + estimates[i - 1][k], 0, [i \in 1 .. Count(estimates) |-> i])

\* refineCandidatesUntilRecall: hits / total against the target.
JoinEstimate ==
    /\ Joined("estimate")
    /\ LET refine == round < cfg.Iterations
                     /\ Sum(output, 1) * cfg.RecallDen < cfg.RecallNum * Sum(output, 2)
       IN  Fork(IF refine THEN "alpha forward" ELSE "rng forward", local, input, Fresh(local))
    /\ UNCHANGED <<idx, file, layer, layers, local, round>>

\* Between the two prunings of buildPrunedLayer.
JoinForward ==
    /\ \/ /\ Joined("alpha forward")
          /\ Fork("alpha back", local, MergeReverse(output, n), Fresh(local))
       \/ /\ Joined("rng forward")
          /\ Fork("rng back", local, MergeReverse(output, n), Fresh(local))
    /\ UNCHANGED <<idx, file, layer, layers, local, round>>

JoinAlpha ==
    /\ Joined("alpha back")
    /\ Fork("refresh", local, output, Fresh(local))
    /\ UNCHANGED <<idx, file, layer, layers, local, round>>

\* A round that is not counted.
JoinRefreshUncounted ==
    /\ Joined("refresh")
    /\ Fork("estimate", local, output, Fresh(local))
    /\ UNCHANGED <<idx, file, layer, layers, local, round>>

JoinRefresh ==
    /\ Joined("refresh")
    /\ Fork("estimate", local, output, Fresh(local))
    /\ round' = round + 1
    /\ UNCHANGED <<idx, file, layer, layers, local>>

\* The layer in ids of the index.
JoinFinal ==
    /\ Joined("rng back")
    /\ layers' = WithLayer(layers, layer,
                          ToGlobal(output, Layout(Levels(cfg, idx.dist), layer), idx.dist))
    /\ layer' = layer - 1
    /\ stage' = "layer"
    /\ local' = << >> /\ round' = 0 /\ input' = << >> /\ output' = << >>
    /\ left' = << >> /\ busy' = << >> /\ scratch' = << >>
    /\ UNCHANGED <<idx, file>>

\* The graph becomes searchable all at once.
Published(by, entry, top) ==
    [cfg |-> cfg, dist |-> idx.dist, levels |-> Levels(cfg, idx.dist), layers |-> layers,
     entryPoint |-> entry, maxLayer |-> top, graphReady |-> TRUE, builder |-> by]

Publish ==
    /\ stage = "layer" /\ layer = -1
    /\ LET levels == Levels(cfg, idx.dist)
       IN  idx' = Published("fast", EntryPoint(levels, cfg.Seed), MaxAssignedLayer(levels))
    /\ Return
    /\ UNCHANGED file

----------------------------------------------------------------------------
(* The incremental builder (standard_hnsw.go).                              *)

\* The node that opened the top layer among the first k, and that layer.
TopOf(levels, k) == MaxAssignedLayer([id \in 0 .. k - 1 |-> levels[id]])
EntryOf(levels, k) == Least({id \in 0 .. k - 1 : levels[id] = TopOf(levels, k)})

\* The caller inserts the nodes itself, with one scratch.
OneScratch(sc) == [w \in {0} |-> sc]

\* A new index of the given configuration, which the caller uses from then on.
\* standardHNSWComparableConfig lowers a CandidateK above ConstructionL, which a
\* normalized configuration has not.
BuildStandard(c, vectors) ==
    /\ stage = "idle" /\ Accepted(c, vectors)
    /\ idx' = Taking(NewIndex(c), vectors)
    /\ stage' = "standard"
    /\ round' = 1
    /\ layers' = [l \in 0 .. MaxAssignedLayer(Levels(c, vectors.dist)) |->
                    [id \in DOMAIN vectors.dist |-> <<>>]]
    /\ scratch' = OneScratch(NewScratch(Count(vectors.dist)))
    /\ UNCHANGED <<file, layer, local, input, output, left, busy>>

\* Where the next layer is entered.
NextEntries(at, sc) == IF sc.found = <<>> THEN at.entries ELSE sc.found

\* One layer on the way down: above the level of the node one result is enough.
Descended(v, id, at, l) ==
    LET sc == SearchLayer(at.layers[l], v[id], at.entries, 1, at.sc)
    IN  [sc |-> sc, entries |-> NextEntries(at, sc), layers |-> at.layers]

\* From its level to the bottom a wide search, a selection and its edges.
Connected(c, v, id, at, l) ==
    LET ef == IF c.ConstructionL < c.M THEN c.M ELSE c.ConstructionL
        sc == SearchLayer(at.layers[l], v[id], at.entries, ef, at.sc)
        degree == LayerMaxDegree(c.M, l)
        selected == SelectStandard(v, id, sc.found, degree)
    IN  [sc |-> sc, entries |-> NextEntries(at, sc),
         layers |-> WithLayer(at.layers, l,
                              ConnectStandard(v, at.layers[l], id, selected, degree))]

Passed(c, v, id, at, l) ==
    IF l > Levels(c, v)[id] THEN Descended(v, id, at, l) ELSE Connected(c, v, id, at, l)

\* One node, from the top layer of the nodes before it to layer 0.
Inserting(c, v, id, top, begin) ==
    LET after[i \in 0 .. top + 1] ==
            IF i = 0 THEN begin
            ELSE LET before == after[i - 1] IN Passed(c, v, id, before, top + 1 - i)
    IN  after

Inserted(c, v, id, sofar, own) ==
    LET levels == Levels(c, v)
        top == TopOf(levels, id)
    IN  Inserting(c, v, id, top,
                  [sc |-> own, entries |-> <<EntryOf(levels, id)>>, layers |-> sofar])[top + 1]

InsertStandard ==
    /\ stage = "standard" /\ round < Count(idx.dist)
    /\ LET after == Inserted(cfg, idx.dist, round, layers, scratch[0])
       IN  /\ layers' = after.layers
           /\ scratch' = OneScratch(after.sc)
    /\ round' = round + 1
    /\ UNCHANGED <<idx, file, stage, layer, local, input, output, left, busy>>

PublishStandard ==
    /\ stage = "standard" /\ round = Count(idx.dist)
    /\ LET levels == Levels(cfg, idx.dist)
       IN  idx' = Published("standard", EntryOf(levels, round), TopOf(levels, round))
    /\ Return
    /\ UNCHANGED file

----------------------------------------------------------------------------
(* Save and Load.                                                          *)

\* The writer may fail between any two fields.
Save ==
    /\ stage = "idle" /\ SaveAccepts(idx)
    /\ file' \in {[kind |-> "whole", ix |-> idx], [kind |-> "torn"]}
    /\ UNCHANGED <<idx, stage, work>>

\* Every field is required, so a torn file is an error, and so is an index
\* that does not pass; the caller then keeps the index it has.
Load ==
    /\ stage = "idle" /\ file.kind = "whole" /\ LoadAccepts(file.ix)
    /\ idx' = file.ix
    /\ UNCHANGED <<file, stage, work>>

Init ==
    /\ \E c \in Configs : idx = NewIndex(c)
    /\ file = NoFile
    /\ stage = "idle" /\ layer = -1 /\ round = 0
    /\ layers = << >> /\ local = << >> /\ input = << >> /\ output = << >>
    /\ left = << >> /\ busy = << >> /\ scratch = << >>

Worker(w) == Scan(w) \/ Write(w)

Caller ==
    \/ StartLayer \/ JoinKnng \/ JoinAcquire \/ JoinEstimate \/ JoinForward
    \/ JoinAlpha \/ JoinRefresh \/ JoinFinal \/ Publish
    \/ InsertStandard \/ PublishStandard

Next ==
    \/ \E v \in DataSets : Build(v) \/ \E c \in Configs : BuildStandard(c, v)
    \/ Caller
    \/ \E w \in DOMAIN left : Worker(w)
    \/ Save \/ Load

\* The caller and the goroutines are scheduled: weak fairness of their steps.
\* During a build one of them is always enabled and no other step is, so it is
\* stated without ENABLED, which is costly to evaluate for these actions.
Fairness == []<>(stage = "idle") \/ []<><<stage # "idle">>_vars

Spec == Init /\ [][Next]_vars /\ Fairness

----------------------------------------------------------------------------

\* What a stage has written for a node is the function of that node and of the
\* stage's input alone: the number of workers, how they interleave and what
\* their scratch was used for before change nothing.
WorkersChangeNothing ==
    \A s \in DOMAIN output :
       output[s] # <<>> =>
          output[s] = Written(job, s, Computed(job, s, NewScratch(n)).found)

\* Building the same vectors again gives the index that was saved: a build
\* depends on the configuration and the vectors only.
RebuildGivesTheSameGraph ==
    (/\ idx.graphReady /\ file.kind = "whole"
     /\ <<idx.cfg, idx.dist, idx.builder>> = <<file.ix.cfg, file.ix.dist, file.ix.builder>>)
    => idx = file.ix

\* The lists that pruning starts from hold distinct nodes of the layer other
\* than the node itself, nearest first and at most as many as asked for, and
\* none is empty: normalizePruneCandidates never meets an id out of range.
CandidatesAreSound ==
    stage \in {"acquire", "estimate", "alpha forward", "rng forward"} =>
       \A s \in DOMAIN input :
          /\ ToSet(input[s]) \subseteq DOMAIN local \ {s}
          /\ \A i, j \in DOMAIN input[s] :
                i < j => Better(local[s], input[s][i], input[s][j])
          /\ Len(input[s]) \in 1 .. (IF stage = "acquire" THEN InitialK(cfg, n) ELSE CandidateK(cfg, n))

\* Whatever either builder publishes, Save writes and Load takes back: degrees,
\* levels, entry point and layers are what the format asks.
BuiltIndexPersists == idx.graphReady => SaveAccepts(idx) /\ LoadAccepts(idx)

\* A search of a built index always has an answer, and one as wide as the index
\* returns the nearest of all nodes that layer 0 reaches from where the search
\* enters it.
WideSearchIsExact ==
    idx.graphReady =>
       \A q \in DOMAIN idx.dist :
          LET reached == Reached(idx, Descend(idx, q).found[1])
          IN  \A k \in 1 .. Count(idx.dist) :
                 Search(idx, q, k, Count(idx.dist)) = Nearest(idx.dist[q], reached, k)

\* A build that has begun publishes its graph.
BuildsEnd == stage # "idle" ~> (stage = "idle" /\ idx.graphReady)
=============================================================================
