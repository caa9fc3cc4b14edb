---------------------------- MODULE HGraphInsert ----------------------------
(***************************************************************************)
(* Concurrent Adds into the graphs of HGraph: graph_add_one on the threads  *)
(* of the pool, under a shared global_mutex_ (hgraph_build.cpp), with       *)
(* mutually_connect_new_element (impl/pruning_strategy.cpp) and the locks   *)
(* of neighbors_mutex_ (utils/lock_strategy.cpp): one mutex for each id,    *)
(* shared by all levels.                                                    *)
(*                                                                         *)
(* A thread inserts one new point. It descends from the entry point through *)
(* the levels above its own, one search a level; then, from the bottom up   *)
(* to its own level, it searches, reading each list under a shared lock; it *)
(* locks its own id, writes its own list and, still holding that lock,      *)
(* locks each selected neighbour in turn to add itself to its list. All     *)
(* these searches start where the descent ended.                            *)
(* The index holds one point at the start, on every level, its entry point; *)
(* levels are only added under an exclusive global_mutex_, so their number  *)
(* does not change here.                                                    *)
(*                                                                         *)
(* Whoever reads or writes a list holds its mutex, and reverse edges are    *)
(* only read by FORCE_REMOVE, which excludes Add: InsertNeighborsById is    *)
(* one step.                                                                *)
(***************************************************************************)
EXTENDS GraphCell

CONSTANTS
    Levels,     \* number of levels: the bottom graph and the route graphs
    TopOf,      \* the highest level of each new point
    MaxDegree,  \* maximum degree of the bottom graph
    RouteDegree \* maximum degree of a route graph

ASSUME InsertAssumption ==
    /\ MaxId > 0
    /\ Levels \in Nat \ {0}
    /\ TopOf \in [Ids \ {0} -> 0 .. Levels - 1]
    /\ MaxDegree \in Nat \ {0}
    /\ RouteDegree \in Nat \ {0}

Entry  == 0
Points == Ids \ {Entry}     \* the new points; a point stands for its thread

Degree(l) == IF l = 0 THEN MaxDegree ELSE RouteDegree

VARIABLES
    graph,      \* the graph of each level
    owner,      \* the point whose thread holds the mutex of an id exclusively
    pc,         \* where a thread is in graph_add_one
    level,      \* the level it works on
    start,      \* where its searches start: param.ep
    visited,    \* what its search has come across on that level
    todo,       \* selected neighbours it has still to link back
    at,         \* the neighbour whose list it edits
    copy        \* the list of that neighbour as it read it

vars == <<graph, owner, pc, level, start, visited, todo, at, copy>>

\* The loop counts down in a size_t while it is above the int level of the
\* point, which is -1, the largest size_t, for a point of the bottom graph only.
Descends(p) == TopOf[p] > 0 /\ TopOf[p] < Levels - 1

Init ==
    /\ graph = [l \in 0 .. Levels - 1 |->
                   InsertNeighborsById(EmptyGraph, Entry, {})]
    /\ owner = [i \in Ids |-> INVALID_ID]
    /\ pc = [p \in Points |-> IF Descends(p) THEN "descend" ELSE "search"]
    /\ level = [p \in Points |-> IF Descends(p) THEN Levels - 1 ELSE 0]
    /\ start = [p \in Points |-> Entry]
    /\ visited = [p \in Points |-> {Entry}]
    /\ todo = [p \in Points |-> {}]
    /\ at = [p \in Points |-> INVALID_ID]
    /\ copy = [p \in Points |-> {}]

Free(i) == owner[i] = INVALID_ID

Goto(p, from, to) == pc[p] = from /\ pc' = [pc EXCEPT ![p] = to]

\* The search reads the list of a point it knows, under a shared lock.
Visit(p, n) ==
    /\ pc[p] \in {"descend", "search"}
    /\ n \in visited[p]
    /\ Free(n)
    /\ ~ graph[level[p]].nbrs[n] \subseteq visited[p]
    /\ visited' = [visited EXCEPT ![p] = @ \cup graph[level[p]].nbrs[n]]
    /\ UNCHANGED <<graph, owner, pc, level, start, todo, at, copy>>

\* A search of the descent, with ef = 1, ends with one of the points it
\* visited; the next search starts there, one level down or, below the last
\* level above the point's own, in the bottom graph.
Descend(p) ==
    /\ pc[p] = "descend"
    /\ \E n \in visited[p] :
          /\ start' = [start EXCEPT ![p] = n]
          /\ visited' = [visited EXCEPT ![p] = {n}]
    /\ IF level[p] - 1 > TopOf[p]
       THEN /\ level' = [level EXCEPT ![p] = @ - 1]
            /\ UNCHANGED pc
       ELSE /\ level' = [level EXCEPT ![p] = 0]
            /\ pc' = [pc EXCEPT ![p] = "search"]
    /\ UNCHANGED <<graph, owner, todo, at, copy>>

\* A search that may find points nobody has linked yet.
SelectAnything(p) ==
    /\ Goto(p, "search", "lock")
    /\ \E sel \in (SUBSET (Ids \ {p})) \ {{}} :
          Cardinality(sel) <= Degree(level[p]) /\ todo' = [todo EXCEPT ![p] = sel]
    /\ visited' = [visited EXCEPT ![p] = {start[p]}]
    /\ UNCHANGED <<graph, owner, level, start, at, copy>>

\* The search ends with some of what it visited (ef and the distances decide
\* with what), without the new point, and the heuristic selects.
Select(p) ==
    /\ Goto(p, "search", "lock")
    /\ \E found \in (SUBSET (visited[p] \ {p})) \ {{}} :
          \E sel \in Selections(found, Degree(level[p])) :
             todo' = [todo EXCEPT ![p] = sel]
    /\ visited' = [visited EXCEPT ![p] = {start[p]}]
    /\ UNCHANGED <<graph, owner, level, start, at, copy>>

\* cur_lock, then the point's own list.
LockOwn(p) ==
    /\ Goto(p, "lock", "link")
    /\ Free(p)
    /\ owner' = [owner EXCEPT ![p] = p]
    /\ graph' = [graph EXCEPT ![level[p]] = InsertNeighborsById(@, p, todo[p])]
    /\ UNCHANGED <<level, start, visited, todo, at, copy>>

\* A loop that takes no lock on the neighbour.
LockNeighbourNot(p, n) ==
    /\ Goto(p, "link", "update")
    /\ n \in todo[p]
    /\ at' = [at EXCEPT ![p] = n]
    /\ copy' = [copy EXCEPT ![p] = graph[level[p]].nbrs[n]]
    /\ UNCHANGED <<graph, owner, level, start, visited, todo>>

LockNeighbour(p, n) ==
    /\ Goto(p, "link", "update")
    /\ n \in todo[p]
    /\ Free(n)
    /\ owner' = [owner EXCEPT ![n] = p]
    /\ at' = [at EXCEPT ![p] = n]
    /\ copy' = [copy EXCEPT ![p] = graph[level[p]].nbrs[n]]
    /\ UNCHANGED <<graph, level, start, visited, todo>>

\* A loop that appends to a full list.
NewListsAppend(p, list, max) == {list \cup {p}}

\* What the neighbour's list becomes: the point is appended, without a look
\* whether it is there, or the heuristic selects among all of them.
NewLists(p, list, max) ==
    IF Cardinality(list) < max
    THEN {list \cup {p}}
    ELSE Selections(list \cup {p}, max)

\* A loop that does not move on to the next selected neighbour.
UpdateNeighbourRepeats(p) ==
    /\ Goto(p, "update", "link")
    /\ \E new \in NewLists(p, copy[p], Degree(level[p])) :
          graph' = [graph EXCEPT ![level[p]] =
                      InsertNeighborsById(@, at[p], new)]
    /\ owner' = [owner EXCEPT ![at[p]] = INVALID_ID]
    /\ at' = [at EXCEPT ![p] = INVALID_ID]
    /\ copy' = [copy EXCEPT ![p] = {}]
    /\ UNCHANGED <<level, start, visited, todo>>

UpdateNeighbour(p) ==
    /\ Goto(p, "update", "link")
    /\ \E new \in NewLists(p, copy[p], Degree(level[p])) :
          graph' = [graph EXCEPT ![level[p]] =
                      InsertNeighborsById(@, at[p], new)]
    /\ owner' = [owner EXCEPT ![at[p]] = INVALID_ID]
    /\ todo' = [todo EXCEPT ![p] = @ \ {at[p]}]
    /\ at' = [at EXCEPT ![p] = INVALID_ID]
    /\ copy' = [copy EXCEPT ![p] = {}]
    /\ UNCHANGED <<level, start, visited>>

\* A graph_add_one that returns without releasing cur_lock.
NextLevelKeepsLock(p) ==
    /\ pc[p] = "link"
    /\ todo[p] = {}
    /\ IF level[p] < TopOf[p]
       THEN /\ level' = [level EXCEPT ![p] = @ + 1]
            /\ pc' = [pc EXCEPT ![p] = "search"]
       ELSE /\ pc' = [pc EXCEPT ![p] = "done"]
            /\ UNCHANGED level
    /\ UNCHANGED <<graph, owner, start, visited, todo, at, copy>>

\* A graph_add_one that goes on one level too far.
NextLevelTooFar(p) ==
    /\ pc[p] = "link"
    /\ todo[p] = {}
    /\ owner' = [owner EXCEPT ![p] = INVALID_ID]
    /\ level' = [level EXCEPT ![p] = @ + 1]
    /\ pc' = [pc EXCEPT ![p] = IF level[p] <= TopOf[p] THEN "search" ELSE "done"]
    /\ UNCHANGED <<graph, start, visited, todo, at, copy>>

\* cur_lock is released; the next level follows, or the insertion is done.
NextLevel(p) ==
    /\ pc[p] = "link"
    /\ todo[p] = {}
    /\ owner' = [owner EXCEPT ![p] = INVALID_ID]
    /\ IF level[p] < TopOf[p]
       THEN /\ level' = [level EXCEPT ![p] = @ + 1]
            /\ pc' = [pc EXCEPT ![p] = "search"]
       ELSE /\ pc' = [pc EXCEPT ![p] = "done"]
            /\ UNCHANGED level
    /\ UNCHANGED <<graph, start, visited, todo, at, copy>>

Step(p) ==
    \/ \E n \in Ids : Visit(p, n) \/ LockNeighbour(p, n)
    \/ Descend(p) \/ Select(p) \/ LockOwn(p) \/ UpdateNeighbour(p) \/ NextLevel(p)

AllDone == \A p \in Points : pc[p] = "done"

Next == (\E p \in Points : Step(p)) \/ (AllDone /\ UNCHANGED vars)

\* A thread that can take a step takes one: std::mutex is released after
\* finitely many steps of its holder, and there are finitely many insertions.
Spec == Init /\ [][Next]_vars /\ \A p \in Points : WF_vars(Step(p))

----------------------------------------------------------------------------
(* Properties.                                                              *)

TypeOK ==
    /\ graph \in [0 .. Levels - 1 -> Graph]
    /\ owner \in [Ids -> Points \cup {INVALID_ID}]
    /\ pc \in [Points -> {"descend", "search", "lock", "link", "update", "done"}]
    /\ level \in [Points -> 0 .. Levels - 1]
    /\ start \in [Points -> Ids]
    /\ visited \in [Points -> SUBSET Ids]
    /\ todo \in [Points -> SUBSET Ids]
    /\ at \in [Points -> Ids \cup {INVALID_ID}]
    /\ copy \in [Points -> SUBSET Ids]

\* A thread writes back a list that nobody changed since it read it: of two
\* points that link to one neighbour neither loses its edge to the other.
NoStaleCopy ==
    \A p \in Points : pc[p] = "update" => copy[p] = graph[level[p]].nbrs[at[p]]

\* The neighbour does not list the point before the point adds itself, so the
\* append, which does not look, never stores an edge twice.
NoDoubleEdge ==
    \A p \in Points : pc[p] = "update" => p \notin copy[p]

\* No list outgrows its level, so no thread of the pool throws in
\* InsertNeighborsById or finds a bad size in mutually_connect_new_element.
DegreesBounded == \A l \in DOMAIN graph : DegreeAtMost(graph[l], Degree(l))

\* The thread of p blocks on the mutex of q, which the thread of q holds
\* while it links its own neighbours.
WaitsFor(p, q) ==
    /\ pc[p] = "link" /\ pc[q] = "link"
    /\ q \in todo[p] /\ owner[q] = q

\* Nobody waits for the mutex of a point whose thread waits, directly or
\* through others, for it: the holder of a wanted mutex is always further on,
\* on a higher level or on the same level with its search over before the
\* other's, because a point can only be found once it is linked.
NoWaitCycle ==
    \A S \in SUBSET Points : S # {} =>
        \E p \in S : \A q \in S : ~ WaitsFor(p, q)

\* Every Add returns.
EveryAddReturns == \A p \in Points : <>[](pc[p] = "done")
=============================================================================
