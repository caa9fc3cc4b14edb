----------------------------- MODULE GraphCell ------------------------------
(***************************************************************************)
(* One level of the index graph: the flat cell of the bottom level          *)
(* (datacell/graph_datacell.h), the sparse cell of a route level            *)
(* (datacell/sparse_graph_datacell.cpp), the reverse edges both may keep    *)
(* (impl/reverse_edge.cpp), and the two algorithms that edit a level,       *)
(* mutually_connect_new_element (impl/pruning_strategy.cpp) and             *)
(* graph_force_remove_one (algorithm/hgraph/hgraph_modify.cpp).             *)
(*                                                                         *)
(* A graph is a record                                                     *)
(*   nbrs  the neighbour list of each id, as a set                          *)
(*   rev   reverse_edges_, the ids that list an id; kept incrementally      *)
(*   has   the ids that have a list (the keys of a sparse cell)             *)
(*   any   TotalCount() != 0; the count of either cell never decreases      *)
(* Distances decide which edges a heuristic keeps; here it may keep any     *)
(* that its code can keep for some distances, so the algorithms are         *)
(* operators to the set of graphs they may leave behind.                    *)
(*                                                                         *)
(* InsertNeighborsById throws for a list longer than the maximum degree.    *)
(* The model stores such a list, and that there is none is a property       *)
(* (ListsStayShort of HGraph).  support_remove is off, the default: no        *)
(* versions of points are kept.                                             *)
(***************************************************************************)
EXTENDS InnerIds, FiniteSets

CONSTANT UseReverseEdges    \* use_reverse_edges_

ASSUME ReverseAssumption == UseReverseEdges \in BOOLEAN

Graph == [nbrs : [Ids -> SUBSET Ids], rev : [Ids -> SUBSET Ids],
          has : SUBSET Ids, any : BOOLEAN]

EmptyGraph == [nbrs |-> [i \in Ids |-> {}], rev |-> [i \in Ids |-> {}],
               has |-> {}, any |-> FALSE]

\* An UpdateReverseEdges that never removes.
UpdateReverseEdgesAddOnly(g, new) ==
    [x \in Ids |-> g.rev[x] \cup {i \in DOMAIN new : x \in new[i]}]

\* UpdateReverseEdges for the ids in DOMAIN new: the reverse edges that lists
\* lose are removed, the ones they gain are added.
UpdateReverseEdges(g, new) ==
    IF UseReverseEdges
    THEN [x \in Ids |->
            (g.rev[x] \ {i \in DOMAIN new : x \in g.nbrs[i] \ new[i]})
                \cup {i \in DOMAIN new : x \in new[i] \ g.nbrs[i]}]
    ELSE g.rev

\* InsertNeighborsById for each id in DOMAIN new, with the list new[id].
InsertLists(g, new) ==
    [nbrs |-> [i \in Ids |-> IF i \in DOMAIN new THEN new[i] ELSE g.nbrs[i]],
     rev |-> UpdateReverseEdges(g, new),
     has |-> g.has \cup DOMAIN new,
     any |-> g.any \/ DOMAIN new # {}]

InsertNeighborsById(g, id, list) == InsertLists(g, [i \in {id} |-> list])

\* GetIncomingNeighbors: empty when no reverse edges are kept.
Incoming(g, id) == g.rev[id]

----------------------------------------------------------------------------
(* Move: the point `from` takes over the id `to`.                           *)

\* A Move that adds the new id to a list and leaves the old one in it.
MoveDenseAppend(g, from, to) ==
    LET cleared  == InsertNeighborsById(g, to, {})
        relinked == InsertLists(cleared, [r \in Incoming(g, from) |->
                                  cleared.nbrs[r] \cup {to}])
        copied   == InsertNeighborsById(relinked, to, relinked.nbrs[from])
    IN  InsertNeighborsById(copied, from, {})

MoveDense(g, from, to) ==
    LET cleared  == InsertNeighborsById(g, to, {})
        relinked == InsertLists(cleared, [r \in Incoming(g, from) |->
                                  (cleared.nbrs[r] \ {from}) \cup {to}])
        copied   == InsertNeighborsById(relinked, to, relinked.nbrs[from])
    IN  InsertNeighborsById(copied, from, {})

MoveSparse(g, from, to) ==
    IF from \in g.has
    THEN [MoveDense(g, from, to) EXCEPT !.has = @ \ {from}]
    ELSE g

----------------------------------------------------------------------------
(* Search and edge selection.                                               *)

Closed(g, S) == \A i \in S : g.nbrs[i] \subseteq S

\* What a search that starts at ep may visit.
Reachable(g, ep) ==
    {x \in Ids : \A S \in SUBSET Ids : ep \in S /\ Closed(g, S) => x \in S}

\* select_edges_by_heuristic keeps a short list as it is; of another it keeps
\* the closest candidate and up to max - 1 more.
Selections(candidates, max) ==
    IF Cardinality(candidates) < max
    THEN {candidates}
    ELSE {S \in SUBSET candidates : S # {} /\ Cardinality(S) <= max}

\* Every choice of one list from options[n] for each n.
Choices(options) ==
    {f \in [DOMAIN options -> UNION {options[n] : n \in DOMAIN options}] :
        \A n \in DOMAIN options : f[n] \in options[n]}

\* mutually_connect_new_element: the new point gets the selected candidates,
\* each of them gets the new point if it has room, else it selects again.
Connected(g, id, candidates, max) ==
    UNION { LET linked == InsertNeighborsById(g, id, sel)
                options == [n \in sel |->
                    IF Cardinality(linked.nbrs[n]) < max
                    THEN {linked.nbrs[n] \cup {id}}
                    ELSE Selections(linked.nbrs[n] \cup {id}, max)]
            IN  {InsertLists(linked, new) : new \in Choices(options)}
          : sel \in Selections(candidates, max) }

\* A graph_force_remove_one that repairs the out-neighbours only.
ForceRemovedForwardOnly(g, id, count, max) ==
    LET forward  == g.nbrs[id]
        options  == [n \in forward |->
                       Selections((g.nbrs[n] \cup forward) \ {id, n}, max)]
    IN  {InsertNeighborsById(InsertLists(g, new), id, {}) :
            new \in Choices(options)}

\* A graph_force_remove_one that repairs nothing: lists just lose the point.
ForceRemovedNoRepair(g, id, count, max) ==
    LET new == [n \in Incoming(g, id) |-> g.nbrs[n] \ {id}]
    IN  {InsertNeighborsById(InsertLists(g, new), id, {})}

\* graph_force_remove_one: the in- and out-neighbours of the point select
\* again among their neighbours and its out-neighbours; count is total_count_.
ForceRemoved(g, id, count, max) ==
    LET forward  == g.nbrs[id]
        affected == {n \in forward \cup Incoming(g, id) : n < count}
        candidates(n) == {c \in (g.nbrs[n] \ {id}) \cup (forward \ {id, n}) :
                            c < count}
        options  == [n \in affected |-> Selections(candidates(n), max)]
    IN  IF forward = {} /\ Incoming(g, id) = {}
        THEN {g}
        ELSE {InsertNeighborsById(InsertLists(g, new), id, {}) :
                new \in Choices(options)}

----------------------------------------------------------------------------
(* What a well-formed level is.                                             *)

\* The reverse edges are the inverse of the neighbour lists.
Mirrored(g) ==
    \A i, x \in Ids : i \in g.rev[x] <=> x \in g.nbrs[i]

\* Edges join different points below count, and only points with a list.
EdgesInside(g, count) ==
    \A i, x \in Ids : x \in g.nbrs[i] =>
        i < count /\ x < count /\ i # x /\ i \in g.has /\ x \in g.has

DegreeAtMost(g, max) == \A i \in Ids : Cardinality(g.nbrs[i]) <= max
=============================================================================
