------------------------------- MODULE HGraph -------------------------------
(***************************************************************************)
(* The HGraph index (algorithm/hgraph): a label table, the codes of the     *)
(* points, a bottom graph with every point, a stack of route graphs with    *)
(* ever fewer of them, and the entry point every search starts at.          *)
(*                                                                         *)
(* This module takes one call at a time: Add, Remove in its two modes,      *)
(* UpdateId and UpdateVector, each with all that it changes.  HGraphAdd and *)
(* HGraphInsert take concurrent Adds apart, HGraphPersist adds Clone.       *)
(* Add and Remove take one vector or label                                  *)
(* (their loops over several are repeated calls: no step between two        *)
(* rounds of a loop depends on the round, and shrink_to_fit is idempotent). *)
(* support_duplicate_ is off, and the codes are kept in one cell.  The      *)
(* branch of Add that recovers a tombstone is left out because it is never  *)
(* taken: it asks for a label whose map entry is INVALID_ID, and an entry   *)
(* is erased, never set to that.                                            *)
(***************************************************************************)
EXTENDS LabelTable, GraphCell, Sequences

CONSTANTS
    Vectors,        \* what users store
    NoVector,       \* a code that was never written
    RemoveModes,    \* the RemoveMode values this instance calls Remove with
    MaxDegree,      \* maximum degree of the bottom graph
    RouteDegree,    \* maximum degree of a route graph
    ResizeStep,     \* 2 ^ resize_increase_count_bit_
    MaxLevel        \* bound: the highest route level a point may draw

ASSUME ModesAssumption == RemoveModes \subseteq {"MARK_REMOVE", "FORCE_REMOVE"}

ASSUME DegreeAssumption ==
    /\ MaxDegree \in Nat \ {0}
    /\ RouteDegree \in Nat \ {0}
    /\ MaxLevel \in Nat

\* Capacities are multiples of ResizeStep; the largest is the bound on ids.
ASSUME ResizeAssumption == ResizeStep \in 1 .. MaxId /\ MaxId % ResizeStep = 0

ASSUME NoVectorAssumption == NoVector \notin Vectors

VARIABLES
    lt,             \* label_table_
    total_count,    \* total_count_
    delete_count,   \* delete_count_
    max_capacity,   \* max_capacity_
    codes,          \* basic_flatten_codes_: the vector stored at each id
    bottom,         \* bottom_graph_
    routes,         \* route_graphs_, the lowest level first
    entry           \* entry_point_id_ (INVALID_ID: INVALID_ENTRY_POINT)

vars == <<lt, total_count, delete_count, max_capacity, codes, bottom, routes, entry>>

Init ==
    /\ lt = Resize(EmptyTable, ResizeStep)
    /\ total_count = 0
    /\ delete_count = 0
    /\ max_capacity = ResizeStep
    /\ codes = [i \in Ids |-> NoVector]
    /\ bottom = EmptyGraph
    /\ routes = <<>>
    /\ entry = INVALID_ID

----------------------------------------------------------------------------
(* Add of one vector (Add, add_one_point, graph_add_one).                   *)

\* Where the descent through the route graphs above a level may end: it takes
\* up on each level where it stopped on the one above, the top one at the entry.
\* For level -1 the comparison of the loop converts it to the largest size_t,
\* and there is no descent: the search of the bottom graph starts at the entry.
StartsBelow(level) ==
    LET top == Len(routes)
        Descents ==
            {d \in [level + 1 .. top -> Ids \cup {INVALID_ID}] :
                /\ d[top] = entry
                /\ \A j \in level + 1 .. top - 1 :
                      d[j] \in Reachable(routes[j + 1], d[j + 1])}
    IN  IF level < 0 \/ level >= top THEN {entry}
        ELSE {d[level + 1] : d \in Descents}

\* The levels with the new point: what a search from ep finds, without the
\* point itself, is connected to it; a level that is empty gets an empty list.
Linked(g, id, ep, max) ==
    IF g.any
    THEN UNION {Connected(g, id, found \ {id}, max) :
                  found \in (SUBSET Reachable(g, ep)) \ {{}}}
    ELSE {InsertNeighborsById(g, id, {})}

\* The capacity resize() leaves behind: the next multiple of ResizeStep, and
\* never less than before.
Capacity(size) ==
    IF max_capacity >= size THEN max_capacity
    ELSE ((size + ResizeStep - 1) \div ResizeStep) * ResizeStep

Add(label, v, level) ==
    LET id   == total_count
        slots == IF Capacity(id + 1) > max_capacity
                 THEN Resize(lt, Capacity(id + 1)) ELSE lt
        grow == level >= Len(routes) \/ ~ bottom.any
        grown == [j \in 1 .. (IF level >= Len(routes) THEN level + 1
                                                      ELSE Len(routes)) |->
                    IF j <= Len(routes) THEN routes[j] ELSE EmptyGraph]
    IN
    /\ total_count < MaxId                                   \* bound
    /\ ~ CheckLabel(lt, label)
    /\ total_count' = total_count + 1
    /\ max_capacity' = Capacity(id + 1)
    /\ lt' = Insert(slots, id, label)
    /\ codes' = [codes EXCEPT ![id] = v]
    /\ \E ep \in StartsBelow(level) :
          /\ bottom' \in Linked(bottom, id, ep, MaxDegree)
          /\ routes' \in Choices([j \in DOMAIN grown |->
                             IF j <= level + 1
                             THEN Linked(grown[j], id, ep, RouteDegree)
                             ELSE {grown[j]}])
    /\ entry' = IF grow THEN id ELSE entry
    /\ UNCHANGED delete_count

----------------------------------------------------------------------------
(* Remove of one label.                                                     *)

RemoveMark(label) ==
    /\ "MARK_REMOVE" \in RemoveModes
    /\ lt' = MarkRemove(lt, label)
    /\ delete_count' = delete_count + MarkRemoveCount(lt, label)
    /\ UNCHANGED <<total_count, max_capacity, codes, bottom, routes, entry>>

\* The highest route level on which the entry has a neighbour, if any.
HighestRoute ==
    LET levels == {j \in DOMAIN routes : routes[j].nbrs[entry] \ {entry} # {}}
    IN  {j \in levels : \A k \in levels : k <= j}

\* A find_new_entry_point that keeps the levels the new entry is not on.
NewEntriesKeepRoutes ==
    IF HighestRoute = {}
    THEN {[entry |-> entry, routes |-> routes]}
    ELSE UNION {{[entry |-> e, routes |-> routes] :
                    e \in routes[j].nbrs[entry] \ {entry}} : j \in HighestRoute}

\* find_new_entry_point: the route graphs above that level are dropped and a
\* neighbour of the entry on it becomes the entry; when there is no such level
\* all route graphs are dropped and the entry stays.
NewEntries ==
    IF HighestRoute = {}
    THEN {[entry |-> entry, routes |-> <<>>]}
    ELSE UNION {{[entry |-> e, routes |-> SubSeq(routes, 1, j)] :
                    e \in routes[j].nbrs[entry] \ {entry}} : j \in HighestRoute}

\* A force_remove_one that takes every point off the count of removed ones.
UnmarkCountAlways(id) == 1

\* was_mark_removed: what force_remove_one takes off delete_count_.
UnmarkCount(id) == IF IsRemoved(lt, id) THEN 1 ELSE 0

\* force_remove_one: the point leaves the graphs, the last point takes over
\* its id (move_id), and everything is cut to the new count (shrink_to_fit).
RemoveForce(label) ==
    LET id   == IdOf(lt, label)
        last == total_count - 1
        left == ForceRemove(lt, label, id)
    IN
    /\ "FORCE_REMOVE" \in RemoveModes
    /\ Found(lt, label)
    /\ \E new \in IF id = entry THEN NewEntries
                  ELSE {[entry |-> entry, routes |-> routes]} :
       \E b \in ForceRemoved(bottom, id, total_count, MaxDegree) :
       \E rs \in Choices([j \in DOMAIN new.routes |->
                    ForceRemoved(new.routes[j], id, total_count, RouteDegree)]) :
          IF last = id
          THEN /\ bottom' = b
               /\ routes' = rs
               /\ entry' = new.entry
               /\ lt' = ShrinkToFit(left, last)
               /\ codes' = [codes EXCEPT ![last] = NoVector]
          ELSE /\ bottom' = MoveDense(b, last, id)
               /\ routes' = [j \in DOMAIN rs |-> MoveSparse(rs[j], last, id)]
               /\ entry' = IF new.entry = last THEN id ELSE new.entry
               /\ lt' = ShrinkToFit(Move(left, last, id), last)
               /\ codes' = [codes EXCEPT ![id] = codes[last], ![last] = NoVector]
    /\ delete_count' = delete_count - UnmarkCount(id)
    /\ total_count' = last
    /\ UNCHANGED max_capacity

UpdateId(old, new) ==
    /\ old # new
    /\ CanUpdateLabel(lt, old, new)
    /\ lt' = UpdateLabel(lt, old, new)
    /\ UNCHANGED <<total_count, delete_count, max_capacity, codes, bottom, routes, entry>>

\* UpdateVector of a present label.  Unless it is forced the call may refuse, or
\* find the vector close enough, by distances: then it changes nothing.
UpdateVector(label, v) ==
    /\ CheckLabel(lt, label)
    /\ codes' = [codes EXCEPT ![IdOf(lt, label)] = v]
    /\ UNCHANGED <<lt, total_count, delete_count, max_capacity, bottom, routes, entry>>

Next ==
    \/ \E label \in Labels, v \in Vectors, level \in -1 .. MaxLevel :
          Add(label, v, level)
    \/ \E label \in Labels : RemoveMark(label)
    \/ \E label \in Labels : RemoveForce(label)
    \/ \E old, new \in Labels : UpdateId(old, new)
    \/ \E label \in Labels, v \in Vectors : UpdateVector(label, v)

Spec == Init /\ [][Next]_vars

----------------------------------------------------------------------------
(* What the index answers.                                                  *)

GetNumElements == total_count - delete_count

\* The ids KnnSearch can return: at most GetNumElements of them, so none when
\* that is 0; its search of the bottom graph starts at the entry (wherever a
\* descent leads, it stays among the points of the route graphs), and the filter
\* of deleted ids applies to what it visits.
Searchable ==
    IF GetNumElements = 0 \/ entry = INVALID_ID THEN {}
    ELSE {i \in Reachable(bottom, entry) : ~ IsRemoved(lt, i)}

----------------------------------------------------------------------------
(* Properties.                                                              *)

TypeOK ==
    /\ lt \in Table
    /\ total_count \in 0 .. MaxId
    /\ delete_count \in 0 .. MaxId
    /\ max_capacity \in 1 .. MaxId
    /\ codes \in [Ids -> Vectors \cup {NoVector}]
    /\ bottom \in Graph
    /\ Len(routes) <= MaxLevel + 1 /\ \A j \in DOMAIN routes : routes[j] \in Graph
    /\ entry \in Ids \cup {INVALID_ID}

\* A label that is mapped, removed or not, is mapped to a point of the index,
\* and the slot of that point carries the label: whatever renamed, re-added and
\* moved points share a label, a search that finds the point names the label
\* by which a user reaches it.
LabelsPointBack ==
    \A l \in AnyLabel : Found(lt, l) =>
        IdOf(lt, l) < total_count /\ lt.table[IdOf(lt, l)] = l

\* The entry point is a point of the index whenever the index has one, so
\* that a search finds a label for every id it visits and does not throw.
EntryIsAPoint == total_count > 0 => entry \in 0 .. total_count - 1

\* The entry is at most one beyond the points.  A removal can leave it there
\* (EntryIsAPoint does not hold); the next Add then takes that id and is well
\* defined, but after a second removal an Add or a search would read codes that
\* were never written, and the code defines no outcome.
EntryDefined == entry <= total_count

\* The entry point is on every route level, and a point with an edge on a
\* level is on every level below: a descent never starts beside its graph.
EntryOnEveryLevel ==
    /\ \A j \in DOMAIN routes : entry \in routes[j].has
    /\ \A j \in DOMAIN routes : \A i \in Ids :
          j > 1 /\ routes[j].nbrs[i] # {} => i \in routes[j - 1].has

\* On every level the reverse edges are the inverse of the lists, whatever
\* sequence of insertions, repairs and moves led there: FORCE_REMOVE finds
\* every list that names the point it removes.
ReverseEdgesMirror ==
    Mirrored(bottom) /\ \A j \in DOMAIN routes : Mirrored(routes[j])

\* No list names the point itself or an id beyond the points of the index:
\* a removal leaves no edge to the removed point, nor to the moved one's old id.
EdgesStayInside ==
    /\ EdgesInside(bottom, total_count)
    /\ \A j \in DOMAIN routes : EdgesInside(routes[j], total_count)

\* No list is ever longer than the degree of its graph, whatever repairs, moves
\* and insertions it went through: InsertNeighborsById throws for a longer one,
\* and would leave a call half done.
ListsStayShort ==
    /\ DegreeAtMost(bottom, MaxDegree)
    /\ \A j \in DOMAIN routes : DegreeAtMost(routes[j], RouteDegree)

\* When no list is ever cut (MaxDegree exceeds the number of points) every
\* point can be reached from the entry, also after points were removed and
\* moved (as long as the entry is a point).
AllPointsReachable ==
    EntryIsAPoint /\ MaxDegree > MaxId
        => \A i \in Ids : i < total_count => i \in Reachable(bottom, entry)

\* What a search can return is present, and no label comes twice, also when a
\* label was removed and added again and both points are still in the graph (as
\* long as the entry is a point).
SearchReturnsEachLabelOnce ==
    EntryIsAPoint =>
        /\ \A i \in Searchable : CheckLabel(lt, lt.table[i])
        /\ \A i, j \in Searchable : lt.table[i] = lt.table[j] => i = j

\* GetNumElements is the number of labels that are present.
CountIsExact ==
    GetNumElements = Cardinality({l \in Labels : CheckLabel(lt, l)})

StoreView ==
    [l \in Labels |-> IF CheckLabel(lt, l) THEN codes[IdOf(lt, l)] ELSE NoVector]

Store == INSTANCE VectorStore WITH live <- StoreView

\* The index implements the abstract store: each label has the vector it was
\* last given (or was renamed from) until it is removed, whatever points swapped
\* ids meanwhile.  Only UpdateVector, and only for its own label, is an Update
\* of the store.
ImplementsStore ==
    /\ Store!Init
    /\ [][\/ Store!Edit
          \/ \E l \in Labels, v \in Vectors :
                UpdateVector(l, v) /\ Store!Update(l, v)]_StoreView
=============================================================================
