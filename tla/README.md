# Homunculus: a TLA+ verification of its index core

Homunculus builds vector indexes with two engines kept under `upstream/`: VSAG
(C++), whose graph index `HGraph` is the refinement stage, and FastHNSW (Go), the
coarse construction stage. The repository adds no code of its own to them yet, so
the system that can be verified is the engines' own logic. This project models, of
VSAG, what every index call passes through: the label table, the graph cells with
their reverse edges, the `HGraph` and `BruteForce` indexes, concurrent insertion,
serialization, the search of a graph on one thread and on several, and the pool of
visited lists; of FastHNSW, the whole construction with its goroutines, search, and
what a save and a load accept.

Paths below are relative to `upstream/vsag/src/` unless they start with `fasthnsw/`,
which stands for `upstream/fasthnsw/internal/core/`.

## 1. Inventory

| Component | State | Operations | What makes it correct |
|---|---|---|---|
| Visited-list pool (`utils/visited_list.*`, `utils/resource_object_pool.h`) | K deques behind K mutexes; per list 16-bit tags, current tag, source sub-pool | TakeOne, ReturnOne, Reset, Set, Get | a list has one owner; a stale tag is never read as visited, also after the tag wraps; the pool does not grow without need |
| Label table (`impl/label_table.*`) | label of each id, id of each label, deleted ids | Insert, MarkRemove, ForceRemove, Move, UpdateLabel, Resize, ShrinkToFit | the two directions agree; a deleted id is the id of what was deleted |
| BruteForce (`algorithm/brute_force.*`) | label table, codes, two counts | Add on several threads, Remove, UpdateId, KnnSearch | it is a map from labels to vectors |
| Graph cells (`datacell/graph_datacell.h`, `sparse_graph_datacell.cpp`, `graph_interface.cpp`, `impl/reverse_edge.cpp`) | neighbour lists, reverse edges | InsertNeighborsById, UpdateReverseEdges, Move | reverse edges are the inverse of the lists; lists stay short and name points only |
| Edge selection and repair (`impl/pruning_strategy.cpp`, `hgraph_modify.cpp`) | none | mutually_connect_new_element, graph_force_remove_one | no dangling edge, no lost point |
| HGraph (`algorithm/hgraph/`) | label table, codes, bottom graph, stack of route graphs, entry point, counts, capacity | Add, Remove in two modes, UpdateId, UpdateVector, search | the abstract store, and a search from the entry finds the points |
| Concurrent insertion (`hgraph_build.cpp`, `hgraph_modify.cpp`, `pruning_strategy.cpp`, `utils/lock_strategy.cpp`) | three mutexes of the index, one per id; the lists | Add on several threads, graph_add_one on pool threads | no lost edge or point, no deadlock, every Add returns, a search beside it meets complete points only |
| HGraph persistence (`hgraph_serialize.cpp`, the cells' Serialize) | the count of the codes | Serialize and Deserialize, and Clone, which is one after the other | what is read back is the index that was written |
| Graph search (`impl/searcher/basic_searcher.cpp`, `parallel_searcher.cpp`, `utils/spsc_queue.h`) | visited list, two heaps, a bound; per worker a ring of tasks; one counter | search_impl in its KNN and range forms, Push, Pop | threads do not change the answer; a wide search is exact; every search returns |
| FastHNSW construction (`fasthnsw/construction.go`, `candidate.go`, `optkcna.go`, `graph_build.go`, `parallel.go`, `standard_hnsw.go`) | vectors, levels, layers, lists of candidates, scratch per worker | Build in fork-joins; the incremental builder | a build depends on configuration and vectors only, and ends |
| FastHNSW search, pruning, persistence (`fasthnsw/search.go`, `graph_search.go`, `prune.go`, `persistence.go`) | scratch with a 32-bit mark | Search, Save, Load | a wide search is exact; what is built can be saved and loaded |
| Duplicate trackers, quantizers, SIMD, IO, attribute parser, hnswlib port, the other indexes, tools | | | not modelled, see section 7 |

**How they interact.** An index owns one label table and changes it under
`label_lookup_mutex_`; `add_mutex_` guards the counts and the growth of the stack;
`global_mutex_` is taken shared by searches and by insertions that add no level, and
exclusively by insertions that add one; `force_remove_mutex_` keeps FORCE_REMOVE apart
from Add and search. Insertion threads meet only in the per-id mutexes of
`neighbors_mutex_`. Searches meet in the visited-list pool and, when they are parallel,
in the thread pool. FORCE_REMOVE touches everything: it repairs each level, gives the
freed id to the last point (`move_id` in codes, graphs and labels) and shrinks the
containers. FastHNSW takes no lock at all: its goroutines write disjoint elements of
shared slices between a fork and a join.

**What is hard here.** Long sequences of legal calls after which the redundant
structures (lists and reverse edges, label to id and id to label, counts and deleted
ids, entry and levels) must still agree; interleavings of pool threads with nested
locks; a check and its use in different critical sections; tasks of a hop that are
taken hops later; marks that wrap; shares of work that must meet exactly; limits of
degree and capacity; a pool that is too small. `PROJECT.json` lists each hazard at its
line with the properties aimed at it.

## 2. Modules

| Module | Models | Form |
|---|---|---|
| `InnerIds` | the ids and INVALID_ID | constants |
| `LabelTable` | `LabelTable` | one operator per method, from a table to a table |
| `GraphCell` | one graph level, Move, edge selection, connect and repair | operators from a graph to a graph, or to the set of graphs it may become |
| `VectorStore` | what an index promises: labels mapped to vectors | abstract specification |
| `BruteForce` | the flat index, Add in three steps per thread | state machine; implements `VectorStore` |
| `HGraph` | the graph index, one call at a time | state machine over `LabelTable` and `GraphCell`; implements `VectorStore` |
| `HGraphPersist` | `HGraph` with Clone, which is a save and a load | extends `HGraph` by the count of the codes |
| `HGraphAdd` | `HGraph` with Add cut into its critical sections, on several threads | extends `HGraph` |
| `HGraphInsert` | the graph edits of concurrent Adds, lock by lock | state machine with fairness |
| `GraphSearch` | `BasicSearcher`: the steps of a search, and the exact answer it is measured by | operators |
| `BasicSearcher` | searches on one thread each, a hop at a time | abstract specification over `GraphSearch` |
| `ParallelSearch` | `ParallelSearcher` and `SPSCQueue` over a thread pool | state machine with fairness; implements `BasicSearcher` |
| `VisitedPool` | the pool and the searches that use it | state machine |
| `Workers` | how `parallelForNodes` shares the nodes out | operators |
| `FastHnswGraph` | orders, id collector, pruning, SEARCH-LAYER, layout, checks of the file format | operators |
| `FastHnsw` | a FastHNSW index: Build in fork-joins, the incremental builder, Save, Load | state machine with fairness |
| `MC...` | instances for TLC | |
| `CellProofs` | what the methods of the label table and the edits of a level do | lemmas |
| `VisitedPoolProofs`, `BruteForceProofs`, `HGraphProofs` (also of `HGraphPersist`), `HGraphAddProofs`, `HGraphInsertProofs`, `ParallelSearchProofs`, `FastHnswProofs` (also of `Workers`) | inductive invariants and refinements | theorems |

State and code correspond name by name (`lt` is `label_table_`, `total_count` is
`total_count_`, `bottom` and `routes` are `bottom_graph_` and `route_graphs_`, `entry`
is `entry_point_id_`, `num_points` and `line_dists` are the locals of `search_impl`);
the `map` of `PROJECT.json` gives the lines of each definition.

**Atomicity.** A call that runs under an exclusive mutex is one action. `BruteForce`'s
Add has three actions because the code has three regions: a first check under
`label_lookup_mutex_`, check and allocation under both mutexes, the write of the code
under neither. `HGraphAdd` has an action for each critical section of Add: lookup,
allocation, label, codes, the decision under `add_mutex_`, and then either the growth
under both mutexes or, per level, a link under a shared `global_mutex_`. `HGraphInsert`
has an action for each level of the descent through the route graphs, for each
acquisition of a per-id mutex and for each list read or written;
lists are only read and written under their mutex, so finer steps cannot be told apart.
The two divide the work: `HGraphAdd` takes the edits of one level as one step, which
`HGraphInsert` justifies, and has everything else. `VisitedPool` separates `try_lock`,
the access to the deque, the construction or the Reset outside the mutex, and the two
halves of ReturnOne. `ParallelSearch` separates the store of a slot from the store of
the index, the load of a slot from its release, and the distances from their count.
`FastHnsw` separates, per node and worker, the work in the scratch from the write of the
result; Save and Load are atomic, except that a Save may leave a torn file.

**Data.** In `HGraph` a neighbour list is a set and distances are abstracted: a
heuristic may keep whatever its control flow keeps for some distances (`Selections`: a
list shorter than the limit is kept, of another a non-empty part within the limit); a
search may end with any non-empty part of what is reachable. Every property thus holds
for every metric and every `ef`. Vectors are model values. In the search modules
distances matter: `ParallelSearch` has a table of distinct distances per query,
`FastHnsw` computes squared L2 distances of integer points, in exact arithmetic.
`FastHnsw`'s random numbers are a constant function (`Draw`, `Level`), since the code's
only source of them is the seed.

**Left out on purpose.** The tombstone-recovery branch of `HGraph::Add` is dead: it
needs a map entry equal to INVALID_ID, and entries are erased, never set to that. The
hole list is always empty (no caller of PushHole). Duplicates (`support_duplicate_`),
reorder codes, attribute filters, the ODescent build and `support_remove` (the versions
of points that a graph cell keeps and writes beside its lists) are off in the modelled
configuration, which is that of `tests/test_hgraph_remove.cpp`. Batch Add and Remove are repeated single calls, in both indexes. In
FastHNSW the API is not synchronized and has one caller here; the errors a stage of
Build can report are ids out of range, which `CandidatesAreSound` excludes (and, for
searches of any width, the proved invariant `StageInv`: the lists hold nodes of the layer).

## 3. Runs

| Run | Shows | Bounds |
|---|---|---|
| `pool` | one owner per list, fresh answers across a tag wrap, bounded growth | 2 searches, 2 sub-pools, 4 lists, 2 ids, tags 1..2 |
| `bf_both` | concurrent Adds, renames, both modes of Remove: a label is scored iff present, once; its code is written; only an Add or a rename makes it present; until a FORCE_REMOVE the count is exact and `VectorStore` is implemented | 2 threads, 2 labels, 2 vectors, 3 ids |
| `hg_edit` | both modes of Remove, renames, updates, growth of the capacity and lists short enough to be cut: label table, reverse edges, edges and levels stay consistent, no list outgrows its degree | 2 labels, 3 ids, degrees 2 and 1, 2 route levels |
| `hg_store` | all calls and Clone, with lists never cut: every point stays reachable through repair and moves, counts are exact, a search returns present labels once, `VectorStore` is implemented, also by what a load brings back | 3 labels, 2 vectors, 3 ids, 1 route level |
| `hg_add` | two Adds at a time beside MARK_REMOVE and renames: the entry is on every level, visible points are complete, quiet points are reachable, no Add is stuck | 2 threads, 2 labels, 3 ids, 2 route levels |
| `insert` | three concurrent insertions on four levels: no stale copy, no double edge, bounded lists, no wait cycle, termination | degrees 2 and 1, so a third link (above the bottom the second) makes a neighbour select again; one point descends two levels before it links |
| `psearch` | two parallel searches return what the sequential search returns; a wide one is exact; no task reaches into another hop; both return | 6 points, 2 workers each, 3 pool threads, 5 queries |
| `fasthnsw` | goroutines change nothing, rebuilding gives the same graph, candidates are sound, a built index can be saved and loaded, a wide search is exact, a build ends; the incremental builder makes its index from any of the configurations | 3 data sets of 3 to 7 points, 3 configurations, marks modulo 3 |
| `bf_force`, `hg_entry`, `hg_clone`, `psearch_pool` | disagreements of code and documentation, see section 4 | |

**Why the bounds suffice.** Three ids are the fewest with which a removed point, the
last point that moves to its id and a third that links to both are different; with them
a moved point can be the entry, a neighbour of the removed one, or marked as removed.
In `hg_edit` insertions and moves meet full lists. A repair with more candidates than a
list has room for takes five points, which is out of reach for that run (with one label
and no route level it takes a quarter of a minute, and TLC finds no error); the theorem
`HGraphShortLists` is for any number.
Label 0 is also the value `resize()` fills blank slots with, so `Labels` includes it and
the confusion of blank slots with a used label is part of every sequential run. A tag
limit of 2 and a mark limit of 3 make every list and scratch wrap several times. Two
labels and three ids let a label be removed and added again while its old slot is still
there. In `hg_add` both threads may add one label, and three ids let a point be linked
while another opens a level. In `psearch` the hops gather four, two, one and no points,
so that every split among two workers and the search happens, empty tasks included; the
queries make the search end early, cross filtered points, and reach everything; the
second search contends for the pool. No queue fills in
it (that takes a worker that sleeps through 1023 hops); the theorems of section 5 cover
that case. In `fasthnsw` the data sets have doubled points,
ties and two clusters; the configurations take the exact and the approximate start, one
layer and two, complete and pruned layers, two and three workers, and rounds of
refinement that do not reach the recall.

**Symmetry** is used for threads and lists in `pool`, threads and vectors in `bf_both`,
threads and labels in `hg_add` (labels are model values there) and vectors in
`hg_store`: in none of them does a definition tell the permuted values apart. These
runs check invariants and properties of steps, no liveness.

**Constraints.** After the violation that `hg_entry` shows, the entry is one beyond the
points. The next Add takes exactly that id, and the behaviour stays defined; a further
removal instead would make the next search read codes never written. `EntryDefined` (in
`HGraph`) ends the exploration of `hg_edit` there; `hg_store` asks what holds until the
entry is lost (`EntryNeverLost`). The calls of `hg_store` are those of `ApartSpec` (in
`HGraphPersist`): FORCE_REMOVE while the last point is the one its label is mapped to
(`LastIsMapped`) and the reverse edges are complete, Clone while nothing is removed.
`hg_clone` and the remarks of section 4 show what happens otherwise. The theorems that
need one of these conditions name it in their statement.

**Deadlock** is checked in every passing run. `insert` and `psearch` have an explicit
stuttering step when all is done, so a state in which some thread cannot move and others
are finished is reported.

**Fairness.** Three specifications state it, each for code that the operating system or
the Go runtime schedules preemptively.
- `insert`: weak fairness of each thread's step. A `std::mutex` holder in this code
  releases it after finitely many steps of its own, and the number of insertions is
  finite, so a mutex cannot be taken from a waiting thread for ever. A search visits only
  what it has not visited, so `Visit` is bounded too.
- `psearch`: weak fairness of the whole next-state relation. A thread that spins takes no
  step of the model, and the searches are finite, so this says only that some thread that
  can go on does; it is implied by fairness of each thread.
- `fasthnsw`: during a build the caller or some worker can always go on and nothing else
  happens, so weak fairness of all their steps together is the formula `Fairness`, which
  avoids ENABLED. Between builds nobody has to call anything.

## 4. Findings

1. `bf_force`: `BruteForce::Remove` with FORCE_REMOVE marks the freed id as deleted and
   then gives it to the last point; nothing clears the mark, so the moved label counts
   as removed.
2. `hg_entry`: when HGraph's entry is removed and has no neighbour on a route level,
   `find_new_entry_point` leaves the entry at the removed id; if that was the last id,
   the entry is not a point any more and a search starts beyond the points.
3. `hg_clone`: a clone, and equally a load, is not the index that was written, in three
   ways, all within reach of the run. It forgets which ids were removed with
   MARK_REMOVE: `serialize_label_info` does not write them, and the labels are found
   again. After a FORCE_REMOVE the codes' count is too high (`flatten_datacell.h:246`
   only raises it) and the load takes it for the number of points. And with
   `use_reverse_edges_` the reverse edges are neither written nor rebuilt, so that a
   FORCE_REMOVE after the load repairs no in-neighbour and leaves edges to the removed id
   (`EdgesStayInside` fails for `PersistSpec`).
4. `psearch_pool`: the workers of a parallel search keep their pool threads until the
   search ends. Two searches that interleave their enqueues on a pool smaller than both
   need wait for each other's threads for ever.

Three observations have no run.
- `BruteForce::RangeSearch` (`brute_force.cpp:321`) applies no filter of deleted ids,
  unlike KnnSearch, so points removed with MARK_REMOVE are returned; that is a matter of
  reading two functions, not of behaviours.
- `LabelTable::Move` (`label_table.h:465`) maps the label of the moved slot without
  asking whether the map still points to that slot. After MARK_REMOVE, re-adding or
  renaming, and FORCE_REMOVE of another label, a removed slot takes over the map entry of
  a live point with the same label, which is then found no more. `LabelsPointBack` still
  holds, since the point it leads to carries the label; `ImplementsStore` does not (for
  `Spec` of `HGraph` and three labels TLC finds six calls), and is therefore stated for
  `ApartSpec`.
- Add looks a label up in one critical section and inserts it in another
  (`hgraph_modify.cpp:266`). Two Adds of one label can both pass; once both are over,
  both points are returned under the label (`SearchReturnsEachLabelOnce` fails for
  `AddSpec`). The properties of `hg_add` are what holds nevertheless.

These are why some properties are stated for a part of the calls only.

## 5. Proofs

All constants are arbitrary within the named assumptions of the modules (`MaxId` a
natural number, degrees positive, NoVector not a vector, finitely many searches, and so
on). Every inductive invariant named here was first checked by TLC on the
instances of section 3, but for those of `ParallelSearchProofs` and `PathInv`, which
speak of sets and sequences that the state does not hold.

**`VisitedPoolProofs`**, for any number of searches, lists, sub-pools and any tag width.
`PoolTypeCorrect`, `PoolExclusive` and `PoolFresh` rest on `IInv`: TypeOK,
ExclusiveLists and VisitedIsFresh strengthened by `HeldWhileSearching` (a thread holds a
list exactly while its program counter says so), `UsedAreBorn` (held and pooled lists
are alive, so a constructed one is new: without it Construct could hand out a list
twice) and `EntriesBelowTag` (no entry exceeds the current tag: this makes the increment
of Reset sufficient, and the memset at the wrap is what preserves it). `PoolBounded`
counts, per sub-pool, its lists together with the searches that found it empty and are
about to construct one: that sum grows only when a search that holds nothing of the
sub-pool starts, so it never exceeds the number of searches.

**`CellProofs`**, of `LabelTable`, states what each method does to the fields of a table, and
`LabelsAgree`, which `BruteForce` and `HGraph` share: the slots in use carry user
labels, a live slot is the one its label is mapped to, and a present label is mapped to
a slot that carries it. `PresentCount` turns it into a count: live slots and present
labels are the two sides of a bijection.

**`CellProofs`**, of `GraphCell`: every edit of a level (InsertNeighborsById, Move of either cell,
mutually_connect_new_element, graph_force_remove_one) keeps it typed; keeps the reverse
edges the inverse of the lists; keeps its edges among the points of the index and of the
level, where graph_force_remove_one leaves no edge at the removed point because the
reverse edges name every list to repair; keeps lists within the degree (`Short`); and,
when lists are never cut, keeps edges
symmetric and the level in one piece. The last is the argument that a repair is enough:
the neighbours of a removed point are joined to each other, so a set that is closed
after the removal is, with the removed point added or not, closed before it.

**`BruteForceProofs`**, for any number of adding threads, labels and ids: types
(`BruteForceTypeCorrect`), the scored labels (`BruteForceScores`), the written codes
(`BruteForceCodes`) and the only ways a label becomes present
(`BruteForceNothingComesBack`), in both modes of Remove; the exact count
(`BruteForceCount`) and the refinement of `VectorStore` (`BruteForceRefinesStore`) until
a FORCE_REMOVE, as the properties say. The invariant adds to `LabelsAgree` that a thread
which has an id has the label and vector it was called with, and that no id is given out
twice as long as the counts show that nothing was removed by force.

**`HGraphProofs`**, for any labels, ids, levels and both modes of Remove, UpdateId and
UpdateVector:
- `HGraphTypeCorrect`. `delete_count` is typed because it is the number of marked ids;
  the capacity because it is a multiple of the step below `MaxId`.
- `HGraphLabels`: a mapped label leads to a point that carries it. The invariant
  `LabelInv` adds the shape of the table, `total_count <= size`, and speaks of all
  labels, the blank one included. The bound on the size is needed for UpdateLabel, which
  renames only slots below it.
- `HGraphMirror`: with `use_reverse_edges_`, the reverse edges of every level are the
  inverse of its lists after any sequence of calls (`GraphInv`).
- `HGraphShortLists`: with `use_reverse_edges_`, no list outgrows the degree of its graph,
  in insertions, repairs and moves, so that InsertNeighborsById never throws. `ShortInv`
  needs `GraphInv`: Move puts the new id into every list that the reverse edges name, and
  such a list stays within the degree because it has the old id to lose.
- `HGraphEdges` and `HGraphEntryOnLevels`: with `use_reverse_edges_`, as long as
  `EntryDefined` holds. The invariant `TidyInv` says that the levels are nested, the
  entry on all of them. That a descent ends on every level below
  (`DescentStaysOnLevels`) is an induction over the levels, written as the choice of the
  least level the descent has reached properly (`Least`).
- `HGraphCount`, `HGraphRefinesStore`, `HGraphSearch`: for the calls of `ApartSpec`.
  `StoreInv` is `LabelsAgree` for the points and a written code for each. LastIsMapped
  is what makes Move keep it: otherwise a removed slot takes over a live label.
- `HGraphReachable`: for the calls of `ApartSpec` while the entry is a point, and lists
  that are never cut. The invariant is `JoinedInv`: the bottom graph is symmetric and in
  one piece.

**`HGraphAddProofs`**, for any number of adding threads beside MARK_REMOVE and UpdateId:
`AddLabels`, `AddVisiblePoints`, `AddEntryOnLevels`, and, for lists that are never cut,
`AddReachable`. The invariant `AddInv` follows a point from its allocation:
only one thread has its id until the point is linked (`JobsApart`); no label is mapped
to the id before Insert, so that Insert takes no slot from a label, and label and code
are written before the point enters the bottom graph (`JobsWritten`); an id is a
complete point of the bottom graph or that of a thread with a link to go
(`PointsComplete`); a thread that links has a start that is on all its levels, and its
point is on the levels below the next (`Linking`). The last is what the unguarded gap
between Decide and the shared path needs: the entry may change in between, but the
stack never shrinks and points never leave a level.

**`HGraphInsertProofs`**, for any number of concurrent insertions and levels, any levels of the
new points and any degrees of the bottom graph and the route graphs:
`InsertTypeCorrect`, `NoLostEdge`, `NoEdgeTwice`, `ListsFit` and
`InsertionsDoNotDeadlock`. All rest on `LinkedKnown`: nobody comes across a point on a
level before the point has written its own list there. With two route graphs or more an
insertion first descends, and its searches start at what the descent found instead of
the entry. That this start is linked on every level the insertion writes to is a part of
`LinkedKnown`: points link from the bottom up, so what is found on an upper level is
linked on all levels below, and a descent ends above the levels of its point
(`SearchRestarts`). So nobody has selected a point that still searches, the selections
form no circle, and of the waiting threads that are furthest up (`HighestLevel`) one
needs none of the rest.

**`ParallelSearchProofs`**, for any graph, queries, number of searches,
workers and pool threads, and queues of any size, so also when items are lost:
- `SharingInvariant`: `PInv` is inductive. `PoolInv` says that a worker waits in the pool
  at most once. `LanesInv`, per queue, that a slot is written only where nothing is
  unread, so that what is pending is what was pushed and neither lost nor done.
  `SharesInv` says where in a hop the next share starts. `HopsInv` is the heart: during a
  hop no two pending tasks share a point, and there is a set of `num_points` positions,
  disjoint from every pending task, whose distances are right; between hops no pending
  task has points. So `num_points = count_no_visited` is possible only when every
  distance is there and no task with points is in a queue or in a worker's hands, and that
  is why resetting the counter while tasks without points are about is harmless. A lost
  task leaves positions that nobody counts. `CountingInv` covers the step between the
  distances of a worker and their count, `LeavingInv` the end of the loop. The set of
  counted positions cannot be read off the state, and the indices of a queue are
  unbounded, so `PInv` itself is not evaluated by TLC.
- `TasksBelong` (`TasksBelongToTheHop`) is read off it.
- `ParallelImplementsBasic`: `Spec` implies `ImplementsBasicSearchers`. Under the mapping `SerialView`,
  in which a hop takes effect when its points are gathered, `NextHop` is `TakeHop`, `Join`
  is `Return`, and every other step of a search, a worker or the pool is a stutter. For
  `MergeHop` that is the invariant: all distances it merges are the real ones. (No run
  checks this refinement, since the mapping computes a whole hop in every state; with one
  search, and queues of two slots that fill, TLC finds no error in it.)
- `ParallelSearchIsSerial` (`ParallelismChangesNothing`): the mapped state is the n-th of
  `Hops` for some n (`AnswerInv`). That the last of `Hops` is finished counts the
  candidates taken: every hop takes one and no point is a candidate twice.
- `WideSearchExact` (`WideSearchIsExact`): with room for every point and no filter every
  visited point is in the result, and the neighbours of every taken point are visited
  (`WideInv`), so that once no candidate is left the result is closed under neighbours.

The loops of `GraphSearch` are recursive functions over the positions of a list. What they
compute is proved by induction written as the choice of a least counterexample (`Least`,
`Induct`, `Recursion`), since the induction theorems of the library, which take an operator
as a parameter, cannot be used.

**`FastHnswProofs`**. Of `Workers`, for any number of nodes and workers: the intervals of
`parallelForNodes` cover every node (`EveryNodeHasAWorker`), are disjoint
(`NoNodeHasTwoWorkers`) and hold nodes only (`SharesAreNodes`). The worker of a node is
`((node + 1) * workers - 1) \div nodes`; the lemmas are the two facts of integer
division that the argument needs, since the products are not linear. This is what the
comment on `parallelForNodes` claims and what lets the goroutines write without a lock.

Of `FastHnsw`, for any vectors, configurations and number of workers and any width of the
marks, under `DrawsAreNumbers` (what the random numbers are drawn from is integers; it
speaks of all streams, so it is a hypothesis and not an ASSUME for TLC):
- `WorkersAgree` (`WorkersChangeNothing`). The invariant `StageInv` has, for a stage under
  way: every worker's scratch is usable, no mark is above the current one (`IsScratch`);
  every node has its right list or is still in a worker's share (`OutputInv`); and a
  worker about to write holds what a worker alone with fresh scratch would (`BusyInv`).
  The step that needs work is the scan: two scratches that agree on which ids carry the
  current mark are told apart by no function of a stage (`Alike`), whatever else their
  tables hold, and Reset makes any two usable scratches alike, at the wrap because it
  clears the table. That is carried through each loop of `FastHnswGraph` (`ComputedAlike`).
- `RebuildIsTheSame` (`RebuildGivesTheSameGraph`). What the caller holds between two steps
  of its own (`view`) moves by a function `Follow` of itself, the configuration and the
  vectors; the steps of the workers leave it alone. That the lists a join hands over are
  the ones `Follow` computes is `StageInv` together with the partition: when every share
  is empty, no node is without its list. So all builds of one builder from the same
  vectors go along one path (`PathInv`), only its end is published, and it has one end
  (`OneEnd`).
- `BuiltPersists` (`BuiltIndexPersists`). What Load checks of a configuration
  (`ReadConfig`) follows from `ConfigAssumption`, which says what normalizeConfig lets
  through, and from the dimension that Build takes over. Of the graph, the invariant `LayersInv` says of a build under
  way that the layers from the top down to the current one, or all of them in the
  incremental builder, are good: a node of the layer has a list of other nodes of the
  layer, without doubles and within the bound of the layer, and a node below it has none
  (`GoodLayer`). For the fork-joins that is a fact of the last pruning (`PruneList`) and of
  the layout, which gives two places to no node (`LayoutDistinct`); the stages before it
  need not be good. For the incremental builder it holds for the edges of one insertion
  because a search that enters a good layer at nodes of the layer never leaves it
  (`SearchLayerInside`), and what it found is where the layer below is entered, which has
  those nodes too (`PassedGood`). No list has doubles because the candidates are sorted
  by a strict order: a place in `Nearest` is a rank.
- `BuiltSearchIsExact` (`WideSearchIsExact`). A search that is as wide as the index keeps
  all it visits (`KeptAll`: its results are the nodes with the current mark), so its nearest
  candidate is never farther than its worst result, and of a node that is no candidate any
  more all neighbours were visited (`Settled`). After h rounds it has used up h candidates or
  has none left, so the bound on the rounds in the model is never met; what it ends with is
  closed, and within the reach of the entry step by step (`WideSearching`). On the way down
  a search that has a result keeps one (`DescendFinds`).
- `CandidatesSound` (`CandidatesAreSound`), under `WideEnough`: every configuration has a
  ConstructionL above one (the default is 200). Without that it is false: a search of
  width one that starts at the node itself finds nothing else, and with CandidateK and
  ConstructionL both 1, which the configuration check lets through, every list is empty
  after the first acquire (TLC shows it with that configuration on the data of `fasthnsw`). The invariant `CandidateInv` says
  what each stage is fed (`IsFed`): sorted candidates, or, between the prunings and the
  search of a refinement, lists that still hold another node. That no list becomes empty
  goes around the loop: a fruitful draw (`InitialIdsPicks`, `ExchangePicks`) leaves
  candidates, a pruning keeps the first other node it meets (`PruneSome`), merging only
  adds (`MergeSome`), and a search that starts at a node with another neighbour and has
  room for two keeps one that is not the node itself (`SearchLayerFruitful`). A layer that
  goes through the stages at all has three nodes or more. TLC checked `CandidateInv` on
  the instance of `fasthnsw` before it was proved.

**Only model-checked**: liveness (`EveryAddReturns`, `EverySearchReturns`, `BuildsEnd`) and
ENABLED (`SomeAddCanGoOn`), which are beyond the prover.

## 6. Reading a counterexample

Each of the violation runs on an index is a handful of calls from an empty one; the
trace of `tlc -config <cfg> <module>` lists them as actions with their labels and ids.
The trace of `psearch_pool` ends in a state from which no thread can go on: each search
is at `wait` or at `join`, with a worker of its own still in `pool`.

## 7. Not modelled, and why

- **Duplicates** (`support_duplicate_`, the duplicate trackers): off by default and off
  in the configuration modelled; on, they change Add, search, Remove and the format.
- **Versions of points** (`support_remove`): off by default and off in the configuration
  modelled. On, a sparse cell writes as many versions as it has and reads as many as it
  has lists (`sparse_graph_datacell.cpp:151`, `172`). A Move erases a list but not its
  version (336), so what follows in the file is then misread.
- **resize() during concurrent Adds, exceptions of pool tasks, writes beyond a shrunk
  cell**: data races or accesses out of bounds, for which the language defines no
  outcome. They are listed as hazards.
- **Weak memory** in `ParallelSearch`: the model has the ordering of x86.
- **Quantizers, SIMD kernels, distances in floating point, cosine**: numeric.
- **IO, storage, byte formats, formats before v0.15**: bytes without protocol; what a
  load keeps is in `HGraphPersist`, and what it accepts in `FastHnswGraph`.
- **hnswlib port**: the older index that HGraph replaces, adapted from third-party code.
- **IVF, Pyramid, SINDI, Warp, sparse index**: indexes of their own over the same label
  table; clustering, posting lists and path trees.
- **ODescent build, Merge, Tune, ExportModel, attribute filter and parser, analyzer,
  factory, bindings, tools**: batch numeric work, generated code, wiring.

The bulk of the repository's lines lies in these parts (kernels for five instruction
sets, quantizers, formats, indexes that share HGraph's parts), so the share of lines
that the map covers stays small.

## 8. Plan

Done: pool, label table, BruteForce, graph cells, HGraph with persistence, concurrent
insertion in two grains, sequential and parallel search, FastHNSW; theorems for every
safety property of these components that the prover can state, and for FastHNSW's
partition. Next, in this order:

1. **Duplicates**: the rings of duplicate ids and what Remove does to them.
2. **Pyramid and IVF**: Add and Remove over the shared label table.
