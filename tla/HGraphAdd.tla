----------------------------- MODULE HGraphAdd -----------------------------
(***************************************************************************)
(* HGraph::Add on several threads (hgraph_build.cpp), with its critical     *)
(* sections as the steps: the label is looked up, an id is allocated, the   *)
(* label is stored, the code is written, and the point is linked, each      *)
(* under another mutex.  A point that raises the top level, or is the first,*)
(* is linked under add_mutex_ and an exclusive global_mutex_ and becomes the*)
(* entry; every other one is linked level by level under a shared           *)
(* global_mutex_, beside others.  MARK_REMOVE and UpdateId hold only the    *)
(* label_lookup_mutex_ and come in between; FORCE_REMOVE excludes Add       *)
(* (force_remove_mutex_) and is in module HGraph.  Searches run beside the  *)
(* Adds: what one can see is stated by the invariants.                      *)
(*                                                                         *)
(* The edits of one level are one step here; module HGraphInsert has them   *)
(* apart.  The Adds stay within the capacity: a resize() would move the     *)
(* label vector under mutexes that Insert does not hold.                    *)
(***************************************************************************)
EXTENDS HGraph

CONSTANTS
    Threads,    \* the threads that add
    NoThread    \* the owner of a mutex that is free

ASSUME ThreadAssumption == NoThread \notin Threads

VARIABLES
    pc,         \* where a thread is in Add
    job,        \* what it adds: label, vector, id and level
    ep,         \* the entry its search of the next level starts at
    at,         \* the level it links next: 0 for the bottom graph
    add_mutex   \* who holds add_mutex_ beyond a step

avars == <<pc, job, ep, at, add_mutex>>

AllVars == <<vars, avars>>

NoJob == [label |-> Blank, vector |-> NoVector, id |-> INVALID_ID, level |-> -1]

AddInit ==
    /\ Init
    /\ pc = [t \in Threads |-> "idle"]
    /\ job = [t \in Threads |-> NoJob]
    /\ ep = [t \in Threads |-> INVALID_ID]
    /\ at = [t \in Threads |-> 0]
    /\ add_mutex = NoThread

AddMutexFree == add_mutex = NoThread

Goto(t, from, to) == pc[t] = from /\ pc' = [pc EXCEPT ![t] = to]

----------------------------------------------------------------------------
(* Add of one vector.                                                       *)

\* try_recover_tombstone: a label that is present goes to failed_ids.
LookUp(t, label, v) ==
    /\ Goto(t, "idle", "allocate")
    /\ ~ CheckLabel(lt, label)
    /\ job' = [job EXCEPT ![t] = [NoJob EXCEPT !.label = label, !.vector = v]]
    /\ UNCHANGED <<vars, ep, at, add_mutex>>

\* Under add_mutex_.
Allocate(t) ==
    /\ Goto(t, "allocate", "label")
    /\ AddMutexFree
    /\ total_count < max_capacity                            \* no resize
    /\ job' = [job EXCEPT ![t].id = total_count]
    /\ total_count' = total_count + 1
    /\ UNCHANGED <<lt, delete_count, max_capacity, codes, bottom, routes, entry,
                   ep, at, add_mutex>>

\* An Add that leaves the codes for the end.
StoreLabelDefers(t) ==
    /\ Goto(t, "label", "decide")
    /\ lt' = Insert(lt, job[t].id, job[t].label)
    /\ \E level \in -1 .. MaxLevel : job' = [job EXCEPT ![t].level = level]
    /\ UNCHANGED <<total_count, delete_count, max_capacity, codes, bottom, routes,
                   entry, ep, at, add_mutex>>

\* Under label_lookup_mutex_, as is the draw of the level that follows; the
\* label is not looked up again.
StoreLabel(t) ==
    /\ Goto(t, "label", "codes")
    /\ lt' = Insert(lt, job[t].id, job[t].label)
    /\ \E level \in -1 .. MaxLevel : job' = [job EXCEPT ![t].level = level]
    /\ UNCHANGED <<total_count, delete_count, max_capacity, codes, bottom, routes,
                   entry, ep, at, add_mutex>>

\* insert_persistent_codes, under a shared add_mutex_.
WriteCodes(t) ==
    /\ Goto(t, "codes", "decide")
    /\ AddMutexFree
    /\ codes' = [codes EXCEPT ![job[t].id] = job[t].vector]
    /\ UNCHANGED <<lt, total_count, delete_count, max_capacity, bottom, routes,
                   entry, job, ep, at, add_mutex>>

\* add_one_point takes add_mutex_ and decides; it keeps the mutex when the
\* point becomes the entry and lets it go when it does not.
Decide(t) ==
    LET grows == job[t].level >= Len(routes) \/ ~ bottom.any IN
    /\ pc[t] = "decide"
    /\ AddMutexFree
    /\ pc' = [pc EXCEPT ![t] = IF grows THEN "grow" ELSE "share"]
    /\ add_mutex' = IF grows THEN t ELSE NoThread
    /\ UNCHANGED <<vars, job, ep, at>>

\* Nobody links under a shared global_mutex_.
GlobalMutexFree == \A t \in Threads : pc[t] # "link"

\* The graphs with the new point when one thread links it on every level.
GrownRoutes(level) ==
    [j \in 1 .. (IF level >= Len(routes) THEN level + 1 ELSE Len(routes)) |->
        IF j <= Len(routes) THEN routes[j] ELSE EmptyGraph]

\* A Grow that leaves the entry where it is.
GrowKeepsEntry(t) ==
    LET level == job[t].level
        grown == GrownRoutes(level)
    IN
    /\ Goto(t, "grow", "idle")
    /\ GlobalMutexFree
    /\ \E start \in StartsBelow(level) :
          /\ bottom' \in Linked(bottom, job[t].id, start, MaxDegree)
          /\ routes' \in Choices([j \in DOMAIN grown |->
                             IF j <= level + 1
                             THEN Linked(grown[j], job[t].id, start, RouteDegree)
                             ELSE {grown[j]}])
    /\ entry' = IF entry = INVALID_ID THEN job[t].id ELSE entry
    /\ add_mutex' = NoThread
    /\ job' = [job EXCEPT ![t] = NoJob]
    /\ UNCHANGED <<lt, total_count, delete_count, max_capacity, codes, ep, at>>

\* A Grow that does not give add_mutex_ back.
GrowKeepsMutex(t) ==
    LET level == job[t].level
        grown == GrownRoutes(level)
    IN
    /\ Goto(t, "grow", "idle")
    /\ GlobalMutexFree
    /\ \E start \in StartsBelow(level) :
          /\ bottom' \in Linked(bottom, job[t].id, start, MaxDegree)
          /\ routes' \in Choices([j \in DOMAIN grown |->
                             IF j <= level + 1
                             THEN Linked(grown[j], job[t].id, start, RouteDegree)
                             ELSE {grown[j]}])
    /\ entry' = job[t].id
    /\ job' = [job EXCEPT ![t] = NoJob]
    /\ UNCHANGED <<lt, total_count, delete_count, max_capacity, codes, ep, at, add_mutex>>

\* The exclusive path, under add_mutex_ and all of global_mutex_.
Grow(t) ==
    LET level == job[t].level
        grown == GrownRoutes(level)
    IN
    /\ Goto(t, "grow", "idle")
    /\ GlobalMutexFree
    /\ \E start \in StartsBelow(level) :
          /\ bottom' \in Linked(bottom, job[t].id, start, MaxDegree)
          /\ routes' \in Choices([j \in DOMAIN grown |->
                             IF j <= level + 1
                             THEN Linked(grown[j], job[t].id, start, RouteDegree)
                             ELSE {grown[j]}])
    /\ entry' = job[t].id
    /\ add_mutex' = NoThread
    /\ job' = [job EXCEPT ![t] = NoJob]
    /\ UNCHANGED <<lt, total_count, delete_count, max_capacity, codes, ep, at>>

\* The shared path: the entry is read and the upper levels are descended once
\* global_mutex_ is held; another point may have become the entry since Decide.
Share(t) ==
    /\ Goto(t, "share", "link")
    /\ \E start \in StartsBelow(job[t].level) : ep' = [ep EXCEPT ![t] = start]
    /\ UNCHANGED <<vars, job, at, add_mutex>>

\* A link that takes every level for empty.
LinkAlone(t) ==
    LET id == job[t].id IN
    /\ pc[t] = "link"
    /\ IF at[t] = 0
       THEN bottom' = InsertNeighborsById(bottom, id, {}) /\ UNCHANGED routes
       ELSE /\ routes' = [routes EXCEPT ![at[t]] = InsertNeighborsById(@, id, {})]
            /\ UNCHANGED bottom
    /\ IF at[t] <= job[t].level
       THEN at' = [at EXCEPT ![t] = @ + 1] /\ UNCHANGED <<pc, job, ep>>
       ELSE /\ pc' = [pc EXCEPT ![t] = "idle"]
            /\ job' = [job EXCEPT ![t] = NoJob]
            /\ ep' = [ep EXCEPT ![t] = INVALID_ID]
            /\ at' = [at EXCEPT ![t] = 0]
    /\ UNCHANGED <<lt, total_count, delete_count, max_capacity, codes, entry, add_mutex>>

\* graph_add_one on one level; after the last the thread leaves.
Link(t) ==
    LET id == job[t].id IN
    /\ pc[t] = "link"
    /\ IF at[t] = 0
       THEN bottom' \in Linked(bottom, id, ep[t], MaxDegree) /\ UNCHANGED routes
       ELSE /\ \E g \in Linked(routes[at[t]], id, ep[t], RouteDegree) :
                  routes' = [routes EXCEPT ![at[t]] = g]
            /\ UNCHANGED bottom
    /\ IF at[t] <= job[t].level
       THEN at' = [at EXCEPT ![t] = @ + 1] /\ UNCHANGED <<pc, job, ep>>
       ELSE /\ pc' = [pc EXCEPT ![t] = "idle"]
            /\ job' = [job EXCEPT ![t] = NoJob]
            /\ ep' = [ep EXCEPT ![t] = INVALID_ID]
            /\ at' = [at EXCEPT ![t] = 0]
    /\ UNCHANGED <<lt, total_count, delete_count, max_capacity, codes, entry, add_mutex>>

Step(t) ==
    \/ Allocate(t) \/ StoreLabel(t) \/ WriteCodes(t) \/ Decide(t)
    \/ Grow(t) \/ Share(t) \/ Link(t)

AddNext ==
    \/ \E t \in Threads, label \in Labels, v \in Vectors : LookUp(t, label, v)
    \/ \E t \in Threads : Step(t)
    \/ \E label \in Labels : RemoveMark(label) /\ UNCHANGED avars
    \/ \E old, new \in Labels : UpdateId(old, new) /\ UNCHANGED avars

AddSpec == AddInit /\ [][AddNext]_AllVars

----------------------------------------------------------------------------
(* Properties.                                                              *)

Quiet == \A t \in Threads : pc[t] = "idle"

\* What a search beside the Adds can come across has its label and its code:
\* a point is linked last, so nobody names a blank label or computes with a
\* code that was never written.
VisiblePointsAreComplete ==
    entry # INVALID_ID =>
        \A i \in Reachable(bottom, entry) :
            /\ i < total_count
            /\ lt.table[i] \in Labels
            /\ codes[i] # NoVector

\* Once the Adds are over, every point they allocated can be reached, however
\* the links of two points crossed and whoever became the entry meanwhile.
QuietPointsAreReachable ==
    Quiet /\ total_count > 0 /\ MaxDegree > MaxId =>
        0 .. total_count - 1 \subseteq Reachable(bottom, entry)

\* The Adds never wait for one another in a circle: as long as one is under
\* way, and is not just out of ids, one can go on.  (An Add has finitely many
\* steps, so they all return.)
SomeAddCanGoOn ==
    (\E t \in Threads : /\ pc[t] # "idle"
                        /\ pc[t] = "allocate" => total_count < max_capacity)
        => ENABLED (\E t \in Threads : Step(t))
=============================================================================
