----------------------------- MODULE CellProofs -----------------------------
(***************************************************************************)
(* The two stores an index is made of.                                      *)
(*                                                                         *)
(* A level of the graph (GraphCell), for any number of ids and any degree:   *)
(* when reverse edges are kept (use_reverse_edges_) they stay the inverse of *)
(* the lists; which lists an operation changes, and how; the edges stay      *)
(* among the points of the index and of the level; a level whose lists are  *)
(* never cut stays in one piece; and no list outgrows the degree.           *)
(*                                                                         *)
(* The label table (LabelTable), for any number of labels and ids.  Two     *)
(* facts tie the map and the slots together, and they hold only for points  *)
(* that are not removed: the slot of a live point is the one its label is   *)
(* mapped to (LiveMapped), and a present label is mapped to a slot that      *)
(* carries it (PresentPointsBack).  A removed slot may carry a label that   *)
(* belongs to another point by now.                                         *)
(***************************************************************************)
EXTENDS LabelTable, GraphCell, FiniteSetTheorems, TLAPS

\* A level with consistent reverse edges.
Sound(g) == g \in Graph /\ Mirrored(g)

(* A level without points is sound.                                         *)
LEMMA EmptySound == Sound(EmptyGraph)
BY DEF Sound, EmptyGraph, Graph, Mirrored

(* InsertNeighborsById of any set of lists keeps the types of a level and   *)
(* changes just those lists, with or without reverse edges.                 *)
LEMMA InsertListsTyped ==
    ASSUME NEW g \in Graph, NEW D \in SUBSET Ids, NEW new \in [D -> SUBSET Ids]
    PROVE  /\ InsertLists(g, new) \in Graph
           /\ InsertLists(g, new).nbrs =
                 [i \in Ids |-> IF i \in D THEN new[i] ELSE g.nbrs[i]]
           /\ InsertLists(g, new).has = g.has \cup D
           /\ InsertLists(g, new).any = (g.any \/ D # {})
<1> DEFINE h == InsertLists(g, new)
<1>1. DOMAIN new = D
  OBVIOUS
<1>2. /\ g.nbrs \in [Ids -> SUBSET Ids] /\ g.rev \in [Ids -> SUBSET Ids]
      /\ g.has \in SUBSET Ids /\ g.any \in BOOLEAN
  BY DEF Graph
<1>3. /\ h.nbrs = [i \in Ids |-> IF i \in D THEN new[i] ELSE g.nbrs[i]]
      /\ h.rev = UpdateReverseEdges(g, new)
      /\ h.has = g.has \cup D
      /\ h.any = (g.any \/ D # {})
  BY <1>1 DEF InsertLists
<1>4. h.rev \in [Ids -> SUBSET Ids]
  BY <1>1, <1>2, <1>3 DEF UpdateReverseEdges
<1>5. h.nbrs \in [Ids -> SUBSET Ids] /\ h.has \in SUBSET Ids /\ h.any \in BOOLEAN
  BY <1>2, <1>3
<1>6. h = [nbrs |-> h.nbrs, rev |-> h.rev, has |-> h.has, any |-> h.any]
  BY DEF InsertLists
<1>7. h \in Graph
  <2> HIDE DEF h
  <2> QED
    BY <1>4, <1>5, <1>6 DEF Graph
<1> QED
  BY <1>3, <1>7

LEMMA InsertTyped ==
    ASSUME NEW g \in Graph, NEW id \in Ids, NEW L \in SUBSET Ids
    PROVE  /\ InsertNeighborsById(g, id, L) \in Graph
           /\ InsertNeighborsById(g, id, L).nbrs =
                 [i \in Ids |-> IF i = id THEN L ELSE g.nbrs[i]]
           /\ InsertNeighborsById(g, id, L).has = g.has \cup {id}
           /\ InsertNeighborsById(g, id, L).any = TRUE
<1> DEFINE new == [i \in {id} |-> L]
           h == InsertLists(g, new)
<1>1. new \in [{id} -> SUBSET Ids] /\ {id} \in SUBSET Ids /\ new[id] = L
  OBVIOUS
<1>2. /\ h \in Graph
      /\ h.nbrs = [i \in Ids |-> IF i \in {id} THEN new[i] ELSE g.nbrs[i]]
      /\ h.has = g.has \cup {id}
      /\ h.any = (g.any \/ {id} # {})
  <2> HIDE DEF new, h
  <2> QED
    BY <1>1, InsertListsTyped DEF h
<1>3. g.nbrs \in [Ids -> SUBSET Ids]
  BY DEF Graph
<1>4. h.nbrs = [i \in Ids |-> IF i = id THEN L ELSE g.nbrs[i]]
  <2> HIDE DEF h, new
  <2> QED
    BY <1>1, <1>2, <1>3
<1> QED
  BY <1>2, <1>4 DEF InsertNeighborsById

(* InsertNeighborsById of any set of lists keeps a level sound: what        *)
(* UpdateReverseEdges adds and removes is what the lists gain and lose.     *)
LEMMA InsertListsSound ==
    ASSUME UseReverseEdges, NEW g, Sound(g),
           NEW D \in SUBSET Ids, NEW new \in [D -> SUBSET Ids]
    PROVE  Sound(InsertLists(g, new))
<1> DEFINE h == InsertLists(g, new)
<1>1. g \in Graph /\ Mirrored(g) /\ DOMAIN new = D
  BY DEF Sound
<1>2. /\ g.nbrs \in [Ids -> SUBSET Ids] /\ g.rev \in [Ids -> SUBSET Ids]
      /\ g.has \in SUBSET Ids /\ g.any \in BOOLEAN
  BY <1>1 DEF Graph
<1>3. h.nbrs = [i \in Ids |-> IF i \in D THEN new[i] ELSE g.nbrs[i]]
  BY <1>1 DEF InsertLists
<1>4. h.rev = [x \in Ids |->
                 (g.rev[x] \ {i \in D : x \in g.nbrs[i] \ new[i]})
                     \cup {i \in D : x \in new[i] \ g.nbrs[i]}]
  BY <1>1 DEF InsertLists, UpdateReverseEdges
<1>5. h \in Graph
  <2>1. h.nbrs \in [Ids -> SUBSET Ids]
    BY <1>2, <1>3
  <2>2. h.rev \in [Ids -> SUBSET Ids]
    BY <1>2, <1>4
  <2>3. h.has = g.has \cup D /\ h.any = (g.any \/ D # {})
    BY <1>1 DEF InsertLists
  <2>4. h = [nbrs |-> h.nbrs, rev |-> h.rev, has |-> h.has, any |-> h.any]
    BY DEF InsertLists
  <2>5. h.has \in SUBSET Ids /\ h.any \in BOOLEAN
    BY <1>2, <2>3
  <2> HIDE DEF h
  <2> QED
    BY <2>1, <2>2, <2>4, <2>5 DEF Graph
<1>6. Mirrored(h)
  <2> SUFFICES ASSUME NEW i \in Ids, NEW x \in Ids
               PROVE  i \in h.rev[x] <=> x \in h.nbrs[i]
    BY DEF Mirrored
  <2>1. i \in g.rev[x] <=> x \in g.nbrs[i]
    BY <1>1 DEF Mirrored
  <2> HIDE DEF h
  <2> QED
    BY <1>3, <1>4, <2>1
<1> QED
  BY <1>5, <1>6 DEF Sound

LEMMA InsertSound ==
    ASSUME UseReverseEdges, NEW g, Sound(g), NEW id \in Ids, NEW L \in SUBSET Ids
    PROVE  Sound(InsertNeighborsById(g, id, L))
<1>1. [i \in {id} |-> L] \in [{id} -> SUBSET Ids] /\ {id} \in SUBSET Ids
  OBVIOUS
<1> QED
  BY <1>1, InsertListsSound DEF InsertNeighborsById

(* Move of a point to another id keeps a level sound, in either cell.       *)
LEMMA MoveDenseSound ==
    ASSUME UseReverseEdges, NEW g, Sound(g), NEW from \in Ids, NEW to \in Ids
    PROVE  Sound(MoveDense(g, from, to))
<1> DEFINE cleared  == InsertNeighborsById(g, to, {})
           new      == [r \in Incoming(g, from) |-> (cleared.nbrs[r] \ {from}) \cup {to}]
           relinked == InsertLists(cleared, new)
           copied   == InsertNeighborsById(relinked, to, relinked.nbrs[from])
<1>1. Sound(cleared)
  BY InsertSound
<1>2. Incoming(g, from) \in SUBSET Ids
  BY DEF Incoming, Sound, Graph
<1>3. new \in [Incoming(g, from) -> SUBSET Ids]
  <2>1. \A r \in Ids : cleared.nbrs[r] \in SUBSET Ids
    BY <1>1 DEF Sound, Graph
  <2> HIDE DEF cleared
  <2> QED
    BY <1>2, <2>1
<1>4. Sound(relinked)
  <2> HIDE DEF cleared, new
  <2> QED
    BY <1>1, <1>2, <1>3, InsertListsSound
<1>5. Sound(copied)
  <2> HIDE DEF relinked
  <2>1. relinked.nbrs[from] \in SUBSET Ids
    BY <1>4 DEF Sound, Graph
  <2> QED
    BY <1>4, <2>1, InsertSound
<1>6. Sound(InsertNeighborsById(copied, from, {}))
  <2> HIDE DEF copied
  <2> QED
    BY <1>5, InsertSound
<1> QED
  BY <1>6 DEF MoveDense

LEMMA MoveSparseSound ==
    ASSUME UseReverseEdges, NEW g, Sound(g), NEW from \in Ids, NEW to \in Ids
    PROVE  Sound(MoveSparse(g, from, to))
<1>1. Sound(MoveDense(g, from, to))
  BY MoveDenseSound
<1>2. \A h : Sound(h) => Sound([h EXCEPT !.has = @ \ {from}])
  BY DEF Sound, Graph, Mirrored
<1> QED
  BY <1>1, <1>2 DEF MoveSparse

(* The heuristic selects among its candidates.                              *)
LEMMA SelectionsSubset ==
    ASSUME NEW C \in SUBSET Ids, NEW max
    PROVE  Selections(C, max) \subseteq SUBSET Ids
BY DEF Selections

(* A choice of lists from sets of lists of ids.                             *)
LEMMA ChoicesLists ==
    ASSUME NEW D, NEW options, DOMAIN options = D,
           \A n \in D : options[n] \subseteq SUBSET Ids,
           NEW new \in Choices(options)
    PROVE  new \in [D -> SUBSET Ids]
BY DEF Choices

(* mutually_connect_new_element keeps a level sound, whatever it selects.   *)
LEMMA ConnectedSound ==
    ASSUME UseReverseEdges, NEW g, Sound(g), NEW id \in Ids,
           NEW C \in SUBSET Ids, NEW max, NEW h \in Connected(g, id, C, max)
    PROVE  Sound(h)
<1> DEFINE linked(sel) == InsertNeighborsById(g, id, sel)
           options(sel) == [n \in sel |->
                    IF Cardinality(linked(sel).nbrs[n]) < max
                    THEN {linked(sel).nbrs[n] \cup {id}}
                    ELSE Selections(linked(sel).nbrs[n] \cup {id}, max)]
<1>1. PICK sel \in Selections(C, max) : \E new \in Choices(options(sel)) :
         h = InsertLists(linked(sel), new)
  BY DEF Connected
<1>2. PICK new \in Choices(options(sel)) : h = InsertLists(linked(sel), new)
  BY <1>1
<1>3. sel \in SUBSET Ids
  BY SelectionsSubset
<1>4. Sound(linked(sel))
  BY <1>3, InsertSound
<1>5. \A n \in sel : linked(sel).nbrs[n] \cup {id} \in SUBSET Ids
  BY <1>3, <1>4 DEF Sound, Graph
<1>6. DOMAIN options(sel) = sel /\ \A n \in sel : options(sel)[n] \subseteq SUBSET Ids
  <2> HIDE DEF linked
  <2> QED
    BY <1>5, SelectionsSubset
<1>7. new \in [sel -> SUBSET Ids]
  <2> HIDE DEF options
  <2> QED
    BY <1>6, ChoicesLists
<1> HIDE DEF linked
<1> QED
  BY <1>2, <1>3, <1>4, <1>7, InsertListsSound

(* graph_force_remove_one keeps a level sound, whatever the repair selects. *)
LEMMA ForceRemovedSound ==
    ASSUME UseReverseEdges, NEW g, Sound(g), NEW id \in Ids,
           NEW count, NEW max, NEW h \in ForceRemoved(g, id, count, max)
    PROVE  Sound(h)
<1> DEFINE forward  == g.nbrs[id]
           affected == {n \in forward \cup Incoming(g, id) : n < count}
           candidates(n) == {c \in (g.nbrs[n] \ {id}) \cup (forward \ {id, n}) :
                               c < count}
           options  == [n \in affected |-> Selections(candidates(n), max)]
<1>1. h = g \/ \E new \in Choices(options) :
                  h = InsertNeighborsById(InsertLists(g, new), id, {})
  BY DEF ForceRemoved
<1>2. CASE h = g
  BY <1>2
<1>3. ASSUME NEW new \in Choices(options),
             h = InsertNeighborsById(InsertLists(g, new), id, {})
      PROVE  Sound(h)
  <2>1. g.nbrs \in [Ids -> SUBSET Ids] /\ g.rev \in [Ids -> SUBSET Ids]
    BY DEF Sound, Graph
  <2>2. affected \in SUBSET Ids
    BY <2>1 DEF Incoming
  <2>3. \A n \in affected : candidates(n) \in SUBSET Ids
    BY <2>1, <2>2
  <2>4. \A n \in affected : options[n] \subseteq SUBSET Ids
    <3> HIDE DEF candidates, affected
    <3> QED
      BY <2>3, SelectionsSubset
  <2>5. new \in [affected -> SUBSET Ids]
    <3>1. DOMAIN options = affected
      OBVIOUS
    <3> HIDE DEF options, affected
    <3> QED
      BY <3>1, <2>4, ChoicesLists
  <2>6. Sound(InsertLists(g, new))
    <3> HIDE DEF affected
    <3> QED
      BY <2>2, <2>5, InsertListsSound
  <2> QED
    BY <1>3, <2>6, InsertSound
<1> QED
  BY <1>1, <1>2, <1>3

----------------------------------------------------------------------------
(* What the operations do to the lists, with or without reverse edges.      *)

\* h is g with the point id linked to sel.
LinkedTo(g, h, id, sel) ==
    /\ h.has = g.has \cup {id} \cup sel
    /\ h.nbrs[id] = sel
    /\ \A i \in Ids : i \in sel => h.nbrs[i] \subseteq g.nbrs[i] \cup {id}
    /\ \A i \in Ids : i \notin sel /\ i # id => h.nbrs[i] = g.nbrs[i]

\* The lists a removal of id repairs.
ToRepair(g, id, count) == {n \in g.nbrs[id] \cup g.rev[id] : n < count}

\* h is g with the lists of A chosen again without id, and the list of id empty.
RepairedFor(g, h, id, A, count) ==
    /\ h.has = g.has \cup A \cup {id}
    /\ h.any = TRUE
    /\ h.nbrs[id] = {}
    /\ \A i \in Ids : i \in A /\ i # id =>
          \A c \in h.nbrs[i] :
             /\ c < count /\ c # id
             /\ c \in g.nbrs[i] \/ (c \in g.nbrs[id] /\ c # i)
    /\ \A i \in Ids : i \notin A /\ i # id => h.nbrs[i] = g.nbrs[i]

\* h is g with to in the place of from.
MovedTo(g, h, from, to) ==
    /\ h.any = TRUE
    /\ h.has = g.has \cup {from, to} \cup g.rev[from]
    /\ h.nbrs[from] = {}
    /\ h.nbrs[to] = IF from \in g.rev[from] THEN (g.nbrs[from] \ {from}) \cup {to}
                    ELSE g.nbrs[from]
    /\ \A i \in Ids : i # from /\ i # to =>
          h.nbrs[i] = IF i \in g.rev[from] THEN (g.nbrs[i] \ {from}) \cup {to}
                      ELSE g.nbrs[i]

(* mutually_connect_new_element: the new point gets some of the candidates, *)
(* and only the lists of those change: they may gain the point.             *)
LEMMA ConnectedForm ==
    ASSUME NEW g \in Graph, NEW id \in Ids, NEW C \in SUBSET Ids, id \notin C,
           NEW max, NEW h \in Connected(g, id, C, max)
    PROVE  /\ h \in Graph
           /\ h.any = TRUE
           /\ \E sel \in SUBSET C : LinkedTo(g, h, id, sel)
<1> DEFINE linked(sel) == InsertNeighborsById(g, id, sel)
           options(sel) == [n \in sel |->
                    IF Cardinality(linked(sel).nbrs[n]) < max
                    THEN {linked(sel).nbrs[n] \cup {id}}
                    ELSE Selections(linked(sel).nbrs[n] \cup {id}, max)]
<1>1. PICK sel \in Selections(C, max) : \E new \in Choices(options(sel)) :
         h = InsertLists(linked(sel), new)
  BY DEF Connected
<1>2. PICK new \in Choices(options(sel)) : h = InsertLists(linked(sel), new)
  BY <1>1
<1>3. sel \in SUBSET C /\ sel \in SUBSET Ids
  BY DEF Selections
<1>4. /\ linked(sel) \in Graph
      /\ linked(sel).nbrs = [i \in Ids |-> IF i = id THEN sel ELSE g.nbrs[i]]
      /\ linked(sel).has = g.has \cup {id} /\ linked(sel).any = TRUE
  BY <1>3, InsertTyped
<1>5. \A n \in sel : linked(sel).nbrs[n] = g.nbrs[n] /\ g.nbrs[n] \in SUBSET Ids
  BY <1>3, <1>4 DEF Graph
<1>6. \A n \in sel : options(sel)[n] \subseteq SUBSET (g.nbrs[n] \cup {id})
  <2> HIDE DEF linked
  <2> QED
    BY <1>5 DEF Selections
<1>7. new \in [sel -> SUBSET Ids] /\ \A n \in sel : new[n] \subseteq g.nbrs[n] \cup {id}
  <2>1. DOMAIN options(sel) = sel
    OBVIOUS
  <2> HIDE DEF options, linked
  <2>2. \A n \in sel : options(sel)[n] \subseteq SUBSET Ids
    BY <1>5, <1>6
  <2>3. new \in [sel -> SUBSET Ids]
    BY <2>1, <2>2, ChoicesLists
  <2>4. \A n \in sel : new[n] \in options(sel)[n]
    BY <2>1 DEF Choices
  <2> QED
    BY <1>6, <2>3, <2>4
<1> HIDE DEF linked, options
<1>8. /\ h \in Graph
      /\ h.nbrs = [i \in Ids |-> IF i \in sel THEN new[i] ELSE linked(sel).nbrs[i]]
      /\ h.has = linked(sel).has \cup sel
      /\ h.any = (linked(sel).any \/ sel # {})
  BY <1>2, <1>3, <1>4, <1>7, InsertListsTyped
<1>9. h.any = TRUE /\ h.has = g.has \cup {id} \cup sel
  BY <1>4, <1>8
<1>10. h.nbrs[id] = sel
  BY <1>3, <1>4, <1>8
<1>11. \A i \in Ids : i \in sel => h.nbrs[i] \subseteq g.nbrs[i] \cup {id}
  BY <1>7, <1>8
<1>12. \A i \in Ids : i \notin sel /\ i # id => h.nbrs[i] = g.nbrs[i]
  BY <1>4, <1>8
<1>13. LinkedTo(g, h, id, sel)
  BY <1>9, <1>10, <1>11, <1>12 DEF LinkedTo
<1> QED
  BY <1>3, <1>8, <1>9, <1>13

(* graph_force_remove_one: the list of the point is emptied, and the lists  *)
(* of its in- and out-neighbours are chosen again without it.               *)
LEMMA ForceRemovedForm ==
    ASSUME NEW g \in Graph, NEW id \in Ids, NEW count, NEW max,
           NEW h \in ForceRemoved(g, id, count, max)
    PROVE  /\ h \in Graph
           /\ \/ h = g /\ g.nbrs[id] = {} /\ g.rev[id] = {}
              \/ RepairedFor(g, h, id, ToRepair(g, id, count), count)
<1> DEFINE forward  == g.nbrs[id]
           A == {n \in forward \cup Incoming(g, id) : n < count}
           candidates(n) == {c \in (g.nbrs[n] \ {id}) \cup (forward \ {id, n}) :
                               c < count}
           options  == [n \in A |-> Selections(candidates(n), max)]
<1>1. \/ h = g /\ g.nbrs[id] = {} /\ g.rev[id] = {}
      \/ \E new \in Choices(options) :
            h = InsertNeighborsById(InsertLists(g, new), id, {})
  BY DEF ForceRemoved, Incoming
<1>2. CASE h = g /\ g.nbrs[id] = {} /\ g.rev[id] = {}
  BY <1>2
<1>3. ASSUME NEW new \in Choices(options),
             h = InsertNeighborsById(InsertLists(g, new), id, {})
      PROVE  h \in Graph /\ RepairedFor(g, h, id, A, count)
  <2>1. g.nbrs \in [Ids -> SUBSET Ids] /\ g.rev \in [Ids -> SUBSET Ids]
    BY DEF Graph
  <2>2. A \in SUBSET Ids
    BY <2>1 DEF Incoming
  <2>3. \A n \in A : candidates(n) \in SUBSET Ids
    BY <2>1, <2>2
  <2>4. DOMAIN options = A /\ \A n \in A : options[n] \subseteq SUBSET candidates(n)
    <3> HIDE DEF candidates, A
    <3> QED
      BY DEF Selections
  <2>5. \A n \in A : options[n] \subseteq SUBSET Ids
    <3> HIDE DEF candidates, A, options
    <3> QED
      BY <2>3, <2>4
  <2>6. new \in [A -> SUBSET Ids] /\ \A n \in A : new[n] \subseteq candidates(n)
    <3> HIDE DEF options, A, candidates
    <3>1. new \in [A -> SUBSET Ids]
      BY <2>4, <2>5, ChoicesLists
    <3>2. \A n \in A : new[n] \in options[n]
      BY <2>4 DEF Choices
    <3> QED
      BY <2>4, <3>1, <3>2
  <2> DEFINE mid == InsertLists(g, new)
             none == {}
  <2>7. /\ mid \in Graph
        /\ mid.nbrs = [i \in Ids |-> IF i \in A THEN new[i] ELSE g.nbrs[i]]
        /\ mid.has = g.has \cup A
    <3> HIDE DEF A
    <3> QED
      BY <2>2, <2>6, InsertListsTyped
  <2>8. /\ h \in Graph
        /\ h.nbrs = [i \in Ids |-> IF i = id THEN none ELSE mid.nbrs[i]]
        /\ h.has = mid.has \cup {id} /\ h.any = TRUE
    <3>1. none \in SUBSET Ids /\ h = InsertNeighborsById(mid, id, none)
      BY <1>3
    <3>2. mid \in Graph
      BY <2>7
    <3> HIDE DEF mid, none
    <3> QED
      BY <3>1, <3>2, InsertTyped
  <2> HIDE DEF mid
  <2>9. h.has = g.has \cup A \cup {id} /\ h.nbrs[id] = {}
    BY <2>7, <2>8
  <2>10. \A i \in Ids : i \in A /\ i # id => h.nbrs[i] \subseteq candidates(i)
    <3> HIDE DEF candidates, A
    <3> QED
      BY <2>6, <2>7, <2>8
  <2>11. \A i \in Ids : i \notin A /\ i # id => h.nbrs[i] = g.nbrs[i]
    <3> HIDE DEF A
    <3> QED
      BY <2>7, <2>8
  <2>12. \A i \in Ids : i \in A /\ i # id =>
           \A c \in h.nbrs[i] :
              /\ c < count /\ c # id
              /\ c \in g.nbrs[i] \/ (c \in g.nbrs[id] /\ c # i)
    BY <2>10
  <2> HIDE DEF A
  <2> QED
    BY <2>8, <2>9, <2>11, <2>12 DEF RepairedFor
<1>4. A = ToRepair(g, id, count)
  BY DEF ToRepair, Incoming
<1> HIDE DEF A, options
<1> QED
  BY <1>1, <1>2, <1>3, <1>4

(* Move of a point: the lists the reverse edges name get the new id for the *)
(* old one, the new id gets the list of the old one, which is emptied.      *)
LEMMA MoveDenseForm ==
    ASSUME NEW g \in Graph, NEW from \in Ids, NEW to \in Ids, from # to
    PROVE  /\ MoveDense(g, from, to) \in Graph
           /\ MovedTo(g, MoveDense(g, from, to), from, to)
<1> DEFINE none == {}
           cleared == InsertNeighborsById(g, to, none)
           R == Incoming(g, from)
           new == [r \in R |-> (cleared.nbrs[r] \ {from}) \cup {to}]
           relinked == InsertLists(cleared, new)
           list == relinked.nbrs[from]
           copied == InsertNeighborsById(relinked, to, list)
           moved == InsertNeighborsById(copied, from, none)
<1>0. none \in SUBSET Ids /\ R = g.rev[from] /\ R \in SUBSET Ids
      /\ \A i \in Ids : g.nbrs[i] \in SUBSET Ids
  BY DEF Incoming, Graph
<1>1. /\ cleared \in Graph /\ cleared.has = g.has \cup {to}
      /\ cleared.nbrs = [i \in Ids |-> IF i = to THEN none ELSE g.nbrs[i]]
  <2> HIDE DEF none
  <2> QED
    BY <1>0, InsertTyped
<1>2. new \in [R -> SUBSET Ids]
      /\ \A r \in R : new[r] = (cleared.nbrs[r] \ {from}) \cup {to}
  <2> HIDE DEF cleared, R
  <2>1. \A r \in R : cleared.nbrs[r] \in SUBSET Ids
    BY <1>0, <1>1 DEF Graph
  <2> QED
    BY <1>0, <2>1
<1>3. /\ relinked \in Graph /\ relinked.has = cleared.has \cup R
      /\ relinked.nbrs = [i \in Ids |-> IF i \in R THEN new[i] ELSE cleared.nbrs[i]]
  <2>1. cleared \in Graph /\ R \in SUBSET Ids /\ new \in [R -> SUBSET Ids]
    BY <1>0, <1>1, <1>2
  <2> HIDE DEF cleared, R, new
  <2> QED
    BY <2>1, InsertListsTyped
<1>4. list \in SUBSET Ids
  <2> HIDE DEF relinked
  <2> QED
    BY <1>3 DEF Graph
<1>5. /\ copied \in Graph /\ copied.has = relinked.has \cup {to}
      /\ copied.nbrs = [i \in Ids |-> IF i = to THEN list ELSE relinked.nbrs[i]]
  <2>1. relinked \in Graph
    BY <1>3
  <2> HIDE DEF relinked, list
  <2> QED
    BY <2>1, <1>4, InsertTyped
<1>6. /\ moved \in Graph /\ moved.has = copied.has \cup {from} /\ moved.any = TRUE
      /\ moved.nbrs = [i \in Ids |-> IF i = from THEN none ELSE copied.nbrs[i]]
  <2>1. copied \in Graph
    BY <1>5
  <2> HIDE DEF copied, none
  <2> QED
    BY <1>0, <2>1, InsertTyped
<1>7. moved = MoveDense(g, from, to)
  BY DEF MoveDense
<1> HIDE DEF moved, copied, relinked, new, cleared, R
<1>8. list = IF from \in R THEN (g.nbrs[from] \ {from}) \cup {to} ELSE g.nbrs[from]
  BY <1>1, <1>2, <1>3
<1> HIDE DEF list
<1>9. moved.nbrs[from] = {} /\ moved.nbrs[to] = list
  BY <1>5, <1>6
<1>10. \A i \in Ids : i # from /\ i # to =>
         moved.nbrs[i] = IF i \in R THEN (g.nbrs[i] \ {from}) \cup {to} ELSE g.nbrs[i]
  <2> SUFFICES ASSUME NEW i \in Ids, i # from, i # to
               PROVE  moved.nbrs[i] = IF i \in R THEN (g.nbrs[i] \ {from}) \cup {to}
                                      ELSE g.nbrs[i]
    OBVIOUS
  <2>1. moved.nbrs[i] = relinked.nbrs[i]
    BY <1>5, <1>6
  <2>2. relinked.nbrs[i] = IF i \in R THEN new[i] ELSE g.nbrs[i]
    BY <1>1, <1>3
  <2>3. i \in R => new[i] = (g.nbrs[i] \ {from}) \cup {to}
    BY <1>1, <1>2
  <2> QED
    BY <2>1, <2>2, <2>3
<1>11. moved.has = g.has \cup {from, to} \cup R
  BY <1>1, <1>3, <1>5, <1>6
<1>12. MovedTo(g, moved, from, to)
  BY <1>0, <1>6, <1>8, <1>9, <1>10, <1>11 DEF MovedTo
<1> QED
  BY <1>6, <1>7, <1>12

(* Either move keeps the types of a level.                                  *)
LEMMA MoveTyped ==
    ASSUME NEW g \in Graph, NEW from \in Ids, NEW to \in Ids, from # to
    PROVE  MoveDense(g, from, to) \in Graph /\ MoveSparse(g, from, to) \in Graph
<1>1. MoveDense(g, from, to) \in Graph
  BY MoveDenseForm
<1>2. \A h \in Graph : [h EXCEPT !.has = @ \ {from}] \in Graph
  BY DEF Graph
<1> QED
  BY <1>1, <1>2 DEF MoveSparse

----------------------------------------------------------------------------
(* What the operations do to the edges of a level: they stay among the      *)
(* points of the index and the points of the level.                         *)

\* No edge of a level has an end at id.
NoEdgeAt(g, id) == g.nbrs[id] = {} /\ \A i \in Ids : id \notin g.nbrs[i]

\* The points of a level are the ones of another and n.
Gains(g, h, n) == h.has = g.has \cup {n}

(* A search that starts on a level stays on it, and all it visits but where *)
(* it starts are points.                                                    *)
LEMMA ReachableInside ==
    ASSUME NEW g \in Graph, NEW n, EdgesInside(g, n), NEW ep \in g.has,
           NEW x \in Reachable(g, ep)
    PROVE  x \in g.has /\ (x < n \/ x = ep)
<1> DEFINE S == {i \in g.has : i < n \/ i = ep}
<1>1. g.has \in SUBSET Ids /\ g.nbrs \in [Ids -> SUBSET Ids]
  BY DEF Graph
<1>2. ep \in S /\ S \in SUBSET Ids
  BY <1>1
<1>3. Closed(g, S)
  BY <1>1 DEF Closed, EdgesInside
<1>4. x \in S
  <2> HIDE DEF S
  <2> QED
    BY <1>2, <1>3 DEF Reachable
<1> QED
  BY <1>4

(* An empty list added to a level.                                          *)
LEMMA InsertNoneTidy ==
    ASSUME NEW g \in Graph, NEW n \in Ids, EdgesInside(g, n)
    PROVE  /\ InsertNeighborsById(g, n, {}) \in Graph
           /\ EdgesInside(InsertNeighborsById(g, n, {}), n + 1)
           /\ InsertNeighborsById(g, n, {}).has = g.has \cup {n}
           /\ InsertNeighborsById(g, n, {}).any = TRUE
<1> DEFINE none == {}
           h == InsertNeighborsById(g, n, none)
<1>1. /\ h \in Graph /\ h.has = g.has \cup {n} /\ h.any = TRUE
      /\ h.nbrs = [i \in Ids |-> IF i = n THEN none ELSE g.nbrs[i]]
  <2>1. none \in SUBSET Ids
    OBVIOUS
  <2> HIDE DEF none
  <2> QED
    BY <2>1, InsertTyped
<1>2. EdgesInside(h, n + 1)
  <2> SUFFICES ASSUME NEW i \in Ids, NEW x \in Ids, x \in h.nbrs[i]
               PROVE  i < n + 1 /\ x < n + 1 /\ i # x /\ i \in h.has /\ x \in h.has
    BY DEF EdgesInside
  <2>1. x \in g.nbrs[i]
    BY <1>1
  <2>2. i < n /\ x < n /\ i # x /\ i \in h.has /\ x \in h.has
    BY <1>1, <2>1 DEF EdgesInside
  <2>3. i \in Int /\ x \in Int /\ n \in Int
    BY MaxIdAssumption DEF Ids
  <2> QED
    BY <2>2, <2>3
<1> QED
  BY <1>1, <1>2

(* The new point n linked to points of the level: the level gains just it.  *)
LEMMA ConnectedTidy ==
    ASSUME NEW g \in Graph, NEW n \in Ids, EdgesInside(g, n),
           NEW C \in SUBSET g.has, \A c \in C : c < n,
           NEW max, NEW h \in Connected(g, n, C, max)
    PROVE  /\ h \in Graph
           /\ EdgesInside(h, n + 1)
           /\ Gains(g, h, n)
           /\ h.any = TRUE
<1>0. n \in Int /\ (\A i \in Ids : i \in Int)
  BY MaxIdAssumption DEF Ids
<1>1. C \in SUBSET Ids /\ n \notin C
  BY <1>0 DEF Graph
<1>2. h \in Graph /\ h.any = TRUE /\ \E sel \in SUBSET C : LinkedTo(g, h, n, sel)
  <2>1. n \in Ids /\ C \in SUBSET Ids /\ n \notin C
    BY <1>1
  <2> QED
    BY <2>1, ConnectedForm
<1>3. PICK sel \in SUBSET C :
            /\ h.has = g.has \cup {n} \cup sel
            /\ h.nbrs[n] = sel
            /\ \A i \in Ids : i \in sel => h.nbrs[i] \subseteq g.nbrs[i] \cup {n}
            /\ \A i \in Ids : i \notin sel /\ i # n => h.nbrs[i] = g.nbrs[i]
  BY <1>2 DEF LinkedTo
<1>4. h.has = g.has \cup {n}
  BY <1>3
<1>5. EdgesInside(h, n + 1)
  <2> SUFFICES ASSUME NEW i \in Ids, NEW x \in Ids, x \in h.nbrs[i]
               PROVE  i < n + 1 /\ x < n + 1 /\ i # x /\ i \in h.has /\ x \in h.has
    BY DEF EdgesInside
  <2>0. i \in Int /\ x \in Int
    BY <1>0
  <2>1. CASE i = n
    <3>1. x \in C /\ x < n /\ x \in g.has
      BY <1>3, <2>1
    <3> QED
      BY <1>0, <1>4, <2>0, <2>1, <3>1
  <2>2. CASE i # n /\ x = n
    <3>1. x \notin g.nbrs[i]
      <4>1. x \in g.nbrs[i] => x < n
        BY DEF EdgesInside
      <4> QED
        BY <1>0, <2>2, <4>1
    <3>2. i \in sel
      BY <1>3, <2>2, <3>1
    <3>3. i < n /\ i \in g.has
      BY <3>2
    <3> QED
      BY <1>0, <1>4, <2>0, <2>2, <3>3
  <2>3. CASE i # n /\ x # n
    <3>1. x \in g.nbrs[i]
      BY <1>3, <2>3
    <3>2. i < n /\ x < n /\ i # x /\ i \in g.has /\ x \in g.has
      BY <3>1 DEF EdgesInside
    <3> QED
      BY <1>0, <1>4, <2>0, <3>2
  <2> QED
    BY <2>1, <2>2, <2>3
<1> QED
  BY <1>2, <1>4, <1>5 DEF Gains

(* graph_force_remove_one leaves no edge at the point it removes, because   *)
(* the reverse edges name every list to repair.                             *)
LEMMA ForceRemovedTidy ==
    ASSUME NEW g, Sound(g), NEW n, EdgesInside(g, n), NEW id \in Ids,
           NEW max, NEW h \in ForceRemoved(g, id, n, max)
    PROVE  /\ h \in Graph
           /\ EdgesInside(h, n)
           /\ NoEdgeAt(h, id)
           /\ h.has = g.has
           /\ g.any => h.any
<1>0. g \in Graph /\ (\A i \in Ids : g.nbrs[i] \in SUBSET Ids /\ g.rev[i] \in SUBSET Ids)
  BY DEF Sound, Graph
<1>1. \A i \in Ids : i \in g.rev[id] <=> id \in g.nbrs[i]
  BY DEF Sound, Mirrored
<1>2. /\ h \in Graph
      /\ \/ h = g /\ g.nbrs[id] = {} /\ g.rev[id] = {}
         \/ RepairedFor(g, h, id, ToRepair(g, id, n), n)
  <2>1. g \in Graph
    BY <1>0
  <2> QED
    BY <2>1, ForceRemovedForm
<1>3. CASE h = g /\ g.nbrs[id] = {} /\ g.rev[id] = {}
  BY <1>0, <1>1, <1>3 DEF NoEdgeAt
<1>4. ASSUME ~ (g.nbrs[id] = {} /\ g.rev[id] = {}),
             NEW A, A = {c \in g.nbrs[id] \cup g.rev[id] : c < n},
             h.has = g.has \cup A \cup {id}, h.any = TRUE, h.nbrs[id] = {},
             \A i \in Ids : i \in A /\ i # id =>
                \A c \in h.nbrs[i] :
                   /\ c < n /\ c # id
                   /\ c \in g.nbrs[i] \/ (c \in g.nbrs[id] /\ c # i),
             \A i \in Ids : i \notin A /\ i # id => h.nbrs[i] = g.nbrs[i]
      PROVE  EdgesInside(h, n) /\ NoEdgeAt(h, id) /\ h.has = g.has
  <2>1. \A i \in Ids : i \in A => i < n /\ i \in g.has
    BY <1>0, <1>1, <1>4 DEF EdgesInside
  <2>2. A \in SUBSET Ids /\ A \in SUBSET g.has
    BY <1>0, <1>4, <2>1
  <2>3. id \in g.has
    BY <1>0, <1>1, <1>4 DEF EdgesInside
  <2>4. h.has = g.has
    BY <1>4, <2>2, <2>3
  <2>5. \A i \in Ids : i \notin A => id \notin g.nbrs[i]
    <3> SUFFICES ASSUME NEW i \in Ids, id \in g.nbrs[i] PROVE i \in A
      OBVIOUS
    <3>1. i < n /\ i \in g.rev[id]
      BY <1>1 DEF EdgesInside
    <3> QED
      BY <1>4, <3>1
  <2>6. NoEdgeAt(h, id)
    BY <1>4, <2>5 DEF NoEdgeAt
  <2>7. EdgesInside(h, n)
    <3> SUFFICES ASSUME NEW i \in Ids, NEW x \in Ids, x \in h.nbrs[i]
                 PROVE  i < n /\ x < n /\ i # x /\ i \in g.has /\ x \in g.has
      BY <2>4 DEF EdgesInside
    <3>1. i # id
      BY <1>4
    <3>2. CASE i \in A
      <4>1. x < n /\ (x \in g.nbrs[i] \/ (x \in g.nbrs[id] /\ x # i))
        BY <1>4, <3>1, <3>2
      <4>2. i # x /\ x \in g.has
        BY <4>1 DEF EdgesInside
      <4> QED
        BY <2>1, <3>2, <4>1, <4>2
    <3>3. CASE i \notin A
      <4>1. x \in g.nbrs[i]
        BY <1>4, <3>1, <3>3
      <4> QED
        BY <4>1 DEF EdgesInside
    <3> QED
      BY <3>2, <3>3
  <2> QED
    BY <2>4, <2>6, <2>7
<1>5. CASE ~ (g.nbrs[id] = {} /\ g.rev[id] = {})
  <2>1. RepairedFor(g, h, id, ToRepair(g, id, n), n)
    BY <1>2, <1>5
  <2>2. EdgesInside(h, n) /\ NoEdgeAt(h, id) /\ h.has = g.has
    BY <1>4, <1>5, <2>1 DEF RepairedFor, ToRepair
  <2> QED
    BY <1>2, <2>1, <2>2 DEF RepairedFor
<1>6. CASE g.nbrs[id] = {} /\ g.rev[id] = {}
  <2>1. h \in {g}
    BY <1>6 DEF ForceRemoved, Incoming
  <2> QED
    BY <1>3, <1>6, <2>1
<1> QED
  BY <1>5, <1>6

(* A level without edges at its last point has them below it.               *)
LEMMA LastTidy ==
    ASSUME NEW g \in Graph, NEW last \in Ids, NEW n, n = last + 1,
           EdgesInside(g, n), NoEdgeAt(g, last)
    PROVE  EdgesInside(g, last)
<1> SUFFICES ASSUME NEW i \in Ids, NEW x \in Ids, x \in g.nbrs[i]
             PROVE  i < last /\ x < last /\ i # x /\ i \in g.has /\ x \in g.has
  BY DEF EdgesInside
<1>1. i < n /\ x < n /\ i # x /\ i \in g.has /\ x \in g.has
  BY DEF EdgesInside
<1>2. i # last /\ x # last
  BY DEF NoEdgeAt
<1>3. i \in Int /\ x \in Int /\ last \in Int
  BY MaxIdAssumption DEF Ids
<1> QED
  BY <1>1, <1>2, <1>3

(* The move of the last point to the id of a removed one leaves no edge at  *)
(* its old id.                                                              *)
LEMMA MoveDenseTidy ==
    ASSUME NEW g, Sound(g), NEW from \in Ids, NEW n, n = from + 1, EdgesInside(g, n),
           NEW to \in Ids, to < from, NoEdgeAt(g, to)
    PROVE  /\ MoveDense(g, from, to) \in Graph
           /\ EdgesInside(MoveDense(g, from, to), from)
           /\ NoEdgeAt(MoveDense(g, from, to), from)
           /\ \A x : x \in MoveDense(g, from, to).has
                     <=> x \in g.has \/ x = from \/ x = to
           /\ MoveDense(g, from, to).any = TRUE
<1> DEFINE h == MoveDense(g, from, to)
<1>0. /\ g \in Graph /\ from \in Ids /\ (\A i \in Ids : i \in Int) /\ from # to
      /\ (\A i \in Ids : g.nbrs[i] \in SUBSET Ids /\ g.rev[i] \in SUBSET Ids)
  <2>1. to \in Int /\ from \in Int /\ (\A i \in Ids : i \in Int)
    BY MaxIdAssumption DEF Ids
  <2> QED
    BY <2>1 DEF Sound, Graph
<1>1. \A i \in Ids : i \in g.rev[from] <=> from \in g.nbrs[i]
  BY <1>0 DEF Sound, Mirrored
<1>2. from \notin g.rev[from] /\ to \notin g.rev[from] /\ g.rev[from] \subseteq g.has
  BY <1>0, <1>1 DEF EdgesInside, NoEdgeAt
<1>3. /\ h \in Graph /\ h.any = TRUE
      /\ h.has = g.has \cup {from, to} \cup g.rev[from]
      /\ h.nbrs[from] = {}
      /\ h.nbrs[to] = IF from \in g.rev[from] THEN (g.nbrs[from] \ {from}) \cup {to}
                      ELSE g.nbrs[from]
      /\ \A i \in Ids : i # from /\ i # to =>
            h.nbrs[i] = IF i \in g.rev[from] THEN (g.nbrs[i] \ {from}) \cup {to}
                        ELSE g.nbrs[i]
  <2>1. g \in Graph /\ from \in Ids /\ to \in Ids /\ from # to
    BY <1>0
  <2> HIDE DEF h
  <2>2. h \in Graph /\ MovedTo(g, h, from, to)
    BY <2>1, MoveDenseForm DEF h
  <2> QED
    BY <2>2 DEF MovedTo
<1> HIDE DEF h
<1>4. h.has = g.has \cup {from, to}
  BY <1>2, <1>3
<1>5. \A i \in Ids : \A x \in h.nbrs[i] :
         i # from /\ x # from /\ i # x /\ i < n /\ x < n /\ i \in h.has /\ x \in h.has
  <2> SUFFICES ASSUME NEW i \in Ids, NEW x \in h.nbrs[i]
               PROVE  /\ i # from /\ x # from /\ i # x /\ i < n /\ x < n
                      /\ i \in h.has /\ x \in h.has
    OBVIOUS
  <2>0. x \in Ids /\ to < n /\ i # from
    <3>1. h.nbrs[i] \in SUBSET Ids
      BY <1>3 DEF Graph
    <3>2. to \in Int /\ from \in Int
      BY <1>0
    <3> QED
      BY <1>3, <3>1, <3>2
  <2>1. CASE i = to
    <3>1. x \in g.nbrs[from]
      BY <1>2, <1>3, <2>1
    <3>2. x < n /\ x # from /\ x \in g.has /\ x # to
      BY <1>0, <2>0, <3>1 DEF EdgesInside, NoEdgeAt
    <3> QED
      BY <1>4, <2>0, <2>1, <3>2
  <2>2. CASE i # to /\ i \in g.rev[from]
    <3>1. from \in g.nbrs[i]
      BY <1>1, <2>2
    <3>2. i < n /\ i \in g.has
      BY <1>0, <3>1 DEF EdgesInside
    <3>3. (x = to) \/ (x # from /\ x \in g.nbrs[i])
      BY <1>3, <2>0, <2>2
    <3>4. CASE x = to
      BY <1>0, <1>4, <2>0, <2>2, <3>2, <3>4
    <3>5. CASE x # from /\ x \in g.nbrs[i]
      <4>1. x < n /\ x # i /\ x \in g.has
        BY <2>0, <3>5 DEF EdgesInside
      <4> QED
        BY <1>4, <2>0, <3>2, <3>5, <4>1
    <3> QED
      BY <3>3, <3>4, <3>5
  <2>3. CASE i # to /\ i \notin g.rev[from]
    <3>1. x \in g.nbrs[i] /\ from \notin g.nbrs[i]
      BY <1>1, <1>3, <2>0, <2>3
    <3>2. i < n /\ x < n /\ x # i /\ i \in g.has /\ x \in g.has /\ x # from
      BY <2>0, <3>1 DEF EdgesInside
    <3> QED
      BY <1>4, <2>0, <3>2
  <2> QED
    BY <2>1, <2>2, <2>3
<1>6. NoEdgeAt(h, from)
  BY <1>3, <1>5 DEF NoEdgeAt
<1>7. EdgesInside(h, n)
  BY <1>5 DEF EdgesInside
<1>8. EdgesInside(h, from)
  BY <1>3, <1>6, <1>7, LastTidy
<1> QED
  BY <1>3, <1>4, <1>6, <1>8 DEF h

(* The same in a sparse cell, which forgets the old id; a point that is not *)
(* on the level leaves it alone.                                            *)
LEMMA MoveSparseTidy ==
    ASSUME NEW g, Sound(g), NEW from \in Ids, NEW n, n = from + 1, EdgesInside(g, n),
           NEW to \in Ids, to < from, NoEdgeAt(g, to)
    PROVE  /\ MoveSparse(g, from, to) \in Graph
           /\ EdgesInside(MoveSparse(g, from, to), from)
           /\ MoveSparse(g, from, to).has =
                 IF from \in g.has THEN (g.has \cup {to}) \ {from} ELSE g.has
<1> DEFINE h == MoveDense(g, from, to)
           m == [h EXCEPT !.has = @ \ {from}]
<1>0. to # from /\ g \in Graph /\ from \in Ids
  <2>1. to \in Int /\ from \in Int
    BY MaxIdAssumption DEF Ids
  <2> QED
    BY <2>1 DEF Sound
<1>1. /\ h \in Graph /\ EdgesInside(h, from) /\ NoEdgeAt(h, from)
      /\ h.has = g.has \cup {from, to}
  <2> HIDE DEF h, m
  <2>1. h \in Graph
    BY MoveDenseTidy DEF h
  <2>2. EdgesInside(h, from)
    BY MoveDenseTidy DEF h
  <2>3. NoEdgeAt(h, from)
    BY MoveDenseTidy DEF h
  <2>4. \A x : x \in h.has <=> x \in g.has \/ x = from \/ x = to
    BY MoveDenseTidy DEF h
  <2> QED
    BY <2>1, <2>2, <2>3, <2>4
<1>2. CASE from \in g.has
  <2>1. MoveSparse(g, from, to) = m
    BY <1>2 DEF MoveSparse
  <2> HIDE DEF h
  <2>2. m \in Graph /\ m.nbrs = h.nbrs /\ m.has = h.has \ {from}
    BY <1>1 DEF Graph
  <2> HIDE DEF m
  <2>3. EdgesInside(m, from)
    <3> SUFFICES ASSUME NEW i \in Ids, NEW x \in Ids, x \in h.nbrs[i]
                 PROVE  i < from /\ x < from /\ i # x /\ i \in m.has /\ x \in m.has
      BY <2>2 DEF EdgesInside
    <3>1. i < from /\ x < from /\ i # x /\ i \in h.has /\ x \in h.has
      BY <1>1 DEF EdgesInside
    <3>2. i # from /\ x # from
      BY <1>1 DEF NoEdgeAt
    <3> QED
      BY <2>2, <3>1, <3>2
  <2>4. m.has = (g.has \cup {to}) \ {from}
    BY <1>0, <1>1, <2>2
  <2> QED
    BY <1>2, <2>1, <2>2, <2>3, <2>4
<1>3. CASE from \notin g.has
  <2>1. MoveSparse(g, from, to) = g
    BY <1>3 DEF MoveSparse
  <2>2. NoEdgeAt(g, from)
    <3>1. \A i \in Ids : from \notin g.nbrs[i]
      BY <1>0, <1>3 DEF EdgesInside
    <3>2. g.nbrs[from] \in SUBSET Ids
      BY <1>0 DEF Graph
    <3>3. g.nbrs[from] = {}
      BY <1>0, <1>3, <3>2 DEF EdgesInside
    <3> QED
      BY <3>1, <3>3 DEF NoEdgeAt
  <2>3. EdgesInside(g, from)
    BY <1>0, <2>2, LastTidy
  <2> QED
    BY <1>0, <1>3, <2>1, <2>3
<1> QED
  BY <1>2, <1>3

----------------------------------------------------------------------------
(* Levels whose lists are never cut stay in one piece.                      *)

\* No list of ids is as long as the maximum degree.
NeverCut(max) == \A C \in SUBSET Ids : Cardinality(C) < max

\* An edge leads both ways.
Symmetric(g) == \A i, x \in Ids : x \in g.nbrs[i] => i \in g.nbrs[x]

\* From any point below n but id a search visits all of them.
JoinedBut(g, n, id) ==
    \A S \in SUBSET Ids : Closed(g, S) /\ (\E i \in S : i < n /\ i # id) =>
        \A x \in Ids : x < n /\ x # id => x \in S

Joined(g, n) ==
    \A S \in SUBSET Ids : Closed(g, S) /\ (\E i \in S : i < n) =>
        \A x \in Ids : x < n => x \in S

\* h is g with all of C connected to id.
LinkedToAll(g, h, id, C) ==
    /\ h.nbrs[id] = C
    /\ \A i \in Ids : i \in C => h.nbrs[i] = g.nbrs[i] \cup {id}
    /\ \A i \in Ids : i \notin C /\ i # id => h.nbrs[i] = g.nbrs[i]

(* mutually_connect_new_element then keeps every candidate, both ways.      *)
LEMMA ConnectedAll ==
    ASSUME NEW g \in Graph, NEW id \in Ids, NEW C \in SUBSET Ids, id \notin C,
           NEW max, NeverCut(max), NEW h \in Connected(g, id, C, max)
    PROVE  LinkedToAll(g, h, id, C)
<1> DEFINE linked == InsertNeighborsById(g, id, C)
           options == [n \in C |->
                    IF Cardinality(linked.nbrs[n]) < max
                    THEN {linked.nbrs[n] \cup {id}}
                    ELSE Selections(linked.nbrs[n] \cup {id}, max)]
<1>1. Selections(C, max) = {C}
  BY DEF Selections, NeverCut
<1>2. PICK new \in Choices(options) : h = InsertLists(linked, new)
  BY <1>1 DEF Connected
<1>3. linked \in Graph /\ linked.nbrs = [i \in Ids |-> IF i = id THEN C ELSE g.nbrs[i]]
  BY InsertTyped
<1>4. \A n \in C : linked.nbrs[n] = g.nbrs[n] /\ g.nbrs[n] \in SUBSET Ids
  BY <1>3 DEF Graph
<1>5. DOMAIN options = C /\ \A n \in C : options[n] = {g.nbrs[n] \cup {id}}
  <2> HIDE DEF linked
  <2> QED
    BY <1>4 DEF NeverCut
<1> HIDE DEF linked, options
<1>6. new \in [C -> SUBSET Ids] /\ \A n \in C : new[n] = g.nbrs[n] \cup {id}
  <2>1. \A n \in C : options[n] \subseteq SUBSET Ids
    BY <1>4, <1>5
  <2>2. new \in [C -> SUBSET Ids]
    BY <1>5, <2>1, ChoicesLists
  <2>3. \A n \in C : new[n] \in options[n]
    BY <1>5 DEF Choices
  <2> QED
    BY <1>5, <2>2, <2>3
<1>7. h.nbrs = [i \in Ids |-> IF i \in C THEN new[i] ELSE linked.nbrs[i]]
  BY <1>2, <1>3, <1>6, InsertListsTyped
<1> QED
  BY <1>3, <1>6, <1>7 DEF LinkedToAll

(* A new point that is connected to some point joins the others.            *)
LEMMA ConnectedJoined ==
    ASSUME NEW g \in Graph, NEW n \in Ids, EdgesInside(g, n), Symmetric(g), Joined(g, n),
           NEW C \in SUBSET Ids, \A c \in C : c < n, C # {} \/ n = 0,
           NEW max, NeverCut(max), NEW h \in Connected(g, n, C, max)
    PROVE  Symmetric(h) /\ Joined(h, n + 1)
<1>0. /\ (\A i \in Ids : i \in Int /\ 0 <= i) /\ n \in Int /\ n \notin C
      /\ \A i \in Ids : g.nbrs[i] \in SUBSET Ids
  BY MaxIdAssumption DEF Ids, Graph
<1>1. LinkedToAll(g, h, n, C)
  BY <1>0, ConnectedAll
<1>2. /\ h.nbrs[n] = C
      /\ \A i \in Ids : i \in C => h.nbrs[i] = g.nbrs[i] \cup {n}
      /\ \A i \in Ids : i \notin C /\ i # n => h.nbrs[i] = g.nbrs[i]
  BY <1>1 DEF LinkedToAll
<1>3. g.nbrs[n] = {} /\ \A i \in Ids : n \notin g.nbrs[i]
  <2>1. ~ (n < n)
    BY <1>0
  <2>2. \A i, x \in Ids : x \in g.nbrs[i] => i < n /\ x < n
    BY DEF EdgesInside
  <2> QED
    BY <1>0, <2>1, <2>2
<1>4. Symmetric(h)
  <2> SUFFICES ASSUME NEW i \in Ids, NEW x \in Ids, x \in h.nbrs[i]
               PROVE  i \in h.nbrs[x]
    BY DEF Symmetric
  <2>1. CASE i = n
    BY <1>2, <2>1
  <2>2. CASE i # n /\ x = n
    BY <1>2, <1>3, <2>2
  <2>3. CASE i # n /\ x # n
    <3>1. x \in g.nbrs[i]
      BY <1>2, <2>3
    <3>2. i \in g.nbrs[x]
      BY <3>1 DEF Symmetric
    <3> QED
      BY <1>2, <2>3, <3>2
  <2> QED
    BY <2>1, <2>2, <2>3
<1>5. Joined(h, n + 1)
  <2> SUFFICES ASSUME NEW S \in SUBSET Ids, Closed(h, S), NEW i \in S, i < n + 1,
                      NEW x \in Ids, x < n + 1
               PROVE  x \in S
    BY DEF Joined
  <2>0. i \in Int /\ 0 <= i /\ x \in Int /\ 0 <= x
    BY <1>0
  <2>1. CASE n = 0
    BY <1>0, <2>0, <2>1
  <2>2. CASE n # 0
    <3>1. PICK c \in C : TRUE
      BY <2>2
    <3> DEFINE T == S \ {n}
    <3>2. T \in SUBSET Ids /\ Closed(g, T)
      <4> SUFFICES ASSUME NEW j \in T, NEW y \in g.nbrs[j] PROVE y \in S /\ y # n
        BY DEF Closed
      <4>1. g.nbrs[j] \subseteq h.nbrs[j]
        BY <1>2
      <4> QED
        BY <1>3, <4>1 DEF Closed
    <3>3. \E k \in T : k < n
      <4>1. CASE i = n
        <5>1. c \in S
          BY <1>2, <3>1, <4>1 DEF Closed
        <5> QED
          BY <1>0, <3>1, <5>1
      <4>2. CASE i # n
        <5>1. i < n
          BY <1>0, <2>0, <4>2
        <5> QED
          BY <4>2, <5>1
      <4> QED
        BY <4>1, <4>2
    <3>4. \A y \in Ids : y < n => y \in T
      <4> HIDE DEF T
      <4> QED
        BY <3>2, <3>3 DEF Joined
    <3>5. c \in S /\ n \in S
      <4>1. c \in S /\ c \in Ids
        BY <3>1, <3>4
      <4>2. n \in h.nbrs[c]
        BY <1>2, <3>1, <4>1
      <4> QED
        BY <4>1, <4>2 DEF Closed
    <3>6. x = n \/ x < n
      BY <1>0, <2>0
    <3> QED
      BY <3>4, <3>5, <3>6
  <2> QED
    BY <2>1, <2>2
<1> QED
  BY <1>4, <1>5

\* h is g without id, whose neighbours are joined to each other.
RepairedAll(g, h, id) ==
    /\ h.nbrs[id] = {}
    /\ \A i \in Ids : i \in g.nbrs[id] =>
          \A x \in Ids : x \in h.nbrs[i] <=>
             x # id /\ (x \in g.nbrs[i] \/ (x \in g.nbrs[id] /\ x # i))
    /\ \A i \in Ids : i \notin g.nbrs[id] /\ i # id => h.nbrs[i] = g.nbrs[i]

(* graph_force_remove_one then joins all neighbours of the point.           *)
LEMMA ForceRemovedAll ==
    ASSUME NEW g, Sound(g), NEW n, EdgesInside(g, n), Symmetric(g), NEW id \in Ids,
           NEW max, NeverCut(max), NEW h \in ForceRemoved(g, id, n, max)
    PROVE  h \in Graph /\ RepairedAll(g, h, id)
<1> DEFINE F == g.nbrs[id]
           candidates(c) == {x \in (g.nbrs[c] \ {id}) \cup (F \ {id, c}) : x < n}
           options == [c \in F |-> Selections(candidates(c), max)]
           none == {}
<1>0. g \in Graph /\ F \in SUBSET Ids /\ \A i \in Ids : g.nbrs[i] \in SUBSET Ids
  BY DEF Sound, Graph
<1>1. h \in Graph
  BY <1>0, ForceRemovedForm
<1>2. Incoming(g, id) = F /\ \A c \in F : c < n /\ c # id
  <2>1. g.rev[id] \in SUBSET Ids
    BY <1>0 DEF Graph
  <2>2. \A i \in Ids : i \in g.rev[id] <=> i \in F
    BY <1>0 DEF Sound, Mirrored, Symmetric
  <2>3. \A c \in F : c < n /\ c # id
    BY <1>0 DEF EdgesInside
  <2> HIDE DEF F
  <2> QED
    BY <1>0, <2>1, <2>2, <2>3 DEF Incoming
<1>3. {c \in F \cup Incoming(g, id) : c < n} = F
  BY <1>2
<1>4. CASE F = {}
  <2>1. h = g
    BY <1>2, <1>4 DEF ForceRemoved
  <2> QED
    BY <1>1, <1>4, <2>1 DEF RepairedAll
<1>5. CASE F # {}
  <2>1. PICK new \in Choices(options) : h = InsertNeighborsById(InsertLists(g, new), id, none)
    BY <1>2, <1>3, <1>5 DEF ForceRemoved
  <2>2. \A c \in F : candidates(c) \in SUBSET Ids
    BY <1>0
  <2>3. DOMAIN options = F /\ \A c \in F : options[c] = {candidates(c)}
    <3> HIDE DEF candidates, F
    <3> QED
      BY <2>2 DEF Selections, NeverCut
  <2>4. new \in [F -> SUBSET Ids] /\ \A c \in F : new[c] = candidates(c)
    <3> HIDE DEF options, candidates, F
    <3>1. \A c \in F : options[c] \subseteq SUBSET Ids
      BY <2>2, <2>3
    <3>2. new \in [F -> SUBSET Ids]
      BY <2>3, <3>1, ChoicesLists
    <3>3. \A c \in F : new[c] \in options[c]
      BY <2>3 DEF Choices
    <3> QED
      BY <2>3, <3>2, <3>3
  <2> DEFINE mid == InsertLists(g, new)
  <2>5. mid \in Graph /\ mid.nbrs = [i \in Ids |-> IF i \in F THEN new[i] ELSE g.nbrs[i]]
    <3> HIDE DEF F
    <3> QED
      BY <1>0, <2>4, InsertListsTyped
  <2> HIDE DEF mid
  <2>6. h.nbrs = [i \in Ids |-> IF i = id THEN none ELSE mid.nbrs[i]]
    <3>1. none \in SUBSET Ids /\ h = InsertNeighborsById(mid, id, none)
      BY <2>1 DEF mid
    <3>2. mid \in Graph
      BY <2>5
    <3> HIDE DEF none
    <3> QED
      BY <3>1, <3>2, InsertTyped
  <2>7. \A i \in Ids : i \in F => h.nbrs[i] = candidates(i)
    <3> HIDE DEF candidates, F, none
    <3> QED
      BY <1>2, <2>4, <2>5, <2>6
  <2>8. \A i \in Ids : i \notin F /\ i # id => h.nbrs[i] = g.nbrs[i]
    <3> HIDE DEF F, none
    <3> QED
      BY <2>5, <2>6
  <2>9. h.nbrs[id] = {}
    BY <2>6
  <2>10. \A i \in Ids : i \in F => \A x \in Ids : x \in h.nbrs[i] <=>
             x # id /\ (x \in g.nbrs[i] \/ (x \in F /\ x # i))
    <3>1. \A i, x \in Ids : x \in g.nbrs[i] => x < n
      BY DEF EdgesInside
    <3> QED
      BY <2>7, <3>1
  <2> QED
    BY <1>1, <2>8, <2>9, <2>10 DEF RepairedAll
<1> QED
  BY <1>4, <1>5

(* A removal leaves the other points in one piece: a search that reaches one *)
(* neighbour of the point reaches all of them, and one that reaches none     *)
(* could not have reached the point.                                         *)
LEMMA ForceRemovedJoined ==
    ASSUME NEW g, Sound(g), NEW n, EdgesInside(g, n), Symmetric(g), Joined(g, n),
           NEW id \in Ids, id < n,
           NEW max, NeverCut(max), NEW h \in ForceRemoved(g, id, n, max)
    PROVE  Symmetric(h) /\ JoinedBut(h, n, id)
<1> DEFINE F == g.nbrs[id]
<1>0. F \in SUBSET Ids /\ (\A i \in Ids : g.nbrs[i] \in SUBSET Ids /\ h.nbrs[i] \in SUBSET Ids)
  BY ForceRemovedAll DEF Sound, Graph
<1>1. RepairedAll(g, h, id)
  BY ForceRemovedAll
<1>2. /\ h.nbrs[id] = {}
      /\ \A i \in Ids : i \in F =>
            \A x \in Ids : x \in h.nbrs[i] <=> x # id /\ (x \in g.nbrs[i] \/ (x \in F /\ x # i))
      /\ \A i \in Ids : i \notin F /\ i # id => h.nbrs[i] = g.nbrs[i]
  BY <1>1 DEF RepairedAll
<1>3. /\ id \notin F
      /\ \A i \in Ids : id \in g.nbrs[i] <=> i \in F
      /\ \A i, x \in Ids : x \in g.nbrs[i] <=> i \in g.nbrs[x]
  BY DEF EdgesInside, Symmetric
<1> HIDE DEF F
<1>4. Symmetric(h)
  <2> SUFFICES ASSUME NEW i \in Ids, NEW x \in Ids, x \in h.nbrs[i]
               PROVE  i \in h.nbrs[x]
    BY DEF Symmetric
  <2>1. i # id
    BY <1>2
  <2>2. x # id
    BY <1>2, <1>3, <2>1
  <2>3. x \in g.nbrs[i] \/ (i \in F /\ x \in F /\ x # i)
    BY <1>2, <2>1
  <2>4. i \in g.nbrs[x] \/ (i \in F /\ x \in F /\ x # i)
    BY <1>3, <2>3
  <2>5. CASE x \in F
    BY <1>2, <2>1, <2>4, <2>5
  <2>6. CASE x \notin F
    BY <1>2, <2>2, <2>4, <2>6
  <2> QED
    BY <2>5, <2>6
<1>5. JoinedBut(h, n, id)
  <2> SUFFICES ASSUME NEW S \in SUBSET Ids, Closed(h, S), NEW i \in S, i < n, i # id,
                      NEW x \in Ids, x < n, x # id
               PROVE  x \in S
    BY DEF JoinedBut
  <2>0. \A j \in S : h.nbrs[j] \subseteq S
    BY DEF Closed
  <2>1. CASE \E c \in F : c \in S
    <3>1. PICK c \in F : c \in S
      BY <2>1
    <3>2. F \subseteq S
      BY <1>0, <1>2, <1>3, <2>0, <3>1
    <3> DEFINE T == S \cup {id}
    <3>3. T \in SUBSET Ids /\ i \in T
      OBVIOUS
    <3>4. Closed(g, T)
      <4> SUFFICES ASSUME NEW j \in T, NEW y \in g.nbrs[j] PROVE y \in S \/ y = id
        BY DEF Closed
      <4>1. CASE j = id
        BY <3>2, <4>1 DEF F
      <4>2. CASE j # id /\ j \in F
        BY <1>0, <1>2, <2>0, <4>2
      <4>3. CASE j # id /\ j \notin F
        BY <1>2, <2>0, <4>3
      <4> QED
        BY <4>1, <4>2, <4>3
    <3> HIDE DEF T
    <3>5. x \in T
      BY <3>3, <3>4 DEF Joined
    <3> QED
      BY <3>5 DEF T
  <2>2. CASE ~ \E c \in F : c \in S
    <3> DEFINE T == S \ {id}
    <3>1. T \in SUBSET Ids /\ i \in T
      OBVIOUS
    <3>2. Closed(g, T)
      <4> SUFFICES ASSUME NEW j \in T, NEW y \in g.nbrs[j] PROVE y \in S /\ y # id
        BY DEF Closed
      <4>1. j \in S /\ j # id /\ j \notin F
        BY <2>2
      <4> QED
        BY <1>2, <1>3, <2>0, <4>1
    <3>3. id \notin T
      OBVIOUS
    <3> HIDE DEF T
    <3>4. id \in T
      BY <3>1, <3>2 DEF Joined
    <3> QED
      BY <3>3, <3>4
  <2> QED
    BY <2>1, <2>2
<1> QED
  BY <1>4, <1>5

(* The removed point was the last one.                                      *)
LEMMA LastJoined ==
    ASSUME NEW g, NEW last \in Ids, NEW n, n = last + 1, JoinedBut(g, n, last)
    PROVE  Joined(g, last)
<1>1. \A i \in Ids : i < last => i < n /\ i # last
  <2>1. \A i \in Ids : i \in Int
    BY MaxIdAssumption DEF Ids
  <2> QED
    BY <2>1
<1> QED
  BY <1>1 DEF Joined, JoinedBut

(* Move gives the last point another name.                                  *)
LEMMA MoveJoined ==
    ASSUME NEW g, Sound(g), NEW from \in Ids, NEW n, n = from + 1, EdgesInside(g, n),
           NEW to \in Ids, to < from, NoEdgeAt(g, to), Symmetric(g), JoinedBut(g, n, to)
    PROVE  Symmetric(MoveDense(g, from, to)) /\ Joined(MoveDense(g, from, to), from)
<1> DEFINE h == MoveDense(g, from, to)
<1>0. /\ g \in Graph /\ (\A i \in Ids : i \in Int) /\ from # to /\ n \in Int
      /\ (\A i \in Ids : g.nbrs[i] \in SUBSET Ids)
  <2>1. to \in Int /\ from \in Int /\ (\A i \in Ids : i \in Int)
    BY MaxIdAssumption DEF Ids
  <2> QED
    BY <2>1 DEF Sound, Graph
<1>1. \A i \in Ids : i \in g.rev[from] <=> from \in g.nbrs[i]
  BY <1>0 DEF Sound, Mirrored
<1>2. from \notin g.nbrs[from] /\ g.nbrs[to] = {} /\ \A i \in Ids : to \notin g.nbrs[i]
  BY <1>0 DEF EdgesInside, NoEdgeAt
<1>3. h \in Graph /\ MovedTo(g, h, from, to)
  BY <1>0, MoveDenseForm
<1> HIDE DEF h
<1>4. /\ h.nbrs[from] = {} /\ h.nbrs[to] = g.nbrs[from]
      /\ \A i \in Ids : i # from /\ i # to => \A x \in Ids :
            x \in h.nbrs[i] <=>
               (x = to /\ from \in g.nbrs[i]) \/ (x # from /\ x \in g.nbrs[i])
  <2>1. from \notin g.rev[from]
    BY <1>1, <1>2
  <2>2. h.nbrs[from] = {} /\ h.nbrs[to] = g.nbrs[from]
    BY <1>3, <2>1 DEF MovedTo
  <2>3. ASSUME NEW i \in Ids, i # from, i # to, NEW x \in Ids
        PROVE  x \in h.nbrs[i] <=>
               (x = to /\ from \in g.nbrs[i]) \/ (x # from /\ x \in g.nbrs[i])
    <3>1. h.nbrs[i] = IF i \in g.rev[from] THEN (g.nbrs[i] \ {from}) \cup {to} ELSE g.nbrs[i]
      BY <1>3, <2>3 DEF MovedTo
    <3>2. CASE i \in g.rev[from]
      BY <1>0, <1>1, <3>1, <3>2
    <3>3. CASE i \notin g.rev[from]
      BY <1>1, <3>1, <3>3
    <3> QED
      BY <3>2, <3>3
  <2> QED
    BY <2>2, <2>3
<1>5. \A i, x \in Ids : x \in g.nbrs[i] <=> i \in g.nbrs[x]
  BY DEF Symmetric
<1>6. Symmetric(h)
  <2> SUFFICES ASSUME NEW i \in Ids, NEW x \in Ids, x \in h.nbrs[i]
               PROVE  i \in h.nbrs[x]
    BY DEF Symmetric
  <2>1. i # from
    BY <1>4
  <2>2. CASE i = to
    <3>1. x \in g.nbrs[from] /\ x # from /\ x # to
      BY <1>2, <1>4, <2>2
    <3>2. from \in g.nbrs[x]
      BY <1>5, <3>1
    <3>3. to \in h.nbrs[x]
      BY <1>4, <3>1, <3>2
    <3> QED
      BY <2>2, <3>3
  <2>3. CASE i # to /\ x = to
    <3>1. from \in g.nbrs[i]
      BY <1>2, <1>4, <2>1, <2>3
    <3> QED
      BY <1>4, <1>5, <2>3, <3>1
  <2>4. CASE i # to /\ x # to
    <3>1. x # from /\ x \in g.nbrs[i]
      BY <1>4, <2>1, <2>4
    <3> QED
      BY <1>4, <1>5, <2>1, <2>4, <3>1
  <2> QED
    BY <2>2, <2>3, <2>4
<1>7. Joined(h, from)
  <2> SUFFICES ASSUME NEW S \in SUBSET Ids, Closed(h, S), NEW i \in S, i < from,
                      NEW x \in Ids, x < from
               PROVE  x \in S
    BY DEF Joined
  <2>0. \A j \in S : h.nbrs[j] \subseteq S
    BY DEF Closed
  <2> DEFINE T == {j \in Ids : (j \in S /\ j # to /\ j # from) \/ (j = from /\ to \in S)}
  <2>1. Closed(g, T)
    <3> SUFFICES ASSUME NEW j \in T, NEW y \in g.nbrs[j] PROVE y \in T
      BY DEF Closed
    <3>1. y \in Ids /\ y # to /\ j \in Ids
      BY <1>0, <1>2
    <3>2. CASE j = from
      <4>1. y # from /\ y \in h.nbrs[to] /\ to \in S
        BY <1>2, <1>4, <3>2
      <4> QED
        BY <2>0, <3>1, <4>1
    <3>3. CASE j # from
      <4>1. j \in S /\ j # to
        BY <3>3
      <4>2. CASE y = from
        <5>1. to \in h.nbrs[j]
          BY <1>4, <3>1, <3>3, <4>1, <4>2
        <5>2. to \in S
          BY <2>0, <4>1, <5>1
        <5> QED
          BY <4>2, <5>2
      <4>3. CASE y # from
        BY <1>4, <2>0, <3>1, <3>3, <4>1, <4>3
      <4> QED
        BY <4>2, <4>3
    <3> QED
      BY <3>2, <3>3
  <2>2. from < n /\ \A k \in Ids : k < from => k < n /\ k # from
    BY <1>0
  <2>3. \E k \in T : k < n /\ k # to
    <3>1. CASE i = to
      <4>1. from \in T
        BY <3>1
      <4> QED
        BY <1>0, <2>2, <4>1
    <3>2. CASE i # to
      <4>1. i \in T /\ i < n
        BY <2>2, <3>2
      <4> QED
        BY <3>2, <4>1
    <3> QED
      BY <3>1, <3>2
  <2>4. \A y \in Ids : y < n /\ y # to => y \in T
    <3>1. T \in SUBSET Ids
      OBVIOUS
    <3> HIDE DEF T
    <3> QED
      BY <2>1, <2>3, <3>1 DEF JoinedBut
  <2>5. CASE x = to
    <3>1. from \in T
      BY <1>0, <2>2, <2>4
    <3> QED
      BY <1>0, <2>5, <3>1
  <2>6. CASE x # to
    <3>1. x \in T /\ x # from
      BY <2>2, <2>4, <2>6
    <3> QED
      BY <3>1
  <2> QED
    BY <2>5, <2>6
<1> QED
  BY <1>6, <1>7 DEF h

\* The slots in use carry labels of users.
SlotsLabelled(tab, n) ==
    n <= tab.size /\ \A i \in Ids : i < n => tab.table[i] \in Labels

LiveMapped(tab, n) ==
    \A i \in Ids : i < n /\ i \notin tab.deleted => IdOf(tab, tab.table[i]) = i

PresentPointsBack(tab, n) ==
    \A l \in AnyLabel : CheckLabel(tab, l) =>
        IdOf(tab, l) < n /\ tab.table[IdOf(tab, l)] = l

LabelsAgree(tab, n) ==
    SlotsLabelled(tab, n) /\ LiveMapped(tab, n) /\ PresentPointsBack(tab, n)

----------------------------------------------------------------------------
(* Ids and sets of ids.                                                     *)

LEMMA IdFacts ==
    /\ MaxId \in Nat /\ INVALID_ID \notin Ids
    /\ \A i \in Ids : i \in Int /\ 0 <= i /\ i < MaxId
    /\ \A n \in Int : 0 <= n /\ n < MaxId => n \in Ids
    /\ Labels \subseteq AnyLabel /\ Blank \in AnyLabel
BY MaxIdAssumption DEF Ids, INVALID_ID, AnyLabel

LEMMA SubsetsFinite ==
    ASSUME NEW S \in SUBSET Ids
    PROVE  IsFiniteSet(S) /\ Cardinality(S) \in 0 .. MaxId
<1>1. IsFiniteSet(0 .. MaxId - 1) /\ Cardinality(0 .. MaxId - 1) = MaxId
  BY IdFacts, FS_Interval
<1>2. IsFiniteSet(S) /\ Cardinality(S) <= MaxId
  BY <1>1, FS_Subset DEF Ids
<1> QED
  BY <1>2, FS_CardinalityType, IdFacts

----------------------------------------------------------------------------
(* No list grows beyond the degree of its graph, for which InsertNeighborsById *)
(* would throw.                                                              *)

\* A sound level with no list longer than max.
Short(g, max) == Sound(g) /\ DegreeAtMost(g, max)

LEMMA EmptyShort ==
    ASSUME NEW max \in Nat
    PROVE  Short(EmptyGraph, max)
<1>1. \A i \in Ids : EmptyGraph.nbrs[i] = {}
  BY DEF EmptyGraph
<1>2. Cardinality({}) = 0
  BY FS_EmptySet
<1> QED
  BY <1>1, <1>2, EmptySound DEF Short, DegreeAtMost

LEMMA SubsetsCounted == \A S \in SUBSET Ids : Cardinality(S) \in Nat
<1> SUFFICES ASSUME NEW S \in SUBSET Ids PROVE Cardinality(S) \in Nat
  OBVIOUS
<1> QED
  BY SubsetsFinite, IdFacts

LEMMA GainOne ==
    ASSUME NEW S, IsFiniteSet(S), Cardinality(S) \in Nat, NEW x
    PROVE  Cardinality(S \cup {x}) <= Cardinality(S) + 1
<1>1. Cardinality(S \cup {x}) = IF x \in S THEN Cardinality(S) ELSE Cardinality(S) + 1
  BY FS_AddElement, Zenon
<1> QED
  BY <1>1

(* The heuristic selects at most max candidates.                            *)
LEMMA SelectionsShort ==
    ASSUME NEW C \in SUBSET Ids, NEW max \in Nat, NEW S \in Selections(C, max)
    PROVE  S \in SUBSET Ids /\ Cardinality(S) <= max
<1>1. Cardinality(C) \in Nat
  BY SubsetsCounted
<1>2. CASE Cardinality(C) < max
  <2>1. S = C
    BY <1>2 DEF Selections
  <2> QED
    BY <1>1, <1>2, <2>1
<1>3. CASE ~ (Cardinality(C) < max)
  BY <1>3 DEF Selections
<1> QED
  BY <1>2, <1>3

(* Storing short lists leaves short lists.                                  *)
LEMMA InsertListsShort ==
    ASSUME UseReverseEdges, NEW max \in Nat, NEW g, Short(g, max),
           NEW D \in SUBSET Ids, NEW new \in [D -> SUBSET Ids],
           \A i \in D : Cardinality(new[i]) <= max
    PROVE  Short(InsertLists(g, new), max)
<1> DEFINE h == InsertLists(g, new)
<1>1. g \in Graph /\ Sound(g) /\ \A i \in Ids : Cardinality(g.nbrs[i]) <= max
  BY DEF Short, Sound, DegreeAtMost
<1>2. h.nbrs = [i \in Ids |-> IF i \in D THEN new[i] ELSE g.nbrs[i]]
  BY <1>1, InsertListsTyped
<1>3. Sound(h)
  BY <1>1, InsertListsSound
<1> HIDE DEF h
<1>4. \A i \in Ids : Cardinality(h.nbrs[i]) <= max
  BY <1>1, <1>2
<1> QED
  BY <1>3, <1>4 DEF Short, DegreeAtMost, h

LEMMA InsertShort ==
    ASSUME UseReverseEdges, NEW max \in Nat, NEW g, Short(g, max),
           NEW id \in Ids, NEW L \in SUBSET Ids, Cardinality(L) <= max
    PROVE  Short(InsertNeighborsById(g, id, L), max)
<1> DEFINE new == [i \in {id} |-> L]
<1>1. {id} \in SUBSET Ids /\ new \in [{id} -> SUBSET Ids]
      /\ \A i \in {id} : Cardinality(new[i]) <= max
  OBVIOUS
<1> HIDE DEF new
<1>2. Short(InsertLists(g, new), max)
  BY <1>1, InsertListsShort
<1> QED
  BY <1>2 DEF InsertNeighborsById, new

(* mutually_connect_new_element: a list with room gains one id, a full one   *)
(* is selected again.                                                       *)
LEMMA ConnectedShort ==
    ASSUME UseReverseEdges, NEW max \in Nat, NEW g, Short(g, max), NEW id \in Ids,
           NEW C \in SUBSET Ids, NEW h \in Connected(g, id, C, max)
    PROVE  Short(h, max)
<1> DEFINE linked(sel) == InsertNeighborsById(g, id, sel)
           options(sel) == [n \in sel |->
                    IF Cardinality(linked(sel).nbrs[n]) < max
                    THEN {linked(sel).nbrs[n] \cup {id}}
                    ELSE Selections(linked(sel).nbrs[n] \cup {id}, max)]
<1>1. PICK sel \in Selections(C, max) : \E new \in Choices(options(sel)) :
         h = InsertLists(linked(sel), new)
  BY DEF Connected
<1>2. PICK new \in Choices(options(sel)) : h = InsertLists(linked(sel), new)
  BY <1>1
<1>3. sel \in SUBSET Ids /\ Cardinality(sel) <= max
  BY SelectionsShort
<1>4. Short(linked(sel), max)
  BY <1>3, InsertShort
<1>5. \A n \in sel : linked(sel).nbrs[n] \in SUBSET Ids
  BY <1>3, <1>4 DEF Short, Sound, Graph
<1>6. DOMAIN options(sel) = sel
  OBVIOUS
<1>7. \A n \in sel : \A L \in options(sel)[n] : L \in SUBSET Ids /\ Cardinality(L) <= max
  <2> SUFFICES ASSUME NEW n \in sel, NEW L \in options(sel)[n]
               PROVE  L \in SUBSET Ids /\ Cardinality(L) <= max
    OBVIOUS
  <2> DEFINE list == linked(sel).nbrs[n]
             more == list \cup {id}
  <2>1. list \in SUBSET Ids /\ more \in SUBSET Ids
    BY <1>5
  <2>2. L \in IF Cardinality(list) < max THEN {more} ELSE Selections(more, max)
    OBVIOUS
  <2> HIDE DEF linked, options, list
  <2>3. CASE Cardinality(list) < max
    <3>1. L = more
      BY <2>2, <2>3
    <3>2. IsFiniteSet(list) /\ Cardinality(list) \in Nat
      <4>1. list \in SUBSET Ids
        BY <2>1
      <4> QED
        BY <4>1, SubsetsFinite, SubsetsCounted
    <3>3. Cardinality(more) <= Cardinality(list) + 1
      BY <3>2, GainOne
    <3>4. Cardinality(more) \in Nat
      BY <2>1, SubsetsCounted
    <3> HIDE DEF more
    <3> QED
      BY <2>1, <2>3, <3>1, <3>2, <3>3, <3>4
  <2>4. CASE ~ (Cardinality(list) < max)
    <3>1. L \in Selections(more, max)
      BY <2>2, <2>4
    <3> HIDE DEF more
    <3> QED
      BY <2>1, <3>1, SelectionsShort
  <2> QED
    BY <2>3, <2>4
<1> HIDE DEF options, linked
<1>8. new \in [sel -> SUBSET Ids]
  <2>1. \A n \in sel : options(sel)[n] \subseteq SUBSET Ids
    BY <1>7
  <2> QED
    BY <1>6, <2>1, ChoicesLists
<1>9. \A n \in sel : Cardinality(new[n]) <= max
  BY <1>6, <1>7 DEF Choices
<1> QED
  BY <1>2, <1>3, <1>4, <1>8, <1>9, InsertListsShort

(* graph_force_remove_one: what the repair stores was selected, or is empty. *)
LEMMA ForceRemovedShort ==
    ASSUME UseReverseEdges, NEW max \in Nat, NEW g, Short(g, max), NEW id \in Ids,
           NEW count, NEW h \in ForceRemoved(g, id, count, max)
    PROVE  Short(h, max)
<1> DEFINE forward  == g.nbrs[id]
           affected == {n \in forward \cup Incoming(g, id) : n < count}
           candidates(n) == {c \in (g.nbrs[n] \ {id}) \cup (forward \ {id, n}) :
                               c < count}
           options  == [n \in affected |-> Selections(candidates(n), max)]
<1>1. h = g \/ \E new \in Choices(options) :
                  h = InsertNeighborsById(InsertLists(g, new), id, {})
  BY DEF ForceRemoved
<1>2. CASE h = g
  BY <1>2
<1>3. ASSUME NEW new \in Choices(options),
             h = InsertNeighborsById(InsertLists(g, new), id, {})
      PROVE  Short(h, max)
  <2>1. g.nbrs \in [Ids -> SUBSET Ids] /\ g.rev \in [Ids -> SUBSET Ids]
    BY DEF Short, Sound, Graph
  <2>2. affected \in SUBSET Ids
    BY <2>1 DEF Incoming
  <2>3. \A n \in affected : candidates(n) \in SUBSET Ids
    BY <2>1, <2>2
  <2>4. DOMAIN options = affected
        /\ \A n \in affected : options[n] = Selections(candidates(n), max)
    OBVIOUS
  <2> HIDE DEF candidates, affected, options
  <2>5. \A n \in affected : \A L \in options[n] : L \in SUBSET Ids /\ Cardinality(L) <= max
    BY <2>3, <2>4, SelectionsShort
  <2>6. new \in [affected -> SUBSET Ids]
    <3>1. \A n \in affected : options[n] \subseteq SUBSET Ids
      BY <2>5
    <3> QED
      BY <2>4, <3>1, ChoicesLists
  <2>7. \A n \in affected : Cardinality(new[n]) <= max
    BY <2>4, <2>5 DEF Choices
  <2>8. Short(InsertLists(g, new), max)
    BY <2>2, <2>6, <2>7, InsertListsShort
  <2> DEFINE mid == InsertLists(g, new)
             none == {}
  <2>9. none \in SUBSET Ids /\ Cardinality(none) <= max
    BY FS_EmptySet
  <2>10. Short(mid, max) /\ h = InsertNeighborsById(mid, id, none)
    BY <1>3, <2>8
  <2> HIDE DEF mid, none
  <2> QED
    BY <2>9, <2>10, InsertShort
<1> QED
  BY <1>1, <1>2, <1>3

(* Move exchanges one id for another in the lists that the reverse edges    *)
(* name: such a list has the old id to lose.                                *)
LEMMA MoveDenseShort ==
    ASSUME UseReverseEdges, NEW max \in Nat, NEW g, Short(g, max),
           NEW from \in Ids, NEW to \in Ids, from # to
    PROVE  Short(MoveDense(g, from, to), max)
<1> DEFINE h == MoveDense(g, from, to)
           swapped(i) == (g.nbrs[i] \ {from}) \cup {to}
<1>1. g \in Graph /\ Sound(g) /\ Mirrored(g) /\ \A i \in Ids : Cardinality(g.nbrs[i]) <= max
  BY DEF Short, Sound, DegreeAtMost
<1>2. Sound(h)
  BY <1>1, MoveDenseSound
<1>3. MovedTo(g, h, from, to)
  BY <1>1, MoveDenseForm
<1>4. \A i \in Ids : i \in g.rev[from] => Cardinality(swapped(i)) <= max
  <2> SUFFICES ASSUME NEW i \in Ids, i \in g.rev[from] PROVE Cardinality(swapped(i)) <= max
    OBVIOUS
  <2> DEFINE list == g.nbrs[i]
             rest == list \ {from}
  <2>1. from \in list /\ list \in SUBSET Ids /\ rest \in SUBSET Ids /\ Cardinality(list) <= max
    BY <1>1 DEF Mirrored, Graph
  <2>2. IsFiniteSet(list) /\ IsFiniteSet(rest) /\ Cardinality(list) \in Nat
        /\ Cardinality(rest) \in Nat
    <3> HIDE DEF list, rest
    <3>1. list \in SUBSET Ids /\ rest \in SUBSET Ids
      BY <2>1
    <3>2. IsFiniteSet(list) /\ IsFiniteSet(rest)
      BY <3>1, SubsetsFinite
    <3> QED
      BY <3>1, <3>2, SubsetsCounted
  <2> HIDE DEF list
  <2>3. Cardinality(rest) = Cardinality(list) - 1
    BY <2>1, <2>2, FS_RemoveElement
  <2> HIDE DEF rest
  <2>4. Cardinality(rest \cup {to}) <= Cardinality(rest) + 1
    BY <2>2, GainOne
  <2>5. rest \cup {to} \in SUBSET Ids
    BY <2>1
  <2>6. Cardinality(rest \cup {to}) \in Nat
    BY <2>5, SubsetsCounted
  <2>7. Cardinality(rest \cup {to}) <= max
    BY <2>1, <2>2, <2>3, <2>4, <2>6
  <2> QED
    BY <2>7 DEF rest, list
<1>5. Cardinality({}) <= max
  BY FS_EmptySet
<1> HIDE DEF h
<1>6. \A i \in Ids : \/ h.nbrs[i] = {} \/ h.nbrs[i] = g.nbrs[i] \/ h.nbrs[i] = g.nbrs[from]
                     \/ \E j \in Ids : j \in g.rev[from] /\ h.nbrs[i] = swapped(j)
  BY <1>3 DEF MovedTo
<1>7. \A i \in Ids : Cardinality(h.nbrs[i]) <= max
  <2> HIDE DEF swapped
  <2> QED
    BY <1>1, <1>4, <1>5, <1>6
<1> QED
  BY <1>2, <1>7 DEF Short, DegreeAtMost, h

LEMMA MoveSparseShort ==
    ASSUME UseReverseEdges, NEW max \in Nat, NEW g, Short(g, max),
           NEW from \in Ids, NEW to \in Ids, from # to
    PROVE  Short(MoveSparse(g, from, to), max)
<1>1. Short(MoveDense(g, from, to), max)
  BY MoveDenseShort
<1>2. Sound(MoveSparse(g, from, to))
  BY MoveSparseSound DEF Short
<1>3. MoveSparse(g, from, to) = g
      \/ MoveSparse(g, from, to) = [MoveDense(g, from, to) EXCEPT !.has = @ \ {from}]
  BY DEF MoveSparse
<1>4. \A h \in Graph : [h EXCEPT !.has = @ \ {from}].nbrs = h.nbrs
  BY DEF Graph
<1>5. MoveSparse(g, from, to).nbrs = g.nbrs
      \/ MoveSparse(g, from, to).nbrs = MoveDense(g, from, to).nbrs
  BY <1>1, <1>3, <1>4 DEF Short, Sound
<1> QED
  BY <1>1, <1>2, <1>5 DEF Short, DegreeAtMost

----------------------------------------------------------------------------
(* The label table.                                                         *)

LEMMA TableFields ==
    ASSUME NEW tab \in Table
    PROVE  /\ tab.size \in 0 .. MaxId /\ tab.deleted \in SUBSET Ids
           /\ \A i \in Ids : tab.table[i] \in AnyLabel
           /\ \A l \in AnyLabel : IdOf(tab, l) \in Ids \cup {INVALID_ID}
           /\ \A l \in AnyLabel : Found(tab, l) => IdOf(tab, l) \in Ids
BY DEF Table, Found, IdOf

LEMMA InsertFields ==
    ASSUME NEW tab \in Table, NEW n \in Ids, NEW l \in AnyLabel
    PROVE  /\ Insert(tab, n, l) \in Table
           /\ Insert(tab, n, l).deleted = tab.deleted
           /\ Insert(tab, n, l).size >= n + 1 /\ Insert(tab, n, l).size >= tab.size
           /\ Insert(tab, n, l).table[n] = l
           /\ \A i \in Ids : i # n => Insert(tab, n, l).table[i] = tab.table[i]
           /\ IdOf(Insert(tab, n, l), l) = n
           /\ \A m \in AnyLabel : m # l => IdOf(Insert(tab, n, l), m) = IdOf(tab, m)
<1> DEFINE new == Insert(tab, n, l)
<1>1. /\ new.remap = [tab.remap EXCEPT ![l] = n]
      /\ new.table = [tab.table EXCEPT ![n] = l]
      /\ new.size = IF n + 1 > tab.size THEN n + 1 ELSE tab.size
      /\ new.deleted = tab.deleted
  BY DEF Insert, Table
<1>2. n \in Int /\ n + 1 \in 0 .. MaxId /\ tab.size \in 0 .. MaxId
  BY IdFacts, TableFields
<1>3. new.size \in 0 .. MaxId /\ new.size >= n + 1 /\ new.size >= tab.size
  BY <1>1, <1>2
<1>4. new \in Table
  <2>1. (IF n + 1 > tab.size THEN n + 1 ELSE tab.size) \in 0 .. MaxId
    BY <1>2
  <2> QED
    BY <2>1 DEF Insert, Table
<1> QED
  BY <1>1, <1>3, <1>4 DEF Table, IdOf

LEMMA MarkFields ==
    ASSUME NEW tab \in Table, NEW l \in AnyLabel
    PROVE  /\ MarkRemove(tab, l) \in Table
           /\ MarkRemove(tab, l).deleted
                = tab.deleted \cup (IF Found(tab, l) THEN {IdOf(tab, l)} ELSE {})
           /\ MarkRemove(tab, l).size = tab.size
           /\ MarkRemove(tab, l).table = tab.table
           /\ MarkRemove(tab, l).remap = tab.remap
<1>1. CASE Found(tab, l)
  BY <1>1, TableFields DEF MarkRemove, Table
<1>2. CASE ~ Found(tab, l)
  BY <1>2 DEF MarkRemove
<1> QED
  BY <1>1, <1>2

LEMMA UpdateFields ==
    ASSUME NEW tab \in Table, NEW old \in AnyLabel, NEW new \in AnyLabel, old # new
    PROVE  /\ UpdateLabel(tab, old, new) \in Table
           /\ UpdateLabel(tab, old, new).deleted = tab.deleted
           /\ UpdateLabel(tab, old, new).size = tab.size
           /\ \A i \in Ids : UpdateLabel(tab, old, new).table[i]
                = IF i < tab.size /\ tab.table[i] = old THEN new ELSE tab.table[i]
           /\ \A m \in AnyLabel : IdOf(UpdateLabel(tab, old, new), m)
                = IF ~ Found(tab, old) THEN IdOf(tab, m)
                  ELSE IF m = new THEN IdOf(tab, old)
                  ELSE IF m = old THEN INVALID_ID ELSE IdOf(tab, m)
<1> DEFINE up == UpdateLabel(tab, old, new)
<1>1. /\ up.table = [i \in Ids |-> IF i < tab.size /\ tab.table[i] = old
                                   THEN new ELSE tab.table[i]]
      /\ up.remap = IF Found(tab, old)
                    THEN [tab.remap EXCEPT ![old] = INVALID_ID, ![new] = tab.remap[old]]
                    ELSE tab.remap
      /\ up.size = tab.size /\ up.deleted = tab.deleted
  BY DEF UpdateLabel, Table
<1>2. up \in Table
  BY DEF UpdateLabel, Table
<1>3. \A m \in AnyLabel : IdOf(up, m)
        = IF ~ Found(tab, old) THEN IdOf(tab, m)
          ELSE IF m = new THEN IdOf(tab, old)
          ELSE IF m = old THEN INVALID_ID ELSE IdOf(tab, m)
  BY <1>1 DEF IdOf, Table
<1> QED
  BY <1>1, <1>2, <1>3

(* FORCE_REMOVE of the last point.                                          *)
LEMMA ForceLastFields ==
    ASSUME NEW tab \in Table, NEW l \in AnyLabel, NEW id \in Ids
    PROVE  LET fit == ShrinkToFit(ForceRemove(tab, l, id), id)
           IN  /\ fit \in Table /\ fit.size = id
               /\ fit.deleted = tab.deleted \ {id}
               /\ \A i \in Ids : i < id => fit.table[i] = tab.table[i]
               /\ IdOf(fit, l) = INVALID_ID
               /\ \A m \in AnyLabel : m # l => IdOf(fit, m) = IdOf(tab, m)
<1> DEFINE left == ForceRemove(tab, l, id)
           fit == ShrinkToFit(left, id)
<1>1. id \in 0 .. MaxId
  BY IdFacts
<1>2. /\ left \in Table /\ left.table = tab.table /\ left.deleted = tab.deleted \ {id}
      /\ left.remap = [tab.remap EXCEPT ![l] = INVALID_ID]
  BY DEF ForceRemove, Table
<1> HIDE DEF left
<1>3. fit \in Table
  BY <1>1, <1>2, IdFacts DEF ShrinkToFit, Table
<1>4. /\ fit.size = id /\ fit.deleted = left.deleted /\ fit.remap = left.remap
      /\ \A i \in Ids : i < id => fit.table[i] = left.table[i]
  BY <1>2 DEF ShrinkToFit, Table
<1> HIDE DEF fit
<1> QED
  BY <1>2, <1>3, <1>4 DEF Table, IdOf, fit, left

(* FORCE_REMOVE of another point, whose id the last one takes over.         *)
LEMMA ForceMoveFields ==
    ASSUME NEW tab \in Table, NEW l \in AnyLabel, NEW id \in Ids, NEW last \in Ids,
           id # last, tab.table[id] = l
    PROVE  LET fit == ShrinkToFit(Move(ForceRemove(tab, l, id), last, id), last)
           IN  /\ fit \in Table /\ fit.size = last
               /\ fit.deleted = (tab.deleted \ {id, last})
                                   \cup (IF last \in tab.deleted THEN {id} ELSE {})
               /\ id < last => fit.table[id] = tab.table[last]
               /\ \A i \in Ids : i < last /\ i # id => fit.table[i] = tab.table[i]
               /\ IdOf(fit, tab.table[last]) = id
               /\ \A m \in AnyLabel : m # tab.table[last] =>
                     IdOf(fit, m) = IF m = l THEN INVALID_ID ELSE IdOf(tab, m)
<1> DEFINE left == ForceRemove(tab, l, id)
           out == Move(left, last, id)
           fit == ShrinkToFit(out, last)
           a == tab.table[last]
<1>1. last \in 0 .. MaxId /\ a \in AnyLabel
  BY IdFacts, TableFields
<1>2. /\ left \in Table /\ left.table = tab.table /\ left.deleted = tab.deleted \ {id}
      /\ left.remap = [tab.remap EXCEPT ![l] = INVALID_ID]
  BY DEF ForceRemove, Table
<1> HIDE DEF left, a
<1>3. /\ out.deleted = (tab.deleted \ {id, last}) \cup (IF last \in tab.deleted THEN {id} ELSE {})
      /\ out.table = [tab.table EXCEPT ![id] = a]
      /\ out.remap = [[left.remap EXCEPT ![l] = INVALID_ID] EXCEPT ![a] = id]
  <2>1. /\ out.deleted = (left.deleted \ {last, id}) \cup (IF last \in left.deleted THEN {id} ELSE {})
        /\ out.table = [left.table EXCEPT ![id] = left.table[last]]
        /\ out.remap = [[left.remap EXCEPT ![left.table[id]] = INVALID_ID]
                             EXCEPT ![left.table[last]] = id]
    BY <1>2 DEF Move, Table
  <2>2. left.table[id] = l /\ left.table[last] = a
    BY <1>2 DEF a
  <2> QED
    BY <1>2, <2>1, <2>2
<1>4. out \in Table
  <2>1. (left.deleted \ {last, id}) \cup (IF last \in left.deleted THEN {id} ELSE {}) \in SUBSET Ids
    BY <1>2 DEF Table
  <2>2. left.table[last] \in AnyLabel /\ left.table[id] \in AnyLabel
    BY <1>2 DEF Table
  <2>3. [[left.remap EXCEPT ![left.table[id]] = INVALID_ID] EXCEPT ![left.table[last]] = id]
          \in [AnyLabel -> Ids \cup {INVALID_ID}]
    BY <1>2, <2>2 DEF Table
  <2>4. [left.table EXCEPT ![id] = left.table[last]] \in [Ids -> AnyLabel]
    BY <1>2, <2>2 DEF Table
  <2>5. left \in Table
    BY <1>2
  <2> QED
    BY <2>1, <2>3, <2>4, <2>5 DEF Move, Table
<1> HIDE DEF out
<1>5. fit \in Table
  BY <1>1, <1>4, IdFacts DEF ShrinkToFit, Table
<1>6. /\ fit.size = last /\ fit.deleted = out.deleted /\ fit.remap = out.remap
      /\ \A i \in Ids : i < last => fit.table[i] = out.table[i]
  BY <1>4 DEF ShrinkToFit, Table
<1> HIDE DEF fit
<1>7. \A i \in Ids : i < last /\ i # id => fit.table[i] = tab.table[i]
  BY <1>3, <1>6 DEF Table
<1>8. id < last => fit.table[id] = a
  BY <1>3, <1>6 DEF Table
<1>9. /\ IdOf(fit, a) = id
      /\ \A m \in AnyLabel : m # a => IdOf(fit, m) = IF m = l THEN INVALID_ID ELSE IdOf(tab, m)
  BY <1>1, <1>2, <1>3, <1>6 DEF Table, IdOf
<1> QED
  BY <1>3, <1>5, <1>6, <1>7, <1>8, <1>9 DEF a, fit, out, left

(* How many ids are marked after either.                                    *)
LEMMA ForceCount ==
    ASSUME NEW D \in SUBSET Ids, NEW id \in Ids, NEW last \in Ids
    PROVE  /\ Cardinality(D \ {id}) = Cardinality(D) - (IF id \in D THEN 1 ELSE 0)
           /\ id # last =>
                Cardinality((D \ {id, last}) \cup (IF last \in D THEN {id} ELSE {}))
                  = Cardinality(D) - (IF id \in D THEN 1 ELSE 0)
<1>0. \A S \in SUBSET Ids : IsFiniteSet(S) /\ Cardinality(S) \in Int
  <2> SUFFICES ASSUME NEW S \in SUBSET Ids PROVE IsFiniteSet(S) /\ Cardinality(S) \in Int
    OBVIOUS
  <2> QED
    BY SubsetsFinite, IdFacts
<1>1. \A S \in SUBSET Ids, x \in Ids :
         Cardinality(S \ {x}) = Cardinality(S) - (IF x \in S THEN 1 ELSE 0)
  <2> SUFFICES ASSUME NEW S \in SUBSET Ids, NEW x \in Ids
               PROVE  Cardinality(S \ {x}) = Cardinality(S) - (IF x \in S THEN 1 ELSE 0)
    OBVIOUS
  <2>1. IsFiniteSet(S) /\ Cardinality(S) \in Int
    BY <1>0
  <2>2. CASE x \in S
    BY <2>1, <2>2, FS_RemoveElement
  <2>3. CASE x \notin S
    <3>1. S \ {x} = S
      BY <2>3
    <3> QED
      BY <2>1, <2>3, <3>1
  <2> QED
    BY <2>2, <2>3
<1>2. ASSUME id # last
      PROVE  Cardinality((D \ {id, last}) \cup (IF last \in D THEN {id} ELSE {}))
                  = Cardinality(D) - (IF id \in D THEN 1 ELSE 0)
  <2>1. CASE last \notin D
    <3>1. (D \ {id, last}) \cup (IF last \in D THEN {id} ELSE {}) = D \ {id}
      BY <2>1
    <3> QED
      BY <1>1, <3>1
  <2>2. CASE last \in D
    <3> DEFINE M == (D \ {id, last}) \cup {id}
               A == D \ {id}
    <3>1. (D \ {id, last}) \cup (IF last \in D THEN {id} ELSE {}) = M
      BY <2>2
    <3>2. M \in SUBSET Ids /\ A \in SUBSET Ids /\ id \in M /\ last \in A /\ M \ {id} = A \ {last}
      BY <1>2, <2>2
    <3>3. Cardinality(A) = Cardinality(D) - (IF id \in D THEN 1 ELSE 0)
      BY <1>1
    <3> HIDE DEF M, A
    <3>4. Cardinality(M \ {id}) = Cardinality(M) - 1 /\ Cardinality(A \ {last}) = Cardinality(A) - 1
      BY <1>1, <3>2
    <3>5. Cardinality(M) \in Int /\ Cardinality(A) \in Int
      BY <1>0, <3>2
    <3>6. Cardinality(M) = Cardinality(A)
      BY <3>2, <3>4, <3>5
    <3> QED
      BY <3>1, <3>3, <3>6
  <2> QED
    BY <2>1, <2>2
<1> QED
  BY <1>1, <1>2

(* Add: an absent label gets the next id.                                   *)
LEMMA InsertAgrees ==
    ASSUME NEW tab \in Table, NEW n \in Ids, NEW l \in Labels,
           LabelsAgree(tab, n), ~ CheckLabel(tab, l)
    PROVE  LabelsAgree(Insert(tab, n, l), n + 1)
<1> DEFINE new == Insert(tab, n, l)
<1>0. n \in Int /\ l \in AnyLabel /\ (\A i \in Ids : i \in Int)
  BY IdFacts
<1>1. /\ new \in Table /\ new.deleted = tab.deleted
      /\ new.size >= n + 1
      /\ new.table[n] = l /\ \A i \in Ids : i # n => new.table[i] = tab.table[i]
      /\ IdOf(new, l) = n
      /\ \A m \in AnyLabel : m # l => IdOf(new, m) = IdOf(tab, m)
  BY <1>0, InsertFields
<1>2. new.size \in Int
  BY <1>1, TableFields, IdFacts
<1> HIDE DEF new
<1>3. SlotsLabelled(new, n + 1)
  <2>1. \A i \in Int : i < n + 1 => i = n \/ (i # n /\ i < n)
    BY <1>0
  <2>2. \A i \in Ids : i < n => tab.table[i] \in Labels
    BY DEF LabelsAgree, SlotsLabelled
  <2>3. \A i \in Ids : i < n + 1 => new.table[i] \in Labels
    BY <1>0, <1>1, <2>1, <2>2
  <2> QED
    BY <1>0, <1>1, <1>2, <2>3 DEF SlotsLabelled
<1>4. LiveMapped(new, n + 1)
  <2> SUFFICES ASSUME NEW i \in Ids, i < n + 1, i \notin tab.deleted
               PROVE  IdOf(new, new.table[i]) = i
    BY <1>1 DEF LiveMapped
  <2>1. CASE i = n
    BY <1>1, <2>1
  <2>2. CASE i # n
    <3>0. i < n
      <4>1. i \in Int /\ n \in Int
        BY <1>0
      <4> QED
        BY <2>2, <4>1
    <3>1. new.table[i] = tab.table[i] /\ IdOf(tab, tab.table[i]) = i /\ tab.table[i] \in AnyLabel
      BY <1>1, <2>2, <3>0, TableFields DEF LabelsAgree, LiveMapped
    <3>2. tab.table[i] # l
      BY <3>1, IdFacts DEF CheckLabel, Found, IsRemoved
    <3> QED
      BY <1>1, <3>1, <3>2
  <2> QED
    BY <2>1, <2>2
<1>5. PresentPointsBack(new, n + 1)
  <2> SUFFICES ASSUME NEW m \in AnyLabel, CheckLabel(new, m), m # l
               PROVE  IdOf(new, m) < n + 1 /\ new.table[IdOf(new, m)] = m
    BY <1>0, <1>1 DEF PresentPointsBack
  <2>1. CheckLabel(tab, m) /\ IdOf(new, m) = IdOf(tab, m)
    BY <1>1 DEF CheckLabel, Found, IsRemoved
  <2>2. IdOf(tab, m) < n /\ tab.table[IdOf(tab, m)] = m /\ IdOf(tab, m) \in Ids \cap Int
    <3>1. IdOf(tab, m) \in Ids \cap Int
      BY <1>0, <2>1, TableFields DEF CheckLabel
    <3> QED
      BY <2>1, <3>1 DEF LabelsAgree, PresentPointsBack
  <2>3. IdOf(tab, m) # n /\ IdOf(tab, m) < n + 1
    BY <1>0, <2>2
  <2> QED
    BY <1>1, <2>1, <2>2, <2>3
<1> QED
  BY <1>3, <1>4, <1>5 DEF LabelsAgree, new

(* Remove by a mark.                                                        *)
LEMMA MarkAgrees ==
    ASSUME NEW tab \in Table, NEW n, NEW l \in AnyLabel, LabelsAgree(tab, n)
    PROVE  LabelsAgree(MarkRemove(tab, l), n)
<1>1. /\ MarkRemove(tab, l).size = tab.size
      /\ MarkRemove(tab, l).table = tab.table
      /\ MarkRemove(tab, l).remap = tab.remap
      /\ tab.deleted \subseteq MarkRemove(tab, l).deleted
  BY MarkFields
<1> QED
  BY <1>1 DEF LabelsAgree, SlotsLabelled, LiveMapped, PresentPointsBack,
              CheckLabel, Found, IdOf, IsRemoved

(* UpdateId, to a label that is absent.                                     *)
LEMMA UpdateAgrees ==
    ASSUME NEW tab \in Table, NEW n \in Int, NEW old \in Labels, NEW new \in Labels,
           old # new, LabelsAgree(tab, n), ~ CheckLabel(tab, new)
    PROVE  LabelsAgree(UpdateLabel(tab, old, new), n)
<1> DEFINE up == UpdateLabel(tab, old, new)
<1>0. old \in AnyLabel /\ new \in AnyLabel /\ (\A i \in Ids : i \in Int) /\ tab.size \in Int
  BY IdFacts, TableFields
<1>1. /\ up \in Table /\ up.deleted = tab.deleted /\ up.size = tab.size
      /\ \A i \in Ids : up.table[i]
           = IF i < tab.size /\ tab.table[i] = old THEN new ELSE tab.table[i]
      /\ \A m \in AnyLabel : IdOf(up, m)
           = IF ~ Found(tab, old) THEN IdOf(tab, m)
             ELSE IF m = new THEN IdOf(tab, old)
             ELSE IF m = old THEN INVALID_ID ELSE IdOf(tab, m)
  BY <1>0, UpdateFields
<1> HIDE DEF up
<1>2. \A i \in Ids : i < n => up.table[i] = IF tab.table[i] = old THEN new ELSE tab.table[i]
  BY <1>0, <1>1 DEF LabelsAgree, SlotsLabelled
<1>3. SlotsLabelled(up, n)
  BY <1>1, <1>2 DEF LabelsAgree, SlotsLabelled
<1>4. LiveMapped(up, n)
  <2> SUFFICES ASSUME NEW i \in Ids, i < n, i \notin tab.deleted
               PROVE  IdOf(up, up.table[i]) = i
    BY <1>1 DEF LiveMapped
  <2>1. IdOf(tab, tab.table[i]) = i /\ tab.table[i] \in AnyLabel /\ Found(tab, tab.table[i])
    BY TableFields, IdFacts DEF LabelsAgree, LiveMapped, Found
  <2>2. tab.table[i] # new
    BY <2>1 DEF CheckLabel, IsRemoved
  <2> QED
    BY <1>0, <1>1, <1>2, <2>1, <2>2
<1>5. PresentPointsBack(up, n)
  <2> SUFFICES ASSUME NEW m \in AnyLabel, CheckLabel(up, m)
               PROVE  IdOf(up, m) < n /\ up.table[IdOf(up, m)] = m
    BY DEF PresentPointsBack
  <2>0. \A k \in AnyLabel : CheckLabel(tab, k) =>
           IdOf(tab, k) \in Ids /\ IdOf(tab, k) < n /\ tab.table[IdOf(tab, k)] = k
    BY TableFields DEF LabelsAgree, PresentPointsBack, CheckLabel
  <2>1. CASE Found(tab, old) /\ m = new
    <3>1. IdOf(up, m) = IdOf(tab, old) /\ CheckLabel(tab, old)
      BY <1>1, <2>1 DEF CheckLabel, IsRemoved
    <3> QED
      BY <1>0, <1>2, <2>0, <2>1, <3>1
  <2>2. CASE ~ (Found(tab, old) /\ m = new)
    <3>1. IdOf(up, m) = IdOf(tab, m) /\ CheckLabel(tab, m) /\ m # old
      BY <1>1, <2>2 DEF CheckLabel, Found, IsRemoved
    <3> QED
      BY <1>2, <2>0, <3>1
  <2> QED
    BY <2>1, <2>2
<1> QED
  BY <1>3, <1>4, <1>5 DEF LabelsAgree, up

(* The live slots and the present labels are the two sides of a bijection.  *)
LEMMA PresentCount ==
    ASSUME NEW tab \in Table, NEW n \in 0 .. MaxId, LabelsAgree(tab, n),
           \A i \in tab.deleted : i < n
    PROVE  Cardinality({l \in Labels : CheckLabel(tab, l)}) = n - Cardinality(tab.deleted)
<1> DEFINE used == 0 .. n - 1
           live == used \ tab.deleted
           present == {l \in Labels : CheckLabel(tab, l)}
           f == [i \in live |-> tab.table[i]]
<1>1. MaxId \in Nat /\ n \in Nat /\ n <= MaxId /\ tab.deleted \in SUBSET Ids
  BY IdFacts, TableFields
<1>2. \A i : i \in used <=> i \in Ids /\ i < n
  BY <1>1 DEF Ids
<1>3. IsFiniteSet(used) /\ Cardinality(used) = n
  <2>1. \A a, b \in Int : IsFiniteSet(a .. b)
                           /\ Cardinality(a .. b) = IF a > b THEN 0 ELSE b - a + 1
    BY FS_Interval
  <2>2. n - 1 \in Int /\ (IF 0 > n - 1 THEN 0 ELSE n - 1 - 0 + 1) = n
    BY <1>1
  <2> QED
    BY <2>1, <2>2
<1> HIDE DEF used
<1>4. used \cap tab.deleted = tab.deleted
  BY <1>1, <1>2
<1>5. IsFiniteSet(live) /\ Cardinality(live) = n - Cardinality(tab.deleted)
  BY <1>3, <1>4, FS_Difference
<1>6. \A i \in live : tab.table[i] \in present /\ IdOf(tab, tab.table[i]) = i
  <2> SUFFICES ASSUME NEW i \in live
               PROVE  /\ tab.table[i] \in Labels /\ CheckLabel(tab, tab.table[i])
                      /\ IdOf(tab, tab.table[i]) = i
    OBVIOUS
  <2>1. tab.table[i] \in Labels /\ IdOf(tab, tab.table[i]) = i /\ i \in Ids
    BY <1>2 DEF LabelsAgree, SlotsLabelled, LiveMapped
  <2> QED
    BY <2>1, IdFacts DEF CheckLabel, Found, IsRemoved
<1>7. \A l \in present : \E i \in live : tab.table[i] = l
  <2> SUFFICES ASSUME NEW l \in Labels, CheckLabel(tab, l)
               PROVE  \E i \in live : tab.table[i] = l
    OBVIOUS
  <2>1. l \in AnyLabel
    BY IdFacts
  <2>2. /\ IdOf(tab, l) \in Ids /\ IdOf(tab, l) < n /\ IdOf(tab, l) \notin tab.deleted
        /\ tab.table[IdOf(tab, l)] = l
    BY <2>1, TableFields DEF LabelsAgree, PresentPointsBack, CheckLabel, IsRemoved
  <2> QED
    BY <1>2, <2>2
<1> HIDE DEF live, present
<1>8. f \in Bijection(live, present)
  BY <1>6, <1>7 DEF Bijection, Injection, Surjection, IsInjective
<1>9. Cardinality(present) = Cardinality(live)
  BY <1>5, <1>8, FS_Bijection DEF ExistsBijection
<1> QED
  BY <1>5, <1>9 DEF present
============================================================================
