-------------------------- MODULE HGraphAddProofs --------------------------
(***************************************************************************)
(* Proofs about HGraphAdd, for any number of threads, ids, labels, levels   *)
(* and degrees: several Adds, MARK_REMOVE and UpdateId interleaved by their *)
(* critical sections.                                                       *)
(*                                                                         *)
(* The invariant follows a point from the step that allocates its id: only  *)
(* one thread knows the id until the point is linked, no label is mapped to *)
(* it before Insert, its label and its code are written before the point    *)
(* enters the bottom graph, and it enters the levels from the bottom up, so *)
(* that the points of a level are always points of the levels below.        *)
(***************************************************************************)
EXTENDS HGraphAdd, HGraphProofs

Stages == {"idle", "allocate", "label", "codes", "decide", "grow", "share", "link"}

Jobs == [label : AnyLabel, vector : Vectors \cup {NoVector},
         id : Ids \cup {INVALID_ID}, level : -1 .. MaxLevel]

\* How far the Add of a thread has come.
HasId(t) == pc[t] \in Stages \ {"idle", "allocate"}

Labelled(t) == pc[t] \in Stages \ {"idle", "allocate", "label"}

Coded(t) == pc[t] \in Stages \ {"idle", "allocate", "label", "codes"}

Unlinked(t) == HasId(t) /\ (pc[t] = "link" => at[t] = 0)

AddTypes ==
    /\ LabelInv /\ GraphsTyped
    /\ max_capacity \in 1 .. MaxId
    /\ total_count <= max_capacity /\ max_capacity <= lt.size
    /\ codes \in [Ids -> Vectors \cup {NoVector}]
    /\ pc \in [Threads -> Stages]
    /\ job \in [Threads -> Jobs]
    /\ ep \in [Threads -> Ids \cup {INVALID_ID}]
    /\ at \in [Threads -> Nat]

\* What a thread adds, and that nobody else has its id.
JobsApart ==
    /\ \A t \in Threads : pc[t] # "idle" =>
          job[t].label \in Labels /\ job[t].vector \in Vectors
    /\ \A t \in Threads : HasId(t) => job[t].id \in Ids /\ job[t].id < total_count
    /\ \A t, u \in Threads : t # u /\ HasId(t) /\ HasId(u) => job[t].id # job[u].id

\* What was written for the id before the thread came where it is.
JobsWritten ==
    /\ \A t \in Threads : pc[t] = "label" => \A l \in AnyLabel : IdOf(lt, l) # job[t].id
    /\ \A t \in Threads : Labelled(t) => lt.table[job[t].id] \in Labels
    /\ \A t \in Threads : Coded(t) => codes[job[t].id] \in Vectors

\* An id is that of a point of the bottom graph, with its label and code, or of
\* a thread that has yet to link it.
PointsComplete ==
    /\ \A i \in bottom.has : i < total_count /\ lt.table[i] \in Labels /\ codes[i] \in Vectors
    /\ \A t \in Threads : Unlinked(t) => job[t].id \notin bottom.has
    /\ \A i \in Ids : i < total_count =>
          i \in bottom.has \/ \E t \in Threads : Unlinked(t) /\ job[t].id = i

FirstPoint ==
    ~ bottom.any => bottom.has = {} /\ routes = <<>> /\ entry = INVALID_ID

\* Where a thread that links has come, and that its start is on its levels.
OnTheWayUp(t) ==
    /\ bottom.any /\ job[t].level < Len(routes) /\ at[t] <= job[t].level + 1
    /\ ep[t] \in bottom.has
    /\ \A k \in 1 .. Len(routes) : k <= job[t].level + 1 => ep[t] \in routes[k].has
    /\ at[t] > 0 => job[t].id \in bottom.has
    /\ \A k \in 1 .. Len(routes) : k < at[t] => job[t].id \in routes[k].has

Linking ==
    /\ \A t \in Threads : pc[t] # "link" => at[t] = 0
    /\ \A t \in Threads : pc[t] = "link" => OnTheWayUp(t)
    /\ \A t \in Threads : pc[t] = "share" => bottom.any /\ job[t].level < Len(routes)
    /\ \A t \in Threads : pc[t] = "grow" => add_mutex = t /\ Len(routes) <= job[t].level + 1

\* From any point of the bottom graph a search visits all of them.
InOnePiece(g) ==
    \A S \in SUBSET Ids : Closed(g, S) /\ (\E i \in S : i \in g.has) => g.has \subseteq S

AddInv ==
    /\ AddTypes /\ JobsApart /\ JobsWritten /\ PointsComplete
    /\ LevelsInv /\ FirstPoint /\ Linking

AddJoinedInv == Symmetric(bottom) /\ InOnePiece(bottom)

----------------------------------------------------------------------------
(* The steps that leave the label table and the graphs alone.               *)

(* A step of t: where it and the others are afterwards.                     *)
Others(t) ==
    \A u \in Threads \ {t} : /\ pc'[u] = pc[u] /\ job'[u] = job[u]
                             /\ ep'[u] = ep[u] /\ at'[u] = at[u]

LEMMA LookUpInv ==
    ASSUME AddInv, NEW t \in Threads, NEW label \in Labels, NEW v \in Vectors,
           LookUp(t, label, v)
    PROVE  AddInv'
<1> DEFINE new == [NoJob EXCEPT !.label = label, !.vector = v]
<1>0. /\ pc[t] = "idle" /\ pc' = [pc EXCEPT ![t] = "allocate"] /\ job' = [job EXCEPT ![t] = new]
      /\ UNCHANGED <<vars, ep, at, add_mutex>>
  <2>1. job' = [job EXCEPT ![t] = new]
    BY DEF LookUp
  <2> QED
    BY <2>1 DEF LookUp, Goto
<1>r. new = [label |-> label, vector |-> v, id |-> INVALID_ID, level |-> -1]
  <2> DEFINE first == [NoJob EXCEPT !.label = label]
  <2>1. first = [label |-> label, vector |-> NoVector, id |-> INVALID_ID, level |-> -1]
    BY DEF NoJob
  <2>2. new = [first EXCEPT !.vector = v]
    BY DEF NoJob
  <2> HIDE DEF first, new
  <2> QED
    BY <2>1, <2>2
<1> HIDE DEF new
<1>1. /\ pc[t] = "idle" /\ pc'[t] = "allocate" /\ Others(t) /\ job'[t] = new
      /\ ep' = ep /\ at' = at /\ UNCHANGED vars /\ add_mutex' = add_mutex
      /\ pc' \in [Threads -> Stages] /\ job' = [job EXCEPT ![t] = new]
  BY <1>0 DEF AddInv, AddTypes, Others, Stages
<1>2. new \in Jobs /\ new.label = label /\ new.vector = v
  <2>2. label \in AnyLabel /\ -1 \in -1 .. MaxLevel
    BY DegreeAssumption, IdFacts
  <2> QED
    BY <1>r, <2>2 DEF Jobs
<1>3. AddTypes'
  BY <1>1, <1>2 DEF AddInv, AddTypes, LabelInv, GraphsTyped, vars
<1>4. /\ ~ HasId(t)' /\ ~ Labelled(t)' /\ ~ Coded(t)' /\ ~ Unlinked(t)'
      /\ \A u \in Threads \ {t} : /\ HasId(u)' <=> HasId(u)
                                  /\ Labelled(u)' <=> Labelled(u)
                                  /\ Coded(u)' <=> Coded(u)
                                  /\ Unlinked(u)' <=> Unlinked(u)
      /\ ~ Unlinked(t)
  BY <1>1 DEF Others, HasId, Labelled, Coded, Unlinked, Stages
<1>5. JobsApart'
  BY <1>1, <1>2, <1>4 DEF AddInv, JobsApart, Others, vars
<1>6. JobsWritten'
  BY <1>1, <1>4 DEF AddInv, JobsWritten, Others, vars
<1>7. PointsComplete'
  BY <1>1, <1>4 DEF AddInv, PointsComplete, Others, vars
<1>8. LevelsInv' /\ FirstPoint'
  BY <1>1 DEF AddInv, LevelsInv, EdgesStayInside, FirstPoint, vars
<1>9. Linking'
  BY <1>1 DEF AddInv, Linking, OnTheWayUp, Others, vars
<1> QED
  BY <1>3, <1>5, <1>6, <1>7, <1>8, <1>9 DEF AddInv

LEMMA AllocateInv ==
    ASSUME AddInv, NEW t \in Threads, Allocate(t)
    PROVE  AddInv'
<1> DEFINE n == total_count
<1>1. /\ pc[t] = "allocate" /\ pc'[t] = "label" /\ Others(t) /\ job'[t] = [job[t] EXCEPT !.id = n]
      /\ ep' = ep /\ at' = at /\ add_mutex' = add_mutex /\ total_count' = n + 1
      /\ n < max_capacity
      /\ UNCHANGED <<lt, max_capacity, codes, bottom, routes, entry>>
      /\ pc' \in [Threads -> Stages]
  BY DEF AddInv, AddTypes, Allocate, Goto, Others, Stages
<1>2. /\ n \in Ids /\ n \in Int /\ 0 <= n /\ max_capacity \in Int /\ max_capacity <= lt.size
      /\ lt.size \in Int /\ \A i \in Ids : i \in Int
  BY <1>1, IdFacts DEF AddInv, AddTypes, LabelInv, Shaped
<1>3. /\ job' \in [Threads -> Jobs] /\ job'[t].id = n /\ job'[t].level = job[t].level
      /\ job'[t].label = job[t].label /\ job'[t].vector = job[t].vector
  BY <1>1, <1>2 DEF AddInv, AddTypes, Jobs, Allocate
<1>4. AddTypes'
  <2>1. total_count' \in 0 .. MaxId /\ total_count' <= lt.size /\ total_count' <= max_capacity
    BY <1>1, <1>2, IdFacts DEF AddInv, AddTypes
  <2>2. PointsBack(lt, n + 1)
    <3> SUFFICES ASSUME NEW l \in AnyLabel, Found(lt, l)
                 PROVE  IdOf(lt, l) < n + 1 /\ lt.table[IdOf(lt, l)] = l
      BY DEF PointsBack
    <3>1. IdOf(lt, l) \in Ids /\ IdOf(lt, l) < n /\ lt.table[IdOf(lt, l)] = l
      BY FoundId DEF AddInv, AddTypes, LabelInv, PointsBack
    <3>2. IdOf(lt, l) \in Int
      BY <1>2, <3>1
    <3> QED
      BY <1>2, <3>1, <3>2
  <2>3. LabelInv'
    BY <1>1, <1>2, <2>1, <2>2 DEF AddInv, AddTypes, LabelInv
  <2> QED
    BY <1>1, <1>3, <2>1, <2>3 DEF AddInv, AddTypes, GraphsTyped
<1>5. /\ HasId(t)' /\ ~ Labelled(t)' /\ ~ Coded(t)' /\ Unlinked(t)' /\ ~ Unlinked(t)
      /\ \A u \in Threads \ {t} : /\ HasId(u)' <=> HasId(u)
                                  /\ Labelled(u)' <=> Labelled(u)
                                  /\ Coded(u)' <=> Coded(u)
                                  /\ Unlinked(u)' <=> Unlinked(u)
  BY <1>1 DEF Others, HasId, Labelled, Coded, Unlinked, Stages
<1> HIDE DEF n
<1>n. n = total_count
  BY DEF n
<1>6. JobsApart'
  <2>1. \A u \in Threads \ {t} : HasId(u)' =>
           job'[u].id \in Ids /\ job'[u].id < n + 1 /\ job'[u].id # n
    <3> SUFFICES ASSUME NEW u \in Threads \ {t}, HasId(u)'
                 PROVE  job'[u].id \in Ids /\ job'[u].id < n + 1 /\ job'[u].id # n
      OBVIOUS
    <3>1. job'[u].id \in Ids /\ job'[u].id < n
      BY <1>1, <1>5, <1>n DEF AddInv, JobsApart, Others
    <3>2. job'[u].id \in Int
      BY <1>2, <3>1
    <3> QED
      BY <1>2, <3>1, <3>2
  <2>2. \A u \in Threads : pc'[u] # "idle" =>
          job'[u].label \in Labels /\ job'[u].vector \in Vectors
    BY <1>1, <1>3 DEF AddInv, JobsApart, Others
  <2>3. \A u \in Threads : HasId(u)' => job'[u].id \in Ids /\ job'[u].id < n + 1
    BY <1>2, <1>3, <2>1
  <2>4. \A u, w \in Threads : u # w /\ HasId(u)' /\ HasId(w)' => job'[u].id # job'[w].id
    <3> SUFFICES ASSUME NEW u \in Threads, NEW w \in Threads, u # w, HasId(u)', HasId(w)'
                 PROVE  job'[u].id # job'[w].id
      OBVIOUS
    <3>1. CASE u = t \/ w = t
      BY <1>3, <2>1, <3>1
    <3>2. CASE u # t /\ w # t
      BY <1>1, <1>5, <3>2 DEF AddInv, JobsApart, Others
    <3> QED
      BY <3>1, <3>2
  <2> QED
    BY <1>1, <2>2, <2>3, <2>4 DEF JobsApart
<1>7. JobsWritten'
  <2>1. \A l \in AnyLabel : IdOf(lt, l) # n
    <3> SUFFICES ASSUME NEW l \in AnyLabel, IdOf(lt, l) = n PROVE FALSE
      OBVIOUS
    <3>1. Found(lt, l)
      BY <1>2, IdFacts DEF Found
    <3> QED
      BY <1>2, <1>n, <3>1 DEF AddInv, AddTypes, LabelInv, PointsBack
  <2>2. \A u \in Threads : pc'[u] = "label" => \A l \in AnyLabel : IdOf(lt', l) # job'[u].id
    <3> SUFFICES ASSUME NEW u \in Threads, pc'[u] = "label", NEW l \in AnyLabel
                 PROVE  IdOf(lt, l) # job'[u].id
      BY <1>1 DEF IdOf
    <3>1. CASE u = t
      BY <1>3, <2>1, <3>1
    <3>2. CASE u # t
      BY <1>1, <3>2 DEF AddInv, JobsWritten, Others
    <3> QED
      BY <3>1, <3>2
  <2>3. \A u \in Threads : /\ Labelled(u)' => lt'.table[job'[u].id] \in Labels
                           /\ Coded(u)' => codes'[job'[u].id] \in Vectors
    BY <1>1, <1>5 DEF AddInv, JobsWritten, Others
  <2> QED
    BY <2>2, <2>3 DEF JobsWritten
<1>8. PointsComplete'
  <2>1. bottom.has \in SUBSET Ids
    BY DEF AddInv, AddTypes, GraphsTyped, Graph
  <2>2. \A i \in bottom.has : i < n /\ i < n + 1 /\ i # n
    <3> SUFFICES ASSUME NEW i \in bottom.has PROVE i < n /\ i < n + 1 /\ i # n
      OBVIOUS
    <3>1. i < n /\ i \in Int
      BY <1>2, <1>n, <2>1 DEF AddInv, PointsComplete
    <3> QED
      BY <1>2, <3>1
  <2>3. \A i \in Ids : i < n + 1 => i = n \/ i < n
    BY <1>2
  <2>4. \A i \in bottom'.has : i < total_count' /\ lt'.table[i] \in Labels /\ codes'[i] \in Vectors
    BY <1>1, <2>2 DEF AddInv, PointsComplete
  <2>5. \A u \in Threads : Unlinked(u)' => job'[u].id \notin bottom'.has
    BY <1>1, <1>3, <1>5, <2>2 DEF AddInv, PointsComplete, Others
  <2>6. \A i \in Ids : i < total_count' =>
          i \in bottom'.has \/ \E u \in Threads : Unlinked(u)' /\ job'[u].id = i
    <3> SUFFICES ASSUME NEW i \in Ids, i < n + 1, i \notin bottom.has
                 PROVE  \E u \in Threads : Unlinked(u)' /\ job'[u].id = i
      BY <1>1
    <3>1. CASE i = n
      BY <1>3, <1>5, <3>1
    <3>2. CASE i < n
      <4>1. PICK u \in Threads : Unlinked(u) /\ job[u].id = i
        BY <1>n, <3>2 DEF AddInv, PointsComplete
      <4> QED
        BY <1>1, <1>5, <4>1 DEF Others
    <3> QED
      BY <2>3, <3>1, <3>2
  <2> QED
    BY <2>4, <2>5, <2>6 DEF PointsComplete
<1>9. LevelsInv' /\ FirstPoint'
  <2>1. /\ EdgesInside(bottom, n + 1)
        /\ \A j \in DOMAIN routes : EdgesInside(routes[j], n + 1)
    <3>2. bottom \in Graph /\ \A j \in DOMAIN routes : routes[j] \in Graph
      BY DEF AddInv, AddTypes, GraphsTyped
    <3> QED
      BY <1>2, <1>n, <3>2, InsideGrows DEF AddInv, LevelsInv, EdgesStayInside
  <2>2. EdgesStayInside'
    BY <1>1, <2>1 DEF EdgesStayInside
  <2> QED
    BY <1>1, <2>2 DEF AddInv, LevelsInv, FirstPoint
<1>10. Linking'
  BY <1>1 DEF AddInv, Linking, OnTheWayUp, Others
<1> QED
  BY <1>4, <1>6, <1>7, <1>8, <1>9, <1>10 DEF AddInv

(* Insert of a label at an id that no label is mapped to.                   *)
LEMMA InsertAt ==
    ASSUME NEW tab, Shaped(tab), NEW n \in Int, PointsBack(tab, n), NEW id \in Ids, id < n,
           \A m \in AnyLabel : IdOf(tab, m) # id, NEW l \in AnyLabel
    PROVE  /\ Shaped(Insert(tab, id, l))
           /\ tab.size <= Insert(tab, id, l).size
           /\ PointsBack(Insert(tab, id, l), n)
           /\ Insert(tab, id, l).table[id] = l
           /\ \A i \in Ids : i # id => Insert(tab, id, l).table[i] = tab.table[i]
           /\ IdOf(Insert(tab, id, l), l) = id
           /\ \A m \in AnyLabel : m # l => IdOf(Insert(tab, id, l), m) = IdOf(tab, m)
<1> DEFINE new == Insert(tab, id, l)
<1>1. /\ new.remap = [tab.remap EXCEPT ![l] = id]
      /\ new.table = [tab.table EXCEPT ![id] = l]
      /\ new.size = IF id + 1 > tab.size THEN id + 1 ELSE tab.size
  BY DEF Insert, Shaped
<1>2. id \in Int /\ tab.size \in Int
  BY IdFacts DEF Shaped
<1>3. (IF id + 1 > tab.size THEN id + 1 ELSE tab.size) \in Int
  BY <1>2
<1>4. Shaped(new)
  BY <1>3 DEF Insert, Shaped
<1>5. tab.size <= new.size
  BY <1>1, <1>2
<1>6. /\ new.table[id] = l /\ \A i \in Ids : i # id => new.table[i] = tab.table[i]
      /\ IdOf(new, l) = id /\ \A m \in AnyLabel : m # l => IdOf(new, m) = IdOf(tab, m)
  BY <1>1 DEF Shaped, IdOf
<1> HIDE DEF new
<1>7. PointsBack(new, n)
  <2> SUFFICES ASSUME NEW m \in AnyLabel, Found(new, m)
               PROVE  IdOf(new, m) < n /\ new.table[IdOf(new, m)] = m
    BY DEF PointsBack
  <2>1. CASE m = l
    BY <1>6, <2>1
  <2>2. CASE m # l
    <3>1. IdOf(new, m) = IdOf(tab, m) /\ Found(tab, m)
      BY <1>6, <2>2 DEF Found
    <3>2. IdOf(tab, m) < n /\ tab.table[IdOf(tab, m)] = m /\ IdOf(tab, m) \in Ids
      BY <3>1, FoundId DEF PointsBack
    <3> QED
      BY <1>6, <3>1, <3>2
  <2> QED
    BY <2>1, <2>2
<1> QED
  BY <1>4, <1>5, <1>6, <1>7 DEF new

LEMMA StoreLabelInv ==
    ASSUME AddInv, NEW t \in Threads, StoreLabel(t)
    PROVE  AddInv'
<1> DEFINE id == job[t].id
           label == job[t].label
<1>1. PICK level \in -1 .. MaxLevel : job' = [job EXCEPT ![t].level = level]
  BY DEF StoreLabel
<1>2. /\ pc[t] = "label" /\ pc'[t] = "codes" /\ Others(t)
      /\ job'[t] = [job[t] EXCEPT !.level = level]
      /\ lt' = Insert(lt, id, label)
      /\ ep' = ep /\ at' = at /\ add_mutex' = add_mutex
      /\ UNCHANGED <<total_count, max_capacity, codes, bottom, routes, entry>>
      /\ pc' \in [Threads -> Stages]
  BY <1>1 DEF AddInv, AddTypes, StoreLabel, Goto, Others, Stages
<1>3. /\ job' \in [Threads -> Jobs] /\ job'[t].id = id /\ job'[t].label = label
      /\ job'[t].vector = job[t].vector
  BY <1>1, <1>2 DEF AddInv, AddTypes, Jobs
<1>4. /\ HasId(t)' /\ Labelled(t)' /\ ~ Coded(t)' /\ Unlinked(t)' /\ Unlinked(t) /\ HasId(t)
      /\ \A u \in Threads \ {t} : /\ HasId(u)' <=> HasId(u)
                                  /\ Labelled(u)' <=> Labelled(u)
                                  /\ Coded(u)' <=> Coded(u)
                                  /\ Unlinked(u)' <=> Unlinked(u)
  BY <1>2 DEF Others, HasId, Labelled, Coded, Unlinked, Stages
<1>5. /\ id \in Ids /\ id < total_count /\ label \in Labels /\ label \in AnyLabel
      /\ \A m \in AnyLabel : IdOf(lt, m) # id
      /\ total_count \in Int /\ Shaped(lt) /\ PointsBack(lt, total_count)
      /\ max_capacity <= lt.size /\ total_count <= lt.size
  BY <1>2, <1>4, IdFacts DEF AddInv, AddTypes, JobsApart, JobsWritten, LabelInv
<1> HIDE DEF id, label
<1>6. /\ Shaped(lt') /\ lt.size <= lt'.size /\ PointsBack(lt', total_count)
      /\ lt'.table[id] = label
      /\ \A i \in Ids : i # id => lt'.table[i] = lt.table[i]
      /\ IdOf(lt', label) = id
      /\ \A m \in AnyLabel : m # label => IdOf(lt', m) = IdOf(lt, m)
  BY <1>2, <1>5, InsertAt
<1>7. AddTypes'
  <2>1. max_capacity <= lt'.size /\ total_count <= lt'.size
    BY <1>5, <1>6 DEF AddInv, AddTypes, LabelInv, Shaped
  <2>2. LabelInv'
    BY <1>2, <1>6, <2>1 DEF AddInv, AddTypes, LabelInv
  <2> QED
    BY <1>2, <1>3, <2>1, <2>2 DEF AddInv, AddTypes, GraphsTyped
<1>8. \A u \in Threads \ {t} : HasId(u) => job'[u] = job[u] /\ job[u].id # id /\ job[u].id \in Ids
  BY <1>2, <1>4 DEF AddInv, JobsApart, Others, id
<1>9. JobsApart'
  <2>1. \A u \in Threads : pc'[u] # "idle" =>
          job'[u].label \in Labels /\ job'[u].vector \in Vectors
    BY <1>2, <1>3, <1>5 DEF AddInv, JobsApart, Others
  <2>2. \A u \in Threads : HasId(u)' => job'[u].id \in Ids /\ job'[u].id < total_count
    BY <1>2, <1>3, <1>4, <1>5 DEF AddInv, JobsApart, Others
  <2>3. \A u, w \in Threads : u # w /\ HasId(u)' /\ HasId(w)' => job'[u].id # job'[w].id
    <3> SUFFICES ASSUME NEW u \in Threads, NEW w \in Threads, u # w, HasId(u)', HasId(w)'
                 PROVE  job'[u].id # job'[w].id
      OBVIOUS
    <3>1. CASE u = t \/ w = t
      BY <1>3, <1>4, <1>8, <3>1
    <3>2. CASE u # t /\ w # t
      BY <1>2, <1>4, <3>2 DEF AddInv, JobsApart, Others
    <3> QED
      BY <3>1, <3>2
  <2> QED
    BY <1>2, <2>1, <2>2, <2>3 DEF JobsApart
<1>10. JobsWritten'
  <2>1. \A u \in Threads : pc'[u] = "label" => \A m \in AnyLabel : IdOf(lt', m) # job'[u].id
    <3> SUFFICES ASSUME NEW u \in Threads, pc'[u] = "label", NEW m \in AnyLabel
                 PROVE  IdOf(lt', m) # job'[u].id
      OBVIOUS
    <3>1. u # t /\ pc[u] = "label" /\ job'[u] = job[u]
      BY <1>2 DEF Others
    <3>2. HasId(u)
      BY <3>1 DEF HasId, Stages
    <3>3. IdOf(lt, m) # job[u].id /\ job[u].id # id
      BY <1>8, <3>1, <3>2 DEF AddInv, JobsWritten
    <3> QED
      BY <1>6, <3>1, <3>3
  <2>2. \A u \in Threads : Labelled(u)' => lt'.table[job'[u].id] \in Labels
    <3> SUFFICES ASSUME NEW u \in Threads, Labelled(u)'
                 PROVE  lt'.table[job'[u].id] \in Labels
      OBVIOUS
    <3>1. CASE u = t
      BY <1>3, <1>5, <1>6, <3>1
    <3>2. CASE u # t
      <4>1. Labelled(u) /\ HasId(u)
        BY <1>4, <3>2 DEF Labelled, HasId
      <4> QED
        BY <1>6, <1>8, <3>2, <4>1 DEF AddInv, JobsWritten
    <3> QED
      BY <3>1, <3>2
  <2>3. \A u \in Threads : Coded(u)' => codes'[job'[u].id] \in Vectors
    BY <1>2, <1>4 DEF AddInv, JobsWritten, Others
  <2> QED
    BY <2>1, <2>2, <2>3 DEF JobsWritten
<1>11. PointsComplete'
  <2>0. bottom.has \in SUBSET Ids
    BY DEF AddInv, AddTypes, GraphsTyped, Graph
  <2>1. \A i \in bottom'.has : i < total_count' /\ lt'.table[i] \in Labels /\ codes'[i] \in Vectors
    BY <1>2, <1>5, <1>6, <2>0 DEF AddInv, PointsComplete
  <2>2. \A u \in Threads : /\ Unlinked(u)' <=> Unlinked(u)
                           /\ job'[u].id = job[u].id
    BY <1>2, <1>3, <1>4 DEF Others, id
  <2> QED
    BY <1>2, <2>1, <2>2 DEF AddInv, PointsComplete
<1>12. LevelsInv' /\ FirstPoint'
  BY <1>2 DEF AddInv, LevelsInv, EdgesStayInside, FirstPoint
<1>13. Linking'
  BY <1>2 DEF AddInv, Linking, OnTheWayUp, Others
<1> QED
  BY <1>7, <1>9, <1>10, <1>11, <1>12, <1>13 DEF AddInv
LEMMA WriteCodesInv ==
    ASSUME AddInv, NEW t \in Threads, WriteCodes(t)
    PROVE  AddInv'
<1> DEFINE id == job[t].id
<1>1. /\ pc[t] = "codes" /\ pc'[t] = "decide" /\ Others(t)
      /\ codes' = [codes EXCEPT ![id] = job[t].vector]
      /\ job' = job /\ ep' = ep /\ at' = at /\ add_mutex' = add_mutex
      /\ UNCHANGED <<lt, total_count, max_capacity, bottom, routes, entry>>
      /\ pc' \in [Threads -> Stages]
  BY DEF AddInv, AddTypes, WriteCodes, Goto, Others, Stages
<1>2. /\ HasId(t)' /\ Labelled(t)' /\ Coded(t)' /\ Unlinked(t)'
      /\ Unlinked(t) /\ HasId(t) /\ Labelled(t)
      /\ \A u \in Threads \ {t} : /\ HasId(u)' <=> HasId(u)
                                  /\ Labelled(u)' <=> Labelled(u)
                                  /\ Coded(u)' <=> Coded(u)
                                  /\ Unlinked(u)' <=> Unlinked(u)
  BY <1>1 DEF Others, HasId, Labelled, Coded, Unlinked, Stages
<1>3. id \in Ids /\ id < total_count /\ job[t].vector \in Vectors
  BY <1>1, <1>2 DEF AddInv, JobsApart
<1>4. /\ codes' \in [Ids -> Vectors \cup {NoVector}] /\ codes'[id] \in Vectors
      /\ \A i \in Ids : i # id => codes'[i] = codes[i]
  BY <1>1, <1>3 DEF AddInv, AddTypes
<1>5. AddTypes'
  BY <1>1, <1>4 DEF AddInv, AddTypes, LabelInv, GraphsTyped
<1>6. JobsApart'
  <2>1. \A u \in Threads : (HasId(u)' <=> HasId(u)) /\ (pc'[u] = "idle" <=> pc[u] = "idle")
    BY <1>1, <1>2 DEF Others
  <2> QED
    BY <1>1, <2>1 DEF AddInv, JobsApart
<1>7. JobsWritten'
  <2>1. \A u \in Threads : pc'[u] = "label" => \A l \in AnyLabel : IdOf(lt', l) # job'[u].id
    BY <1>1 DEF AddInv, JobsWritten, Others
  <2>2. \A u \in Threads : Labelled(u)' => lt'.table[job'[u].id] \in Labels
    BY <1>1, <1>2 DEF AddInv, JobsWritten
  <2>3. \A u \in Threads : Coded(u)' => codes'[job'[u].id] \in Vectors
    <3> SUFFICES ASSUME NEW u \in Threads, Coded(u)' PROVE codes'[job[u].id] \in Vectors
      BY <1>1
    <3>1. CASE u = t
      BY <1>4, <3>1
    <3>2. CASE u # t
      <4>1. Coded(u) /\ HasId(u)
        BY <1>2, <3>2 DEF Coded, HasId
      <4>2. job[u].id # id /\ job[u].id \in Ids /\ codes[job[u].id] \in Vectors
        BY <1>2, <3>2, <4>1 DEF AddInv, JobsApart, JobsWritten
      <4> QED
        BY <1>4, <4>2
    <3> QED
      BY <3>1, <3>2
  <2> QED
    BY <2>1, <2>2, <2>3 DEF JobsWritten
<1>8. PointsComplete'
  <2>0. bottom.has \in SUBSET Ids
    BY DEF AddInv, AddTypes, GraphsTyped, Graph
  <2>1. \A i \in bottom'.has : i < total_count' /\ lt'.table[i] \in Labels /\ codes'[i] \in Vectors
    BY <1>1, <1>4, <2>0 DEF AddInv, PointsComplete
  <2>2. \A u \in Threads : Unlinked(u)' <=> Unlinked(u)
    BY <1>2
  <2> QED
    BY <1>1, <2>1, <2>2 DEF AddInv, PointsComplete
<1>9. LevelsInv' /\ FirstPoint'
  BY <1>1 DEF AddInv, LevelsInv, EdgesStayInside, FirstPoint
<1>10. Linking'
  BY <1>1 DEF AddInv, Linking, OnTheWayUp, Others
<1> QED
  BY <1>5, <1>6, <1>7, <1>8, <1>9, <1>10 DEF AddInv

(* A thread that leaves "decide" or "share" has what it wrote before.       *)
LEMMA StageInv ==
    ASSUME AddInv, NEW t \in Threads, Unlinked(t), Coded(t), Unlinked(t)', Coded(t)',
           pc' \in [Threads -> Stages], Others(t), job' = job, UNCHANGED vars,
           ep' \in [Threads -> Ids \cup {INVALID_ID}], at' = at
    PROVE  /\ AddTypes' /\ JobsApart' /\ JobsWritten' /\ PointsComplete'
           /\ LevelsInv' /\ FirstPoint'
<1>1. UNCHANGED <<lt, total_count, max_capacity, codes, bottom, routes, entry>>
  BY DEF vars
<1>2. \A u \in Threads : /\ HasId(u)' <=> HasId(u)
                         /\ Labelled(u)' <=> Labelled(u)
                         /\ Coded(u)' <=> Coded(u)
                         /\ Unlinked(u)' <=> Unlinked(u)
                         /\ pc'[u] = "idle" => pc[u] = "idle"
                         /\ pc'[u] # "idle" => pc[u] # "idle"
                         /\ pc'[u] = "label" => pc[u] = "label"
  <2>1. \A u \in Threads : u # t => pc'[u] = pc[u] /\ at'[u] = at[u]
    BY DEF Others
  <2> QED
    BY <2>1 DEF HasId, Labelled, Coded, Unlinked, Stages
<1>3. AddTypes'
  BY <1>1 DEF AddInv, AddTypes, LabelInv, GraphsTyped
<1>4. JobsApart'
  BY <1>1, <1>2 DEF AddInv, JobsApart
<1>5. JobsWritten'
  BY <1>1, <1>2 DEF AddInv, JobsWritten
<1>6. PointsComplete'
  BY <1>1, <1>2 DEF AddInv, PointsComplete
<1>7. LevelsInv' /\ FirstPoint'
  BY <1>1 DEF AddInv, LevelsInv, EdgesStayInside, FirstPoint
<1> QED
  BY <1>3, <1>4, <1>5, <1>6, <1>7

LEMMA DecideInv ==
    ASSUME AddInv, NEW t \in Threads, Decide(t)
    PROVE  AddInv'
<1> DEFINE grows == job[t].level >= Len(routes) \/ ~ bottom.any
<1>1. /\ pc[t] = "decide" /\ pc' = [pc EXCEPT ![t] = IF grows THEN "grow" ELSE "share"]
      /\ add_mutex = NoThread /\ add_mutex' = IF grows THEN t ELSE NoThread
      /\ UNCHANGED vars /\ job' = job /\ ep' = ep /\ at' = at
  BY DEF Decide, AddMutexFree
<1>2. /\ pc' \in [Threads -> Stages] /\ Others(t)
      /\ grows => pc'[t] = "grow"
      /\ ~ grows => pc'[t] = "share"
  <2> HIDE DEF grows
  <2> QED
    BY <1>1 DEF AddInv, AddTypes, Others, Stages
<1>3. Unlinked(t) /\ Coded(t) /\ Unlinked(t)' /\ Coded(t)'
  <2> HIDE DEF grows
  <2>1. pc'[t] \in {"grow", "share"}
    BY <1>2
  <2> QED
    BY <1>1, <2>1 DEF Unlinked, HasId, Coded, Stages
<1>4. /\ AddTypes' /\ JobsApart' /\ JobsWritten' /\ PointsComplete'
      /\ LevelsInv' /\ FirstPoint'
  <2>1. ep' \in [Threads -> Ids \cup {INVALID_ID}]
    BY <1>1 DEF AddInv, AddTypes
  <2> HIDE DEF grows
  <2> QED
    BY <1>1, <1>2, <1>3, <2>1, StageInv
<1>5. /\ job[t].level \in Int /\ -1 <= job[t].level /\ Len(routes) \in Nat
      /\ ~ bottom.any => Len(routes) = 0
  <2>1. job[t].level \in -1 .. MaxLevel /\ routes \in Seq(Graph)
    BY DEF AddInv, AddTypes, Jobs, GraphsTyped
  <2>2. ~ bottom.any => Len(routes) = 0
    BY DEF AddInv, FirstPoint
  <2> QED
    BY <2>1, <2>2, DegreeAssumption
<1>6. UNCHANGED <<bottom, routes, entry>>
  BY <1>1 DEF vars
<1>7. /\ grows => Len(routes) <= job[t].level + 1
      /\ ~ grows => bottom.any /\ job[t].level < Len(routes)
  BY <1>5
<1> HIDE DEF grows
<1>8. \A u \in Threads : u # t => pc'[u] = pc[u]
  BY <1>2 DEF Others
<1>9. Linking'
  <2>1. \A u \in Threads : pc'[u] # "link" => at'[u] = 0
    <3>1. at[t] = 0
      BY <1>1 DEF AddInv, Linking
    <3> QED
      BY <1>1, <1>8, <3>1 DEF AddInv, Linking
  <2>2. \A u \in Threads : pc'[u] = "link" => OnTheWayUp(u)'
    BY <1>1, <1>2, <1>6, <1>8 DEF AddInv, Linking, OnTheWayUp
  <2>3. \A u \in Threads : pc'[u] = "share" => bottom'.any /\ job'[u].level < Len(routes')
    BY <1>1, <1>2, <1>6, <1>7, <1>8 DEF AddInv, Linking
  <2>4. \A u \in Threads : pc'[u] = "grow" => add_mutex' = u /\ Len(routes') <= job'[u].level + 1
    <3>1. \A u \in Threads : pc[u] # "grow"
      BY <1>1, ThreadAssumption DEF AddInv, Linking
    <3> QED
      BY <1>1, <1>2, <1>6, <1>7, <1>8, <3>1
  <2> QED
    BY <2>1, <2>2, <2>3, <2>4 DEF Linking
<1> QED
  BY <1>4, <1>9 DEF AddInv

(* The entry is a point once the bottom graph has one.                      *)
LEMMA EntryPlaced ==
    ASSUME AddInv, bottom.any
    PROVE  entry \in Ids /\ entry < total_count /\ EntryDefined
<1>1. entry \in bottom.has /\ bottom.has \in SUBSET Ids
  BY DEF AddInv, LevelsInv, AddTypes, GraphsTyped, Graph
<1>2. entry < total_count /\ entry \in Ids
  BY <1>1 DEF AddInv, PointsComplete
<1>3. entry \in Int /\ total_count \in Int
  BY <1>2, IdFacts DEF AddInv, AddTypes, LabelInv
<1> QED
  BY <1>2, <1>3 DEF EntryDefined

(* The shared path starts at a point of every level it will link on,        *)
(* whichever point has become the entry since Decide.                       *)
LEMMA ShareInv ==
    ASSUME AddInv, NEW t \in Threads, Share(t)
    PROVE  AddInv'
<1>1. PICK start \in StartsBelow(job[t].level) : ep' = [ep EXCEPT ![t] = start]
  BY DEF Share
<1>2. /\ pc[t] = "share" /\ pc' = [pc EXCEPT ![t] = "link"]
      /\ UNCHANGED vars /\ job' = job /\ at' = at /\ add_mutex' = add_mutex
  BY DEF Share, Goto
<1>3. /\ bottom.any /\ job[t].level < Len(routes) /\ at[t] = 0
      /\ job[t].level \in -1 .. MaxLevel
  BY <1>2 DEF AddInv, Linking, AddTypes, Jobs
<1>4. EntryDefined /\ GraphsTyped /\ LevelsInv /\ total_count \in Nat /\ Len(routes) \in Nat
  BY <1>3, EntryPlaced, MaxIdAssumption DEF AddInv, AddTypes, LabelInv, GraphsTyped
<1>5. /\ start \in bottom.has
      /\ \A k \in 1 .. Len(routes) : k <= job[t].level + 1 => start \in routes[k].has
  <2> DEFINE level == job[t].level
  <2>1. level \in -1 .. MaxLevel /\ start \in StartsBelow(level)
    BY <1>3
  <2> HIDE DEF level
  <2>2. /\ bottom.any => start \in bottom.has
        /\ \A k \in 1 .. Len(routes) : k <= level + 1 => start \in routes[k].has
    BY <1>4, <2>1, DescentStaysOnLevels
  <2> QED
    BY <1>3, <2>2 DEF level
<1>6. start \in Ids
  BY <1>5 DEF AddInv, AddTypes, GraphsTyped, Graph
<1>7. /\ pc' \in [Threads -> Stages] /\ Others(t) /\ pc'[t] = "link" /\ ep'[t] = start
      /\ ep' \in [Threads -> Ids \cup {INVALID_ID}]
  BY <1>1, <1>2, <1>6 DEF AddInv, AddTypes, Others, Stages
<1>8. Unlinked(t) /\ Coded(t) /\ Unlinked(t)' /\ Coded(t)'
  BY <1>2, <1>3, <1>7 DEF Unlinked, HasId, Coded, Stages
<1>9. /\ AddTypes' /\ JobsApart' /\ JobsWritten' /\ PointsComplete'
      /\ LevelsInv' /\ FirstPoint'
  BY <1>2, <1>7, <1>8, StageInv
<1>10. UNCHANGED <<bottom, routes>>
  BY <1>2 DEF vars
<1>11. OnTheWayUp(t)'
  <2>1. /\ 0 <= job[t].level + 1 /\ ~ (0 > 0)
        /\ \A k \in 1 .. Len(routes) : ~ (k < 0)
    BY <1>3, <1>4, DegreeAssumption
  <2> QED
    BY <1>2, <1>3, <1>5, <1>7, <1>10, <2>1 DEF OnTheWayUp
<1>12. Linking'
  <2>1. \A u \in Threads : u # t => pc'[u] = pc[u] /\ ep'[u] = ep[u]
    BY <1>7 DEF Others
  <2>2. \A u \in Threads : pc'[u] = "link" => OnTheWayUp(u)'
    <3> SUFFICES ASSUME NEW u \in Threads, u # t, pc'[u] = "link" PROVE OnTheWayUp(u)'
      BY <1>11
    <3>1. OnTheWayUp(u)
      BY <2>1 DEF AddInv, Linking
    <3> QED
      BY <1>2, <1>10, <2>1, <3>1 DEF OnTheWayUp
  <2>3. \A u \in Threads : pc'[u] # "link" => at'[u] = 0
    BY <1>2, <1>7, <2>1 DEF AddInv, Linking
  <2>4. \A u \in Threads : pc'[u] = "share" => bottom'.any /\ job'[u].level < Len(routes')
    BY <1>2, <1>7, <1>10, <2>1 DEF AddInv, Linking
  <2>5. \A u \in Threads : pc'[u] = "grow" => add_mutex' = u /\ Len(routes') <= job'[u].level + 1
    BY <1>2, <1>7, <1>10, <2>1 DEF AddInv, Linking
  <2> QED
    BY <2>2, <2>3, <2>4, <2>5 DEF Linking
<1> QED
  BY <1>9, <1>12 DEF AddInv

----------------------------------------------------------------------------
(* Other calls between the steps of the Adds.                               *)

\* The labels of a table are changed for others, and no id gets a label.
Relabelled(old, new) ==
    /\ Shaped(new) /\ new.size = old.size
    /\ \A i \in Ids : old.table[i] \in Labels => new.table[i] \in Labels
    /\ \A l \in AnyLabel : \/ IdOf(new, l) = INVALID_ID
                           \/ \E m \in AnyLabel : IdOf(new, l) = IdOf(old, m)

(* Neither MARK_REMOVE nor UpdateId takes anything from an Add under way.   *)
LEMMA RelabelInv ==
    ASSUME AddInv, Relabelled(lt, lt'), PointsBack(lt', total_count), UNCHANGED avars,
           UNCHANGED <<total_count, max_capacity, codes, bottom, routes, entry>>
    PROVE  AddInv'
<1>1. UNCHANGED <<pc, job, ep, at, add_mutex>>
  BY DEF avars
<1>2. AddTypes'
  BY <1>1 DEF AddInv, AddTypes, LabelInv, GraphsTyped, Relabelled
<1>3. \A u \in Threads : /\ HasId(u)' <=> HasId(u)
                         /\ Labelled(u)' <=> Labelled(u)
                         /\ Coded(u)' <=> Coded(u)
                         /\ Unlinked(u)' <=> Unlinked(u)
  BY <1>1 DEF HasId, Labelled, Coded, Unlinked
<1>4. JobsApart'
  BY <1>1, <1>3 DEF AddInv, JobsApart
<1>5. \A u \in Threads : HasId(u) => job[u].id \in Ids
  BY DEF AddInv, JobsApart
<1>6. JobsWritten'
  <2>1. \A u \in Threads : pc'[u] = "label" => \A l \in AnyLabel : IdOf(lt', l) # job'[u].id
    <3> SUFFICES ASSUME NEW u \in Threads, pc[u] = "label", NEW l \in AnyLabel
                 PROVE  IdOf(lt', l) # job[u].id
      BY <1>1
    <3>1. job[u].id # INVALID_ID
      BY <1>5, IdFacts DEF HasId, Stages
    <3>2. \A m \in AnyLabel : IdOf(lt, m) # job[u].id
      BY DEF AddInv, JobsWritten
    <3> QED
      BY <3>1, <3>2 DEF Relabelled
  <2>2. \A u \in Threads : Labelled(u)' => lt'.table[job'[u].id] \in Labels
    <3> SUFFICES ASSUME NEW u \in Threads, Labelled(u) PROVE lt'.table[job[u].id] \in Labels
      BY <1>1, <1>3
    <3>1. job[u].id \in Ids /\ lt.table[job[u].id] \in Labels
      BY <1>5 DEF Labelled, HasId, AddInv, JobsWritten
    <3> QED
      BY <3>1 DEF Relabelled
  <2> QED
    BY <1>1, <1>3, <2>1, <2>2 DEF AddInv, JobsWritten
<1>7. PointsComplete'
  <2>1. bottom.has \in SUBSET Ids
    BY DEF AddInv, AddTypes, GraphsTyped, Graph
  <2>2. \A i \in bottom.has : i < total_count /\ lt'.table[i] \in Labels /\ codes[i] \in Vectors
    BY <2>1 DEF AddInv, PointsComplete, Relabelled
  <2> QED
    BY <1>1, <1>3, <2>2 DEF AddInv, PointsComplete
<1>8. LevelsInv' /\ FirstPoint'
  BY DEF AddInv, LevelsInv, EdgesStayInside, FirstPoint
<1>9. Linking'
  BY <1>1 DEF AddInv, Linking, OnTheWayUp
<1> QED
  BY <1>2, <1>4, <1>6, <1>7, <1>8, <1>9 DEF AddInv

LEMMA MarkInv ==
    ASSUME AddInv, NEW label \in Labels, RemoveMark(label), UNCHANGED avars
    PROVE  AddInv'
<1>1. Shaped(lt) /\ PointsBack(lt, total_count) /\ label \in AnyLabel
  BY IdFacts DEF AddInv, AddTypes, LabelInv
<1>2. Shaped(lt') /\ lt'.size = lt.size /\ PointsBack(lt', total_count)
  BY <1>1, MarkPointsBack DEF RemoveMark
<1>3. lt'.remap = lt.remap /\ lt'.table = lt.table
  BY <1>1 DEF RemoveMark, MarkRemove, Shaped
<1>4. Relabelled(lt, lt')
  BY <1>2, <1>3 DEF Relabelled, IdOf
<1> QED
  BY <1>2, <1>4, RelabelInv DEF RemoveMark

LEMMA RenameInv ==
    ASSUME AddInv, NEW old \in Labels, NEW new \in Labels, UpdateId(old, new), UNCHANGED avars
    PROVE  AddInv'
<1>1. /\ Shaped(lt) /\ PointsBack(lt, total_count) /\ old \in AnyLabel /\ new \in AnyLabel
      /\ old # new /\ lt' = UpdateLabel(lt, old, new)
      /\ total_count \in Int /\ total_count <= lt.size
  BY IdFacts DEF AddInv, AddTypes, LabelInv, UpdateId
<1>2. Shaped(lt') /\ lt'.size = lt.size /\ PointsBack(lt', total_count)
  BY <1>1, UpdatePointsBack
<1>3. /\ lt'.table = [i \in Ids |-> IF i < lt.size /\ lt.table[i] = old
                                    THEN new ELSE lt.table[i]]
      /\ lt'.remap = IF Found(lt, old)
                     THEN [lt.remap EXCEPT ![old] = INVALID_ID, ![new] = lt.remap[old]]
                     ELSE lt.remap
  BY <1>1 DEF UpdateLabel, Shaped
<1>4. \A l \in AnyLabel : \/ IdOf(lt', l) = INVALID_ID
                          \/ \E m \in AnyLabel : IdOf(lt', l) = IdOf(lt, m)
  BY <1>1, <1>3 DEF IdOf, Shaped
<1>5. Relabelled(lt, lt')
  BY <1>2, <1>3, <1>4 DEF Relabelled
<1> QED
  BY <1>2, <1>5, RelabelInv DEF UpdateId
----------------------------------------------------------------------------
(* The steps that link a point.                                             *)

(* A level with one more point, which is not the last one allocated: the    *)
(* level gains just that point, and its edges stay among the points.        *)
LEMMA LinkedInside ==
    ASSUME NEW g \in Graph, NEW n \in Int, EdgesInside(g, n), NEW id \in Ids, id < n, NEW start,
           g.any => start \in g.has /\ start < n,
           NEW max, NEW h \in Linked(g, id, start, max)
    PROVE  /\ h \in Graph
           /\ EdgesInside(h, n)
           /\ Gains(g, h, id)
           /\ h.any = TRUE
<1>1. CASE ~ g.any
  <2> DEFINE none == {}
  <2>1. h = InsertNeighborsById(g, id, none) /\ none \in SUBSET Ids /\ \A x : x \notin none
    BY <1>1 DEF Linked
  <2> HIDE DEF none
  <2>2. /\ h \in Graph /\ h.has = g.has \cup {id} /\ h.any = TRUE
        /\ h.nbrs = [i \in Ids |-> IF i = id THEN none ELSE g.nbrs[i]]
    BY <2>1, InsertTyped
  <2>3. EdgesInside(h, n)
    BY <2>1, <2>2 DEF EdgesInside
  <2> QED
    BY <2>2, <2>3 DEF Gains
<1>2. CASE g.any
  <2>1. PICK found \in (SUBSET Reachable(g, start)) \ {{}} : h \in Connected(g, id, found \ {id}, max)
    BY <1>2 DEF Linked
  <2> DEFINE C == found \ {id}
  <2>2. C \in SUBSET g.has /\ C \in SUBSET Ids /\ id \notin C /\ \A c \in C : c < n
    <3>1. start \in g.has /\ start < n
      BY <1>2
    <3>2. ASSUME NEW c \in C PROVE c \in g.has /\ c < n
      <4>1. c \in Reachable(g, start)
        BY <2>1
      <4>2. c \in g.has /\ (c < n \/ c = start)
        BY <3>1, <4>1, ReachableInside
      <4> QED
        BY <3>1, <4>2
    <3> QED
      BY <3>2 DEF Graph
  <2>3. h \in Connected(g, id, C, max)
    BY <2>1
  <2> HIDE DEF C
  <2>4. h \in Graph /\ h.any = TRUE /\ \E sel \in SUBSET C : LinkedTo(g, h, id, sel)
    BY <2>2, <2>3, ConnectedForm
  <2>5. PICK sel \in SUBSET C :
            /\ h.has = g.has \cup {id} \cup sel
            /\ h.nbrs[id] = sel
            /\ \A i \in Ids : i \in sel => h.nbrs[i] \subseteq g.nbrs[i] \cup {id}
            /\ \A i \in Ids : i \notin sel /\ i # id => h.nbrs[i] = g.nbrs[i]
    BY <2>4 DEF LinkedTo
  <2>6. h.has = g.has \cup {id}
    BY <2>2, <2>5
  <2>7. EdgesInside(h, n)
    <3> SUFFICES ASSUME NEW i \in Ids, NEW x \in Ids, x \in h.nbrs[i]
                 PROVE  i < n /\ x < n /\ i # x /\ i \in h.has /\ x \in h.has
      BY DEF EdgesInside
    <3>1. CASE i = id
      <4>1. x \in C
        BY <2>5, <3>1
      <4> QED
        BY <2>2, <2>6, <3>1, <4>1
    <3>2. CASE i # id
      <4>1. CASE x \in g.nbrs[i]
        BY <2>6, <4>1 DEF EdgesInside
      <4>2. CASE x \notin g.nbrs[i]
        <5>1. x = id /\ i \in C
          BY <2>5, <3>2, <4>2
        <5> QED
          BY <2>2, <2>6, <3>2, <5>1
      <4> QED
        BY <4>1, <4>2
    <3> QED
      BY <3>1, <3>2
  <2> QED
    BY <2>4, <2>6, <2>7 DEF Gains
<1> QED
  BY <1>1, <1>2

(* What a Grow leaves behind: the point is on every level there is.         *)
LEMMA GrowForm ==
    ASSUME AddInv, NEW t \in Threads, Grow(t)
    PROVE  /\ bottom' \in Graph /\ bottom'.any = TRUE /\ EdgesInside(bottom', total_count)
           /\ Gains(bottom, bottom', job[t].id)
           /\ routes' \in Seq(Graph) /\ Len(routes') = job[t].level + 1
           /\ \A j \in 1 .. Len(routes') :
                 /\ EdgesInside(routes'[j], total_count)
                 /\ j <= Len(routes) => Gains(routes[j], routes'[j], job[t].id)
                 /\ ~ (j <= Len(routes)) => routes'[j].has = {job[t].id}
<1> DEFINE id == job[t].id
           level == job[t].level
           grown == GrownRoutes(level)
           n == level + 1
           options(s) == [j \in DOMAIN grown |->
                             IF j <= level + 1
                             THEN Linked(grown[j], id, s, RouteDegree)
                             ELSE {grown[j]}]
<1>1. PICK start \in StartsBelow(level) :
        bottom' \in Linked(bottom, id, start, MaxDegree) /\ routes' \in Choices(options(start))
  BY DEF Grow
<1>2. /\ pc[t] = "grow" /\ level \in -1 .. MaxLevel /\ level \in Int /\ -1 <= level
      /\ Len(routes) \in Nat /\ Len(routes) <= level + 1
  <2>1. pc[t] = "grow" /\ level \in -1 .. MaxLevel /\ routes \in Seq(Graph) /\ Len(routes) <= level + 1
    BY DEF Grow, Goto, AddInv, AddTypes, Jobs, GraphsTyped, Linking
  <2> HIDE DEF level
  <2> QED
    BY <2>1, DegreeAssumption
<1>3. /\ id \in Ids /\ id < total_count /\ total_count \in Nat /\ total_count \in Int
      /\ GraphsTyped /\ LevelsInv
  BY <1>2, MaxIdAssumption DEF HasId, Stages, AddInv, JobsApart, AddTypes, LabelInv
<1>4. /\ bottom.any => start \in bottom.has /\ start < total_count
      /\ \A k \in 1 .. Len(routes) : start \in routes[k].has /\ start < total_count
  <2>1. CASE bottom.any
    <3>1. EntryDefined /\ entry < total_count
      BY <2>1, EntryPlaced
    <3> HIDE DEF level
    <3>2. /\ entry < total_count => start < total_count
          /\ bottom.any => start \in bottom.has
          /\ \A k \in 1 .. Len(routes) : k <= level + 1 => start \in routes[k].has
      BY <1>1, <1>2, <1>3, <3>1, DescentStaysOnLevels
    <3>3. \A k \in 1 .. Len(routes) : k <= level + 1
      BY <1>2
    <3> QED
      BY <2>1, <3>1, <3>2, <3>3
  <2>2. CASE ~ bottom.any
    <3>1. Len(routes) = 0
      BY <2>2 DEF AddInv, FirstPoint
    <3> QED
      BY <2>2, <3>1
  <2> QED
    BY <2>1, <2>2
<1>5. /\ bottom' \in Graph /\ bottom'.any = TRUE /\ EdgesInside(bottom', total_count)
      /\ Gains(bottom, bottom', id)
  <2>1. bottom \in Graph /\ EdgesInside(bottom, total_count)
    BY <1>3 DEF GraphsTyped, LevelsInv, EdgesStayInside
  <2> HIDE DEF id, level
  <2> QED
    BY <1>1, <1>3, <1>4, <2>1, LinkedInside
<1>6. n \in Nat /\ DOMAIN grown = 1 .. n
      /\ \A j \in 1 .. n : grown[j] = IF j <= Len(routes) THEN routes[j] ELSE EmptyGraph
  <2> HIDE DEF level
  <2>1. n \in Nat /\ (IF level >= Len(routes) THEN level + 1 ELSE Len(routes)) = n
    BY <1>2
  <2> HIDE DEF n
  <2> QED
    BY <2>1 DEF GrownRoutes
<1> HIDE DEF id, grown, n
<1>7. \A j \in 1 .. n : /\ grown[j] \in Graph /\ EdgesInside(grown[j], total_count)
                        /\ grown[j].any => start \in grown[j].has /\ start < total_count
  <2>1. /\ EmptyGraph \in Graph /\ EdgesInside(EmptyGraph, total_count)
        /\ EmptyGraph.any = FALSE /\ EmptyGraph.has = {}
    BY EmptySound DEF Sound, EmptyGraph, EdgesInside
  <2>2. \A j \in 1 .. Len(routes) : routes[j] \in Graph /\ EdgesInside(routes[j], total_count)
    BY <1>3 DEF GraphsTyped, LevelsInv, EdgesStayInside
  <2>3. \A j \in 1 .. n : j <= Len(routes) => j \in 1 .. Len(routes)
    BY <1>2, <1>6
  <2> HIDE DEF level
  <2> QED
    BY <1>4, <1>6, <2>1, <2>2, <2>3
<1>8. /\ DOMAIN options(start) = 1 .. n
      /\ \A j \in 1 .. n : options(start)[j] = Linked(grown[j], id, start, RouteDegree)
  <2> HIDE DEF level
  <2>1. \A j \in 1 .. n : j <= level + 1
    BY <1>2 DEF n
  <2> QED
    BY <1>6, <2>1
<1>9. \A j \in 1 .. n : \A h \in options(start)[j] :
        h \in Graph /\ EdgesInside(h, total_count) /\ Gains(grown[j], h, id)
  <2> SUFFICES ASSUME NEW j \in 1 .. n, NEW h \in options(start)[j]
               PROVE  h \in Graph /\ EdgesInside(h, total_count) /\ Gains(grown[j], h, id)
    OBVIOUS
  <2> DEFINE g == grown[j]
  <2>1. /\ g \in Graph /\ EdgesInside(g, total_count)
        /\ g.any => start \in g.has /\ start < total_count
        /\ h \in Linked(g, id, start, RouteDegree)
    BY <1>7, <1>8
  <2> HIDE DEF g
  <2>2. h \in Graph /\ EdgesInside(h, total_count) /\ Gains(g, h, id)
    BY <1>3, <2>1, LinkedInside
  <2> QED
    BY <2>2 DEF g
<1>10. /\ routes' \in Seq(Graph) /\ Len(routes') = n
       /\ \A j \in 1 .. n : routes'[j] \in options(start)[j]
  <2>1. n \in Nat /\ DOMAIN options(start) = 1 .. n
        /\ \A j \in 1 .. n : \A h \in options(start)[j] : h \in Graph
    BY <1>6, <1>8, <1>9
  <2> HIDE DEF options
  <2> QED
    BY <1>1, <2>1, ChoicesTyped
<1>11. \A j \in 1 .. n :
          /\ EdgesInside(routes'[j], total_count)
          /\ j <= Len(routes) => Gains(routes[j], routes'[j], id)
          /\ ~ (j <= Len(routes)) => routes'[j].has = {id}
  <2> SUFFICES ASSUME NEW j \in 1 .. n
               PROVE  /\ EdgesInside(routes'[j], total_count)
                      /\ j <= Len(routes) => Gains(routes[j], routes'[j], id)
                      /\ ~ (j <= Len(routes)) => routes'[j].has = {id}
    OBVIOUS
  <2>1. EdgesInside(routes'[j], total_count) /\ Gains(grown[j], routes'[j], id)
    BY <1>9, <1>10
  <2>2. EmptyGraph.has = {}
    BY DEF EmptyGraph
  <2> QED
    BY <1>6, <2>1, <2>2 DEF Gains
<1> QED
  BY <1>5, <1>10, <1>11 DEF id, n
(* The point is complete when it comes into the bottom graph, and belongs   *)
(* to no thread afterwards.                                                 *)
LEMMA LeaveInv ==
    ASSUME AddInv, NEW t \in Threads, Coded(t), Unlinked(t), Others(t),
           Gains(bottom, bottom', job[t].id), bottom' \in Graph,
           ~ Unlinked(t)', job'[t] = job[t] \/ ~ HasId(t)',
           UNCHANGED <<lt, total_count, codes>>
    PROVE  PointsComplete'
<1> DEFINE id == job[t].id
<1>1. id \in Ids /\ id < total_count /\ lt.table[id] \in Labels /\ codes[id] \in Vectors
  BY DEF Coded, Unlinked, Labelled, HasId, AddInv, JobsApart, JobsWritten
<1>2. bottom'.has = bottom.has \cup {id}
  BY DEF Gains
<1>3. \A u \in Threads : u # t => (Unlinked(u)' <=> Unlinked(u)) /\ job'[u].id = job[u].id
  BY DEF Others, Unlinked, HasId
<1>4. \A u \in Threads : u # t /\ Unlinked(u) => job[u].id # id
  BY DEF Unlinked, AddInv, JobsApart
<1>5. \A i \in bottom'.has : i < total_count' /\ lt'.table[i] \in Labels /\ codes'[i] \in Vectors
  BY <1>1, <1>2 DEF AddInv, PointsComplete
<1>6. \A u \in Threads : Unlinked(u)' => job'[u].id \notin bottom'.has
  <2> SUFFICES ASSUME NEW u \in Threads, Unlinked(u)' PROVE job'[u].id \notin bottom'.has
    OBVIOUS
  <2>1. u # t /\ Unlinked(u) /\ job'[u].id = job[u].id
    BY <1>3
  <2>2. job[u].id \notin bottom.has /\ job[u].id # id
    BY <1>4, <2>1 DEF AddInv, PointsComplete
  <2> QED
    BY <1>2, <2>1, <2>2
<1>7. \A i \in Ids : i < total_count' =>
          i \in bottom'.has \/ \E u \in Threads : Unlinked(u)' /\ job'[u].id = i
  <2> SUFFICES ASSUME NEW i \in Ids, i < total_count, i \notin bottom'.has
               PROVE  \E u \in Threads : Unlinked(u)' /\ job'[u].id = i
    OBVIOUS
  <2>1. PICK u \in Threads : Unlinked(u) /\ job[u].id = i
    BY <1>2 DEF AddInv, PointsComplete
  <2>2. u # t
    BY <1>2, <2>1
  <2> QED
    BY <1>3, <2>1, <2>2
<1> QED
  BY <1>5, <1>6, <1>7 DEF PointsComplete

(* Ids stay apart and written while a thread goes on or leaves.             *)
LEMMA JobsKept ==
    ASSUME AddInv, NEW t \in Threads, Coded(t), Others(t),
           \/ job'[t] = job[t] /\ Coded(t)'
           \/ pc'[t] = "idle",
           UNCHANGED <<lt, total_count, codes>>
    PROVE  JobsApart' /\ JobsWritten'
<1>0. HasId(t) /\ Labelled(t) /\ pc[t] # "idle"
  BY DEF Coded, Labelled, HasId
<1>1. /\ HasId(t)' => Coded(t)' /\ job'[t] = job[t]
      /\ pc'[t] # "idle" => HasId(t)' /\ job'[t] = job[t]
      /\ pc'[t] # "label"
      /\ Labelled(t)' => Coded(t)' /\ job'[t] = job[t]
      /\ Coded(t)' => job'[t] = job[t]
  BY DEF Coded, Labelled, HasId, Stages
<1>2. \A u \in Threads : u # t => /\ HasId(u)' <=> HasId(u)
                                  /\ Labelled(u)' <=> Labelled(u)
                                  /\ Coded(u)' <=> Coded(u)
                                  /\ job'[u] = job[u] /\ pc'[u] = pc[u]
  BY DEF Others, Coded, Labelled, HasId
<1>3. JobsApart'
  <2>1. \A u \in Threads : pc'[u] # "idle" =>
          job'[u].label \in Labels /\ job'[u].vector \in Vectors
    BY <1>0, <1>1, <1>2 DEF AddInv, JobsApart
  <2>2. \A u \in Threads : HasId(u)' => HasId(u) /\ job'[u] = job[u]
    BY <1>0, <1>1, <1>2
  <2> QED
    BY <2>1, <2>2 DEF AddInv, JobsApart
<1>4. JobsWritten'
  <2>1. \A u \in Threads : /\ pc'[u] = "label" => pc[u] = "label" /\ job'[u] = job[u]
                           /\ Labelled(u)' => Labelled(u) /\ job'[u] = job[u]
                           /\ Coded(u)' => Coded(u) /\ job'[u] = job[u]
    BY <1>0, <1>1, <1>2
  <2> QED
    BY <2>1 DEF AddInv, JobsWritten
<1> QED
  BY <1>3, <1>4

(* The exclusive path: the new entry is on every level.                     *)
LEMMA GrowInv ==
    ASSUME AddInv, NEW t \in Threads, Grow(t)
    PROVE  AddInv'
<1> DEFINE id == job[t].id
           level == job[t].level
<1>1. /\ pc[t] = "grow" /\ pc'[t] = "idle" /\ Others(t) /\ job'[t] = NoJob
      /\ entry' = id /\ add_mutex' = NoThread /\ ep' = ep /\ at' = at
      /\ UNCHANGED <<lt, total_count, max_capacity, codes>>
      /\ pc' \in [Threads -> Stages] /\ job' = [job EXCEPT ![t] = NoJob]
      /\ \A u \in Threads : pc[u] # "link"
  BY DEF AddInv, AddTypes, Grow, Goto, GlobalMutexFree, Others, Stages
<1>2. /\ bottom' \in Graph /\ bottom'.any = TRUE /\ EdgesInside(bottom', total_count)
      /\ Gains(bottom, bottom', id)
      /\ routes' \in Seq(Graph) /\ Len(routes') = level + 1
      /\ \A j \in 1 .. Len(routes') :
            /\ EdgesInside(routes'[j], total_count)
            /\ j <= Len(routes) => Gains(routes[j], routes'[j], id)
            /\ ~ (j <= Len(routes)) => routes'[j].has = {id}
  BY GrowForm
<1>3. /\ Coded(t) /\ Unlinked(t) /\ HasId(t) /\ ~ Unlinked(t)' /\ ~ HasId(t)'
      /\ add_mutex = t /\ at[t] = 0 /\ Len(routes) <= level + 1 /\ level \in -1 .. MaxLevel
  BY <1>1 DEF Coded, Unlinked, HasId, Stages, AddInv, Linking, AddTypes, Jobs
<1>4. id \in Ids /\ level \in Int /\ -1 <= level /\ level <= MaxLevel /\ Len(routes) \in Nat
      /\ bottom.has \in SUBSET Ids
  BY <1>3, DegreeAssumption DEF AddInv, JobsApart, AddTypes, GraphsTyped, Graph
<1> HIDE DEF id, level
<1>5. AddTypes'
  <2>1. NoJob \in Jobs
    <3>1. Blank \in AnyLabel /\ -1 \in -1 .. MaxLevel
      BY IdFacts, DegreeAssumption
    <3> QED
      BY <3>1 DEF NoJob, Jobs
  <2>2. job' \in [Threads -> Jobs]
    BY <1>1, <2>1 DEF AddInv, AddTypes
  <2>3. GraphsTyped'
    BY <1>1, <1>2, <1>4, DegreeAssumption DEF GraphsTyped
  <2> QED
    BY <1>1, <2>2, <2>3 DEF AddInv, AddTypes, LabelInv
<1>6. JobsApart' /\ JobsWritten'
  BY <1>1, <1>3, JobsKept
<1>7. PointsComplete'
  BY <1>1, <1>2, <1>3, LeaveInv DEF id
<1>8. LevelsInv'
  <2>1. EdgesStayInside'
    BY <1>1, <1>2 DEF EdgesStayInside
  <2>2. entry' \in bottom'.has /\ bottom.has \subseteq bottom'.has
    BY <1>1, <1>2 DEF Gains
  <2>3. \A j \in 1 .. Len(routes') :
           /\ j <= Len(routes) => j \in 1 .. Len(routes) /\ routes'[j].has = routes[j].has \cup {id}
           /\ ~ (j <= Len(routes)) => routes'[j].has = {id}
    BY <1>2, <1>4 DEF Gains
  <2>4. \A j \in 1 .. Len(routes) : routes[j].has \subseteq bottom.has
    BY DEF AddInv, LevelsInv
  <2>5. \A j \in 1 .. Len(routes') : entry' \in routes'[j].has /\ routes'[j].has \subseteq bottom'.has
    BY <1>1, <2>2, <2>3, <2>4
  <2>6. ASSUME NEW j \in 1 .. Len(routes'), NEW k \in 1 .. Len(routes'), k < j
        PROVE  routes'[j].has \subseteq routes'[k].has
    <3>1. CASE j <= Len(routes)
      <4>1. k <= Len(routes)
        <5>1. k \in Int /\ j \in Int
          BY <1>2, <1>4
        <5> QED
          BY <1>4, <2>6, <3>1, <5>1
      <4>2. routes[j].has \subseteq routes[k].has
        BY <2>3, <2>6, <3>1, <4>1 DEF AddInv, LevelsInv
      <4> QED
        BY <2>3, <3>1, <4>1, <4>2
    <3>2. CASE ~ (j <= Len(routes))
      BY <2>3, <3>2
    <3> QED
      BY <3>1, <3>2
  <2> QED
    BY <2>1, <2>2, <2>5, <2>6 DEF LevelsInv
<1>9. FirstPoint'
  BY <1>2 DEF FirstPoint
<1>10. Linking'
  <2>1. \A u \in Threads : u # t => /\ pc'[u] = pc[u] /\ job'[u] = job[u] /\ pc[u] # "grow"
    BY <1>1, <1>3 DEF Others, AddInv, Linking
  <2>2. \A u \in Threads : pc'[u] # "link" => at'[u] = 0
    BY <1>1, <1>3, <2>1 DEF AddInv, Linking
  <2>3. \A u \in Threads : pc'[u] # "link" /\ pc'[u] # "grow"
    BY <1>1, <2>1
  <2>4. \A u \in Threads : pc'[u] = "share" => bottom'.any /\ job'[u].level < Len(routes')
    <3> SUFFICES ASSUME NEW u \in Threads, pc'[u] = "share"
                 PROVE  job'[u].level < Len(routes')
      BY <1>2
    <3>1. job'[u] = job[u] /\ job[u].level < Len(routes) /\ job[u].level \in -1 .. MaxLevel
      BY <1>1, <2>1 DEF AddInv, Linking, AddTypes, Jobs
    <3> QED
      BY <1>2, <1>3, <1>4, <3>1, DegreeAssumption
  <2> QED
    BY <2>2, <2>3, <2>4 DEF Linking
<1> QED
  BY <1>5, <1>6, <1>7, <1>8, <1>9, <1>10 DEF AddInv
\* The thread goes on to the next level, or leaves after its last.
GoesOn(t) ==
    \/ /\ at[t] <= job[t].level /\ at' = [at EXCEPT ![t] = at[t] + 1]
       /\ UNCHANGED <<pc, job, ep>>
    \/ /\ pc' = [pc EXCEPT ![t] = "idle"]
       /\ job' = [job EXCEPT ![t] = NoJob]
       /\ ep' = [ep EXCEPT ![t] = INVALID_ID]
       /\ at' = [at EXCEPT ![t] = 0]

(* What a Link leaves behind: the level gains the point, the others stay.   *)
LEMMA LinkForm ==
    ASSUME AddInv, NEW t \in Threads, Link(t)
    PROVE  /\ pc[t] = "link" /\ GoesOn(t) /\ OnTheWayUp(t)
           /\ bottom' \in Graph /\ bottom'.any = TRUE /\ EdgesInside(bottom', total_count)
           /\ routes' \in Seq(Graph) /\ Len(routes') = Len(routes)
           /\ \A j \in 1 .. Len(routes) : EdgesInside(routes'[j], total_count)
           /\ at[t] = 0 => Gains(bottom, bottom', job[t].id) /\ routes' = routes
           /\ at[t] # 0 => /\ bottom' = bottom /\ at[t] \in 1 .. Len(routes)
                           /\ Gains(routes[at[t]], routes'[at[t]], job[t].id)
                           /\ \A j \in 1 .. Len(routes) : j # at[t] => routes'[j] = routes[j]
           /\ UNCHANGED <<lt, total_count, max_capacity, codes, entry, add_mutex>>
<1> DEFINE id == job[t].id
           start == ep[t]
           k == at[t]
<1>1. /\ pc[t] = "link" /\ GoesOn(t)
      /\ UNCHANGED <<lt, total_count, max_capacity, codes, entry, add_mutex>>
  BY DEF Link, GoesOn
<1>2. OnTheWayUp(t)
  BY <1>1 DEF AddInv, Linking
<1>3. /\ bottom \in Graph /\ routes \in Seq(Graph) /\ Len(routes) \in Nat
      /\ EdgesInside(bottom, total_count)
      /\ \A j \in 1 .. Len(routes) : routes[j] \in Graph /\ EdgesInside(routes[j], total_count)
  BY DEF AddInv, AddTypes, GraphsTyped, LevelsInv, EdgesStayInside
<1>4. /\ id \in Ids /\ id < total_count /\ total_count \in Int /\ k \in Nat
      /\ bottom.any /\ start \in bottom.has /\ start < total_count
      /\ k # 0 => k \in 1 .. Len(routes) /\ start \in routes[k].has
  <2>1. HasId(t)
    BY <1>1 DEF HasId, Stages
  <2>2. id \in Ids /\ id < total_count /\ total_count \in Int /\ k \in Nat
    BY <2>1 DEF AddInv, JobsApart, AddTypes, LabelInv
  <2>3. bottom.any /\ start \in bottom.has
    BY <1>2 DEF OnTheWayUp
  <2>4. start < total_count
    BY <2>3 DEF AddInv, PointsComplete
  <2>5. k <= job[t].level + 1 /\ job[t].level < Len(routes) /\ job[t].level \in -1 .. MaxLevel
    BY <1>2 DEF OnTheWayUp, AddInv, AddTypes, Jobs
  <2>6. k # 0 => k \in 1 .. Len(routes)
    <3> DEFINE level == job[t].level
    <3> HIDE DEF k, level
    <3>1. k <= level + 1 /\ level < Len(routes) /\ level \in Int
      BY <2>5, DegreeAssumption DEF level
    <3> QED
      BY <1>3, <2>2, <3>1
  <2>7. k # 0 => start \in routes[k].has
    BY <1>2, <2>5, <2>6 DEF OnTheWayUp
  <2> QED
    BY <2>2, <2>3, <2>4, <2>6, <2>7
<1>5. CASE k = 0
  <2>1. bottom' \in Linked(bottom, id, start, MaxDegree) /\ routes' = routes
    BY <1>5 DEF Link
  <2> HIDE DEF id, start, k
  <2>2. bottom' \in Graph /\ EdgesInside(bottom', total_count) /\ Gains(bottom, bottom', id)
        /\ bottom'.any = TRUE
    BY <1>3, <1>4, <2>1, LinkedInside
  <2> QED
    BY <1>1, <1>2, <1>3, <1>5, <2>1, <2>2 DEF k, id
<1>6. CASE k # 0
  <2>1. PICK h \in Linked(routes[k], id, start, RouteDegree) :
            routes' = [routes EXCEPT ![k] = h] /\ bottom' = bottom
    BY <1>6 DEF Link
  <2> DEFINE g == routes[k]
  <2>2. /\ g \in Graph /\ EdgesInside(g, total_count) /\ h \in Linked(g, id, start, RouteDegree)
        /\ g.any => start \in g.has /\ start < total_count
    BY <1>3, <1>4, <1>6
  <2>3. h \in Graph /\ EdgesInside(h, total_count) /\ Gains(g, h, id)
    <3> HIDE DEF g, id, start, k
    <3> QED
      BY <1>4, <2>2, LinkedInside
  <2>4. /\ routes' \in Seq(Graph) /\ Len(routes') = Len(routes) /\ routes'[k] = h
        /\ \A j \in 1 .. Len(routes) : j # k => routes'[j] = routes[j]
    <3>1. k \in 1 .. Len(routes)
      BY <1>4, <1>6
    <3> HIDE DEF g, id, start, k
    <3> QED
      BY <1>3, <2>1, <2>3, <3>1
  <2>5. \A j \in 1 .. Len(routes) : EdgesInside(routes'[j], total_count)
    <3> HIDE DEF g, id, start, k
    <3> QED
      BY <1>3, <2>3, <2>4
  <2>6. bottom.any = TRUE
    BY <1>3, <1>4 DEF Graph
  <2> QED
    BY <1>1, <1>2, <1>3, <1>4, <1>6, <2>1, <2>3, <2>4, <2>5, <2>6
<1> QED
  BY <1>5, <1>6

(* The shared path: a point is on the levels below before it is on a level. *)
LEMMA LinkInv ==
    ASSUME AddInv, NEW t \in Threads, Link(t)
    PROVE  AddInv'
<1> DEFINE id == job[t].id
           k == at[t]
<1>1. /\ pc[t] = "link" /\ GoesOn(t) /\ OnTheWayUp(t)
      /\ bottom' \in Graph /\ bottom'.any = TRUE /\ EdgesInside(bottom', total_count)
      /\ routes' \in Seq(Graph) /\ Len(routes') = Len(routes)
      /\ \A j \in 1 .. Len(routes) : EdgesInside(routes'[j], total_count)
      /\ k = 0 => Gains(bottom, bottom', id) /\ routes' = routes
      /\ k # 0 => /\ bottom' = bottom /\ k \in 1 .. Len(routes)
                  /\ Gains(routes[k], routes'[k], id)
                  /\ \A j \in 1 .. Len(routes) : j # k => routes'[j] = routes[j]
      /\ UNCHANGED <<lt, total_count, max_capacity, codes, entry, add_mutex>>
  BY LinkForm
<1>2. /\ job[t].level \in Int /\ job[t].level < Len(routes) /\ Len(routes) \in Nat /\ k \in Nat
      /\ bottom.has \in SUBSET Ids /\ k <= job[t].level + 1
  <2>1. job[t].level \in -1 .. MaxLevel
    BY DEF AddInv, AddTypes, Jobs
  <2> QED
    BY <1>1, <2>1, DegreeAssumption DEF OnTheWayUp, AddInv, AddTypes, GraphsTyped, Graph
\* The thread after the step.
<1>3. /\ pc' \in [Threads -> Stages] /\ job' \in [Threads -> Jobs]
      /\ ep' \in [Threads -> Ids \cup {INVALID_ID}] /\ at' \in [Threads -> Nat]
      /\ Others(t)
  <2>1. NoJob \in Jobs /\ "idle" \in Stages /\ k + 1 \in Nat
    <3>1. Blank \in AnyLabel /\ -1 \in -1 .. MaxLevel
      BY IdFacts, DegreeAssumption
    <3> QED
      BY <1>2, <3>1 DEF NoJob, Jobs, Stages
  <2>2. /\ pc \in [Threads -> Stages] /\ job \in [Threads -> Jobs]
        /\ ep \in [Threads -> Ids \cup {INVALID_ID}] /\ at \in [Threads -> Nat]
    BY DEF AddInv, AddTypes
  <2>3. CASE at' = [at EXCEPT ![t] = k + 1] /\ UNCHANGED <<pc, job, ep>>
    BY <2>1, <2>2, <2>3 DEF Others
  <2>4. CASE /\ pc' = [pc EXCEPT ![t] = "idle"] /\ job' = [job EXCEPT ![t] = NoJob]
             /\ ep' = [ep EXCEPT ![t] = INVALID_ID] /\ at' = [at EXCEPT ![t] = 0]
    BY <2>1, <2>2, <2>4 DEF Others
  <2> QED
    BY <1>1, <2>3, <2>4 DEF GoesOn
<1>4. \/ pc'[t] = "link" /\ job'[t] = job[t] /\ ep'[t] = ep[t] /\ at'[t] = k + 1 /\ k <= job[t].level
      \/ pc'[t] = "idle" /\ at'[t] = 0
  BY <1>1 DEF GoesOn, AddInv, AddTypes
<1>5. Coded(t) /\ HasId(t) /\ ~ Unlinked(t)'
  <2>1. k + 1 # 0
    BY <1>2
  <2> QED
    BY <1>1, <1>4, <2>1 DEF Coded, HasId, Unlinked, Stages
<1>6. JobsApart' /\ JobsWritten'
  <2>1. \/ job'[t] = job[t] /\ Coded(t)'
        \/ pc'[t] = "idle"
    BY <1>4 DEF Coded, Stages
  <2> QED
    BY <1>1, <1>3, <1>5, <2>1, JobsKept
<1>7. AddTypes'
  BY <1>1, <1>3 DEF AddInv, AddTypes, GraphsTyped, LabelInv
<1>8. PointsComplete'
  <2>1. CASE k = 0
    <3>1. Unlinked(t) /\ Gains(bottom, bottom', job[t].id)
      BY <1>1, <1>5, <2>1 DEF Unlinked
    <3>2. job'[t] = job[t] \/ ~ HasId(t)'
      BY <1>4 DEF HasId, Stages
    <3> QED
      BY <1>1, <1>3, <1>5, <3>1, <3>2, LeaveInv
  <2>2. CASE k # 0
    <3>1. bottom' = bottom /\ ~ Unlinked(t)
      BY <1>1, <2>2 DEF Unlinked
    <3>2. \A u \in Threads : u # t => (Unlinked(u)' <=> Unlinked(u)) /\ job'[u] = job[u]
      BY <1>3 DEF Others, Unlinked, HasId
    <3> QED
      BY <1>1, <1>5, <3>1, <3>2 DEF AddInv, PointsComplete
  <2> QED
    BY <2>1, <2>2
\* The levels after the step.
<1>9. /\ bottom.has \subseteq bottom'.has /\ id \in bottom'.has
      /\ \A j \in 1 .. Len(routes) : routes[j].has \subseteq routes'[j].has
      /\ \A j \in 1 .. Len(routes) : j <= k => id \in routes'[j].has
      /\ \A j \in 1 .. Len(routes) : routes'[j].has \subseteq routes[j].has \cup (IF j = k THEN {id} ELSE {})
  <2>1. CASE k = 0
    <3>1. \A j \in 1 .. Len(routes) : ~ (j <= k)
      BY <1>2, <2>1
    <3> QED
      BY <1>1, <2>1, <3>1 DEF Gains
  <2>2. CASE k # 0
    <3>1. id \in bottom.has /\ \A j \in 1 .. Len(routes) : j < k => id \in routes[j].has
      <4>1. k > 0
        BY <1>2, <2>2
      <4> QED
        BY <1>1, <4>1 DEF OnTheWayUp
    <3>2. \A j \in 1 .. Len(routes) : j <= k => j = k \/ j < k
      BY <1>2
    <3>3. routes'[k].has = routes[k].has \cup {id}
      BY <1>1, <2>2 DEF Gains
    <3> QED
      BY <1>1, <2>2, <3>1, <3>2, <3>3
  <2> QED
    BY <2>1, <2>2
<1>10. LevelsInv'
  <2>1. EdgesStayInside'
    BY <1>1 DEF EdgesStayInside
  <2>2. entry' \in bottom'.has
    BY <1>1, <1>9 DEF AddInv, LevelsInv, OnTheWayUp
  <2>3. \A j \in 1 .. Len(routes) :
           /\ entry \in routes[j].has /\ routes[j].has \subseteq bottom.has
           /\ \A m \in 1 .. Len(routes) : m < j => routes[j].has \subseteq routes[m].has
    BY DEF AddInv, LevelsInv
  <2>4. \A j \in 1 .. Len(routes') : entry' \in routes'[j].has /\ routes'[j].has \subseteq bottom'.has
    BY <1>1, <1>9, <2>3
  <2>5. ASSUME NEW j \in 1 .. Len(routes), NEW m \in 1 .. Len(routes), m < j
        PROVE  routes'[j].has \subseteq routes'[m].has
    <3>1. routes[j].has \subseteq routes'[m].has
      BY <1>9, <2>3, <2>5
    <3>2. CASE j = k
      <4>1. m <= k
        <5>1. m \in Int /\ j \in Int
          BY <1>2
        <5> QED
          BY <2>5, <3>2, <5>1
      <4> QED
        BY <1>9, <3>1, <3>2, <4>1
    <3>3. CASE j # k
      BY <1>9, <3>1, <3>3
    <3> QED
      BY <3>2, <3>3
  <2> QED
    BY <1>1, <2>1, <2>2, <2>4, <2>5 DEF LevelsInv
<1>11. FirstPoint'
  BY <1>1 DEF FirstPoint
<1>12. Linking'
  <2>1. \A u \in Threads : u # t => /\ pc'[u] = pc[u] /\ job'[u] = job[u]
                                    /\ ep'[u] = ep[u] /\ at'[u] = at[u]
    BY <1>3 DEF Others
  <2>2. \A u \in Threads : pc'[u] # "link" => at'[u] = 0
    BY <1>4, <2>1 DEF AddInv, Linking
  <2>3. \A u \in Threads : pc'[u] = "link" => OnTheWayUp(u)'
    <3> SUFFICES ASSUME NEW u \in Threads, pc'[u] = "link" PROVE OnTheWayUp(u)'
      OBVIOUS
    <3>1. CASE u # t
      <4>1. OnTheWayUp(u)
        BY <2>1, <3>1 DEF AddInv, Linking
      <4> QED
        BY <1>1, <1>9, <2>1, <3>1, <4>1 DEF OnTheWayUp
    <3>2. CASE u = t
      <4>1. job'[t] = job[t] /\ ep'[t] = ep[t] /\ at'[t] = k + 1 /\ k <= job[t].level
        BY <1>4, <3>2
      <4>2. k + 1 <= job[t].level + 1
        BY <1>2, <4>1
      <4>3. \A j \in 1 .. Len(routes) : j < k + 1 => j <= k
        BY <1>2
      <4>4. ep[t] \in bottom'.has
            /\ \A j \in 1 .. Len(routes) : j <= job[t].level + 1 => ep[t] \in routes'[j].has
        BY <1>1, <1>9 DEF OnTheWayUp
      <4> HIDE DEF k
      <4> QED
        BY <1>1, <1>2, <1>9, <3>2, <4>1, <4>2, <4>3, <4>4 DEF OnTheWayUp
    <3> QED
      BY <3>1, <3>2
  <2>4. \A u \in Threads : pc'[u] = "share" => bottom'.any /\ job'[u].level < Len(routes')
    BY <1>1, <1>4, <2>1 DEF AddInv, Linking
  <2>5. \A u \in Threads : pc'[u] = "grow" => add_mutex' = u /\ Len(routes') <= job'[u].level + 1
    BY <1>1, <1>4, <2>1 DEF AddInv, Linking
  <2> QED
    BY <2>2, <2>3, <2>4, <2>5 DEF Linking
<1> QED
  BY <1>6, <1>7, <1>8, <1>10, <1>11, <1>12 DEF AddInv
(* Every step keeps the invariant.                                          *)
LEMMA AddInvKept ==
    ASSUME AddInv, [AddNext]_AllVars
    PROVE  AddInv'
<1>1. ASSUME NEW t \in Threads, NEW label \in Labels, NEW v \in Vectors, LookUp(t, label, v)
      PROVE  AddInv'
  BY <1>1, LookUpInv
<1>2. ASSUME NEW t \in Threads, Step(t)
      PROVE  AddInv'
  BY <1>2, AllocateInv, StoreLabelInv, WriteCodesInv, DecideInv, GrowInv, ShareInv, LinkInv
     DEF Step
<1>3. ASSUME NEW label \in Labels, RemoveMark(label), UNCHANGED avars
      PROVE  AddInv'
  BY <1>3, MarkInv
<1>4. ASSUME NEW old \in Labels, NEW new \in Labels, UpdateId(old, new), UNCHANGED avars
      PROVE  AddInv'
  BY <1>4, RenameInv
<1>5. CASE UNCHANGED AllVars
  <2>1. /\ UNCHANGED <<lt, total_count, max_capacity, codes, bottom, routes, entry>>
        /\ UNCHANGED <<pc, job, ep, at, add_mutex>> /\ UNCHANGED avars
    BY <1>5 DEF AllVars, vars, avars
  <2>2. Relabelled(lt, lt') /\ PointsBack(lt', total_count)
    BY <2>1 DEF Relabelled, AddInv, AddTypes, LabelInv
  <2> QED
    BY <2>1, <2>2, RelabelInv
<1> QED
  BY <1>1, <1>2, <1>3, <1>4, <1>5 DEF AddNext

LEMMA AddInitInv == AddInit => AddInv
<1> SUFFICES ASSUME AddInit PROVE AddInv
  OBVIOUS
<1>1. LabelInv /\ GraphsTyped /\ LevelsInv
  BY InitInv, InitTyped, InitTidy DEF AddInit, TidyInv
<1>2. /\ lt.size = ResizeStep /\ max_capacity = ResizeStep /\ total_count = 0
      /\ codes = [i \in Ids |-> NoVector] /\ entry = INVALID_ID /\ routes = <<>>
      /\ bottom.has = {} /\ bottom.any = FALSE
  BY DEF AddInit, Init, Resize, EmptyTable, EmptyGraph
<1>3. AddTypes
  <2>1. NoJob \in Jobs
    <3>1. Blank \in AnyLabel /\ -1 \in -1 .. MaxLevel
      BY IdFacts, DegreeAssumption
    <3> QED
      BY <3>1 DEF NoJob, Jobs
  <2>2. /\ max_capacity \in 1 .. MaxId /\ total_count <= max_capacity /\ max_capacity <= lt.size
    BY <1>2, ResizeAssumption, MaxIdAssumption
  <2> QED
    BY <1>1, <1>2, <2>1, <2>2 DEF AddInit, AddTypes, Stages
<1>4. \A t \in Threads : pc[t] = "idle" /\ at[t] = 0
  BY DEF AddInit
<1>5. JobsApart /\ JobsWritten
  BY <1>4 DEF JobsApart, JobsWritten, HasId, Labelled, Coded
<1>6. PointsComplete
  BY <1>2, <1>4, IdFacts DEF PointsComplete, Unlinked, HasId
<1>7. FirstPoint /\ Linking
  BY <1>2, <1>4 DEF FirstPoint, Linking
<1> QED
  BY <1>1, <1>3, <1>5, <1>6, <1>7 DEF AddInv

LEMMA AlwaysAddInv == AddSpec => []AddInv
BY AddInitInv, AddInvKept, PTL DEF AddSpec

(* Whatever Adds, removals and renamings come in between, also two Adds of  *)
(* one label, a mapped label points to a slot that carries it.              *)
THEOREM AddLabels == AddSpec => []LabelsPointBack
<1>1. AddInv => LabelsPointBack
  BY DEF AddInv, AddTypes, LabelInv, PointsBack, LabelsPointBack
<1> QED
  BY <1>1, AlwaysAddInv, PTL

(* A search beside the Adds comes across points with a label and a code     *)
(* only: a point is linked after both are written, by the one thread that    *)
(* has its id.                                                              *)
THEOREM AddVisiblePoints == AddSpec => []VisiblePointsAreComplete
<1>1. ASSUME AddInv PROVE VisiblePointsAreComplete
  <2> SUFFICES ASSUME entry # INVALID_ID, NEW i \in Reachable(bottom, entry)
               PROVE  i < total_count /\ lt.table[i] \in Labels /\ codes[i] # NoVector
    BY DEF VisiblePointsAreComplete
  <2>1. bottom \in Graph /\ EdgesInside(bottom, total_count) /\ entry \in bottom.has
    BY <1>1 DEF AddInv, AddTypes, GraphsTyped, LevelsInv, EdgesStayInside, FirstPoint
  <2>2. i \in bottom.has
    BY <2>1, ReachableInside
  <2> QED
    BY <1>1, <2>2, NoVectorAssumption DEF AddInv, PointsComplete
<1> QED
  BY <1>1, AlwaysAddInv, PTL

(* The entry is on every route level and the points of a level are on the    *)
(* one below, while the Adds raise levels, become the entry and link from    *)
(* the bottom up beside one another.                                        *)
THEOREM AddEntryOnLevels == AddSpec => []EntryOnEveryLevel
<1>1. ASSUME AddInv PROVE EntryOnEveryLevel
  <2>1. /\ DOMAIN routes = 1 .. Len(routes) /\ Len(routes) \in Nat
        /\ \A j \in 1 .. Len(routes) : EdgesInside(routes[j], total_count) /\ routes[j] \in Graph
    BY <1>1 DEF AddInv, AddTypes, GraphsTyped, LevelsInv, EdgesStayInside
  <2>2. ASSUME NEW j \in 1 .. Len(routes), NEW i \in Ids, j > 1, routes[j].nbrs[i] # {}
        PROVE  i \in routes[j - 1].has
    <3>1. PICK x \in routes[j].nbrs[i] : TRUE
      BY <2>2
    <3>2. x \in Ids
      BY <2>1, <3>1 DEF Graph
    <3>3. i \in routes[j].has
      BY <2>1, <3>1, <3>2 DEF EdgesInside
    <3>4. j - 1 \in 1 .. Len(routes) /\ j - 1 < j
      BY <2>1, <2>2
    <3> QED
      BY <1>1, <3>3, <3>4 DEF AddInv, LevelsInv
  <2>3. \A j \in DOMAIN routes : entry \in routes[j].has
    BY <1>1, <2>1 DEF AddInv, LevelsInv
  <2> QED
    BY <2>1, <2>2, <2>3 DEF EntryOnEveryLevel
<1> QED
  BY <1>1, AlwaysAddInv, PTL
----------------------------------------------------------------------------
(* A bottom graph whose lists are never cut stays in one piece.             *)

(* The first point of a level gets an empty list.                           *)
LEMMA LinkedFirst ==
    ASSUME NEW g \in Graph, ~ g.any, NEW id \in Ids, NEW start, NEW max,
           NEW h \in Linked(g, id, start, max)
    PROVE  /\ \A x : x \notin h.nbrs[id]
           /\ \A i \in Ids : i # id => h.nbrs[i] = g.nbrs[i]
<1> DEFINE none == {}
<1>1. h = InsertNeighborsById(g, id, none) /\ none \in SUBSET Ids /\ \A x : x \notin none
  BY DEF Linked
<1> HIDE DEF none
<1>2. h \in Graph /\ h.nbrs = [i \in Ids |-> IF i = id THEN none ELSE g.nbrs[i]]
  BY <1>1, InsertTyped
<1> QED
  BY <1>1, <1>2

(* A point that is new on a level is joined to all of the level's points.   *)
LEMMA LinkedInOnePiece ==
    ASSUME NEW g \in Graph, NEW n, EdgesInside(g, n), Symmetric(g), InOnePiece(g),
           NEW id \in Ids, id \notin g.has, NEW start, g.any => start \in g.has,
           ~ g.any => g.has = {},
           NEW max, NeverCut(max), NEW h \in Linked(g, id, start, max), h.has = g.has \cup {id}
    PROVE  Symmetric(h) /\ InOnePiece(h)
<1>0. \A i \in Ids : g.nbrs[i] \in SUBSET Ids
  BY DEF Graph
<1>1. g.nbrs[id] = {} /\ \A i \in Ids : id \notin g.nbrs[i]
  BY <1>0 DEF EdgesInside
<1>2. CASE ~ g.any
  <2>2. /\ \A x : x \notin h.nbrs[id]
        /\ \A i \in Ids : i # id => h.nbrs[i] = g.nbrs[i]
    BY <1>2, LinkedFirst
  <2>3. \A i \in Ids : g.nbrs[i] = {}
    BY <1>0, <1>2 DEF EdgesInside
  <2>4. Symmetric(h)
    BY <2>2, <2>3 DEF Symmetric
  <2>5. InOnePiece(h)
    BY <1>2 DEF InOnePiece
  <2> QED
    BY <2>4, <2>5
<1>3. CASE g.any
  <2>1. PICK found \in (SUBSET Reachable(g, start)) \ {{}} : h \in Connected(g, id, found \ {id}, max)
    BY <1>3 DEF Linked
  <2> DEFINE C == found \ {id}
  <2>2. C \in SUBSET g.has /\ C \in SUBSET Ids /\ id \notin C /\ C # {}
    <3>1. ASSUME NEW c \in found PROVE c \in g.has
      <4>1. c \in Reachable(g, start) /\ start \in g.has
        BY <1>3
      <4> QED
        BY <4>1, ReachableInside
    <3> QED
      BY <3>1 DEF Graph
  <2>3. h \in Connected(g, id, C, max)
    BY <2>1
  <2> HIDE DEF C
  <2>4. LinkedToAll(g, h, id, C)
    BY <2>2, <2>3, ConnectedAll
  <2>5. /\ h.nbrs[id] = C
        /\ \A i \in Ids : i \in C => h.nbrs[i] = g.nbrs[i] \cup {id}
        /\ \A i \in Ids : i \notin C /\ i # id => h.nbrs[i] = g.nbrs[i]
    BY <2>4 DEF LinkedToAll
  <2>6. Symmetric(h)
    <3> SUFFICES ASSUME NEW i \in Ids, NEW x \in Ids, x \in h.nbrs[i]
                 PROVE  i \in h.nbrs[x]
      BY DEF Symmetric
    <3>1. CASE i = id
      BY <2>2, <2>5, <3>1
    <3>2. CASE i # id /\ x = id
      BY <1>1, <2>5, <3>2
    <3>3. CASE i # id /\ x # id
      <4>1. x \in g.nbrs[i]
        BY <2>5, <3>3
      <4>2. i \in g.nbrs[x]
        BY <4>1 DEF Symmetric
      <4> QED
        BY <2>5, <3>3, <4>2
    <3> QED
      BY <3>1, <3>2, <3>3
  <2>7. InOnePiece(h)
    <3> SUFFICES ASSUME NEW S \in SUBSET Ids, Closed(h, S), NEW i \in S, i \in h.has
                 PROVE  h.has \subseteq S
      BY DEF InOnePiece
    <3>1. PICK c \in C : TRUE
      BY <2>2
    <3> DEFINE T == S \ {id}
    <3>2. T \in SUBSET Ids /\ Closed(g, T)
      <4> SUFFICES ASSUME NEW j \in T, NEW y \in g.nbrs[j] PROVE y \in S /\ y # id
        BY DEF Closed
      <4>1. g.nbrs[j] \subseteq h.nbrs[j]
        BY <2>5
      <4> QED
        BY <1>1, <4>1 DEF Closed
    <3>3. \E k \in T : k \in g.has
      <4>1. CASE i = id
        <5>1. c \in S
          BY <2>5, <3>1, <4>1 DEF Closed
        <5> QED
          BY <2>2, <3>1, <5>1
      <4>2. CASE i # id
        BY <4>2
      <4> QED
        BY <4>1, <4>2
    <3>4. g.has \subseteq S
      <4>1. g.has \subseteq T
        <5> HIDE DEF T
        <5> QED
          BY <3>2, <3>3 DEF InOnePiece
      <4> QED
        BY <4>1
    <3>5. id \in S
      <4>1. c \in S /\ c \in Ids
        BY <2>2, <3>1, <3>4
      <4>2. id \in h.nbrs[c]
        BY <2>5, <3>1, <4>1
      <4> QED
        BY <4>1, <4>2 DEF Closed
    <3> QED
      BY <3>4, <3>5
  <2> QED
    BY <2>6, <2>7
<1> QED
  BY <1>2, <1>3

(* Both paths search the bottom graph from a point of it.                   *)
LEMMA AddJoinedKept ==
    ASSUME AddInv, AddJoinedInv, MaxDegree > MaxId, [AddNext]_AllVars
    PROVE  AddJoinedInv'
<1>0. /\ NeverCut(MaxDegree) /\ bottom \in Graph /\ EdgesInside(bottom, total_count)
      /\ Symmetric(bottom) /\ InOnePiece(bottom) /\ (~ bottom.any => bottom.has = {})
  BY BottomNeverCut
     DEF AddInv, AddTypes, GraphsTyped, LevelsInv, EdgesStayInside, FirstPoint, AddJoinedInv
<1>1. CASE bottom' = bottom
  BY <1>1 DEF AddJoinedInv
<1>2. ASSUME NEW t \in Threads, Unlinked(t), NEW start, bottom.any => start \in bottom.has,
             Gains(bottom, bottom', job[t].id),
             bottom' \in Linked(bottom, job[t].id, start, MaxDegree)
      PROVE  AddJoinedInv'
  <2> DEFINE id == job[t].id
  <2>1. id \in Ids /\ id \notin bottom.has /\ bottom'.has = bottom.has \cup {id}
    BY <1>2 DEF Unlinked, AddInv, JobsApart, PointsComplete, Gains
  <2>2. bottom' \in Linked(bottom, id, start, MaxDegree)
    BY <1>2
  <2> HIDE DEF id
  <2>3. Symmetric(bottom') /\ InOnePiece(bottom')
    BY <1>0, <1>2, <2>1, <2>2, LinkedInOnePiece
  <2> QED
    BY <2>3 DEF AddJoinedInv
<1>3. ASSUME NEW t \in Threads, Grow(t)
      PROVE  AddJoinedInv'
  <2> DEFINE level == job[t].level
  <2>1. PICK start \in StartsBelow(level) : bottom' \in Linked(bottom, job[t].id, start, MaxDegree)
    BY <1>3 DEF Grow
  <2>2. Gains(bottom, bottom', job[t].id)
    BY <1>3, GrowForm
  <2>3. pc[t] = "grow" /\ level \in -1 .. MaxLevel /\ GraphsTyped /\ LevelsInv /\ total_count \in Nat
    BY <1>3, MaxIdAssumption DEF Grow, Goto, AddInv, AddTypes, Jobs, LabelInv
  <2>4. Unlinked(t)
    BY <2>3 DEF Unlinked, HasId, Stages
  <2>5. bottom.any => start \in bottom.has
    <3> SUFFICES ASSUME bottom.any PROVE start \in bottom.has
      OBVIOUS
    <3>1. EntryDefined
      BY EntryPlaced
    <3> HIDE DEF level
    <3> QED
      BY <2>1, <2>3, <3>1, DescentStaysOnLevels
  <2> QED
    BY <1>2, <2>1, <2>2, <2>4, <2>5
<1>4. ASSUME NEW t \in Threads, Link(t)
      PROVE  AddJoinedInv'
  <2>1. CASE at[t] # 0
    BY <1>1, <1>4, <2>1, LinkForm
  <2>2. CASE at[t] = 0
    <3>1. pc[t] = "link" /\ OnTheWayUp(t) /\ Gains(bottom, bottom', job[t].id)
      BY <1>4, <2>2, LinkForm
    <3>2. bottom' \in Linked(bottom, job[t].id, ep[t], MaxDegree)
      BY <1>4, <2>2 DEF Link
    <3>3. Unlinked(t) /\ ep[t] \in bottom.has
      BY <2>2, <3>1 DEF Unlinked, HasId, Stages, OnTheWayUp
    <3> QED
      BY <1>2, <3>1, <3>2, <3>3
  <2> QED
    BY <2>1, <2>2
<1>5. ASSUME NEW t \in Threads, Step(t)
      PROVE  AddJoinedInv'
  <2>1. Grow(t) \/ Link(t) \/ bottom' = bottom
    BY <1>5 DEF Step, Allocate, StoreLabel, WriteCodes, Decide, Share, vars
  <2> QED
    BY <1>1, <1>3, <1>4, <2>1
<1>6. (\E t \in Threads : Step(t)) \/ bottom' = bottom
  BY DEF AddNext, LookUp, RemoveMark, UpdateId, AllVars, vars
<1> QED
  BY <1>1, <1>5, <1>6

(* When the lists of the bottom graph are never cut, every point that was   *)
(* allocated can be reached from the entry once no Add is under way.         *)
THEOREM AddReachable == AddSpec => []QuietPointsAreReachable
<1> DEFINE Kept2 == AddInv /\ (MaxDegree > MaxId => AddJoinedInv)
<1>1. AddInit => Kept2
  <2> SUFFICES ASSUME AddInit PROVE AddJoinedInv
    BY AddInitInv
  <2>1. bottom.has = {} /\ \A i \in Ids : bottom.nbrs[i] = {}
    BY DEF AddInit, Init, EmptyGraph
  <2> QED
    BY <2>1 DEF AddJoinedInv, Symmetric, InOnePiece
<1>2. Kept2 /\ [AddNext]_AllVars => Kept2'
  BY AddInvKept, AddJoinedKept
<1>3. Kept2 => QuietPointsAreReachable
  <2> SUFFICES ASSUME AddInv, AddJoinedInv, Quiet, total_count > 0
               PROVE  0 .. total_count - 1 \subseteq Reachable(bottom, entry)
    BY DEF QuietPointsAreReachable
  <2>0. bottom.has \in SUBSET Ids /\ total_count \in 0 .. MaxId
    BY DEF AddInv, AddTypes, GraphsTyped, Graph, LabelInv
  <2>1. \A i \in Ids : i < total_count => i \in bottom.has
    BY DEF Quiet, Unlinked, HasId, AddInv, PointsComplete
  <2>2. \A i \in 0 .. total_count - 1 : i \in Ids /\ i < total_count
    BY <2>0, IdFacts
  <2>3. 0 \in bottom.has
    BY <2>0, <2>1, <2>2, IdFacts
  <2>4. entry \in bottom.has
    BY <2>3 DEF AddInv, FirstPoint, LevelsInv
  <2>5. \A S \in SUBSET Ids : entry \in S /\ Closed(bottom, S) => bottom.has \subseteq S
    BY <2>4 DEF AddJoinedInv, InOnePiece
  <2> QED
    BY <2>1, <2>2, <2>5 DEF Reachable
<1> HIDE DEF Kept2
<1> QED
  BY <1>1, <1>2, <1>3, PTL DEF AddSpec
=============================================================================
