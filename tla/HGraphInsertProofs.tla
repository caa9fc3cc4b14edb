------------------------- MODULE HGraphInsertProofs -------------------------
(***************************************************************************)
(* Proofs about HGraphInsert, for any number of concurrent insertions, any  *)
(* number of levels, any levels of the new points and any two degrees.      *)
(*                                                                         *)
(* What all of them rest on is LinkedKnown: nobody comes across a point on  *)
(* a level before the point has written its own list there.  A point links  *)
(* from the bottom up, so whatever a descent finds on an upper level is     *)
(* linked on all levels below, and a search may start there.  So nobody can *)
(* have selected a point that still searches, which orders the insertions   *)
(* of a level without any clock: the selections form no circle (Acyclic),   *)
(* and a neighbour never lists a point that is about to add itself          *)
(* (NotYetListed).                                                          *)
(***************************************************************************)
EXTENDS HGraphInsert, CellProofs, FiniteSetTheorems, WellFoundedInduction

LinkedPcs == {"link", "update", "done"}

\* A point has written its own list of a level, and of those below.
IsLinked(x, l) ==
    \/ x = Entry
    \/ pc[x] # "descend" /\ level[x] > l
    \/ pc[x] \in LinkedPcs /\ level[x] = l

\* Whatever a list of a level, a search or a selection names is linked there,
\* and where a thread starts is linked on every level it will write to.
LinkedKnown ==
    /\ \A l \in 0 .. Levels - 1 : \A i \in Ids : \A x \in graph[l].nbrs[i] : IsLinked(x, l)
    /\ \A p \in Points : \A x \in visited[p] : IsLinked(x, level[p])
    /\ \A p \in Points : \A x \in todo[p] : IsLinked(x, level[p])
    /\ \A p \in Points : IsLinked(start[p], TopOf[p])

\* A thread descends above its point's highest level, with nothing to link,
\* and links below; each search starts at the same point.
SearchRestarts ==
    \A p \in Points :
        /\ pc[p] = "descend" => level[p] > TopOf[p] /\ todo[p] = {}
        /\ pc[p] # "descend" => level[p] <= TopOf[p]
        /\ pc[p] \notin {"descend", "search"} => visited[p] = {start[p]}

\* A thread has its own mutex while it links, and that of the neighbour it edits.
MutexesHeld ==
    \A p \in Points :
        /\ pc[p] \in {"link", "update"} => owner[p] = p
        /\ pc[p] = "update" => at[p] \in todo[p] /\ owner[at[p]] = p

\* Neighbours that a point has still to link do not list it.
NotYetListed ==
    \A p \in Points : \A x \in todo[p] : x # p /\ p \notin graph[level[p]].nbrs[x]

\* What a point may select fits into its list.
SelectionsFit == \A p \in Points : Cardinality(todo[p]) <= Degree(level[p])

\* One point of a level has still to link another.
Needs(p, q) == level[p] = level[q] /\ q \in todo[p]

\* Every set of points has one that needs none of them.
Acyclic ==
    \A S \in SUBSET Points : S # {} => \E p \in S : \A q \in S : ~ Needs(p, q)

IInv ==
    /\ TypeOK
    /\ LinkedKnown
    /\ SearchRestarts
    /\ MutexesHeld
    /\ NoStaleCopy
    /\ NotYetListed
    /\ DegreesBounded
    /\ SelectionsFit
    /\ Acyclic

----------------------------------------------------------------------------
(* Sets of ids.                                                             *)

LEMMA IdsFacts ==
    /\ MaxId \in Nat \ {0}
    /\ Entry \in Ids /\ INVALID_ID \notin Ids /\ Entry \notin Points
    /\ Points \subseteq Ids /\ Ids = Points \cup {Entry}
    /\ IsFiniteSet(Ids)
<1>1. MaxId \in Nat \ {0}
  BY MaxIdAssumption, InsertAssumption
<1>2. IsFiniteSet(0 .. MaxId - 1)
  BY <1>1, FS_Interval
<1> QED
  BY <1>1, <1>2 DEF Ids, Points, Entry, INVALID_ID

LEMMA IdSetsFinite ==
    ASSUME NEW S \in SUBSET Ids
    PROVE  IsFiniteSet(S) /\ Cardinality(S) \in Nat
BY IdsFacts, FS_Subset, FS_CardinalityType

LEMMA LevelFacts ==
    /\ Levels \in Nat \ {0}
    /\ \A l : Degree(l) \in Nat \ {0}
    /\ 0 \in 0 .. Levels - 1 /\ Levels - 1 \in 0 .. Levels - 1
    /\ \A p \in Points : TopOf[p] \in 0 .. Levels - 1
BY InsertAssumption DEF Points, Entry, Degree

(* Of the levels that some points are on, one is the highest.               *)
Beneath == {r \in Nat \X Nat : r[1] < r[2]}

LEMMA HighestLevel ==
    ASSUME NEW T \in SUBSET (0 .. Levels - 1), T # {}
    PROVE  \E h \in T : \A l \in T : l <= h
<1> DEFINE Down == {n \in 0 .. Levels - 1 : Levels - 1 - n \in T}
<1>0. Levels \in Nat
  BY LevelFacts
<1>1. IsWellFoundedOn(OpToRel(<, Nat), Nat)
  BY NatLessThanWellFounded, Zenon
<1>2. OpToRel(<, Nat) = Beneath
  BY Zenon DEF OpToRel, Beneath
<1>3. IsWellFoundedOn(Beneath, Nat)
  BY <1>1, <1>2, Zenon
<1>4. Down \in SUBSET Nat /\ Down # {}
  <2>1. PICK l \in T : TRUE
    OBVIOUS
  <2>2. l \in 0 .. Levels - 1
    OBVIOUS
  <2>3. Levels - 1 - l \in 0 .. Levels - 1 /\ Levels - 1 - (Levels - 1 - l) = l
    BY <1>0, <2>2
  <2>4. Levels - 1 - l \in Down
    BY <2>1, <2>3
  <2>5. \A n \in 0 .. Levels - 1 : n \in Nat
    BY <1>0
  <2>6. Down \subseteq 0 .. Levels - 1
    OBVIOUS
  <2> HIDE DEF Down
  <2> QED
    BY <2>4, <2>5, <2>6
<1>5. PICK d \in Down : \A e \in Down : ~ (<<e, d>> \in Beneath)
  <2> HIDE DEF Down
  <2> QED
    BY <1>3, <1>4, WFMin
<1>6. ASSUME NEW e \in Down PROVE d <= e
  <2>1. d \in Nat /\ e \in Nat
    BY <1>0
  <2>2. ~ (<<e, d>> \in Beneath)
    BY <1>5
  <2>3. ~ (e < d)
    <3> HIDE DEF Down
    <3> QED
      BY <2>1, <2>2 DEF Beneath
  <2> QED
    BY <2>1, <2>3
<1>7. ASSUME NEW l \in T PROVE l <= Levels - 1 - d
  <2>1. l \in 0 .. Levels - 1 /\ d \in 0 .. Levels - 1
    OBVIOUS
  <2>2. Levels - 1 - l \in 0 .. Levels - 1 /\ Levels - 1 - (Levels - 1 - l) = l
    BY <1>0, <2>1
  <2>3. d <= Levels - 1 - l
    BY <1>6, <2>2
  <2> QED
    BY <1>0, <2>1, <2>3
<1>8. Levels - 1 - d \in T
  BY <1>5
<1> QED
  BY <1>7, <1>8

(* The heuristic keeps part of its candidates, and no more than fit.        *)
LEMMA SelectionsFacts ==
    ASSUME NEW max \in Nat, NEW C \in SUBSET Ids, NEW sel \in Selections(C, max)
    PROVE  sel \subseteq C /\ Cardinality(sel) <= max
<1>1. CASE Cardinality(C) < max
  <2>1. sel = C
    BY <1>1 DEF Selections
  <2> QED
    BY <1>1, <2>1, IdSetsFinite
<1>2. CASE ~ (Cardinality(C) < max)
  BY <1>2 DEF Selections
<1> QED
  BY <1>1, <1>2

(* A neighbour's new list has the old members and the new point at most.    *)
LEMMA NewListsFacts ==
    ASSUME NEW p \in Points, NEW max \in Nat, NEW list \in SUBSET Ids,
           NEW new \in NewLists(p, list, max)
    PROVE  /\ new \in SUBSET Ids /\ new \subseteq list \cup {p}
           /\ Cardinality(new) <= max
<1>0. p \in Ids /\ list \cup {p} \in SUBSET Ids
  BY IdsFacts
<1>1. CASE Cardinality(list) < max
  <2>1. new = list \cup {p}
    BY <1>1 DEF NewLists
  <2>2. IsFiniteSet(list) /\ Cardinality(list) \in Nat
    BY IdSetsFinite
  <2>3. Cardinality(list \cup {p}) = IF p \in list THEN Cardinality(list)
                                                   ELSE Cardinality(list) + 1
    BY <2>2, FS_AddElement
  <2>4. Cardinality(new) <= max
    BY <1>1, <2>1, <2>2, <2>3
  <2> QED
    BY <1>0, <2>1, <2>4
<1>2. CASE ~ (Cardinality(list) < max)
  <2>1. new \in Selections(list \cup {p}, max)
    BY <1>2 DEF NewLists
  <2>2. new \subseteq list \cup {p} /\ Cardinality(new) <= max
    BY <1>0, <2>1, SelectionsFacts
  <2> QED
    BY <1>0, <2>2
<1> QED
  BY <1>1, <1>2

(* Writing one list of one level.                                           *)
Levelled(G) == G \in [0 .. Levels - 1 -> Graph]

Written(G, l, id, L) == [G EXCEPT ![l] = InsertNeighborsById(@, id, L)]

LEMMA WriteList ==
    ASSUME NEW G, Levelled(G),
           NEW l \in 0 .. Levels - 1, NEW id \in Ids, NEW L \in SUBSET Ids
    PROVE  /\ Levelled(Written(G, l, id, L))
           /\ Written(G, l, id, L)[l].nbrs[id] = L
           /\ \A k \in 0 .. Levels - 1 : \A i \in Ids :
                 k # l \/ i # id => Written(G, l, id, L)[k].nbrs[i] = G[k].nbrs[i]
<1> DEFINE g == G[l]
           h == InsertNeighborsById(g, id, L)
           H == Written(G, l, id, L)
<1>1. g \in Graph
  BY DEF Levelled
<1>2. h \in Graph /\ h.nbrs = [i \in Ids |-> IF i = id THEN L ELSE g.nbrs[i]]
  <2> HIDE DEF g
  <2> QED
    BY <1>1, InsertTyped
<1>3. H = [G EXCEPT ![l] = h]
  BY DEF Written
<1> HIDE DEF h, H
<1>4. Levelled(H) /\ H[l] = h
  BY <1>2, <1>3 DEF Levelled
<1>5. \A k \in 0 .. Levels - 1 : k # l => H[k] = G[k]
  BY <1>3 DEF Levelled
<1>6. H[l].nbrs[id] = L /\ \A i \in Ids : i # id => H[l].nbrs[i] = G[l].nbrs[i]
  BY <1>2, <1>4
<1> QED
  BY <1>4, <1>5, <1>6 DEF H

(* Lists are sets of ids.                                                   *)
LEMMA ListTyped ==
    ASSUME TypeOK, NEW l \in 0 .. Levels - 1, NEW i \in Ids
    PROVE  graph[l].nbrs[i] \in SUBSET Ids
<1>1. graph[l] \in Graph
  BY DEF TypeOK
<1>2. graph[l].nbrs \in [Ids -> SUBSET Ids]
  BY <1>1 DEF Graph
<1> QED
  BY <1>2

----------------------------------------------------------------------------
(* Types.                                                                   *)

LEMMA InitTypeOK == Init => TypeOK
<1> SUFFICES ASSUME Init PROVE TypeOK
  OBVIOUS
<1>1. EmptyGraph \in Graph
  BY DEF EmptyGraph, Graph
<1>2. InsertNeighborsById(EmptyGraph, Entry, {}) \in Graph
  <2> {} \in SUBSET Ids
    OBVIOUS
  <2> QED
    BY <1>1, IdsFacts, InsertTyped
<1>3. graph \in [0 .. Levels - 1 -> Graph]
  BY <1>2 DEF Init
<1> QED
  BY <1>3, IdsFacts, LevelFacts DEF Init, TypeOK

(* What the two steps that write a list write, and where.                   *)
LEMMA LockOwnWrites ==
    ASSUME TypeOK, NEW p \in Points, LockOwn(p)
    PROVE  /\ graph' \in [0 .. Levels - 1 -> Graph]
           /\ graph'[level[p]].nbrs[p] = todo[p]
           /\ \A k \in 0 .. Levels - 1 : \A i \in Ids :
                 k # level[p] \/ i # p => graph'[k].nbrs[i] = graph[k].nbrs[i]
<1> DEFINE l == level[p]
           L == todo[p]
           H == Written(graph, l, p, L)
<1>1. Levelled(graph) /\ l \in 0 .. Levels - 1 /\ p \in Ids /\ L \in SUBSET Ids
  BY IdsFacts DEF TypeOK, Levelled
<1>2. graph' = H
  BY DEF LockOwn, Written
<1>3. /\ Levelled(H)
      /\ H[l].nbrs[p] = L
      /\ \A k \in 0 .. Levels - 1 : \A i \in Ids :
            k # l \/ i # p => H[k].nbrs[i] = graph[k].nbrs[i]
  <2> HIDE DEF l, L
  <2> QED
    BY <1>1, WriteList
<1> QED
  BY <1>2, <1>3 DEF Levelled

LEMMA UpdateWrites ==
    ASSUME TypeOK, NEW p \in Points, at[p] \in Ids, UpdateNeighbour(p)
    PROVE  /\ graph' \in [0 .. Levels - 1 -> Graph]
           /\ graph'[level[p]].nbrs[at[p]] \subseteq copy[p] \cup {p}
           /\ Cardinality(graph'[level[p]].nbrs[at[p]]) <= Degree(level[p])
           /\ \A k \in 0 .. Levels - 1 : \A i \in Ids :
                 k # level[p] \/ i # at[p] => graph'[k].nbrs[i] = graph[k].nbrs[i]
<1> DEFINE l == level[p]
           i0 == at[p]
           max == Degree(l)
           H(new) == Written(graph, l, i0, new)
<1>1. Levelled(graph) /\ l \in 0 .. Levels - 1 /\ i0 \in Ids /\ copy[p] \in SUBSET Ids
  BY DEF TypeOK, Levelled
<1>2. PICK new \in NewLists(p, copy[p], max) : graph' = H(new)
  BY DEF UpdateNeighbour, Written
<1>m. max \in Nat
  BY LevelFacts
<1>3. /\ new \in SUBSET Ids /\ new \subseteq copy[p] \cup {p}
      /\ Cardinality(new) <= max
  <2> HIDE DEF max
  <2> QED
    BY <1>1, <1>m, NewListsFacts
<1>4. /\ Levelled(H(new))
      /\ H(new)[l].nbrs[i0] = new
      /\ \A k \in 0 .. Levels - 1 : \A i \in Ids :
            k # l \/ i # i0 => H(new)[k].nbrs[i] = graph[k].nbrs[i]
  <2> HIDE DEF l, i0
  <2> QED
    BY <1>1, <1>3, WriteList
<1> QED
  BY <1>2, <1>3, <1>4 DEF Levelled

(* What a search leaves to link.                                            *)
LEMMA Selected ==
    ASSUME TypeOK, NEW p \in Points, Select(p)
    PROVE  /\ todo' \in [Points -> SUBSET Ids]
           /\ \A q \in Points : q # p => todo'[q] = todo[q]
           /\ todo'[p] \subseteq visited[p] /\ p \notin todo'[p]
           /\ Cardinality(todo'[p]) <= Degree(level[p])
<1> DEFINE max == Degree(level[p])
<1>1. PICK found \in (SUBSET (visited[p] \ {p})) \ {{}} :
        \E sel \in Selections(found, max) : todo' = [todo EXCEPT ![p] = sel]
  BY DEF Select
<1>2. PICK sel \in Selections(found, max) : todo' = [todo EXCEPT ![p] = sel]
  BY <1>1
<1>3. found \in SUBSET Ids /\ max \in Nat
  BY LevelFacts DEF TypeOK
<1>4. sel \subseteq found /\ Cardinality(sel) <= max
  <2> HIDE DEF max
  <2> QED
    BY <1>3, SelectionsFacts
<1>5. todo'[p] = sel
  BY <1>2 DEF TypeOK
<1> QED
  BY <1>2, <1>3, <1>4, <1>5 DEF TypeOK

(* A search of the descent goes down at least one level.                    *)
LEMMA DescendMoves ==
    ASSUME TypeOK, SearchRestarts, NEW p \in Points, Descend(p)
    PROVE  /\ pc[p] = "descend" /\ pc' \in [Points -> {"descend", "search", "lock", "link", "update", "done"}]
           /\ level' \in [Points -> 0 .. Levels - 1]
           /\ todo[p] = {} /\ TopOf[p] < level[p] /\ level'[p] < level[p]
           /\ \/ pc'[p] = "descend" /\ TopOf[p] < level'[p]
              \/ pc'[p] = "search" /\ level'[p] = 0
           /\ start'[p] \in visited[p] /\ visited'[p] = {start'[p]}
           /\ \A q \in Points : q # p => /\ level'[q] = level[q] /\ pc'[q] = pc[q]
                                         /\ start'[q] = start[q] /\ visited'[q] = visited[q]
           /\ UNCHANGED <<graph, owner, todo, at, copy>>
<1>1. pc[p] = "descend" /\ UNCHANGED <<graph, owner, todo, at, copy>>
  BY DEF Descend
<1>2. TopOf[p] < level[p] /\ todo[p] = {} /\ level[p] \in 0 .. Levels - 1 /\ TopOf[p] \in 0 .. Levels - 1
  BY <1>1, LevelFacts DEF SearchRestarts, TypeOK
<1>3. PICK n \in visited[p] : /\ start' = [start EXCEPT ![p] = n]
                              /\ visited' = [visited EXCEPT ![p] = {n}]
  BY DEF Descend
<1>4. /\ start'[p] \in visited[p] /\ visited'[p] = {start'[p]}
      /\ \A q \in Points : q # p => start'[q] = start[q] /\ visited'[q] = visited[q]
  BY <1>3 DEF TypeOK
<1>5. CASE level[p] - 1 > TopOf[p]
  <2>1. level' = [level EXCEPT ![p] = @ - 1] /\ pc' = pc
    BY <1>5 DEF Descend
  <2>2. level[p] - 1 \in 0 .. Levels - 1
    BY <1>2, <1>5, LevelFacts
  <2>3. level' \in [Points -> 0 .. Levels - 1] /\ level'[p] = level[p] - 1
        /\ \A q \in Points : q # p => level'[q] = level[q]
    BY <2>1, <2>2 DEF TypeOK
  <2>4. level'[p] < level[p] /\ TopOf[p] < level'[p]
    BY <1>2, <1>5, <2>3, LevelFacts
  <2> QED
    BY <1>1, <1>2, <1>4, <2>1, <2>3, <2>4 DEF TypeOK
<1>6. CASE ~ (level[p] - 1 > TopOf[p])
  <2>1. level' = [level EXCEPT ![p] = 0] /\ pc' = [pc EXCEPT ![p] = "search"]
    BY <1>6 DEF Descend
  <2>2. 0 < level[p]
    BY <1>2, LevelFacts
  <2> QED
    BY <1>1, <1>2, <1>4, <2>1, <2>2, LevelFacts DEF TypeOK
<1> QED
  BY <1>5, <1>6

LEMMA NextTypeOK ==
    ASSUME TypeOK, SearchRestarts, MutexesHeld, [Next]_vars
    PROVE  TypeOK'
<1>1. CASE UNCHANGED vars
  BY <1>1 DEF TypeOK, vars
<1>2. ASSUME NEW p \in Points, NEW n \in Ids, Visit(p, n) PROVE TypeOK'
  <2>1. graph[level[p]].nbrs[n] \in SUBSET Ids
    BY ListTyped DEF TypeOK
  <2> QED
    BY <1>2, <2>1 DEF TypeOK, Visit
<1>3. ASSUME NEW p \in Points, Select(p) PROVE TypeOK'
  <2>1. todo' \in [Points -> SUBSET Ids]
    BY <1>3, Selected
  <2>2. start[p] \in Ids /\ visited' = [visited EXCEPT ![p] = {start[p]}]
    BY <1>3 DEF TypeOK, Select
  <2>3. visited' \in [Points -> SUBSET Ids]
    BY <2>2 DEF TypeOK
  <2> QED
    BY <1>3, <2>1, <2>3 DEF TypeOK, Select, Goto
<1>4. ASSUME NEW p \in Points, LockOwn(p) PROVE TypeOK'
  BY <1>4, LockOwnWrites DEF TypeOK, LockOwn, Goto
<1>5. ASSUME NEW p \in Points, NEW n \in Ids, LockNeighbour(p, n) PROVE TypeOK'
  <2>1. graph[level[p]].nbrs[n] \in SUBSET Ids
    BY ListTyped DEF TypeOK
  <2> QED
    BY <1>5, <2>1 DEF TypeOK, LockNeighbour, Goto
<1>6. ASSUME NEW p \in Points, UpdateNeighbour(p) PROVE TypeOK'
  <2>1. at[p] \in Ids
    BY <1>6 DEF TypeOK, MutexesHeld, UpdateNeighbour, Goto
  <2>2. graph' \in [0 .. Levels - 1 -> Graph]
    BY <1>6, <2>1, UpdateWrites
  <2> QED
    BY <1>6, <2>2 DEF TypeOK, UpdateNeighbour, Goto
<1>7. ASSUME NEW p \in Points, NextLevel(p) PROVE TypeOK'
  <2>1. level[p] \in 0 .. Levels - 1 /\ TopOf[p] \in 0 .. Levels - 1
    BY LevelFacts DEF TypeOK
  <2>2. level[p] < TopOf[p] => level[p] + 1 \in 0 .. Levels - 1
    BY <2>1, LevelFacts
  <2> QED
    BY <1>7, <2>1, <2>2 DEF TypeOK, NextLevel
<1>8. ASSUME NEW p \in Points, Descend(p) PROVE TypeOK'
  <2>1. PICK n \in visited[p] : /\ start' = [start EXCEPT ![p] = n]
                                /\ visited' = [visited EXCEPT ![p] = {n}]
    BY <1>8 DEF Descend
  <2>2. n \in Ids
    BY DEF TypeOK
  <2>3. start' \in [Points -> Ids] /\ visited' \in [Points -> SUBSET Ids]
    BY <2>1, <2>2 DEF TypeOK
  <2> QED
    BY <1>8, <2>3, DescendMoves DEF TypeOK
<1> QED
  BY <1>1, <1>2, <1>3, <1>4, <1>5, <1>6, <1>7, <1>8 DEF Next, Step

----------------------------------------------------------------------------
(* What is known is linked.                                                 *)

(* Once it has descended, a thread climbs level by level, and on a level it *)
(* does not fall back.                                                      *)
LEMMA Progress ==
    ASSUME TypeOK, SearchRestarts, MutexesHeld, [Next]_vars, NEW x \in Points
    PROVE  /\ level[x] \in Int /\ level'[x] \in Int
           /\ pc[x] # "descend" =>
                /\ pc'[x] # "descend"
                /\ level[x] <= level'[x]
                /\ level'[x] = level[x] /\ pc[x] \in LinkedPcs => pc'[x] \in LinkedPcs
<1> USE DEF LinkedPcs
<1> DEFINE Stays == /\ level'[x] = level[x]
                    /\ pc[x] # "descend" => pc'[x] # "descend"
                    /\ pc[x] \in LinkedPcs => pc'[x] \in LinkedPcs
           Climbs == level'[x] = level[x] + 1 /\ pc'[x] # "descend"
           Falls == pc[x] = "descend"
<1>0. level[x] \in Int /\ level'[x] \in Int
  BY NextTypeOK, LevelFacts DEF TypeOK
<1>1. ASSUME UNCHANGED vars PROVE Stays
  BY <1>1 DEF vars
<1>2. ASSUME NEW p \in Points, NEW n \in Ids, Visit(p, n) \/ LockNeighbour(p, n)
      PROVE  Stays
  BY <1>2 DEF Visit, LockNeighbour, Goto, TypeOK
<1>3. ASSUME NEW p \in Points, Select(p) \/ LockOwn(p) \/ UpdateNeighbour(p)
      PROVE  Stays
  BY <1>3 DEF Select, LockOwn, UpdateNeighbour, Goto, TypeOK
<1>4. ASSUME NEW p \in Points, NextLevel(p)
      PROVE  Stays \/ Climbs
  BY <1>0, <1>4 DEF NextLevel, TypeOK
<1>5. ASSUME NEW p \in Points, Descend(p)
      PROVE  Stays \/ Falls
  <2>1. pc[p] = "descend" /\ \A q \in Points : q # p => level'[q] = level[q] /\ pc'[q] = pc[q]
    BY <1>5, DescendMoves
  <2> QED
    BY <2>1
<1>6. Stays \/ Climbs \/ Falls
  <2> HIDE DEF Stays, Climbs, Falls
  <2> QED
    BY <1>1, <1>2, <1>3, <1>4, <1>5 DEF Next, Step
<1> QED
  BY <1>0, <1>6

(* Linked on a level, a point is linked on those below and stays linked.    *)
LEMMA LinkedStays ==
    ASSUME TypeOK, SearchRestarts, MutexesHeld, [Next]_vars,
           NEW x \in Ids, NEW l \in Int, NEW k \in Int, k <= l,
           \/ x = Entry
           \/ pc[x] # "descend" /\ level[x] > l
           \/ pc[x] \in LinkedPcs /\ level[x] = l
    PROVE  \/ x = Entry
           \/ pc'[x] # "descend" /\ level'[x] > k
           \/ pc'[x] \in LinkedPcs /\ level'[x] = k
<1>1. CASE x = Entry
  BY <1>1
<1>2. CASE x # Entry
  <2>1. x \in Points /\ (pc[x] \in LinkedPcs => pc[x] # "descend")
    BY <1>2, IdsFacts DEF LinkedPcs
  <2> QED
    BY <1>2, <2>1, Progress
<1> QED
  BY <1>1, <1>2

LEMMA NextLinkedKnown ==
    ASSUME TypeOK, LinkedKnown, SearchRestarts, MutexesHeld, NoStaleCopy, [Next]_vars
    PROVE  LinkedKnown'
<1> DEFINE Was(x, l) == \/ x = Entry
                        \/ pc[x] # "descend" /\ level[x] > l
                        \/ pc[x] \in LinkedPcs /\ level[x] = l
           Is(x, l) == \/ x = Entry
                       \/ pc'[x] # "descend" /\ level'[x] > l
                       \/ pc'[x] \in LinkedPcs /\ level'[x] = l
           Lists == \A l \in 0 .. Levels - 1 : \A i \in Ids : \A x \in graph'[l].nbrs[i] : Is(x, l)
           Visits == \A p \in Points : \A x \in visited'[p] : Is(x, level'[p])
           Todos == \A p \in Points : \A x \in todo'[p] : Is(x, level'[p])
           Starts == \A p \in Points : Is(start'[p], TopOf[p])
           Goal == Lists /\ Visits /\ Todos /\ Starts
<1>a. Goal => LinkedKnown'
  BY DEF LinkedKnown, IsLinked
<1>b. /\ \A l \in 0 .. Levels - 1 : \A i \in Ids : \A x \in graph[l].nbrs[i] : Was(x, l)
      /\ \A p \in Points : \A x \in visited[p] : Was(x, level[p])
      /\ \A p \in Points : \A x \in todo[p] : Was(x, level[p])
      /\ \A p \in Points : Was(start[p], TopOf[p])
  BY DEF LinkedKnown, IsLinked
<1>c. \A x \in Ids : \A l, k \in Int : k <= l /\ Was(x, l) => Is(x, k)
  BY LinkedStays
<1>d. /\ \A l \in 0 .. Levels - 1 : l \in Int /\ l <= l
      /\ \A l \in 0 .. Levels - 1 : \A i \in Ids : graph[l].nbrs[i] \in SUBSET Ids
      /\ \A p \in Points : level[p] \in 0 .. Levels - 1 /\ TopOf[p] \in 0 .. Levels - 1
      /\ \A p \in Points : visited[p] \in SUBSET Ids /\ todo[p] \in SUBSET Ids /\ start[p] \in Ids
  BY ListTyped, LevelFacts DEF TypeOK
<1>e. /\ \A l \in 0 .. Levels - 1 : \A i \in Ids : \A x \in graph[l].nbrs[i] : Is(x, l)
      /\ \A p \in Points : \A x \in visited[p] : Is(x, level[p])
      /\ \A p \in Points : \A x \in todo[p] : Is(x, level[p])
      /\ \A p \in Points : Is(start[p], TopOf[p])
  <2> HIDE DEF Was, Is
  <2> QED
    BY <1>b, <1>c, <1>d
<1>f. \A p \in Points : pc[p] # "descend" => Is(start[p], level[p])
  <2> SUFFICES ASSUME NEW p \in Points, pc[p] # "descend" PROVE Is(start[p], level[p])
    OBVIOUS
  <2>1. level[p] <= TopOf[p] /\ level[p] \in Int /\ TopOf[p] \in Int
    BY <1>d DEF SearchRestarts
  <2> HIDE DEF Was, Is
  <2> QED
    BY <1>b, <1>c, <1>d, <2>1
<1>1. CASE UNCHANGED vars
  <2> HIDE DEF Was, Is
  <2> QED
    BY <1>1, <1>a, <1>e DEF vars
<1>2. ASSUME NEW p \in Points, NEW n \in Ids, Visit(p, n) PROVE LinkedKnown'
  <2>1. /\ graph' = graph /\ level' = level /\ todo' = todo /\ start' = start
        /\ visited' = [visited EXCEPT ![p] = @ \cup graph[level[p]].nbrs[n]]
    BY <1>2 DEF Visit
  <2>2. \A q \in Points : \A x \in visited'[q] :
           x \in visited[q] \/ (q = p /\ x \in graph[level[p]].nbrs[n])
    BY <2>1 DEF TypeOK
  <2> HIDE DEF Was, Is
  <2> QED
    BY <1>a, <1>d, <1>e, <2>1, <2>2
<1>3. ASSUME NEW p \in Points, Select(p) PROVE LinkedKnown'
  <2>1. /\ graph' = graph /\ level' = level /\ start' = start /\ pc[p] = "search"
        /\ visited' = [visited EXCEPT ![p] = {start[p]}]
    BY <1>3 DEF Select, Goto
  <2>2. \A q \in Points : \A x \in visited'[q] : x \in visited[q] \/ (q = p /\ x = start[p])
    BY <2>1 DEF TypeOK
  <2>3. \A q \in Points : \A x \in todo'[q] : x \in todo[q] \/ (q = p /\ x \in visited[p])
    BY <1>3, Selected
  <2>4. Is(start[p], level[p])
    BY <1>f, <2>1
  <2> HIDE DEF Was, Is
  <2> QED
    BY <1>a, <1>e, <2>1, <2>2, <2>3, <2>4
<1>4. ASSUME NEW p \in Points, LockOwn(p) PROVE LinkedKnown'
  <2>1. level' = level /\ start' = start /\ visited' = visited /\ todo' = todo
    BY <1>4 DEF LockOwn
  <2>2. \A l \in 0 .. Levels - 1 : \A i \in Ids : \A x \in graph'[l].nbrs[i] :
           x \in graph[l].nbrs[i] \/ (l = level[p] /\ x \in todo[p])
    BY <1>4, LockOwnWrites
  <2> HIDE DEF Was, Is
  <2> QED
    BY <1>a, <1>e, <2>1, <2>2
<1>5. ASSUME NEW p \in Points, NEW n \in Ids, LockNeighbour(p, n) PROVE LinkedKnown'
  <2>1. /\ graph' = graph /\ level' = level /\ start' = start
        /\ visited' = visited /\ todo' = todo
    BY <1>5 DEF LockNeighbour
  <2> HIDE DEF Was, Is
  <2> QED
    BY <1>a, <1>e, <2>1
<1>6. ASSUME NEW p \in Points, UpdateNeighbour(p) PROVE LinkedKnown'
  <2>1. /\ pc[p] = "update" /\ pc'[p] = "link" /\ level' = level
        /\ start' = start /\ visited' = visited
        /\ todo' = [todo EXCEPT ![p] = @ \ {at[p]}]
    BY <1>6 DEF UpdateNeighbour, Goto, TypeOK
  <2>2. at[p] \in Ids /\ copy[p] = graph[level[p]].nbrs[at[p]]
    BY <2>1 DEF TypeOK, MutexesHeld, NoStaleCopy
  <2>3. \A l \in 0 .. Levels - 1 : \A i \in Ids : \A x \in graph'[l].nbrs[i] :
           x \in graph[l].nbrs[i] \/ (l = level[p] /\ x = p)
    BY <1>6, <2>2, UpdateWrites
  <2>4. Is(p, level[p])
    BY <2>1 DEF LinkedPcs
  <2>5. \A q \in Points : \A x \in todo'[q] : x \in todo[q]
    BY <2>1 DEF TypeOK
  <2> HIDE DEF Was, Is
  <2> QED
    BY <1>a, <1>e, <2>1, <2>3, <2>4, <2>5
<1>7. ASSUME NEW p \in Points, NextLevel(p) PROVE LinkedKnown'
  <2>1. /\ graph' = graph /\ start' = start /\ visited' = visited /\ todo' = todo
        /\ todo[p] = {} /\ visited[p] = {start[p]}
    BY <1>7 DEF NextLevel, SearchRestarts
  <2>2. \A q \in Points : q # p => level'[q] = level[q]
    BY <1>7 DEF NextLevel, TypeOK
  <2>3. level'[p] \in Int /\ TopOf[p] \in Int /\ level'[p] <= TopOf[p]
    <3>1. level[p] \in Int /\ TopOf[p] \in Int /\ level[p] <= TopOf[p]
      BY <1>7, <1>d DEF NextLevel, SearchRestarts
    <3>2. \/ level[p] < TopOf[p] /\ level'[p] = level[p] + 1
          \/ level'[p] = level[p]
      BY <1>7 DEF NextLevel, TypeOK
    <3> QED
      BY <3>1, <3>2
  <2> HIDE DEF Was, Is
  <2>4. Is(start[p], level'[p])
    BY <1>b, <1>c, <1>d, <2>3
  <2> QED
    BY <1>a, <1>e, <2>1, <2>2, <2>4
<1>8. ASSUME NEW p \in Points, Descend(p) PROVE LinkedKnown'
  <2>1. /\ graph' = graph /\ todo' = todo /\ todo[p] = {}
        /\ start'[p] \in visited[p] /\ visited'[p] = {start'[p]}
        /\ \A q \in Points : q # p => /\ level'[q] = level[q]
                                      /\ start'[q] = start[q] /\ visited'[q] = visited[q]
    BY <1>8, DescendMoves
  <2>2. /\ level'[p] \in Int /\ TopOf[p] \in Int /\ level[p] \in Int
        /\ level'[p] <= level[p] /\ TopOf[p] <= level[p]
    <3>1. level'[p] \in 0 .. Levels - 1 /\ level'[p] < level[p] /\ TopOf[p] < level[p]
      BY <1>8, DescendMoves
    <3> QED
      BY <1>d, <3>1
  <2> HIDE DEF Was, Is
  <2>3. Is(start'[p], level'[p]) /\ Is(start'[p], TopOf[p])
    BY <1>b, <1>c, <1>d, <2>1, <2>2
  <2> QED
    BY <1>a, <1>e, <2>1, <2>3
<1> QED
  BY <1>1, <1>2, <1>3, <1>4, <1>5, <1>6, <1>7, <1>8 DEF Next, Step

----------------------------------------------------------------------------
(* Mutexes.                                                                 *)

LEMMA NextSearchRestarts ==
    ASSUME TypeOK, SearchRestarts, [Next]_vars
    PROVE  SearchRestarts'
<1>1. CASE UNCHANGED vars
  BY <1>1 DEF SearchRestarts, vars
<1>2. ASSUME NEW p \in Points, NEW n \in Ids, Visit(p, n) PROVE SearchRestarts'
  BY <1>2 DEF SearchRestarts, TypeOK, Visit
<1>3. ASSUME NEW p \in Points, Select(p) PROVE SearchRestarts'
  <2>1. /\ pc[p] = "search" /\ pc' = [pc EXCEPT ![p] = "lock"] /\ level' = level
        /\ start' = start /\ visited' = [visited EXCEPT ![p] = {start[p]}]
        /\ \A q \in Points : q # p => todo'[q] = todo[q]
    BY <1>3, Selected DEF Select, Goto
  <2> QED
    BY <2>1 DEF SearchRestarts, TypeOK
<1>4. ASSUME NEW p \in Points, LockOwn(p) PROVE SearchRestarts'
  BY <1>4 DEF SearchRestarts, TypeOK, LockOwn, Goto
<1>5. ASSUME NEW p \in Points, NEW n \in Ids, LockNeighbour(p, n) PROVE SearchRestarts'
  BY <1>5 DEF SearchRestarts, TypeOK, LockNeighbour, Goto
<1>6. ASSUME NEW p \in Points, UpdateNeighbour(p) PROVE SearchRestarts'
  BY <1>6 DEF SearchRestarts, TypeOK, UpdateNeighbour, Goto
<1>7. ASSUME NEW p \in Points, NextLevel(p) PROVE SearchRestarts'
  <2>1. /\ pc[p] = "link" /\ start' = start /\ visited' = visited /\ todo' = todo
        /\ pc'[p] # "descend"
        /\ \A q \in Points : q # p => pc'[q] = pc[q] /\ level'[q] = level[q]
    BY <1>7 DEF NextLevel, TypeOK
  <2>2. level[p] \in Int /\ TopOf[p] \in Int /\ level[p] <= TopOf[p]
    BY <2>1, LevelFacts DEF SearchRestarts, TypeOK
  <2>3. \/ level[p] < TopOf[p] /\ level'[p] = level[p] + 1
        \/ level'[p] = level[p]
    BY <1>7 DEF NextLevel, TypeOK
  <2>4. level'[p] <= TopOf[p]
    BY <2>2, <2>3
  <2> QED
    BY <2>1, <2>4 DEF SearchRestarts
<1>8. ASSUME NEW p \in Points, Descend(p) PROVE SearchRestarts'
  <2>1. TopOf[p] \in Int /\ 0 <= TopOf[p]
    BY LevelFacts
  <2>2. /\ todo' = todo /\ todo[p] = {}
        /\ \/ pc'[p] = "descend" /\ TopOf[p] < level'[p]
           \/ pc'[p] = "search" /\ level'[p] = 0
        /\ \A q \in Points : q # p => /\ level'[q] = level[q] /\ pc'[q] = pc[q]
                                      /\ start'[q] = start[q] /\ visited'[q] = visited[q]
    BY <1>8, DescendMoves
  <2> QED
    BY <2>1, <2>2 DEF SearchRestarts
<1> QED
  BY <1>1, <1>2, <1>3, <1>4, <1>5, <1>6, <1>7, <1>8 DEF Next, Step

(* Only a free mutex is taken, and only by the thread itself given back.    *)
LEMMA NextMutexesHeld ==
    ASSUME TypeOK, SearchRestarts, MutexesHeld, NotYetListed, [Next]_vars
    PROVE  MutexesHeld'
<1> USE IdsFacts
<1>1. CASE UNCHANGED vars
  BY <1>1 DEF MutexesHeld, vars
<1>2. ASSUME NEW p \in Points, NEW n \in Ids, Visit(p, n) PROVE MutexesHeld'
  BY <1>2 DEF MutexesHeld, TypeOK, Visit
<1>3. ASSUME NEW p \in Points, Select(p) PROVE MutexesHeld'
  <2>1. /\ pc' = [pc EXCEPT ![p] = "lock"] /\ owner' = owner /\ at' = at
        /\ \A q \in Points : q # p => todo'[q] = todo[q]
    BY <1>3 DEF Select, Goto, TypeOK
  <2> QED
    BY <2>1 DEF MutexesHeld, TypeOK
<1>4. ASSUME NEW p \in Points, LockOwn(p) PROVE MutexesHeld'
  BY <1>4 DEF MutexesHeld, TypeOK, LockOwn, Goto, Free
<1>5. ASSUME NEW p \in Points, NEW n \in Ids, LockNeighbour(p, n) PROVE MutexesHeld'
  BY <1>5 DEF MutexesHeld, TypeOK, LockNeighbour, Goto, Free
<1>6. ASSUME NEW p \in Points, UpdateNeighbour(p) PROVE MutexesHeld'
  <2>1. at[p] \in Ids /\ at[p] # p /\ owner[at[p]] = p
    BY <1>6 DEF MutexesHeld, NotYetListed, TypeOK, UpdateNeighbour, Goto
  <2> QED
    BY <1>6, <2>1 DEF MutexesHeld, TypeOK, UpdateNeighbour, Goto
<1>7. ASSUME NEW p \in Points, NextLevel(p) PROVE MutexesHeld'
  <2>1. owner[p] = p
    BY <1>7 DEF MutexesHeld, NextLevel
  <2>2. \A q \in Points : q # p => (pc'[q] = pc[q])
    BY <1>7 DEF NextLevel, TypeOK
  <2>3. pc'[p] \notin {"link", "update"}
    BY <1>7 DEF NextLevel, TypeOK
  <2> QED
    BY <1>7, <2>1, <2>2, <2>3 DEF MutexesHeld, TypeOK, NextLevel
<1>8. ASSUME NEW p \in Points, Descend(p) PROVE MutexesHeld'
  <2>1. /\ owner' = owner /\ at' = at /\ todo' = todo /\ pc'[p] \in {"descend", "search"}
        /\ \A q \in Points : q # p => pc'[q] = pc[q]
    BY <1>8, DescendMoves
  <2> QED
    BY <2>1 DEF MutexesHeld
<1> QED
  BY <1>1, <1>2, <1>3, <1>4, <1>5, <1>6, <1>7, <1>8 DEF Next, Step

(* Whoever writes a list has its mutex: nobody else has a copy of it.       *)
LEMMA NextNoStaleCopy ==
    ASSUME TypeOK, SearchRestarts, MutexesHeld, NoStaleCopy, [Next]_vars
    PROVE  NoStaleCopy'
<1> USE IdsFacts
<1>0. \A q \in Points : pc[q] = "update" => level[q] \in 0 .. Levels - 1 /\ at[q] \in Ids
  BY DEF TypeOK, MutexesHeld
<1>1. CASE UNCHANGED vars
  BY <1>1 DEF NoStaleCopy, vars
<1>2. ASSUME NEW p \in Points, NEW n \in Ids, Visit(p, n) PROVE NoStaleCopy'
  BY <1>2 DEF NoStaleCopy, TypeOK, Visit
<1>3. ASSUME NEW p \in Points, Select(p) PROVE NoStaleCopy'
  BY <1>3 DEF NoStaleCopy, TypeOK, Select, Goto
<1>4. ASSUME NEW p \in Points, LockOwn(p) PROVE NoStaleCopy'
  <2>1. \A q \in Points : pc[q] = "update" => at[q] # p
    BY <1>4 DEF MutexesHeld, LockOwn, Free, TypeOK
  <2>2. /\ pc' = [pc EXCEPT ![p] = "link"] /\ level' = level /\ at' = at /\ copy' = copy
    BY <1>4 DEF LockOwn, Goto
  <2>3. \A q \in Points : pc'[q] = "update" => pc[q] = "update"
    BY <2>2 DEF TypeOK
  <2>4. \A k \in 0 .. Levels - 1 : \A i \in Ids : i # p => graph'[k].nbrs[i] = graph[k].nbrs[i]
    BY <1>4, LockOwnWrites
  <2> QED
    BY <1>0, <2>1, <2>2, <2>3, <2>4 DEF NoStaleCopy
<1>5. ASSUME NEW p \in Points, NEW n \in Ids, LockNeighbour(p, n) PROVE NoStaleCopy'
  BY <1>5 DEF NoStaleCopy, TypeOK, LockNeighbour, Goto
<1>6. ASSUME NEW p \in Points, UpdateNeighbour(p) PROVE NoStaleCopy'
  <2>1. pc[p] = "update" /\ at[p] \in Ids /\ owner[at[p]] = p
    BY <1>6 DEF MutexesHeld, TypeOK, UpdateNeighbour, Goto
  <2>2. \A q \in Points : q # p /\ pc[q] = "update" => at[q] # at[p]
    BY <2>1 DEF MutexesHeld
  <2>3. /\ pc'[p] = "link" /\ level' = level
        /\ \A q \in Points : q # p => pc'[q] = pc[q] /\ at'[q] = at[q] /\ copy'[q] = copy[q]
    BY <1>6 DEF UpdateNeighbour, Goto, TypeOK
  <2>4. \A k \in 0 .. Levels - 1 : \A i \in Ids : i # at[p] => graph'[k].nbrs[i] = graph[k].nbrs[i]
    BY <1>6, <2>1, UpdateWrites
  <2> QED
    BY <1>0, <2>2, <2>3, <2>4 DEF NoStaleCopy
<1>7. ASSUME NEW p \in Points, NextLevel(p) PROVE NoStaleCopy'
  <2>1. /\ graph' = graph /\ at' = at /\ copy' = copy /\ pc'[p] # "update"
        /\ \A q \in Points : q # p => pc'[q] = pc[q] /\ level'[q] = level[q]
    BY <1>7 DEF NextLevel, TypeOK
  <2> QED
    BY <2>1 DEF NoStaleCopy
<1>8. ASSUME NEW p \in Points, Descend(p) PROVE NoStaleCopy'
  <2>1. /\ graph' = graph /\ at' = at /\ copy' = copy /\ pc'[p] \in {"descend", "search"}
        /\ \A q \in Points : q # p => pc'[q] = pc[q] /\ level'[q] = level[q]
    BY <1>8, DescendMoves
  <2> QED
    BY <2>1 DEF NoStaleCopy
<1> QED
  BY <1>1, <1>2, <1>3, <1>4, <1>5, <1>6, <1>7, <1>8 DEF Next, Step

----------------------------------------------------------------------------
(* Order.                                                                   *)

(* A point that descends, or that searches or waits for its own mutex, is   *)
(* in no list, search or selection of its level.                            *)
LEMMA Unknown ==
    ASSUME TypeOK, LinkedKnown, NEW p \in Points, NEW l \in 0 .. Levels - 1,
           \/ pc[p] = "descend"
           \/ level[p] < l
           \/ level[p] = l /\ pc[p] \in {"search", "lock"}
    PROVE  /\ \A i \in Ids : p \notin graph[l].nbrs[i]
           /\ \A q \in Points : level[q] = l => p \notin todo[q]
<1>1. ~ IsLinked(p, l)
  BY IdsFacts, LevelFacts DEF IsLinked, LinkedPcs, TypeOK
<1> QED
  BY <1>1 DEF LinkedKnown

LEMMA NextNotYetListed ==
    ASSUME TypeOK, LinkedKnown, SearchRestarts, MutexesHeld, NoStaleCopy, NotYetListed, [Next]_vars
    PROVE  NotYetListed'
<1>0. /\ \A q \in Points : level[q] \in 0 .. Levels - 1 /\ todo[q] \in SUBSET Ids
      /\ \A q \in Points : \A x \in todo[q] : x # q /\ q \notin graph[level[q]].nbrs[x]
  BY DEF TypeOK, NotYetListed
<1>1. CASE UNCHANGED vars
  BY <1>1 DEF NotYetListed, vars
<1>2. ASSUME NEW p \in Points, NEW n \in Ids, Visit(p, n) PROVE NotYetListed'
  BY <1>2 DEF NotYetListed, Visit
<1>3. ASSUME NEW p \in Points, Select(p) PROVE NotYetListed'
  <2>1. graph' = graph /\ level' = level /\ pc[p] = "search"
    BY <1>3 DEF Select, Goto
  <2>2. \A i \in Ids : p \notin graph[level[p]].nbrs[i]
    BY <1>0, <2>1, Unknown
  <2>3. /\ todo'[p] \in SUBSET Ids /\ p \notin todo'[p]
        /\ \A q \in Points : q # p => todo'[q] = todo[q]
    BY <1>3, Selected
  <2> QED
    BY <1>0, <2>1, <2>2, <2>3 DEF NotYetListed
<1>4. ASSUME NEW p \in Points, LockOwn(p) PROVE NotYetListed'
  <2>1. pc[p] = "lock" /\ level' = level /\ todo' = todo
    BY <1>4 DEF LockOwn, Goto
  <2>2. \A q \in Points : level[q] = level[p] => p \notin todo[q]
    BY <1>0, <2>1, Unknown
  <2>3. \A q \in Points : \A x \in todo[q] : graph'[level[q]].nbrs[x] = graph[level[q]].nbrs[x]
    BY <1>0, <1>4, <2>2, LockOwnWrites
  <2> QED
    BY <1>0, <2>1, <2>3 DEF NotYetListed
<1>5. ASSUME NEW p \in Points, NEW n \in Ids, LockNeighbour(p, n) PROVE NotYetListed'
  BY <1>5 DEF NotYetListed, LockNeighbour
<1>6. ASSUME NEW p \in Points, UpdateNeighbour(p) PROVE NotYetListed'
  <2>1. /\ pc[p] = "update" /\ level' = level
        /\ todo'[p] = todo[p] \ {at[p]}
        /\ \A q \in Points : q # p => todo'[q] = todo[q]
    BY <1>6 DEF UpdateNeighbour, Goto, TypeOK
  <2>2. at[p] \in Ids /\ copy[p] = graph[level[p]].nbrs[at[p]]
    BY <2>1 DEF TypeOK, MutexesHeld, NoStaleCopy
  <2>3. \A l \in 0 .. Levels - 1 : \A i \in Ids : \A x \in graph'[l].nbrs[i] :
           x \in graph[l].nbrs[i] \/ (l = level[p] /\ i = at[p] /\ x = p)
    BY <1>0, <1>6, <2>2, UpdateWrites
  <2>4. \A q \in Points : \A x \in todo'[q] : x \in todo[q] /\ ~ (q = p /\ x = at[p])
    BY <2>1
  <2>5. \A q \in Points : \A x \in todo'[q] : x # q /\ q \notin graph'[level[q]].nbrs[x]
    BY <1>0, <2>3, <2>4
  <2> QED
    BY <2>1, <2>5 DEF NotYetListed
<1>7. ASSUME NEW p \in Points, NextLevel(p) PROVE NotYetListed'
  <2>1. /\ graph' = graph /\ todo' = todo /\ todo[p] = {}
        /\ \A q \in Points : q # p => level'[q] = level[q]
    BY <1>7 DEF NextLevel, TypeOK
  <2> QED
    BY <1>0, <2>1 DEF NotYetListed
<1>8. ASSUME NEW p \in Points, Descend(p) PROVE NotYetListed'
  <2>1. /\ graph' = graph /\ todo' = todo /\ todo[p] = {}
        /\ \A q \in Points : q # p => level'[q] = level[q]
    BY <1>8, DescendMoves
  <2> QED
    BY <1>0, <2>1 DEF NotYetListed
<1> QED
  BY <1>1, <1>2, <1>3, <1>4, <1>5, <1>6, <1>7, <1>8 DEF Next, Step

(* A point that starts to need others is needed by nobody.                  *)
LEMMA NextAcyclic ==
    ASSUME TypeOK, LinkedKnown, SearchRestarts, Acyclic, [Next]_vars
    PROVE  Acyclic'
<1> DEFINE Did(p, q) == level[p] = level[q] /\ q \in todo[p]
           Does(p, q) == level'[p] = level'[q] /\ q \in todo'[p]
           Before == \A S \in SUBSET Points : S # {} => \E p \in S : \A q \in S : ~ Did(p, q)
           After == \A S \in SUBSET Points : S # {} => \E p \in S : \A q \in S : ~ Does(p, q)
<1>0. Before /\ (After => Acyclic')
  BY DEF Acyclic, Needs
<1>a. ASSUME \A p, q \in Points : Does(p, q) => Did(p, q) PROVE After
  <2> SUFFICES ASSUME NEW S \in SUBSET Points, S # {}
               PROVE  \E p \in S : \A q \in S : ~ Does(p, q)
    OBVIOUS
  <2> HIDE DEF Did, Does
  <2> QED
    BY <1>0, <1>a
<1>1. ASSUME NEW p \in Points, Select(p) PROVE After
  <2>1. level' = level /\ pc[p] = "search" /\ level[p] \in 0 .. Levels - 1
    BY <1>1 DEF Select, Goto, TypeOK
  <2>2. \A q \in Points : level[q] = level[p] => p \notin todo[q]
    BY <2>1, Unknown
  <2>3. p \notin todo'[p] /\ \A q \in Points : q # p => todo'[q] = todo[q]
    BY <1>1, Selected
  <2>4. /\ \A q \in Points : ~ Does(q, p)
        /\ \A q, r \in Points : q # p /\ Does(q, r) => Did(q, r)
    BY <2>1, <2>2, <2>3
  <2> SUFFICES ASSUME NEW S \in SUBSET Points, S # {}
               PROVE  \E q \in S : \A r \in S : ~ Does(q, r)
    OBVIOUS
  <2> HIDE DEF Did, Does
  <2>5. CASE S \ {p} = {}
    BY <2>4, <2>5
  <2>6. CASE S \ {p} # {}
    <3>1. PICK q \in S \ {p} : \A r \in S \ {p} : ~ Did(q, r)
      BY <1>0, <2>6
    <3> QED
      BY <2>4, <3>1
  <2> QED
    BY <2>5, <2>6
<1>2. ASSUME NEW p \in Points, NextLevel(p) \/ Descend(p) PROVE After
  <2>1. /\ todo' = todo /\ todo[p] = {}
        /\ \A q \in Points : q # p => level'[q] = level[q]
    <3>1. CASE NextLevel(p)
      BY <3>1 DEF NextLevel, TypeOK
    <3>2. CASE Descend(p)
      BY <3>2, DescendMoves
    <3> QED
      BY <1>2, <3>1, <3>2
  <2>2. \A q, r \in Points : q # p /\ r # p /\ Does(q, r) => Did(q, r)
    BY <2>1
  <2>3. \A r \in Points : ~ Does(p, r)
    BY <2>1
  <2> SUFFICES ASSUME NEW S \in SUBSET Points, S # {}
               PROVE  \E q \in S : \A r \in S : ~ Does(q, r)
    OBVIOUS
  <2> HIDE DEF Did, Does
  <2> QED
    BY <1>0, <2>2, <2>3
<1>3. ASSUME UNCHANGED vars PROVE After
  BY <1>0, <1>3, <1>a DEF vars
<1>4. ASSUME NEW p \in Points, NEW n \in Ids, Visit(p, n) \/ LockNeighbour(p, n)
      PROVE  After
  BY <1>4, <1>a DEF Visit, LockNeighbour
<1>5. ASSUME NEW p \in Points, LockOwn(p) PROVE After
  BY <1>5, <1>a DEF LockOwn
<1>6. ASSUME NEW p \in Points, UpdateNeighbour(p) PROVE After
  <2>1. level' = level /\ \A q \in Points : todo'[q] \subseteq todo[q]
    BY <1>6 DEF UpdateNeighbour, TypeOK
  <2> QED
    BY <2>1, <1>a
<1> QED
  BY <1>0, <1>1, <1>2, <1>3, <1>4, <1>5, <1>6 DEF Next, Step

----------------------------------------------------------------------------
(* Sizes.                                                                   *)

LEMMA NextDegreesBounded ==
    ASSUME TypeOK, SearchRestarts, MutexesHeld, DegreesBounded, SelectionsFit, [Next]_vars
    PROVE  DegreesBounded' /\ SelectionsFit'
<1> DEFINE Lists == \A l \in 0 .. Levels - 1 : \A i \in Ids :
                       Cardinality(graph'[l].nbrs[i]) <= Degree(l)
           Todos == \A q \in Points : Cardinality(todo'[q]) <= Degree(level'[q])
<1>0. /\ \A l \in 0 .. Levels - 1 : \A i \in Ids : Cardinality(graph[l].nbrs[i]) <= Degree(l)
      /\ \A q \in Points : Cardinality(todo[q]) <= Degree(level[q])
      /\ \A q \in Points : level[q] \in 0 .. Levels - 1
  BY DEF DegreesBounded, DegreeAtMost, SelectionsFit, TypeOK
<1>a. Lists /\ Todos => DegreesBounded' /\ SelectionsFit'
  <2>1. DOMAIN graph' = 0 .. Levels - 1
    BY NextTypeOK DEF TypeOK
  <2> QED
    BY <2>1 DEF DegreesBounded, DegreeAtMost, SelectionsFit
<1>1. ASSUME UNCHANGED vars PROVE Lists /\ Todos
  BY <1>0, <1>1 DEF vars
<1>2. ASSUME NEW p \in Points, NEW n \in Ids, Visit(p, n) \/ LockNeighbour(p, n)
      PROVE  Lists /\ Todos
  BY <1>0, <1>2 DEF Visit, LockNeighbour
<1>3. ASSUME NEW p \in Points, Select(p) PROVE Lists /\ Todos
  <2>1. graph' = graph /\ level' = level
    BY <1>3 DEF Select
  <2>2. /\ Cardinality(todo'[p]) <= Degree(level[p])
        /\ \A q \in Points : q # p => todo'[q] = todo[q]
    BY <1>3, Selected
  <2> QED
    BY <1>0, <2>1, <2>2
<1>4. ASSUME NEW p \in Points, LockOwn(p) PROVE Lists /\ Todos
  <2>1. todo' = todo /\ level' = level
    BY <1>4 DEF LockOwn
  <2>2. \A l \in 0 .. Levels - 1 : \A i \in Ids :
           \/ graph'[l].nbrs[i] = graph[l].nbrs[i]
           \/ l = level[p] /\ graph'[l].nbrs[i] = todo[p]
    BY <1>4, LockOwnWrites
  <2>3. ASSUME NEW l \in 0 .. Levels - 1, NEW i \in Ids
        PROVE  Cardinality(graph'[l].nbrs[i]) <= Degree(l)
    BY <1>0, <2>2
  <2> QED
    BY <1>0, <2>1, <2>3
<1>5. ASSUME NEW p \in Points, UpdateNeighbour(p) PROVE Lists /\ Todos
  <2>1. at[p] \in Ids
    BY <1>5 DEF TypeOK, MutexesHeld, UpdateNeighbour, Goto
  <2>2. Lists
    BY <1>0, <1>5, <2>1, UpdateWrites
  <2>3. /\ todo'[p] \subseteq todo[p] /\ todo[p] \in SUBSET Ids /\ level' = level
        /\ \A q \in Points : q # p => todo'[q] = todo[q]
    BY <1>5 DEF UpdateNeighbour, TypeOK
  <2>4. Cardinality(todo'[p]) <= Cardinality(todo[p]) /\ Cardinality(todo'[p]) \in Nat
        /\ Cardinality(todo[p]) \in Nat
    BY <2>3, IdSetsFinite, FS_Subset
  <2>5. Cardinality(todo'[p]) <= Degree(level[p])
    BY <1>0, <2>4, LevelFacts
  <2> QED
    BY <1>0, <2>2, <2>3, <2>5
<1>6. ASSUME NEW p \in Points, NextLevel(p) \/ Descend(p) PROVE Lists /\ Todos
  <2>1. /\ graph' = graph /\ todo' = todo /\ todo[p] = {}
        /\ \A q \in Points : q # p => level'[q] = level[q]
    <3>1. CASE NextLevel(p)
      BY <3>1 DEF NextLevel, TypeOK
    <3>2. CASE Descend(p)
      BY <3>2, DescendMoves
    <3> QED
      BY <1>6, <3>1, <3>2
  <2>2. Cardinality(todo[p]) <= Degree(level'[p])
    BY <2>1, FS_EmptySet, LevelFacts
  <2> QED
    BY <1>0, <2>1, <2>2
<1>7. Lists /\ Todos
  <2> HIDE DEF Lists, Todos
  <2> QED
    BY <1>1, <1>2, <1>3, <1>4, <1>5, <1>6 DEF Next, Step
<1> QED
  BY <1>7, <1>a

----------------------------------------------------------------------------
(* The invariant, and what follows from it.                                 *)

LEMMA InitIInv == Init => IInv
<1> SUFFICES ASSUME Init PROVE IInv
  OBVIOUS
<1>1. TypeOK
  BY InitTypeOK
<1>2. \A l \in 0 .. Levels - 1 : \A i \in Ids : graph[l].nbrs[i] = {}
  <2> DEFINE none == {}
  <2>1. EmptyGraph \in Graph /\ none \in SUBSET Ids
    BY DEF EmptyGraph, Graph
  <2> DEFINE g == InsertNeighborsById(EmptyGraph, Entry, none)
  <2>2. g.nbrs = [i \in Ids |-> IF i = Entry THEN none ELSE EmptyGraph.nbrs[i]]
    <3> HIDE DEF none
    <3>1. Entry \in Ids
      BY IdsFacts
    <3> QED
      BY <2>1, <3>1, InsertTyped
  <2>3. \A i \in Ids : EmptyGraph.nbrs[i] = {}
    BY DEF EmptyGraph
  <2>4. \A i \in Ids : g.nbrs[i] = {}
    BY <2>2, <2>3
  <2> QED
    BY <2>4 DEF Init
<1>3. Cardinality({}) = 0 /\ \A l : 0 <= Degree(l)
  BY FS_EmptySet, LevelFacts
<1>4. LinkedKnown /\ MutexesHeld /\ NoStaleCopy /\ NotYetListed
  BY <1>2 DEF Init, LinkedKnown, IsLinked, MutexesHeld, NoStaleCopy, NotYetListed
<1>7. SearchRestarts
  <2> SUFFICES ASSUME NEW p \in Points
               PROVE  /\ pc[p] = "descend" => level[p] > TopOf[p] /\ todo[p] = {}
                      /\ pc[p] # "descend" => level[p] <= TopOf[p]
                      /\ pc[p] \notin {"descend", "search"} => visited[p] = {start[p]}
    BY DEF SearchRestarts
  <2>1. TopOf[p] \in Nat /\ Levels \in Nat
    BY LevelFacts
  <2>2. CASE Descends(p)
    BY <2>1, <2>2 DEF Init, Descends
  <2>3. CASE ~ Descends(p)
    BY <2>1, <2>3 DEF Init
  <2> QED
    BY <2>2, <2>3
<1>5. DegreesBounded
  BY <1>1, <1>2, <1>3 DEF DegreesBounded, DegreeAtMost, TypeOK
<1>6. SelectionsFit /\ Acyclic
  BY <1>3 DEF Init, SelectionsFit, Acyclic, Needs
<1> QED
  BY <1>1, <1>4, <1>5, <1>6, <1>7 DEF IInv

LEMMA NextIInv == IInv /\ [Next]_vars => IInv'
<1> SUFFICES ASSUME IInv, [Next]_vars PROVE IInv'
  OBVIOUS
<1>1. TypeOK' /\ LinkedKnown' /\ SearchRestarts' /\ MutexesHeld'
  BY NextTypeOK, NextLinkedKnown, NextSearchRestarts, NextMutexesHeld DEF IInv
<1>2. NoStaleCopy' /\ NotYetListed' /\ Acyclic' /\ DegreesBounded' /\ SelectionsFit'
  BY NextNoStaleCopy, NextNotYetListed, NextAcyclic, NextDegreesBounded DEF IInv
<1> QED
  BY <1>1, <1>2 DEF IInv

LEMMA AlwaysIInv == Spec => []IInv
BY InitIInv, NextIInv, PTL DEF Spec

(* The state of every thread, of every mutex and of every list has its      *)
(* type; in particular no thread goes above the highest level.              *)
THEOREM InsertTypeCorrect == Spec => []TypeOK
<1>1. IInv => TypeOK
  BY DEF IInv
<1> QED
  BY <1>1, AlwaysIInv, PTL

(* No thread writes back a list that changed since it read it               *)
(* (mutually_connect_new_element): each list of each level is edited under   *)
(* its mutex.                                                               *)
THEOREM NoLostEdge == Spec => []NoStaleCopy
<1>1. IInv => NoStaleCopy
  BY DEF IInv
<1> QED
  BY <1>1, AlwaysIInv, PTL

(* The append of mutually_connect_new_element, which does not look, never   *)
(* stores an edge twice, however many insertions run.                       *)
THEOREM NoEdgeTwice == Spec => []NoDoubleEdge
<1>1. IInv => NoDoubleEdge
  BY DEF IInv, NoStaleCopy, NotYetListed, MutexesHeld, NoDoubleEdge
<1> QED
  BY <1>1, AlwaysIInv, PTL

(* No list of a level outgrows the level's degree.                          *)
THEOREM ListsFit == Spec => []DegreesBounded
<1>1. IInv => DegreesBounded
  BY DEF IInv
<1> QED
  BY <1>1, AlwaysIInv, PTL

(* The threads of the pool never wait for each other in a circle, although  *)
(* each holds the mutex of its own point, on whatever level, while it asks  *)
(* for those of others: of the waiting threads that are furthest up, one    *)
(* needs none of the rest.                                                  *)
THEOREM InsertionsDoNotDeadlock == Spec => []NoWaitCycle
<1>1. ASSUME IInv PROVE NoWaitCycle
  <2>0. /\ \A p \in Points : level[p] \in 0 .. Levels - 1 /\ p # Entry
        /\ Acyclic /\ LinkedKnown
    BY <1>1, LevelFacts, IdsFacts DEF IInv, TypeOK
  <2>1. \A p, q \in Points : WaitsFor(p, q) => level[q] > level[p] \/ Needs(p, q)
    <3> SUFFICES ASSUME NEW p \in Points, NEW q \in Points, WaitsFor(p, q)
                 PROVE  level[q] > level[p] \/ Needs(p, q)
      OBVIOUS
    <3>1. q \in todo[p]
      BY DEF WaitsFor
    <3>2. IsLinked(q, level[p])
      BY <2>0, <3>1 DEF LinkedKnown
    <3> QED
      BY <2>0, <3>1, <3>2, LevelFacts DEF IsLinked, Needs
  <2> SUFFICES ASSUME NEW S \in SUBSET Points, S # {}
               PROVE  \E p \in S : \A q \in S : ~ WaitsFor(p, q)
    BY DEF NoWaitCycle
  <2>2. PICK T \in SUBSET S : /\ T # {}
                             /\ \A p \in T : \A q \in S :
                                  /\ level[q] <= level[p]
                                  /\ q \notin T => level[q] # level[p]
    <3> DEFINE Ls == {level[p] : p \in S}
    <3>1. Ls \in SUBSET (0 .. Levels - 1) /\ Ls # {}
      BY <2>0
    <3>2. PICK h \in Ls : \A l \in Ls : l <= h
      <4> HIDE DEF Ls
      <4> QED
        BY <3>1, HighestLevel
    <3>3. \A q \in S : level[q] <= h
      BY <3>2
    <3>4. \E p \in S : level[p] = h
      BY <3>2
    <3> WITNESS {p \in S : level[p] = h} \in SUBSET S
    <3> QED
      BY <3>3, <3>4
  <2>3. PICK p \in T : \A q \in T : ~ Needs(p, q)
    BY <2>0, <2>2 DEF Acyclic
  <2>4. ASSUME NEW q \in S PROVE ~ WaitsFor(p, q)
    <3>1. ~ (level[q] > level[p])
      BY <2>0, <2>2
    <3>2. ~ Needs(p, q)
      BY <2>2, <2>3 DEF Needs
    <3> QED
      BY <2>1, <3>1, <3>2
  <2> QED
    BY <2>4
<1> QED
  BY <1>1, AlwaysIInv, PTL
=============================================================================
