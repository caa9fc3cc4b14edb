---------------------------- MODULE HGraphProofs ----------------------------
(***************************************************************************)
(* Proofs about HGraph and HGraphPersist, for any number of ids, labels,    *)
(* levels and degrees and both modes of Remove.                             *)
(*                                                                         *)
(* The results build on one another: a removal edits the graphs at the id   *)
(* the label table gives it, so the reverse edges (GraphInv) are only as    *)
(* good as the labels (LabelInv); the repair finds every list that names a  *)
(* point only because of the reverse edges, so the edges stay among the     *)
(* points (LevelsInv) only with them; and that the levels stay nested and   *)
(* in one piece (JoinedInv) rests on the edges.  What concerns the content  *)
(* (counts, abstract store, search) rests on StoreInv, which holds for the  *)
(* calls of ApartSpec.                                                      *)
(***************************************************************************)
EXTENDS HGraphPersist, CellProofs, WellFoundedInduction

\* The shape of a label table, without the bound on its size.
Shaped(tab) ==
    tab \in [table : [Ids -> AnyLabel], size : Int,
             remap : [AnyLabel -> Ids \cup {INVALID_ID}], deleted : SUBSET Ids]

\* Mapped labels point to slots below n that carry them.
PointsBack(tab, n) ==
    \A l \in AnyLabel : Found(tab, l) => IdOf(tab, l) < n /\ tab.table[IdOf(tab, l)] = l

LabelInv ==
    /\ Shaped(lt)
    /\ total_count \in 0 .. MaxId
    /\ max_capacity \in Int
    /\ total_count <= lt.size
    /\ PointsBack(lt, total_count)

GraphInv ==
    /\ Sound(bottom)
    /\ routes \in Seq(Graph)
    /\ \A j \in DOMAIN routes : Sound(routes[j])

----------------------------------------------------------------------------
(* The label table.                                                         *)

(* A label that is found has the id of a slot.                              *)
LEMMA FoundId ==
    ASSUME NEW tab, Shaped(tab), NEW l \in AnyLabel, Found(tab, l)
    PROVE  IdOf(tab, l) \in Ids
BY DEF Shaped, Found, IdOf

(* Insert of a label at the next id.                                        *)
LEMMA InsertPointsBack ==
    ASSUME NEW tab, Shaped(tab), NEW n \in Ids, PointsBack(tab, n),
           NEW l \in AnyLabel
    PROVE  /\ Shaped(Insert(tab, n, l))
           /\ n + 1 <= Insert(tab, n, l).size
           /\ PointsBack(Insert(tab, n, l), n + 1)
<1> DEFINE new == Insert(tab, n, l)
<1>1. /\ new.remap = [tab.remap EXCEPT ![l] = n]
      /\ new.table = [tab.table EXCEPT ![n] = l]
      /\ new.size = IF n + 1 > tab.size THEN n + 1 ELSE tab.size
  BY DEF Insert, Shaped
<1>2. n \in Int
  BY IdFacts
<1>3. Shaped(new)
  <2>1. tab.size \in Int
    BY DEF Shaped
  <2>2. (IF n + 1 > tab.size THEN n + 1 ELSE tab.size) \in Int
    BY <1>2, <2>1
  <2> QED
    BY <2>2 DEF Insert, Shaped
<1>4. n + 1 <= new.size
  BY <1>1, <1>2 DEF Shaped
<1>5. PointsBack(new, n + 1)
  <2> SUFFICES ASSUME NEW m \in AnyLabel, Found(new, m)
               PROVE  IdOf(new, m) < n + 1 /\ new.table[IdOf(new, m)] = m
    BY DEF PointsBack
  <2>1. CASE m = l
    <3>1. new.remap[l] = n /\ new.table[n] = l
      BY <1>1 DEF Shaped
    <3> QED
      BY <2>1, <3>1, <1>2 DEF IdOf
  <2>2. CASE m # l
    <3>1. IdOf(new, m) = IdOf(tab, m)
      BY <2>2, <1>1 DEF Shaped, IdOf
    <3>2. Found(tab, m)
      BY <3>1 DEF Found
    <3>3. IdOf(tab, m) < n /\ tab.table[IdOf(tab, m)] = m /\ IdOf(tab, m) \in Ids
      BY <3>2, FoundId DEF PointsBack
    <3>4. IdOf(tab, m) \in Int /\ IdOf(tab, m) # n
      <4>1. IdOf(tab, m) \in Int
        BY <3>3, IdFacts
      <4> QED
        BY <3>3, <1>2, <4>1
    <3>5. new.table[IdOf(tab, m)] = tab.table[IdOf(tab, m)]
      BY <1>1, <3>3, <3>4 DEF Shaped
    <3>6. IdOf(tab, m) < n + 1
      BY <1>2, <3>3, <3>4
    <3> QED
      BY <3>1, <3>3, <3>5, <3>6
  <2> QED
    BY <2>1, <2>2
<1> QED
  BY <1>3, <1>4, <1>5

(* MarkRemove leaves the map and the labels as they are.                    *)
LEMMA MarkPointsBack ==
    ASSUME NEW tab, Shaped(tab), NEW l \in AnyLabel, NEW n, PointsBack(tab, n)
    PROVE  /\ Shaped(MarkRemove(tab, l))
           /\ MarkRemove(tab, l).size = tab.size
           /\ PointsBack(MarkRemove(tab, l), n)
<1>1. Shaped(MarkRemove(tab, l))
  BY FoundId DEF Shaped, MarkRemove
<1>2. /\ MarkRemove(tab, l).remap = tab.remap
      /\ MarkRemove(tab, l).table = tab.table
      /\ MarkRemove(tab, l).size = tab.size
  BY DEF Shaped, MarkRemove
<1> QED
  BY <1>1, <1>2 DEF PointsBack, Found, IdOf

(* UpdateLabel renames the slots and moves the entry of the map.            *)
LEMMA UpdatePointsBack ==
    ASSUME NEW tab, Shaped(tab), NEW n \in Int, PointsBack(tab, n), n <= tab.size,
           NEW old \in AnyLabel, NEW new \in AnyLabel, old # new
    PROVE  /\ Shaped(UpdateLabel(tab, old, new))
           /\ UpdateLabel(tab, old, new).size = tab.size
           /\ PointsBack(UpdateLabel(tab, old, new), n)
<1> DEFINE up == UpdateLabel(tab, old, new)
<1>1. /\ up.table = [i \in Ids |-> IF i < tab.size /\ tab.table[i] = old
                                   THEN new ELSE tab.table[i]]
      /\ up.remap = IF Found(tab, old)
                    THEN [tab.remap EXCEPT ![old] = INVALID_ID, ![new] = tab.remap[old]]
                    ELSE tab.remap
      /\ up.size = tab.size
  BY DEF UpdateLabel, Shaped
<1>2. Shaped(up)
  BY DEF UpdateLabel, Shaped
<1>3. PointsBack(up, n)
  <2> SUFFICES ASSUME NEW m \in AnyLabel, Found(up, m)
               PROVE  IdOf(up, m) < n /\ up.table[IdOf(up, m)] = m
    BY DEF PointsBack
  <2>1. \A l \in AnyLabel : Found(tab, l) =>
           /\ IdOf(tab, l) \in Ids /\ IdOf(tab, l) < n
           /\ IdOf(tab, l) < tab.size /\ tab.table[IdOf(tab, l)] = l
    BY FoundId, IdFacts DEF PointsBack, Shaped
  <2>2. CASE Found(tab, old) /\ m = new
    <3>1. IdOf(up, m) = IdOf(tab, old)
      BY <1>1, <2>2 DEF IdOf, Shaped
    <3> QED
      BY <1>1, <2>1, <2>2, <3>1
  <2>3. CASE Found(tab, old) /\ m # new
    <3>1. m # old
      BY <1>1, <2>3 DEF Found, IdOf, Shaped
    <3>2. IdOf(up, m) = IdOf(tab, m)
      BY <1>1, <2>3, <3>1 DEF IdOf, Shaped
    <3>3. Found(tab, m)
      BY <3>2 DEF Found
    <3> QED
      BY <1>1, <2>1, <3>1, <3>2, <3>3
  <2>4. CASE ~ Found(tab, old)
    <3>1. IdOf(up, m) = IdOf(tab, m) /\ Found(tab, m) /\ m # old
      BY <1>1, <2>4 DEF Found, IdOf
    <3> QED
      BY <1>1, <2>1, <3>1
  <2> QED
    BY <2>2, <2>3, <2>4
<1> QED
  BY <1>1, <1>2, <1>3

(* ForceRemove of a label and the Move of the last point to its id leave    *)
(* every label that is still mapped with a slot below the new count, and    *)
(* ShrinkToFit cuts off only slots that nothing points to.                  *)
LEMMA ForcePointsBack ==
    ASSUME NEW tab, Shaped(tab), NEW n \in Int, PointsBack(tab, n),
           NEW l \in AnyLabel, Found(tab, l),
           NEW out, out = IF n - 1 = IdOf(tab, l)
                          THEN ForceRemove(tab, l, IdOf(tab, l))
                          ELSE Move(ForceRemove(tab, l, IdOf(tab, l)), n - 1, IdOf(tab, l)),
           n - 1 \in Ids
    PROVE  /\ Shaped(ShrinkToFit(out, n - 1))
           /\ ShrinkToFit(out, n - 1).size = n - 1
           /\ PointsBack(ShrinkToFit(out, n - 1), n - 1)
<1> DEFINE id == IdOf(tab, l)
           last == n - 1
           left == ForceRemove(tab, l, id)
           fit == ShrinkToFit(out, last)
<1>1. id \in Ids /\ id < n /\ tab.table[id] = l /\ last \in Ids
  BY FoundId DEF PointsBack
<1>2. /\ Shaped(left)
      /\ left.table = tab.table
      /\ left.remap = [tab.remap EXCEPT ![l] = INVALID_ID]
  BY DEF ForceRemove, Shaped
<1>3. Shaped(out)
  <2>1. CASE last = id
    BY <1>2, <2>1
  <2>2. CASE last # id
    <3>1. out = Move(left, last, id)
      BY <2>2
    <3>2. left.table[last] \in AnyLabel /\ left.table[id] \in AnyLabel
      BY <1>1, <1>2 DEF Shaped
    <3> HIDE DEF left, last, id
    <3>3. (left.deleted \ {last, id}) \cup (IF last \in left.deleted THEN {id} ELSE {})
            \in SUBSET Ids
      BY <1>1, <1>2 DEF Shaped
    <3>4. [[left.remap EXCEPT ![left.table[id]] = INVALID_ID]
              EXCEPT ![left.table[last]] = id] \in [AnyLabel -> Ids \cup {INVALID_ID}]
      BY <1>1, <1>2, <3>2 DEF Shaped
    <3>5. [left.table EXCEPT ![id] = left.table[last]] \in [Ids -> AnyLabel]
      BY <1>2, <3>2 DEF Shaped
    <3> QED
      BY <1>2, <3>1, <3>3, <3>4, <3>5 DEF Move, Shaped
  <2> QED
    BY <2>1, <2>2
<1>4. Shaped(fit) /\ fit.size = last /\ fit.remap = out.remap
  BY <1>3, IdFacts DEF ShrinkToFit, Shaped
<1>5. \A i \in Ids : i < last => fit.table[i] = out.table[i]
  BY <1>3 DEF ShrinkToFit, Shaped
<1>6. \A m \in AnyLabel : Found(out, m) =>
         IdOf(out, m) < last /\ IdOf(out, m) \in Ids /\ out.table[IdOf(out, m)] = m
  <2> SUFFICES ASSUME NEW m \in AnyLabel, Found(out, m)
               PROVE  IdOf(out, m) < last /\ out.table[IdOf(out, m)] = m
    BY <1>3, FoundId
  <2>0. \A k \in AnyLabel : k # l /\ Found(tab, k) =>
          /\ IdOf(tab, k) \in Ids /\ IdOf(tab, k) < n
          /\ tab.table[IdOf(tab, k)] = k /\ IdOf(tab, k) # id
    BY <1>1, FoundId DEF PointsBack
  <2>1. CASE last = id
    <3>1. m # l /\ IdOf(out, m) = IdOf(tab, m)
      BY <1>2, <2>1 DEF Found, IdOf, Shaped
    <3>2. Found(tab, m)
      BY <3>1 DEF Found
    <3>3. IdOf(tab, m) \in Ids /\ IdOf(tab, m) < n /\ tab.table[IdOf(tab, m)] = m
          /\ IdOf(tab, m) # last
      BY <2>0, <2>1, <3>1, <3>2
    <3>4. IdOf(tab, m) < last
      <4>1. IdOf(tab, m) \in Int
        BY <3>3, IdFacts
      <4> QED
        BY <3>3, <4>1
    <3> QED
      BY <1>2, <2>1, <3>1, <3>3, <3>4
  <2>2. CASE last # id
    <3> DEFINE a == tab.table[last]
    <3>1. /\ out.table = [tab.table EXCEPT ![id] = a]
          /\ out.remap = [[left.remap EXCEPT ![tab.table[id]] = INVALID_ID] EXCEPT ![a] = id]
      BY <1>2, <2>2 DEF Move, Shaped
    <3>2. a \in AnyLabel
      BY <1>1 DEF Shaped
    <3>3. CASE m = a
      <4>1. IdOf(out, m) = id /\ out.table[id] = a
        BY <1>1, <1>2, <3>1, <3>2, <3>3 DEF IdOf, Shaped
      <4>2. id < last
        <5>1. id \in Int
          BY <1>1, IdFacts
        <5> QED
          BY <1>1, <2>2, <5>1
      <4> QED
        BY <3>3, <4>1, <4>2
    <3>4. CASE m # a
      <4>1. m # l
        BY <1>1, <1>2, <3>1, <3>2, <3>4 DEF Found, IdOf, Shaped
      <4>2. IdOf(out, m) = IdOf(tab, m)
        BY <1>1, <1>2, <3>1, <3>2, <3>4, <4>1 DEF IdOf, Shaped
      <4>3. Found(tab, m)
        BY <4>2 DEF Found
      <4>4. /\ IdOf(tab, m) \in Ids /\ IdOf(tab, m) < n
            /\ tab.table[IdOf(tab, m)] = m /\ IdOf(tab, m) # id
        BY <2>0, <4>1, <4>3
      <4>5. IdOf(tab, m) # last
        BY <4>4, <3>4
      <4>6. IdOf(tab, m) < last
        <5>1. IdOf(tab, m) \in Int
          BY <4>4, IdFacts
        <5> QED
          BY <4>4, <4>5, <5>1
      <4>7. out.table[IdOf(tab, m)] = tab.table[IdOf(tab, m)]
        BY <3>1, <4>4 DEF Shaped
      <4> QED
        BY <4>2, <4>4, <4>6, <4>7
    <3> QED
      BY <3>3, <3>4
  <2> QED
    BY <2>1, <2>2
<1>7. PointsBack(fit, last)
  <2> HIDE DEF fit, last
  <2> QED
    BY <1>4, <1>5, <1>6 DEF PointsBack, Found, IdOf
<1> QED
  BY <1>4, <1>7

----------------------------------------------------------------------------
(* The steps of the index.                                                  *)

LEMMA InitInv == Init => LabelInv /\ GraphInv
<1> SUFFICES ASSUME Init PROVE LabelInv /\ GraphInv
  OBVIOUS
<1>1. ResizeStep \in Int /\ 0 <= ResizeStep
  BY ResizeAssumption, MaxIdAssumption
<1>2. Shaped(lt) /\ lt.size = ResizeStep /\ lt.remap = [l \in AnyLabel |-> INVALID_ID]
  BY <1>1, IdFacts DEF Init, Resize, EmptyTable, Shaped
<1>3. PointsBack(lt, total_count)
  BY <1>2 DEF PointsBack, Found, IdOf
<1>4. LabelInv
  BY <1>1, <1>2, <1>3, IdFacts DEF Init, LabelInv
<1>5. GraphInv
  BY EmptySound DEF Init, GraphInv
<1> QED
  BY <1>4, <1>5

(* Every step keeps the labels pointing back.                               *)
LEMMA NextLabelInv ==
    ASSUME LabelInv, [Next]_vars
    PROVE  LabelInv'
<1> USE DEF LabelInv
<1>1. CASE UNCHANGED vars
  BY <1>1 DEF vars
<1>2. ASSUME NEW label \in Labels, NEW v \in Vectors, NEW level \in -1 .. MaxLevel,
             Add(label, v, level)
      PROVE  LabelInv'
  <2> DEFINE slots == IF Capacity(total_count + 1) > max_capacity
                      THEN Resize(lt, Capacity(total_count + 1)) ELSE lt
  <2>1. total_count \in Ids /\ total_count' = total_count + 1
    BY <1>2, IdFacts DEF Add
  <2>2. Capacity(total_count + 1) \in Int
    BY ResizeAssumption, MaxIdAssumption DEF Capacity
  <2>3. Shaped(slots) /\ slots.table = lt.table /\ slots.remap = lt.remap
    BY <2>2 DEF Resize, Shaped
  <2>4. PointsBack(slots, total_count)
    BY <2>3 DEF PointsBack, Found, IdOf
  <2>5. lt' = Insert(slots, total_count, label) /\ max_capacity' = Capacity(total_count + 1)
    BY <1>2 DEF Add
  <2> HIDE DEF slots
  <2>6. /\ Shaped(lt') /\ total_count + 1 <= lt'.size
        /\ PointsBack(lt', total_count + 1)
    BY <2>1, <2>3, <2>4, <2>5, InsertPointsBack, IdFacts
  <2>7. total_count' \in 0 .. MaxId
    BY <1>2, <2>1, IdFacts DEF Add
  <2> QED
    BY <2>1, <2>2, <2>5, <2>6, <2>7
<1>3. ASSUME NEW label \in Labels, RemoveMark(label) PROVE LabelInv'
  BY <1>3, MarkPointsBack, IdFacts DEF RemoveMark
<1>4. ASSUME NEW label \in Labels, RemoveForce(label) PROVE LabelInv'
  <2> DEFINE id == IdOf(lt, label)
             last == total_count - 1
             left == ForceRemove(lt, label, id)
             out == IF last = id THEN left ELSE Move(left, last, id)
  <2>1. label \in AnyLabel /\ Found(lt, label)
    BY <1>4, IdFacts DEF RemoveForce
  <2>2. lt' = ShrinkToFit(out, last) /\ total_count' = last /\ max_capacity' = max_capacity
    BY <1>4 DEF RemoveForce
  <2>3. id \in Ids /\ id < total_count
    BY <2>1, FoundId DEF PointsBack
  <2>4. last \in Ids /\ last \in 0 .. MaxId /\ last \in Int
    BY <2>3, IdFacts
  <2>5. Shaped(lt') /\ lt'.size = last /\ PointsBack(lt', last)
    BY <2>1, <2>2, <2>4, ForcePointsBack
  <2> QED
    BY <2>2, <2>4, <2>5
<1>5. ASSUME NEW old \in Labels, NEW new \in Labels, UpdateId(old, new) PROVE LabelInv'
  BY <1>5, UpdatePointsBack, IdFacts DEF UpdateId
<1>6. ASSUME NEW label \in Labels, NEW v \in Vectors, UpdateVector(label, v) PROVE LabelInv'
  BY <1>6 DEF UpdateVector
<1> QED
  BY <1>1, <1>2, <1>3, <1>4, <1>5, <1>6 DEF Next

(* Every level that a search leads to is sound once the point is linked.    *)
LEMMA LinkedSound ==
    ASSUME UseReverseEdges, NEW g, Sound(g), NEW id \in Ids, NEW ep, NEW max,
           NEW h \in Linked(g, id, ep, max)
    PROVE  Sound(h)
<1>1. CASE g.any
  <2>1. PICK found \in (SUBSET Reachable(g, ep)) \ {{}} : h \in Connected(g, id, found \ {id}, max)
    BY <1>1 DEF Linked
  <2>2. found \ {id} \in SUBSET Ids
    BY <2>1 DEF Reachable
  <2> QED
    BY <2>1, <2>2, ConnectedSound
<1>2. CASE ~ g.any
  BY <1>2, InsertSound DEF Linked
<1> QED
  BY <1>1, <1>2

(* A choice of one level for each index, all of them sound.                 *)
LEMMA ChoicesSound ==
    ASSUME NEW n \in Nat, NEW options, DOMAIN options = 1 .. n,
           \A j \in 1 .. n : \A h \in options[j] : Sound(h),
           NEW rs \in Choices(options)
    PROVE  rs \in Seq(Graph) /\ DOMAIN rs = 1 .. n /\ \A j \in DOMAIN rs : Sound(rs[j])
<1>1. DOMAIN rs = 1 .. n /\ \A j \in 1 .. n : rs[j] \in options[j]
  BY DEF Choices
<1>2. \A j \in 1 .. n : Sound(rs[j]) /\ rs[j] \in Graph
  BY <1>1 DEF Sound
<1>3. rs = [j \in 1 .. n |-> rs[j]]
  BY DEF Choices
<1> QED
  BY <1>1, <1>2, <1>3

(* Every step keeps all levels sound.                                       *)
LEMMA NextGraphInv ==
    ASSUME UseReverseEdges, LabelInv, GraphInv, [Next]_vars
    PROVE  GraphInv'
<1>0. Len(routes) \in Nat /\ DOMAIN routes = 1 .. Len(routes)
  BY DEF GraphInv
<1>1. CASE UNCHANGED vars
  BY <1>1 DEF vars, GraphInv
<1>2. ASSUME NEW label \in Labels, NEW v \in Vectors, NEW level \in -1 .. MaxLevel,
             Add(label, v, level)
      PROVE  GraphInv'
  <2> DEFINE id == total_count
             n == IF level >= Len(routes) THEN level + 1 ELSE Len(routes)
             grown == [j \in 1 .. n |-> IF j <= Len(routes) THEN routes[j] ELSE EmptyGraph]
             options(ep) == [j \in DOMAIN grown |->
                               IF j <= level + 1
                               THEN Linked(grown[j], id, ep, RouteDegree)
                               ELSE {grown[j]}]
  <2>1. PICK ep \in StartsBelow(level) :
          bottom' \in Linked(bottom, id, ep, MaxDegree) /\ routes' \in Choices(options(ep))
    BY <1>2 DEF Add
  <2>2. id \in Ids
    BY <1>2, IdFacts DEF Add, LabelInv
  <2>3. Sound(bottom')
    BY <2>1, <2>2, LinkedSound DEF GraphInv
  <2>4. n \in Nat
    BY <1>0, DegreeAssumption
  <2>5. DOMAIN grown = 1 .. n /\ \A j \in 1 .. n : Sound(grown[j])
    BY <1>0, EmptySound DEF GraphInv
  <2>6. DOMAIN options(ep) = 1 .. n
    BY <2>5
  <2>7. \A j \in 1 .. n : \A h \in options(ep)[j] : Sound(h)
    <3> HIDE DEF grown, n
    <3> QED
      BY <2>2, <2>5, LinkedSound
  <2>8. routes' \in Seq(Graph) /\ \A j \in DOMAIN routes' : Sound(routes'[j])
    <3> HIDE DEF options, n
    <3> QED
      BY <2>1, <2>4, <2>6, <2>7, ChoicesSound
  <2> QED
    BY <2>3, <2>8 DEF GraphInv
<1>3. ASSUME NEW label \in Labels, RemoveMark(label) PROVE GraphInv'
  BY <1>3 DEF RemoveMark, GraphInv
<1>4. ASSUME NEW label \in Labels, RemoveForce(label) PROVE GraphInv'
  <2> DEFINE id == IdOf(lt, label)
             last == total_count - 1
             options(new) == [j \in DOMAIN new.routes |->
                                ForceRemoved(new.routes[j], id, total_count, RouteDegree)]
             Result(b, rs) ==
               \/ last = id /\ bottom' = b /\ routes' = rs
               \/ /\ last # id
                  /\ bottom' = MoveDense(b, last, id)
                  /\ routes' = [j \in DOMAIN rs |-> MoveSparse(rs[j], last, id)]
  <2>0. PICK new \in IF id = entry THEN NewEntries
                     ELSE {[entry |-> entry, routes |-> routes]} :
          \E b \in ForceRemoved(bottom, id, total_count, MaxDegree) :
          \E rs \in Choices(options(new)) : Result(b, rs)
    BY <1>4 DEF RemoveForce
  <2>1. PICK b \in ForceRemoved(bottom, id, total_count, MaxDegree) :
          \E rs \in Choices(options(new)) : Result(b, rs)
    BY <2>0
  <2>10. PICK rs \in Choices(options(new)) : Result(b, rs)
    BY <2>1
  <2>2. id \in Ids /\ last \in Ids
    <3>1. Found(lt, label) /\ label \in AnyLabel
      BY <1>4, IdFacts DEF RemoveForce
    <3>2. id \in Ids /\ id < total_count
      BY <3>1, FoundId DEF LabelInv, PointsBack
    <3> QED
      BY <3>2, IdFacts DEF LabelInv
  <2>3. PICK n \in Nat : DOMAIN new.routes = 1 .. n /\ \A j \in 1 .. n : Sound(new.routes[j])
    <3>1. CASE new = [entry |-> entry, routes |-> routes]
      BY <1>0, <3>1 DEF GraphInv
    <3>2. CASE new = [entry |-> entry, routes |-> <<>>]
      BY <3>2
    <3>3. ASSUME NEW k \in DOMAIN routes, new.routes = SubSeq(routes, 1, k)
          PROVE  \E n \in Nat : DOMAIN new.routes = 1 .. n
                                  /\ \A j \in 1 .. n : Sound(new.routes[j])
      <4>1. k \in Nat /\ 1 <= k /\ k <= Len(routes)
        BY <1>0
      <4>2. DOMAIN new.routes = 1 .. k /\ \A j \in 1 .. k : new.routes[j] = routes[j]
        BY <3>3, <4>1 DEF GraphInv
      <4>3. \A j \in 1 .. k : Sound(routes[j])
        BY <1>0, <4>1 DEF GraphInv
      <4> QED
        BY <4>1, <4>2, <4>3
    <3>4. \/ new = [entry |-> entry, routes |-> routes]
          \/ new = [entry |-> entry, routes |-> <<>>]
          \/ \E k \in DOMAIN routes : new.routes = SubSeq(routes, 1, k)
      BY <2>0 DEF NewEntries, HighestRoute
    <3> QED
      BY <3>1, <3>2, <3>3, <3>4
  <2>4. Sound(b)
    BY <2>1, <2>2, ForceRemovedSound DEF GraphInv
  <2>5. rs \in Seq(Graph) /\ DOMAIN rs = 1 .. n /\ \A j \in DOMAIN rs : Sound(rs[j])
    <3>1. DOMAIN options(new) = 1 .. n
      BY <2>3
    <3>2. \A j \in 1 .. n : \A h \in options(new)[j] : Sound(h)
      BY <2>2, <2>3, ForceRemovedSound
    <3> HIDE DEF options
    <3> QED
      BY <2>10, <3>1, <3>2, ChoicesSound
  <2>6. CASE last = id
    BY <2>10, <2>4, <2>5, <2>6 DEF GraphInv
  <2>7. CASE last # id
    <3>1. bottom' = MoveDense(b, last, id)
          /\ routes' = [j \in DOMAIN rs |-> MoveSparse(rs[j], last, id)]
      BY <2>10, <2>7
    <3>2. Sound(bottom')
      BY <3>1, <2>2, <2>4, MoveDenseSound
    <3>3. DOMAIN routes' = 1 .. n /\ \A j \in 1 .. n : Sound(routes'[j])
      BY <3>1, <2>2, <2>5, MoveSparseSound
    <3>4. routes' \in Seq(Graph)
      <4>1. \A j \in 1 .. n : routes'[j] \in Graph
        BY <3>3 DEF Sound
      <4>2. routes' = [j \in 1 .. n |-> routes'[j]]
        BY <3>1, <3>3
      <4> QED
        BY <4>1, <4>2
    <3> QED
      BY <3>2, <3>3, <3>4 DEF GraphInv
  <2> QED
    BY <2>6, <2>7
<1>5. ASSUME NEW old \in Labels, NEW new \in Labels, UpdateId(old, new) PROVE GraphInv'
  BY <1>5 DEF UpdateId, GraphInv
<1>6. ASSUME NEW label \in Labels, NEW v \in Vectors, UpdateVector(label, v) PROVE GraphInv'
  BY <1>6 DEF UpdateVector, GraphInv
<1> QED
  BY <1>1, <1>2, <1>3, <1>4, <1>5, <1>6 DEF Next

----------------------------------------------------------------------------
(* Types: the graphs stay graphs also without reverse edges, capacities stay *)
(* within the bound, and the count of removed points is the number of ids    *)
(* that are marked.                                                          *)

GraphsTyped ==
    /\ bottom \in Graph
    /\ routes \in Seq(Graph) /\ Len(routes) <= MaxLevel + 1
    /\ entry \in Ids \cup {INVALID_ID}

CountsTyped ==
    /\ lt \in Table
    /\ max_capacity \in 1 .. MaxId
    /\ codes \in [Ids -> Vectors \cup {NoVector}]
    /\ delete_count = Cardinality(lt.deleted)

TypeInv == LabelInv /\ GraphsTyped /\ CountsTyped

LEMMA LinkedTyped ==
    ASSUME NEW g \in Graph, NEW id \in Ids, NEW ep, NEW max,
           NEW h \in Linked(g, id, ep, max)
    PROVE  h \in Graph
<1>1. CASE g.any
  <2>1. PICK found \in (SUBSET Reachable(g, ep)) \ {{}} : h \in Connected(g, id, found \ {id}, max)
    BY <1>1 DEF Linked
  <2> DEFINE C == found \ {id}
  <2>2. C \in SUBSET Ids /\ id \notin C
    BY <2>1 DEF Reachable
  <2>3. h \in Connected(g, id, C, max)
    BY <2>1
  <2> HIDE DEF C
  <2> QED
    BY <2>2, <2>3, ConnectedForm
<1>2. CASE ~ g.any
  <2> DEFINE none == {}
  <2>1. h = InsertNeighborsById(g, id, none) /\ none \in SUBSET Ids
    BY <1>2 DEF Linked
  <2> HIDE DEF none
  <2> QED
    BY <2>1, InsertTyped
<1> QED
  BY <1>1, <1>2

LEMMA ChoicesTyped ==
    ASSUME NEW n \in Nat, NEW options, DOMAIN options = 1 .. n,
           \A j \in 1 .. n : \A h \in options[j] : h \in Graph,
           NEW rs \in Choices(options)
    PROVE  /\ rs \in Seq(Graph) /\ Len(rs) = n /\ DOMAIN rs = 1 .. n
           /\ \A j \in 1 .. n : rs[j] \in options[j]
<1>1. DOMAIN rs = 1 .. n /\ \A j \in 1 .. n : rs[j] \in options[j]
  BY DEF Choices
<1>2. \A j \in 1 .. n : rs[j] \in Graph
  BY <1>1
<1>3. rs = [j \in 1 .. n |-> rs[j]]
  BY DEF Choices
<1>4. rs \in Seq(Graph)
  BY <1>2, <1>3
<1>5. Len(rs) = n
  BY <1>1, <1>4
<1> QED
  BY <1>1, <1>4, <1>5

(* find_new_entry_point drops the upper levels, perhaps all.                *)
LEMMA NewEntryForm ==
    ASSUME NEW new \in NewEntries, routes \in Seq(Graph)
    PROVE  \/ new.entry = entry /\ new.routes = <<>>
           \/ \E k \in 1 .. Len(routes) :
                 /\ new.entry \in routes[k].nbrs[entry] \ {entry}
                 /\ new.routes \in Seq(Graph) /\ Len(new.routes) = k
                 /\ \A j \in 1 .. k : new.routes[j] = routes[j]
<1>1. CASE new = [entry |-> entry, routes |-> <<>>]
  BY <1>1
<1>2. CASE \E k \in HighestRoute : new \in {[entry |-> e, routes |-> SubSeq(routes, 1, k)] :
                                               e \in routes[k].nbrs[entry] \ {entry}}
  <2>1. PICK k \in HighestRoute : new \in {[entry |-> e, routes |-> SubSeq(routes, 1, k)] :
                                               e \in routes[k].nbrs[entry] \ {entry}}
    BY <1>2
  <2>2. k \in 1 .. Len(routes) /\ k \in Nat /\ Len(routes) \in Nat
    BY DEF HighestRoute
  <2>3. new.entry \in routes[k].nbrs[entry] \ {entry} /\ new.routes = SubSeq(routes, 1, k)
    BY <2>1
  <2>4. /\ SubSeq(routes, 1, k) \in Seq(Graph) /\ Len(SubSeq(routes, 1, k)) = k
        /\ \A j \in 1 .. k : SubSeq(routes, 1, k)[j] = routes[j]
    BY <2>2
  <2> QED
    BY <2>2, <2>3, <2>4
<1> QED
  BY <1>1, <1>2 DEF NewEntries

\* What RemoveForce of the point id leaves before the move: the entry e and the
\* route graphs rts, from which the point is then removed.
Kept(id, e, rts) ==
    \/ e = entry /\ rts = routes /\ id # entry
    \/ e = entry /\ rts = <<>> /\ id = entry
    \/ id = entry /\ \E k \in 1 .. Len(routes) :
          /\ e \in routes[k].nbrs[entry] \ {entry}
          /\ Len(rts) = k
          /\ \A j \in 1 .. k : rts[j] = routes[j]

Removals(id, rts) ==
    [j \in DOMAIN rts |-> ForceRemoved(rts[j], id, total_count, RouteDegree)]

\* The graphs and the entry once the last point took over the id.
Moved(id, last, e, b, rs) ==
    IF last = id
    THEN bottom' = b /\ routes' = rs /\ entry' = e
    ELSE /\ bottom' = MoveDense(b, last, id)
         /\ routes' = [j \in DOMAIN rs |-> MoveSparse(rs[j], last, id)]
         /\ entry' = IF e = last THEN id ELSE e

(* RemoveForce step by step.                                                *)
LEMMA RemoveForceForm ==
    ASSUME NEW label \in Labels, RemoveForce(label), LabelInv, routes \in Seq(Graph)
    PROVE  LET id == IdOf(lt, label)
               last == total_count - 1
           IN  /\ id \in Ids /\ last \in Ids /\ id <= last
               /\ total_count' = last
               /\ \E e, rts, b, rs :
                     /\ Kept(id, e, rts) /\ rts \in Seq(Graph)
                     /\ b \in ForceRemoved(bottom, id, total_count, MaxDegree)
                     /\ rs \in Choices(Removals(id, rts))
                     /\ Moved(id, last, e, b, rs)
<1> DEFINE id == IdOf(lt, label)
           last == total_count - 1
<1>1. Found(lt, label) /\ label \in AnyLabel
  BY IdFacts DEF RemoveForce
<1>2. id \in Ids /\ id < total_count
  BY <1>1, FoundId DEF LabelInv, PointsBack
<1>3. last \in Ids /\ id <= last
  <2>1. id \in Int /\ 0 <= id /\ total_count \in 0 .. MaxId /\ MaxId \in Nat
    BY <1>2, IdFacts DEF LabelInv
  <2>2. last \in Int /\ 0 <= last /\ last < MaxId /\ id <= last
    BY <1>2, <2>1
  <2> QED
    BY <2>2, IdFacts
<1>4. total_count' = last
  BY DEF RemoveForce
<1>5. PICK new \in IF id = entry THEN NewEntries
                   ELSE {[entry |-> entry, routes |-> routes]} :
        \E b \in ForceRemoved(bottom, id, total_count, MaxDegree) :
        \E rs \in Choices(Removals(id, new.routes)) : Moved(id, last, new.entry, b, rs)
  BY DEF RemoveForce, Removals, Moved
<1>6. PICK b \in ForceRemoved(bottom, id, total_count, MaxDegree) :
        \E rs \in Choices(Removals(id, new.routes)) : Moved(id, last, new.entry, b, rs)
  BY <1>5
<1>7. PICK rs \in Choices(Removals(id, new.routes)) : Moved(id, last, new.entry, b, rs)
  BY <1>6
<1>8. Kept(id, new.entry, new.routes) /\ new.routes \in Seq(Graph)
  <2>1. CASE id # entry
    <3>1. new = [entry |-> entry, routes |-> routes]
      BY <1>5, <2>1
    <3> QED
      BY <2>1, <3>1 DEF Kept
  <2>2. CASE id = entry
    <3>1. new \in NewEntries
      BY <1>5, <2>2
    <3>2. \/ new.entry = entry /\ new.routes = <<>>
          \/ \E k \in 1 .. Len(routes) :
                /\ new.entry \in routes[k].nbrs[entry] \ {entry}
                /\ new.routes \in Seq(Graph) /\ Len(new.routes) = k
                /\ \A j \in 1 .. k : new.routes[j] = routes[j]
      BY <3>1, NewEntryForm
    <3>3. <<>> \in Seq(Graph)
      OBVIOUS
    <3> QED
      BY <2>2, <3>2, <3>3 DEF Kept
  <2> QED
    BY <2>1, <2>2
<1> QED
  BY <1>2, <1>3, <1>4, <1>7, <1>8

(* resize() never asks for more than the bound: the bound is a multiple of   *)
(* the step.                                                                *)
LEMMA CapacityBounded ==
    ASSUME NEW size \in 1 .. MaxId, max_capacity \in 1 .. MaxId
    PROVE  Capacity(size) \in 1 .. MaxId
<1>0. \A r \in Nat, a, b \in Int : a <= b => r * a <= r * b
  OBVIOUS
<1> DEFINE R == ResizeStep
           c == (size + R - 1) \div R
           q == MaxId \div R
<1>1. R \in Nat /\ R > 0 /\ MaxId \in Nat /\ MaxId % R = 0
  BY ResizeAssumption, MaxIdAssumption
<1>2. MaxId = R * q /\ q \in Int
  BY <1>1
<1>3. c \in Int /\ R * c <= size + R - 1 /\ size + R - 1 < R * c + R
  BY <1>1
<1> HIDE DEF c, q, R
<1>4. c <= q
  <2> SUFFICES ASSUME q + 1 <= c PROVE FALSE
    BY <1>2, <1>3
  <2>1. R * (q + 1) <= R * c
    BY <1>1, <1>2, <1>3, <1>0
  <2>2. R * (q + 1) = R * q + R
    BY <1>1, <1>2
  <2> QED
    BY <1>1, <1>2, <1>3, <2>1, <2>2
<1>5. R * c <= MaxId /\ R * c >= 1 /\ R * c = c * R
  <2>1. R * c <= R * q
    BY <1>1, <1>2, <1>3, <1>4, <1>0
  <2> QED
    BY <1>1, <1>2, <1>3, <2>1
<1>6. c * R \in 1 .. MaxId
  BY <1>1, <1>3, <1>5
<1> QED
  BY <1>6 DEF Capacity, c, R


(* Add: the graphs and the entry.                                           *)
LEMMA AddGraphsTyped ==
    ASSUME NEW label \in Labels, NEW v \in Vectors, NEW level \in -1 .. MaxLevel,
           Add(label, v, level), LabelInv, GraphsTyped
    PROVE  GraphsTyped'
<1> DEFINE id == total_count
           n == IF level >= Len(routes) THEN level + 1 ELSE Len(routes)
           grown == [j \in 1 .. n |-> IF j <= Len(routes) THEN routes[j] ELSE EmptyGraph]
           options(ep) == [j \in DOMAIN grown |->
                             IF j <= level + 1
                             THEN Linked(grown[j], id, ep, RouteDegree)
                             ELSE {grown[j]}]
<1>0. Len(routes) \in Nat /\ DOMAIN routes = 1 .. Len(routes)
  BY DEF GraphsTyped
<1>1. PICK ep \in StartsBelow(level) :
        bottom' \in Linked(bottom, id, ep, MaxDegree) /\ routes' \in Choices(options(ep))
  BY DEF Add
<1>2. id \in Ids
  BY IdFacts DEF Add, LabelInv
<1>3. bottom' \in Graph
  BY <1>1, <1>2, LinkedTyped DEF GraphsTyped
<1>4. n \in Nat /\ n <= MaxLevel + 1
  BY <1>0, DegreeAssumption DEF GraphsTyped
<1>5. DOMAIN grown = 1 .. n /\ \A j \in 1 .. n : grown[j] \in Graph
  <2>1. EmptyGraph \in Graph
    BY EmptySound DEF Sound
  <2>2. \A j \in 1 .. Len(routes) : routes[j] \in Graph
    BY DEF GraphsTyped
  <2> HIDE DEF n
  <2> QED
    BY <1>0, <1>4, <2>1, <2>2
<1>6. DOMAIN options(ep) = 1 .. n
  BY <1>5
<1>7. \A j \in 1 .. n : \A h \in options(ep)[j] : h \in Graph
  <2> HIDE DEF grown, n
  <2> QED
    BY <1>2, <1>5, LinkedTyped
<1>8. routes' \in Seq(Graph) /\ Len(routes') = n
  <2> HIDE DEF options, n
  <2> QED
    BY <1>1, <1>4, <1>6, <1>7, ChoicesTyped
<1>9. entry' \in Ids \cup {INVALID_ID}
  BY <1>2 DEF Add, GraphsTyped
<1> QED
  BY <1>3, <1>4, <1>8, <1>9 DEF GraphsTyped

(* RemoveForce: the graphs and the entry.                                   *)
LEMMA ForceGraphsTyped ==
    ASSUME NEW label \in Labels, RemoveForce(label), LabelInv, GraphsTyped
    PROVE  GraphsTyped'
<1> DEFINE id == IdOf(lt, label)
           last == total_count - 1
<1>0. routes \in Seq(Graph) /\ bottom \in Graph /\ Len(routes) \in Nat /\ Len(routes) <= MaxLevel + 1
  BY DEF GraphsTyped
<1>1. /\ id \in Ids /\ last \in Ids /\ id <= last
      /\ \E e, rts, b, rs :
            /\ Kept(id, e, rts) /\ rts \in Seq(Graph)
            /\ b \in ForceRemoved(bottom, id, total_count, MaxDegree)
            /\ rs \in Choices(Removals(id, rts))
            /\ Moved(id, last, e, b, rs)
  BY <1>0, RemoveForceForm
<1> HIDE DEF id, last
<1>2. PICK e, rts, b, rs :
            /\ Kept(id, e, rts) /\ rts \in Seq(Graph)
            /\ b \in ForceRemoved(bottom, id, total_count, MaxDegree)
            /\ rs \in Choices(Removals(id, rts))
            /\ Moved(id, last, e, b, rs)
  BY <1>1
<1>3. e \in Ids \cup {INVALID_ID} /\ Len(rts) \in Nat /\ Len(rts) <= MaxLevel + 1
  <2>1. CASE e = entry
    BY <1>0, <1>2, <2>1, DegreeAssumption DEF Kept, GraphsTyped
  <2>2. CASE id = entry /\ \E k \in 1 .. Len(routes) :
               e \in routes[k].nbrs[entry] \ {entry} /\ Len(rts) = k
    <3>1. PICK k \in 1 .. Len(routes) : e \in routes[k].nbrs[entry] /\ Len(rts) = k
      BY <2>2
    <3>2. routes[k] \in Graph /\ k \in Nat /\ k <= MaxLevel + 1
      BY <1>0, DegreeAssumption
    <3>3. routes[k].nbrs[entry] \in SUBSET Ids
      BY <1>1, <2>2, <3>2 DEF Graph
    <3> QED
      BY <3>1, <3>2, <3>3
  <2> QED
    BY <1>2, <2>1, <2>2 DEF Kept
<1>4. b \in Graph
  BY <1>0, <1>1, <1>2, ForceRemovedForm
<1> DEFINE n == Len(rts)
           options == Removals(id, rts)
<1>5. DOMAIN options = 1 .. n /\ \A j \in 1 .. n : \A h \in options[j] : h \in Graph
  <2>1. DOMAIN rts = 1 .. n /\ \A j \in 1 .. n : rts[j] \in Graph
    BY <1>2, <1>3
  <2> HIDE DEF n
  <2> QED
    BY <1>1, <2>1, ForceRemovedForm DEF Removals
<1>6. rs \in Seq(Graph) /\ Len(rs) = n /\ DOMAIN rs = 1 .. n /\ \A j \in 1 .. n : rs[j] \in Graph
  <2>1. n \in Nat /\ rs \in Choices(options)
    BY <1>2, <1>3
  <2> HIDE DEF n, options
  <2>2. rs \in Seq(Graph) /\ Len(rs) = n /\ DOMAIN rs = 1 .. n
    BY <1>5, <2>1, ChoicesTyped
  <2> QED
    BY <2>2
<1>7. CASE last = id
  BY <1>2, <1>3, <1>4, <1>6, <1>7 DEF Moved, GraphsTyped
<1>8. CASE last # id
  <2>1. /\ bottom' = MoveDense(b, last, id)
        /\ routes' = [j \in DOMAIN rs |-> MoveSparse(rs[j], last, id)]
        /\ entry' = IF e = last THEN id ELSE e
    BY <1>2, <1>8 DEF Moved
  <2>2. bottom' \in Graph
    BY <1>1, <1>4, <1>8, <2>1, MoveTyped
  <2>3. \A j \in 1 .. n : MoveSparse(rs[j], last, id) \in Graph
    BY <1>1, <1>6, <1>8, MoveTyped
  <2>4. routes' \in Seq(Graph) /\ Len(routes') = n
    <3>1. n \in Nat /\ routes' = [j \in 1 .. n |-> MoveSparse(rs[j], last, id)]
      BY <1>3, <1>6, <2>1
    <3> HIDE DEF n
    <3> QED
      BY <2>3, <3>1
  <2>5. entry' \in Ids \cup {INVALID_ID}
    BY <1>1, <1>3, <2>1
  <2> QED
    BY <1>3, <2>2, <2>4, <2>5 DEF GraphsTyped
<1> QED
  BY <1>7, <1>8

\* The label table after FORCE_REMOVE of a label.
Forced(tab, l, last) ==
    LET id == IdOf(tab, l)
        left == ForceRemove(tab, l, id)
    IN  ShrinkToFit(IF last = id THEN left ELSE Move(left, last, id), last)

(* Its fields, whether the last point is removed or takes over the id.      *)
LEMMA ForcedFields ==
    ASSUME NEW tab \in Table, NEW l \in AnyLabel, NEW id \in Ids, id = IdOf(tab, l),
           tab.table[id] = l, NEW last \in Ids, id <= last
    PROVE  /\ Forced(tab, l, last) \in Table
           /\ Cardinality(Forced(tab, l, last).deleted)
                 = Cardinality(tab.deleted) - (IF id \in tab.deleted THEN 1 ELSE 0)
           /\ \A i \in Ids : i < last => Forced(tab, l, last).table[i]
                 = IF i = id THEN tab.table[last] ELSE tab.table[i]
           /\ \A i \in Ids : i \in Forced(tab, l, last).deleted
                 <=> \/ i # id /\ i # last /\ i \in tab.deleted
                     \/ i = id /\ id # last /\ last \in tab.deleted
           /\ \A m \in AnyLabel : IdOf(Forced(tab, l, last), m)
                 = IF m = tab.table[last] /\ id # last THEN id
                   ELSE IF m = l THEN INVALID_ID ELSE IdOf(tab, m)
<1> DEFINE fit == Forced(tab, l, last)
           D == tab.deleted
<1>0. D \in SUBSET Ids /\ id \in Int /\ last \in Int /\ (\A i \in Ids : i \in Int)
  BY TableFields, IdFacts
<1>1. CASE id = last
  <2>1. fit = ShrinkToFit(ForceRemove(tab, l, id), id)
    BY <1>1 DEF Forced
  <2>2. /\ fit \in Table /\ fit.deleted = D \ {id}
        /\ \A i \in Ids : i < id => fit.table[i] = tab.table[i]
        /\ IdOf(fit, l) = INVALID_ID
        /\ \A m \in AnyLabel : m # l => IdOf(fit, m) = IdOf(tab, m)
    BY <2>1, ForceLastFields
  <2> HIDE DEF fit, D
  <2>3. Cardinality(D \ {id}) = Cardinality(D) - (IF id \in D THEN 1 ELSE 0)
    BY <1>0, ForceCount
  <2>4. \A i \in Ids : i < last => fit.table[i] = IF i = id THEN tab.table[last] ELSE tab.table[i]
    BY <1>0, <1>1, <2>2
  <2>5. \A m \in AnyLabel : IdOf(fit, m)
          = IF m = tab.table[last] /\ id # last THEN id
            ELSE IF m = l THEN INVALID_ID ELSE IdOf(tab, m)
    BY <1>1, <2>2
  <2>6. \A i \in Ids : i \in fit.deleted
          <=> \/ i # id /\ i # last /\ i \in D
              \/ i = id /\ id # last /\ last \in D
    BY <1>1, <2>2
  <2> QED
    BY <2>2, <2>3, <2>4, <2>5, <2>6 DEF fit, D
<1>2. CASE id # last
  <2>0. id < last
    BY <1>0, <1>2
  <2>1. fit = ShrinkToFit(Move(ForceRemove(tab, l, id), last, id), last)
    BY <1>2 DEF Forced
  <2>2. /\ fit \in Table
        /\ fit.deleted = (D \ {id, last}) \cup (IF last \in D THEN {id} ELSE {})
        /\ id < last => fit.table[id] = tab.table[last]
        /\ \A i \in Ids : i < last /\ i # id => fit.table[i] = tab.table[i]
        /\ IdOf(fit, tab.table[last]) = id
        /\ \A m \in AnyLabel : m # tab.table[last] =>
              IdOf(fit, m) = IF m = l THEN INVALID_ID ELSE IdOf(tab, m)
    BY <1>2, <2>1, ForceMoveFields
  <2> HIDE DEF fit, D
  <2>3. Cardinality((D \ {id, last}) \cup (IF last \in D THEN {id} ELSE {}))
          = Cardinality(D) - (IF id \in D THEN 1 ELSE 0)
    BY <1>0, <1>2, ForceCount
  <2>4. \A i \in Ids : i < last => fit.table[i] = IF i = id THEN tab.table[last] ELSE tab.table[i]
    BY <2>0, <2>2
  <2>5. \A m \in AnyLabel : IdOf(fit, m)
          = IF m = tab.table[last] /\ id # last THEN id
            ELSE IF m = l THEN INVALID_ID ELSE IdOf(tab, m)
    BY <1>2, <2>2
  <2>6. \A i \in Ids : i \in fit.deleted
          <=> \/ i # id /\ i # last /\ i \in D
              \/ i = id /\ id # last /\ last \in D
    BY <1>2, <2>2
  <2> QED
    BY <2>2, <2>3, <2>4, <2>5, <2>6 DEF fit, D
<1> QED
  BY <1>1, <1>2

(* The label table and the counts.                                          *)
LEMMA NextCountsTyped ==
    ASSUME LabelInv, CountsTyped, [Next]_vars
    PROVE  CountsTyped'
<1>0. /\ lt \in Table /\ lt.deleted \in SUBSET Ids /\ max_capacity \in 1 .. MaxId
      /\ codes \in [Ids -> Vectors \cup {NoVector}] /\ delete_count = Cardinality(lt.deleted)
  BY TableFields DEF CountsTyped
<1>1. CASE UNCHANGED vars
  BY <1>1 DEF vars, CountsTyped
<1>2. ASSUME NEW label \in Labels, NEW v \in Vectors, NEW level \in -1 .. MaxLevel,
             Add(label, v, level)
      PROVE  CountsTyped'
  <2> DEFINE cap == Capacity(total_count + 1)
             slots == IF cap > max_capacity THEN Resize(lt, cap) ELSE lt
  <2>1. total_count \in Ids /\ total_count + 1 \in 1 .. MaxId /\ label \in AnyLabel
    BY <1>2, IdFacts DEF Add, LabelInv
  <2>2. cap \in 1 .. MaxId
    BY <1>0, <2>1, CapacityBounded
  <2>3. slots \in Table /\ slots.deleted = lt.deleted
    <3>1. cap \in 0 .. MaxId
      BY <2>2, IdFacts
    <3> HIDE DEF cap
    <3> QED
      BY <1>0, <3>1 DEF Resize, Table
  <2>4. lt' = Insert(slots, total_count, label) /\ max_capacity' = cap
    BY <1>2 DEF Add
  <2> HIDE DEF slots, cap
  <2>5. lt' \in Table /\ lt'.deleted = lt.deleted
    <3>1. Insert(slots, total_count, label) \in Table
      BY <2>1, <2>3, InsertFields
    <3>2. Insert(slots, total_count, label).deleted = slots.deleted
      BY <2>1, <2>3, InsertFields
    <3> QED
      BY <2>3, <2>4, <3>1, <3>2
  <2>6. codes' \in [Ids -> Vectors \cup {NoVector}] /\ delete_count' = delete_count
    BY <1>0, <1>2 DEF Add
  <2> QED
    BY <1>0, <2>2, <2>4, <2>5, <2>6 DEF CountsTyped
<1>3. ASSUME NEW label \in Labels, RemoveMark(label) PROVE CountsTyped'
  <2>1. label \in AnyLabel
    BY IdFacts
  <2>2. lt' = MarkRemove(lt, label) /\ lt' \in Table
    <3>1. MarkRemove(lt, label) \in Table
      BY <1>0, <2>1, MarkFields
    <3> QED
      BY <1>3, <3>1 DEF RemoveMark
  <2>3. lt'.deleted \in SUBSET Ids
    BY <2>2, TableFields
  <2>4. Cardinality(lt'.deleted) \in Int /\ Cardinality(lt.deleted) \in Int
    BY <1>0, <2>3, SubsetsFinite, IdFacts
  <2>5. delete_count' = delete_count + (Cardinality(lt'.deleted) - Cardinality(lt.deleted))
    BY <1>3, <2>2 DEF RemoveMark, MarkRemoveCount
  <2>6. delete_count' = Cardinality(lt'.deleted)
    BY <1>0, <2>4, <2>5
  <2> QED
    BY <1>0, <1>3, <2>2, <2>6 DEF RemoveMark, CountsTyped
<1>4. ASSUME NEW label \in Labels, RemoveForce(label) PROVE CountsTyped'
  <2> DEFINE id == IdOf(lt, label)
             last == total_count - 1
  <2>1. label \in AnyLabel /\ Found(lt, label)
    BY <1>4, IdFacts DEF RemoveForce
  <2>2. id \in Ids /\ id < total_count /\ lt.table[id] = label
    BY <2>1, FoundId DEF LabelInv, PointsBack
  <2>3. last \in Ids /\ id <= last
    <3>1. id \in Int /\ 0 <= id /\ total_count \in 0 .. MaxId /\ MaxId \in Nat
      BY <2>2, IdFacts DEF LabelInv
    <3>2. last \in Int /\ 0 <= last /\ last < MaxId /\ id <= last
      BY <2>2, <3>1
    <3> QED
      BY <3>2, IdFacts
  <2>4. lt' = Forced(lt, label, last)
    BY <1>4 DEF RemoveForce, Forced
  <2>5. codes' \in [Ids -> Vectors \cup {NoVector}]
    <3>1. \/ codes' = [codes EXCEPT ![last] = NoVector]
          \/ codes' = [codes EXCEPT ![id] = codes[last], ![last] = NoVector]
      BY <1>4 DEF RemoveForce
    <3> HIDE DEF id, last
    <3> QED
      BY <1>0, <2>3, <3>1
  <2>6. /\ max_capacity' = max_capacity
        /\ delete_count' = delete_count - (IF id \in lt.deleted THEN 1 ELSE 0)
    BY <1>4 DEF RemoveForce, UnmarkCount, IsRemoved
  <2> HIDE DEF last
  <2>7. lt' \in Table /\ Cardinality(lt'.deleted)
                 = Cardinality(lt.deleted) - (IF id \in lt.deleted THEN 1 ELSE 0)
    <3> HIDE DEF id
    <3>0. id = IdOf(lt, label)
      BY DEF id
    <3>1. Forced(lt, label, last) \in Table
      BY <1>0, <2>1, <2>2, <2>3, <3>0, ForcedFields
    <3>2. Cardinality(Forced(lt, label, last).deleted)
                 = Cardinality(lt.deleted) - (IF id \in lt.deleted THEN 1 ELSE 0)
      BY <1>0, <2>1, <2>2, <2>3, <3>0, ForcedFields
    <3> QED
      BY <2>4, <3>1, <3>2
  <2> QED
    BY <1>0, <2>5, <2>6, <2>7 DEF CountsTyped
<1>5. ASSUME NEW old \in Labels, NEW new \in Labels, UpdateId(old, new) PROVE CountsTyped'
  <2>1. old \in AnyLabel /\ new \in AnyLabel /\ old # new
    BY <1>5, IdFacts DEF UpdateId
  <2>2. UpdateLabel(lt, old, new) \in Table
    BY <1>0, <2>1, UpdateFields
  <2>3. UpdateLabel(lt, old, new).deleted = lt.deleted
    BY <1>0, <2>1, UpdateFields
  <2> QED
    BY <1>0, <1>5, <2>2, <2>3 DEF UpdateId, CountsTyped
<1>6. ASSUME NEW label \in Labels, NEW v \in Vectors, UpdateVector(label, v)
      PROVE  CountsTyped'
  BY <1>0, <1>6 DEF UpdateVector, CountsTyped
<1> QED
  BY <1>1, <1>2, <1>3, <1>4, <1>5, <1>6 DEF Next

LEMMA InitTyped == Init => GraphsTyped /\ CountsTyped
<1> SUFFICES ASSUME Init PROVE GraphsTyped /\ CountsTyped
  OBVIOUS
<1>1. ResizeStep \in 1 .. MaxId /\ ResizeStep \in 0 .. MaxId
  BY ResizeAssumption, MaxIdAssumption
<1>2. EmptyGraph \in Graph
  BY EmptySound DEF Sound
<1>3. <<>> \in Seq(Graph) /\ Len(<<>>) = 0
  OBVIOUS
<1>4. GraphsTyped
  BY <1>2, <1>3, DegreeAssumption DEF Init, GraphsTyped
<1>5. lt \in Table /\ lt.deleted = {}
  BY <1>1, IdFacts DEF Init, Resize, EmptyTable, Table
<1>6. Cardinality({}) = 0
  BY FS_EmptySet
<1> QED
  BY <1>1, <1>4, <1>5, <1>6 DEF Init, CountsTyped

LEMMA NextTypeInv == TypeInv /\ [Next]_vars => TypeInv'
<1> SUFFICES ASSUME TypeInv, [Next]_vars PROVE TypeInv'
  OBVIOUS
<1>0. LabelInv /\ GraphsTyped /\ CountsTyped
  BY DEF TypeInv
<1>1. LabelInv' /\ CountsTyped'
  BY <1>0, NextLabelInv, NextCountsTyped
<1>2. GraphsTyped'
  <2>1. CASE UNCHANGED vars
    BY <1>0, <2>1 DEF vars, GraphsTyped
  <2>2. ASSUME NEW label \in Labels, NEW v \in Vectors, NEW level \in -1 .. MaxLevel,
               Add(label, v, level)
        PROVE  GraphsTyped'
    BY <1>0, <2>2, AddGraphsTyped
  <2>3. ASSUME NEW label \in Labels, RemoveMark(label) PROVE GraphsTyped'
    BY <1>0, <2>3 DEF RemoveMark, GraphsTyped
  <2>4. ASSUME NEW label \in Labels, RemoveForce(label) PROVE GraphsTyped'
    BY <1>0, <2>4, ForceGraphsTyped
  <2>5. ASSUME NEW old \in Labels, NEW new \in Labels, UpdateId(old, new) PROVE GraphsTyped'
    BY <1>0, <2>5 DEF UpdateId, GraphsTyped
  <2>6. ASSUME NEW label \in Labels, NEW v \in Vectors, UpdateVector(label, v) PROVE GraphsTyped'
    BY <1>0, <2>6 DEF UpdateVector, GraphsTyped
  <2> QED
    BY <2>1, <2>2, <2>3, <2>4, <2>5, <2>6 DEF Next
<1> QED
  BY <1>1, <1>2 DEF TypeInv

(* Every state is a state of the right kind, with or without reverse edges: *)
(* the capacity never exceeds what resize() can allocate, the count of       *)
(* removed points never falls below zero, and no repair or move leads out of *)
(* the ids.                                                                  *)
THEOREM HGraphTypeCorrect == Spec => []TypeOK
<1>1. Init => TypeInv
  BY InitInv, InitTyped DEF TypeInv
<1>2. TypeInv => TypeOK
  <2> SUFFICES ASSUME TypeInv PROVE TypeOK
    OBVIOUS
  <2>1. delete_count \in 0 .. MaxId
    BY SubsetsFinite, TableFields DEF TypeInv, CountsTyped
  <2>2. \A j \in DOMAIN routes : routes[j] \in Graph
    BY DEF TypeInv, GraphsTyped
  <2> QED
    BY <2>1, <2>2 DEF TypeInv, GraphsTyped, CountsTyped, LabelInv, TypeOK
<1> QED
  BY <1>1, <1>2, NextTypeInv, PTL DEF Spec

----------------------------------------------------------------------------
(* Where the edges lead and where a descent goes.                            *)

\* The points of a level are on every level below, and the entry on all of them.
LevelsInv ==
    /\ EdgesStayInside
    /\ bottom.any => entry \in bottom.has
    /\ \A j \in 1 .. Len(routes) : entry \in routes[j].has /\ routes[j].has \subseteq bottom.has
    /\ \A j, k \in 1 .. Len(routes) : k < j => routes[j].has \subseteq routes[k].has

\* An index whose bottom level was never written has no points.
TidyInv ==
    /\ LevelsInv
    /\ ~ bottom.any => total_count = 0 /\ routes = <<>>

Below == {p \in Nat \X Nat : p[1] < p[2]}

(* A set of numbers has a least element: induction over a descent.          *)
LEMMA Least ==
    ASSUME NEW T \in SUBSET Nat, T # {}
    PROVE  \E x \in T : \A y \in T : x <= y
<1>1. IsWellFoundedOn(OpToRel(<, Nat), Nat)
  BY NatLessThanWellFounded, Zenon
<1>2. OpToRel(<, Nat) = Below
  BY Zenon DEF OpToRel, Below
<1>3. IsWellFoundedOn(Below, Nat)
  BY <1>1, <1>2, Zenon
<1>4. \E x \in T : \A y \in T : ~ (<<y, x>> \in Below)
  BY <1>3, WFMin
<1>5. \A x, y \in Nat : <<y, x>> \in Below <=> y < x
  BY DEF Below
<1>6. PICK x \in T : \A y \in T : ~ (<<y, x>> \in Below)
  BY <1>4
<1>7. \A y \in T : x <= y
  <2> SUFFICES ASSUME NEW y \in T PROVE x <= y
    OBVIOUS
  <2>1. ~ (y < x) /\ x \in Nat /\ y \in Nat
    BY <1>5, <1>6
  <2> QED
    BY <2>1
<1> QED
  BY <1>7

(* A level with the new point n, found by a search from ep.                 *)
LEMMA LinkedTidy ==
    ASSUME NEW g \in Graph, NEW n \in Ids, EdgesInside(g, n), NEW ep,
           g.any => ep \in g.has /\ ep <= n,
           NEW max, NEW h \in Linked(g, n, ep, max)
    PROVE  h \in Graph /\ EdgesInside(h, n + 1) /\ Gains(g, h, n) /\ h.any = TRUE
<1>1. CASE g.any
  <2>1. PICK found \in (SUBSET Reachable(g, ep)) \ {{}} : h \in Connected(g, n, found \ {n}, max)
    BY <1>1 DEF Linked
  <2> DEFINE C == found \ {n}
  <2>2. ep \in g.has /\ ep <= n
    BY <1>1
  <2>3. C \in SUBSET g.has /\ \A c \in C : c < n
    <3> SUFFICES ASSUME NEW c \in C PROVE c \in g.has /\ c < n
      OBVIOUS
    <3>1. c \in Reachable(g, ep) /\ c # n
      BY <2>1
    <3>2. c \in g.has /\ (c < n \/ c = ep)
      BY <2>2, <3>1, ReachableInside
    <3>3. c \in Int /\ n \in Int
      BY <3>2, IdFacts DEF Graph
    <3> QED
      BY <2>2, <3>1, <3>2, <3>3
  <2>4. h \in Connected(g, n, C, max)
    BY <2>1
  <2> HIDE DEF C
  <2>5. h \in Graph /\ h.any = TRUE
    BY <2>3, <2>4, ConnectedTidy
  <2>6. EdgesInside(h, n + 1)
    BY <2>3, <2>4, ConnectedTidy
  <2>7. Gains(g, h, n)
    BY <2>3, <2>4, ConnectedTidy
  <2> QED
    BY <2>5, <2>6, <2>7
<1>2. CASE ~ g.any
  <2>1. h = InsertNeighborsById(g, n, {})
    BY <1>2 DEF Linked
  <2> QED
    BY <2>1, InsertNoneTidy DEF Gains
<1> QED
  BY <1>1, <1>2

(* A descent never leaves the levels it goes through: where it ends is on    *)
(* every level below.                                                        *)
LEMMA DescentStaysOnLevels ==
    ASSUME GraphsTyped, LevelsInv, EntryDefined, total_count \in Nat,
           NEW level \in -1 .. MaxLevel, NEW ep \in StartsBelow(level)
    PROVE  /\ ep <= total_count /\ (entry < total_count => ep < total_count)
           /\ bottom.any => ep \in bottom.has
           /\ \A k \in 1 .. Len(routes) : k <= level + 1 => ep \in routes[k].has
<1>0. Len(routes) \in Nat /\ level \in Int /\ \A j \in 1 .. Len(routes) : routes[j] \in Graph
  BY DegreeAssumption DEF GraphsTyped
<1>1. CASE level < 0 \/ level >= Len(routes)
  <2>1. ep = entry
    BY <1>1 DEF StartsBelow
  <2> QED
    BY <2>1 DEF LevelsInv, EntryDefined
<1>2. CASE ~ (level < 0 \/ level >= Len(routes))
  <2> DEFINE top == Len(routes)
             low == level + 1
             Good(j, x) == /\ x <= total_count /\ (entry < total_count => x < total_count)
                           /\ \A k \in 1 .. j : x \in routes[k].has
  <2>1. low \in Nat /\ 1 <= low /\ low <= top /\ top \in Nat
    BY <1>0, <1>2
  <2>2. PICK d \in [low .. top -> Ids \cup {INVALID_ID}] :
          /\ d[top] = entry
          /\ \A j \in low .. top - 1 : d[j] \in Reachable(routes[j + 1], d[j + 1])
          /\ ep = d[low]
    BY <1>2 DEF StartsBelow
  <2>3. Good(top, d[top])
    BY <2>2 DEF LevelsInv, EntryDefined
  <2>4. ASSUME NEW j \in low .. top - 1, Good(j + 1, d[j + 1])
        PROVE  Good(j, d[j])
    <3>1. j \in Nat /\ j + 1 \in 1 .. top /\ j \in 1 .. top
      BY <2>1
    <3>2. routes[j + 1] \in Graph /\ EdgesInside(routes[j + 1], total_count)
      BY <1>0, <3>1 DEF LevelsInv, EdgesStayInside
    <3>3. /\ d[j + 1] \in routes[j + 1].has /\ d[j + 1] <= total_count
          /\ entry < total_count => d[j + 1] < total_count
      BY <2>4, <3>1
    <3>4. d[j] \in Reachable(routes[j + 1], d[j + 1])
      BY <2>2
    <3> DEFINE g == routes[j + 1]
               x == d[j]
               y == d[j + 1]
    <3>5. x \in g.has /\ (x < total_count \/ x = y)
      <4>1. g \in Graph /\ EdgesInside(g, total_count) /\ y \in g.has /\ x \in Reachable(g, y)
        BY <3>2, <3>3, <3>4
      <4> HIDE DEF g, x, y
      <4> QED
        BY <4>1, ReachableInside
    <3>6. x \in Int /\ x <= total_count /\ (entry < total_count => x < total_count)
      <4>1. x \in Ids
        BY <3>2, <3>5 DEF Graph
      <4>2. x \in Int
        BY <4>1, IdFacts
      <4> QED
        BY <3>3, <3>5, <4>2
    <3>7. \A k \in 1 .. j : g.has \subseteq routes[k].has
      BY <2>1, <3>1 DEF LevelsInv
    <3> HIDE DEF g, x
    <3> QED
      BY <3>5, <3>6, <3>7 DEF x
  <2>5. Good(low, d[low])
    <3> DEFINE T == {m \in Nat : m <= top - low /\ ~ Good(top - m, d[top - m])}
    <3>1. T = {}
      <4> SUFFICES ASSUME T # {} PROVE FALSE
        OBVIOUS
      <4>1. PICK m \in T : \A y \in T : m <= y
        <5>1. T \in SUBSET Nat
          OBVIOUS
        <5> HIDE DEF T
        <5> QED
          BY <5>1, Least
      <4>2. m \in Nat /\ m <= top - low /\ ~ Good(top - m, d[top - m])
        OBVIOUS
      <4> HIDE DEF Good
      <4>3. m # 0
        <5> SUFFICES ASSUME m = 0 PROVE FALSE
          OBVIOUS
        <5>1. top - m = top
          BY <2>1
        <5> QED
          BY <2>3, <4>2, <5>1
      <4>4. m - 1 \in Nat /\ m - 1 <= top - low /\ m - 1 \notin T
        <5>1. m - 1 \in Nat /\ m - 1 <= top - low /\ ~ (m <= m - 1)
          BY <2>1, <4>2, <4>3
        <5> HIDE DEF T
        <5> QED
          BY <4>1, <5>1
      <4>5. Good(top - (m - 1), d[top - (m - 1)])
        BY <4>4
      <4>6. top - m \in low .. top - 1 /\ top - (m - 1) = (top - m) + 1
        BY <2>1, <4>2, <4>3
      <4>7. Good((top - m) + 1, d[(top - m) + 1])
        BY <4>5, <4>6
      <4> QED
        BY <2>4, <4>2, <4>6, <4>7
    <3>2. top - low \in Nat /\ top - low <= top - low /\ top - (top - low) = low
      BY <2>1
    <3>3. Good(top - (top - low), d[top - (top - low)])
      <4> HIDE DEF Good
      <4> QED
        BY <3>1, <3>2
    <3> HIDE DEF Good
    <3> QED
      BY <3>2, <3>3
  <2>6. ep \in bottom.has
    <3>1. ep \in routes[1].has /\ 1 \in 1 .. top
      BY <2>1, <2>2, <2>5
    <3> QED
      BY <3>1 DEF LevelsInv
  <2>7. \A k \in 1 .. Len(routes) : k <= level + 1 => ep \in routes[k].has
    <3>1. \A k \in 1 .. low : ep \in routes[k].has
      BY <2>2, <2>5
    <3>2. \A k \in 1 .. Len(routes) : k <= level + 1 => k \in 1 .. low
      BY <1>0
    <3> QED
      BY <3>1, <3>2
  <2>8. ep <= total_count /\ (entry < total_count => ep < total_count)
    BY <2>2, <2>5
  <2> QED
    BY <2>6, <2>7, <2>8
<1> QED
  BY <1>1, <1>2

(* More points never put an edge outside.                                   *)
LEMMA InsideGrows ==
    ASSUME NEW g \in Graph, NEW n \in Int, EdgesInside(g, n)
    PROVE  EdgesInside(g, n + 1)
<1> SUFFICES ASSUME NEW i \in Ids, NEW x \in Ids, x \in g.nbrs[i]
             PROVE  i < n + 1 /\ x < n + 1 /\ i # x /\ i \in g.has /\ x \in g.has
  BY DEF EdgesInside
<1>1. i < n /\ x < n /\ i # x /\ i \in g.has /\ x \in g.has
  BY DEF EdgesInside
<1>2. i \in Int /\ x \in Int
  BY IdFacts
<1> QED
  BY <1>1, <1>2

(* Add: the new point is on its levels and on no other, and its edges lead  *)
(* to points of the level.                                                  *)
LEMMA AddTidy ==
    ASSUME NEW label \in Labels, NEW v \in Vectors, NEW level \in -1 .. MaxLevel,
           Add(label, v, level), LabelInv, GraphsTyped, TidyInv, EntryDefined
    PROVE  TidyInv'
<1> DEFINE id == total_count
           n == IF level >= Len(routes) THEN level + 1 ELSE Len(routes)
           grown == [j \in 1 .. n |-> IF j <= Len(routes) THEN routes[j] ELSE EmptyGraph]
           options(ep) == [j \in DOMAIN grown |->
                             IF j <= level + 1
                             THEN Linked(grown[j], id, ep, RouteDegree)
                             ELSE {grown[j]}]
<1>0. /\ Len(routes) \in Nat /\ DOMAIN routes = 1 .. Len(routes) /\ level \in Int
      /\ bottom \in Graph /\ \A j \in 1 .. Len(routes) : routes[j] \in Graph
  BY DegreeAssumption DEF GraphsTyped
<1>1. PICK ep \in StartsBelow(level) :
        bottom' \in Linked(bottom, id, ep, MaxDegree) /\ routes' \in Choices(options(ep))
  BY DEF Add
<1>2. id \in Ids /\ total_count \in Nat /\ id \in Int /\ total_count' = id + 1
  BY IdFacts DEF Add, LabelInv
<1>3. /\ ep <= id
      /\ bottom.any => ep \in bottom.has
      /\ \A k \in 1 .. Len(routes) : k <= level + 1 => ep \in routes[k].has
  BY <1>2, DescentStaysOnLevels DEF TidyInv
<1>4. bottom' \in Graph /\ EdgesInside(bottom', id + 1) /\ Gains(bottom, bottom', id) /\ bottom'.any = TRUE
  <2>1. EdgesInside(bottom, id) /\ (bottom.any => ep \in bottom.has /\ ep <= id)
    BY <1>3 DEF TidyInv, LevelsInv, EdgesStayInside
  <2> HIDE DEF id
  <2> QED
    BY <1>0, <1>1, <1>2, <2>1, LinkedTidy
<1>5. n \in Nat /\ level + 1 <= n /\ Len(routes) <= n
  BY <1>0
<1>6. /\ DOMAIN grown = 1 .. n
      /\ \A j \in 1 .. n :
            /\ grown[j] \in Graph /\ EdgesInside(grown[j], id)
            /\ grown[j].any /\ j <= level + 1 => ep \in grown[j].has
            /\ grown[j].has \subseteq bottom.has
      /\ \A j, k \in 1 .. n : k < j => grown[j].has \subseteq grown[k].has
  <2>1. /\ EmptyGraph \in Graph /\ EdgesInside(EmptyGraph, id)
        /\ EmptyGraph.any = FALSE /\ EmptyGraph.has = {}
    BY EmptySound DEF Sound, EmptyGraph, EdgesInside
  <2>2. \A j \in 1 .. Len(routes) :
          EdgesInside(routes[j], id) /\ routes[j].has \subseteq bottom.has
    BY <1>0 DEF TidyInv, LevelsInv, EdgesStayInside
  <2>3. \A j, k \in 1 .. Len(routes) : k < j => routes[j].has \subseteq routes[k].has
    BY DEF TidyInv, LevelsInv
  <2> HIDE DEF n, id
  <2>4. \A j \in 1 .. n : /\ j <= Len(routes) => j \in 1 .. Len(routes) /\ grown[j] = routes[j]
                          /\ ~ (j <= Len(routes)) => grown[j] = EmptyGraph
    BY <1>0, <1>5
  <2>5. DOMAIN grown = 1 .. n
    OBVIOUS
  <2> HIDE DEF grown
  <2>6. \A j \in 1 .. n :
            /\ grown[j] \in Graph /\ EdgesInside(grown[j], id)
            /\ grown[j].any /\ j <= level + 1 => ep \in grown[j].has
            /\ grown[j].has \subseteq bottom.has
    BY <1>0, <1>3, <2>1, <2>2, <2>4
  <2>7. ASSUME NEW j \in 1 .. n, NEW k \in 1 .. n, k < j
        PROVE  grown[j].has \subseteq grown[k].has
    <3>1. CASE j <= Len(routes)
      <4>1. k \in Int /\ j \in Int /\ k <= Len(routes)
        BY <1>0, <1>5, <2>7, <3>1
      <4> QED
        BY <2>3, <2>4, <2>7, <3>1, <4>1
    <3>2. CASE ~ (j <= Len(routes))
      BY <2>1, <2>4, <3>2
    <3> QED
      BY <3>1, <3>2
  <2> QED
    BY <2>5, <2>6, <2>7
<1>7. \A j \in 1 .. n : \A h \in options(ep)[j] :
        /\ h \in Graph /\ EdgesInside(h, id + 1)
        /\ j <= level + 1 => Gains(grown[j], h, id)
        /\ ~ (j <= level + 1) => h = grown[j]
  <2> HIDE DEF grown, n
  <2> SUFFICES ASSUME NEW j \in 1 .. n, NEW h \in options(ep)[j]
               PROVE  /\ h \in Graph /\ EdgesInside(h, id + 1)
                      /\ j <= level + 1 => Gains(grown[j], h, id)
                      /\ ~ (j <= level + 1) => h = grown[j]
    OBVIOUS
  <2> DEFINE g == grown[j]
  <2>0. g \in Graph /\ EdgesInside(g, id)
    BY <1>6
  <2>1. CASE j <= level + 1
    <3>1. h \in Linked(g, id, ep, RouteDegree)
      BY <1>6, <2>1
    <3>2. g.any => ep \in g.has /\ ep <= id
      BY <1>3, <1>6, <2>1
    <3> HIDE DEF g, id
    <3>3. h \in Graph /\ EdgesInside(h, id + 1) /\ Gains(g, h, id)
      BY <1>2, <2>0, <3>1, <3>2, LinkedTidy
    <3> QED
      BY <2>1, <3>3 DEF g
  <2>2. CASE ~ (j <= level + 1)
    <3>1. h = g
      BY <1>6, <2>2
    <3> HIDE DEF g, id
    <3>2. EdgesInside(g, id + 1)
      BY <1>2, <2>0, InsideGrows
    <3> QED
      BY <2>0, <2>2, <3>1, <3>2 DEF g
  <2> QED
    BY <2>1, <2>2
<1>8. /\ routes' \in Seq(Graph) /\ Len(routes') = n /\ DOMAIN routes' = 1 .. n
      /\ \A j \in 1 .. n : routes'[j] \in options(ep)[j]
  <2>1. DOMAIN options(ep) = 1 .. n /\ \A j \in 1 .. n : \A h \in options(ep)[j] : h \in Graph
    BY <1>6, <1>7
  <2> HIDE DEF options, n, grown
  <2> QED
    BY <1>1, <1>5, <2>1, ChoicesTyped
<1>9. \A j \in 1 .. n :
        /\ EdgesInside(routes'[j], id + 1)
        /\ j <= level + 1 => routes'[j].has = grown[j].has \cup {id}
        /\ ~ (j <= level + 1) => routes'[j].has = grown[j].has
  <2> HIDE DEF options, n, grown, id
  <2> QED
    BY <1>7, <1>8 DEF Gains
<1>10. bottom'.has = bottom.has \cup {id}
  BY <1>4 DEF Gains
<1>11. \A j \in 1 .. Len(routes') : routes'[j].has \subseteq bottom'.has
  <2> HIDE DEF options, n, grown, id
  <2> QED
    BY <1>6, <1>8, <1>9, <1>10
<1>12. \A j, k \in 1 .. Len(routes') : k < j => routes'[j].has \subseteq routes'[k].has
  <2> SUFFICES ASSUME NEW j \in 1 .. n, NEW k \in 1 .. n, k < j
               PROVE  routes'[j].has \subseteq routes'[k].has
    BY <1>8
  <2> HIDE DEF options, n, grown, id
  <2>1. grown[j].has \subseteq grown[k].has
    BY <1>6
  <2>2. CASE j <= level + 1
    <3>1. k <= level + 1
      <4>1. j \in Int /\ k \in Int
        BY <1>5
      <4> QED
        BY <1>0, <2>2, <4>1
    <3> QED
      BY <1>9, <2>1, <2>2, <3>1
  <2>3. CASE ~ (j <= level + 1)
    <3>1. routes'[j].has = grown[j].has /\ grown[k].has \subseteq routes'[k].has
      BY <1>9, <2>3
    <3> QED
      BY <2>1, <3>1
  <2> QED
    BY <2>2, <2>3
<1>13. EdgesStayInside'
  <2> HIDE DEF options, n, grown
  <2> QED
    BY <1>2, <1>4, <1>8, <1>9 DEF EdgesStayInside
<1>14. /\ entry' \in bottom'.has
       /\ \A j \in 1 .. Len(routes') : entry' \in routes'[j].has
  <2>1. CASE level >= Len(routes)
    <3>1. entry' = id /\ n = level + 1
      BY <2>1 DEF Add
    <3>2. \A j \in 1 .. n : j <= level + 1
      BY <1>5, <3>1
    <3>3. \A j \in 1 .. n : id \in routes'[j].has
      <4> HIDE DEF grown, n, id
      <4> QED
        BY <1>9, <3>2
    <3> HIDE DEF n, id
    <3> QED
      BY <1>8, <1>10, <3>1, <3>3
  <2>2. CASE ~ (level >= Len(routes)) /\ ~ bottom.any
    <3>1. entry' = id /\ routes = <<>>
      BY <2>2 DEF Add, TidyInv, LevelsInv
    <3>2. n = 0
      BY <2>2, <3>1
    <3> QED
      BY <1>8, <1>10, <3>1, <3>2
  <2>3. CASE ~ (level >= Len(routes)) /\ bottom.any
    <3>1. entry' = entry /\ n = Len(routes)
      BY <2>3 DEF Add
    <3>2. entry \in bottom.has /\ \A j \in 1 .. n : entry \in routes[j].has
      BY <2>3, <3>1 DEF TidyInv, LevelsInv
    <3>3. \A j \in 1 .. n : grown[j] = routes[j]
      BY <3>1
    <3> HIDE DEF n, grown, id
    <3>4. \A j \in 1 .. n : entry \in routes'[j].has
      BY <1>9, <3>2, <3>3
    <3> QED
      BY <1>8, <1>10, <3>1, <3>2, <3>4
  <2> QED
    BY <2>1, <2>2, <2>3
<1> QED
  BY <1>4, <1>11, <1>12, <1>13, <1>14 DEF TidyInv, LevelsInv

(* RemoveForce: the levels that stay have their edges among the points that *)
(* are left, and the new entry is on all of them.                           *)
LEMMA ForceTidy ==
    ASSUME UseReverseEdges, NEW label \in Labels, RemoveForce(label),
           LabelInv, GraphInv, GraphsTyped, TidyInv
    PROVE  TidyInv'
<1> DEFINE id == IdOf(lt, label)
           last == total_count - 1
<1>0. /\ routes \in Seq(Graph) /\ Len(routes) \in Nat /\ Sound(bottom)
      /\ \A j \in 1 .. Len(routes) : Sound(routes[j]) /\ EdgesInside(routes[j], total_count)
      /\ EdgesInside(bottom, total_count)
  BY DEF GraphInv, TidyInv, LevelsInv, EdgesStayInside
<1>1. /\ id \in Ids /\ last \in Ids /\ id <= last /\ total_count' = last
      /\ \E e, rts, b, rs :
            /\ Kept(id, e, rts) /\ rts \in Seq(Graph)
            /\ b \in ForceRemoved(bottom, id, total_count, MaxDegree)
            /\ rs \in Choices(Removals(id, rts))
            /\ Moved(id, last, e, b, rs)
  BY <1>0, RemoveForceForm
<1>2. total_count = last + 1 /\ total_count \in Int /\ id \in Int /\ last \in Int
  BY <1>1, IdFacts DEF LabelInv
<1>3. bottom.any /\ entry \in bottom.has
  <2>1. total_count # 0
    BY <1>1, <1>2, IdFacts
  <2> QED
    BY <2>1 DEF TidyInv, LevelsInv
<1> HIDE DEF id, last
<1>4. PICK e, rts, b, rs :
            /\ Kept(id, e, rts) /\ rts \in Seq(Graph)
            /\ b \in ForceRemoved(bottom, id, total_count, MaxDegree)
            /\ rs \in Choices(Removals(id, rts))
            /\ Moved(id, last, e, b, rs)
  BY <1>1
<1> DEFINE n == Len(rts)
           options == Removals(id, rts)
<1>5. /\ n \in Nat /\ n <= Len(routes) /\ DOMAIN rts = 1 .. n
      /\ \A j \in 1 .. n : rts[j] = routes[j] /\ e \in routes[j].has
      /\ e \in bottom.has
  <2>1. CASE e = entry /\ rts = routes
    BY <1>0, <1>3, <1>4, <2>1 DEF TidyInv, LevelsInv
  <2>2. CASE e = entry /\ rts = <<>>
    BY <1>0, <1>3, <2>2
  <2>3. ASSUME NEW k \in 1 .. Len(routes), id = entry,
               e \in routes[k].nbrs[entry] \ {entry}, Len(rts) = k,
               \A j \in 1 .. k : rts[j] = routes[j]
        PROVE  /\ n \in Nat /\ n <= Len(routes) /\ DOMAIN rts = 1 .. n
               /\ \A j \in 1 .. n : rts[j] = routes[j] /\ e \in routes[j].has
               /\ e \in bottom.has
    <3>1. k \in Nat /\ k <= Len(routes) /\ n = k
      BY <1>0, <2>3
    <3>2. routes[k] \in Graph
      BY <1>0 DEF Sound
    <3>3. e \in Ids
      BY <1>1, <2>3, <3>2 DEF Graph
    <3>4. e \in routes[k].has
      BY <1>0, <1>1, <2>3, <3>3 DEF EdgesInside
    <3>5. \A j \in 1 .. k : e \in routes[j].has
      <4> SUFFICES ASSUME NEW j \in 1 .. k PROVE e \in routes[j].has
        OBVIOUS
      <4>1. j \in 1 .. Len(routes) /\ (j = k \/ j < k)
        BY <3>1
      <4>2. j < k => routes[k].has \subseteq routes[j].has
        BY <4>1 DEF TidyInv, LevelsInv
      <4> QED
        BY <3>4, <4>1, <4>2
    <3>6. e \in bottom.has
      BY <3>4 DEF TidyInv, LevelsInv
    <3>7. DOMAIN rts = 1 .. n
      BY <1>4
    <3> HIDE DEF n
    <3> QED
      BY <2>3, <3>1, <3>5, <3>6, <3>7
  <2> QED
    BY <1>4, <2>1, <2>2, <2>3 DEF Kept
<1> HIDE DEF n
<1>6. \A j \in 1 .. n : /\ j \in 1 .. Len(routes) /\ Sound(rts[j])
                        /\ EdgesInside(rts[j], total_count)
                        /\ e \in rts[j].has /\ rts[j].has \subseteq bottom.has
  BY <1>0, <1>5 DEF TidyInv, LevelsInv
<1>7. \A j, k \in 1 .. n : k < j => rts[j].has \subseteq rts[k].has
  BY <1>5, <1>6 DEF TidyInv, LevelsInv
<1>8. Sound(b) /\ EdgesInside(b, total_count) /\ NoEdgeAt(b, id) /\ b.has = bottom.has /\ b.any
  <2>1. Sound(b)
    BY <1>0, <1>1, <1>4, ForceRemovedSound
  <2>2. EdgesInside(b, total_count) /\ NoEdgeAt(b, id)
    BY <1>0, <1>1, <1>4, ForceRemovedTidy
  <2>3. b.has = bottom.has
    BY <1>0, <1>1, <1>4, ForceRemovedTidy
  <2>4. bottom.any => b.any
    BY <1>0, <1>1, <1>4, ForceRemovedTidy
  <2> QED
    BY <1>3, <2>1, <2>2, <2>3, <2>4
<1>9. DOMAIN options = 1 .. n /\ \A j \in 1 .. n : \A h \in options[j] :
        Sound(h) /\ EdgesInside(h, total_count) /\ NoEdgeAt(h, id) /\ h.has = rts[j].has
  <2>1. DOMAIN options = 1 .. n /\ \A j \in 1 .. n :
           options[j] = ForceRemoved(rts[j], id, total_count, RouteDegree)
    BY <1>5 DEF Removals
  <2> HIDE DEF options
  <2> SUFFICES ASSUME NEW j \in 1 .. n, NEW h \in options[j]
               PROVE  /\ Sound(h) /\ EdgesInside(h, total_count) /\ NoEdgeAt(h, id)
                      /\ h.has = rts[j].has
    BY <2>1
  <2> DEFINE g == rts[j]
  <2>2. Sound(g) /\ EdgesInside(g, total_count) /\ h \in ForceRemoved(g, id, total_count, RouteDegree)
    BY <1>6, <2>1
  <2> HIDE DEF g
  <2>3. Sound(h)
    BY <1>1, <2>2, ForceRemovedSound
  <2>4. EdgesInside(h, total_count) /\ NoEdgeAt(h, id)
    BY <1>1, <2>2, ForceRemovedTidy
  <2>5. h.has = g.has
    BY <1>1, <2>2, ForceRemovedTidy
  <2> QED
    BY <2>3, <2>4, <2>5 DEF g
<1>10. /\ rs \in Seq(Graph) /\ Len(rs) = n /\ DOMAIN rs = 1 .. n
       /\ \A j \in 1 .. n : /\ Sound(rs[j]) /\ EdgesInside(rs[j], total_count)
                            /\ NoEdgeAt(rs[j], id) /\ rs[j].has = rts[j].has
  <2>1. \A j \in 1 .. n : \A h \in options[j] : h \in Graph
    BY <1>9 DEF Sound
  <2>2. n \in Nat /\ DOMAIN options = 1 .. n /\ rs \in Choices(options)
    BY <1>4, <1>5, <1>9
  <2> HIDE DEF options
  <2>3. /\ rs \in Seq(Graph) /\ Len(rs) = n /\ DOMAIN rs = 1 .. n
        /\ \A j \in 1 .. n : rs[j] \in options[j]
    BY <2>1, <2>2, ChoicesTyped
  <2> QED
    BY <1>9, <2>3
<1> HIDE DEF options
<1>11. CASE last = id
  <2>1. bottom' = b /\ routes' = rs /\ entry' = e
    BY <1>4, <1>11 DEF Moved
  <2>2. EdgesInside(b, last)
    BY <1>1, <1>2, <1>8, <1>11, LastTidy DEF Sound
  <2>3. \A j \in 1 .. n : EdgesInside(rs[j], last)
    BY <1>1, <1>2, <1>10, <1>11, LastTidy DEF Sound
  <2>4. EdgesStayInside'
    BY <1>1, <1>10, <2>1, <2>2, <2>3 DEF EdgesStayInside
  <2> QED
    BY <1>5, <1>6, <1>7, <1>8, <1>10, <2>1, <2>4 DEF TidyInv, LevelsInv
<1>12. CASE last # id
  <2>0. id < last
    BY <1>1, <1>2, <1>12
  <2>1. /\ bottom' = MoveDense(b, last, id)
        /\ routes' = [j \in DOMAIN rs |-> MoveSparse(rs[j], last, id)]
        /\ entry' = IF e = last THEN id ELSE e
    BY <1>4, <1>12 DEF Moved
  <2>2. /\ EdgesInside(bottom', last) /\ bottom'.any = TRUE
        /\ \A x : x \in bottom'.has <=> x \in b.has \/ x = last \/ x = id
    <3>1. EdgesInside(MoveDense(b, last, id), last) /\ MoveDense(b, last, id).any = TRUE
      BY <1>1, <1>2, <1>8, <2>0, MoveDenseTidy
    <3>2. \A x : x \in MoveDense(b, last, id).has <=> x \in b.has \/ x = last \/ x = id
      BY <1>1, <1>2, <1>8, <2>0, MoveDenseTidy
    <3> QED
      BY <2>1, <3>1, <3>2
  <2>3. DOMAIN routes' = 1 .. n /\ Len(routes') = n
        /\ \A j \in 1 .. n : routes'[j] = MoveSparse(rs[j], last, id)
    <3>1. DOMAIN routes' = 1 .. n /\ \A j \in 1 .. n : routes'[j] = MoveSparse(rs[j], last, id)
      BY <1>10, <2>1
    <3>2. routes' = [j \in 1 .. n |-> MoveSparse(rs[j], last, id)] /\ n \in Nat
      BY <1>5, <1>10, <2>1
    <3>3. Len(routes') = n
      BY <3>2
    <3> QED
      BY <3>1, <3>3
  <2>4. \A j \in 1 .. n :
          /\ EdgesInside(routes'[j], last)
          /\ routes'[j].has = IF last \in rts[j].has THEN (rts[j].has \cup {id}) \ {last}
                              ELSE rts[j].has
    <3> SUFFICES ASSUME NEW j \in 1 .. n
                 PROVE  /\ EdgesInside(routes'[j], last)
                        /\ routes'[j].has = IF last \in rts[j].has
                                            THEN (rts[j].has \cup {id}) \ {last}
                                            ELSE rts[j].has
      OBVIOUS
    <3> DEFINE g == rs[j]
    <3>1. /\ Sound(g) /\ EdgesInside(g, total_count) /\ NoEdgeAt(g, id) /\ g.has = rts[j].has
          /\ routes'[j] = MoveSparse(g, last, id)
      BY <1>10, <2>3
    <3> HIDE DEF g
    <3>2. EdgesInside(MoveSparse(g, last, id), last)
      BY <1>1, <1>2, <2>0, <3>1, MoveSparseTidy
    <3>3. MoveSparse(g, last, id).has = IF last \in g.has THEN (g.has \cup {id}) \ {last} ELSE g.has
      BY <1>1, <1>2, <2>0, <3>1, MoveSparseTidy
    <3> QED
      BY <3>1, <3>2, <3>3
  <2>5. EdgesStayInside'
    BY <1>1, <2>2, <2>3, <2>4 DEF EdgesStayInside
  <2>6. entry' \in bottom'.has
    BY <1>5, <1>8, <2>1, <2>2
  <2>7. \A j \in 1 .. n : entry' \in routes'[j].has
    <3>1. CASE e = last
      <4>1. entry' = id /\ \A j \in 1 .. n : last \in rts[j].has
        BY <1>6, <2>1, <3>1
      <4> QED
        BY <1>12, <2>4, <4>1
    <3>2. CASE e # last
      <4>1. entry' = e /\ \A j \in 1 .. n : e \in rts[j].has
        BY <1>6, <2>1, <3>2
      <4> QED
        BY <2>4, <3>2, <4>1
    <3> QED
      BY <3>1, <3>2
  <2>8. \A j \in 1 .. n : routes'[j].has \subseteq bottom'.has
    BY <1>6, <1>8, <2>2, <2>4
  <2>9. \A j, k \in 1 .. n : k < j => routes'[j].has \subseteq routes'[k].has
    <3> SUFFICES ASSUME NEW j \in 1 .. n, NEW k \in 1 .. n, k < j
                 PROVE  routes'[j].has \subseteq routes'[k].has
      OBVIOUS
    <3>1. rts[j].has \subseteq rts[k].has
      BY <1>7
    <3>2. CASE last \in rts[j].has
      BY <2>4, <3>1, <3>2
    <3>3. CASE last \notin rts[j].has
      BY <2>4, <3>1, <3>3
    <3> QED
      BY <3>2, <3>3
  <2> QED
    BY <2>2, <2>3, <2>5, <2>6, <2>7, <2>8, <2>9 DEF TidyInv, LevelsInv
<1> QED
  BY <1>11, <1>12

LEMMA InitTidy == Init => TidyInv
<1> SUFFICES ASSUME Init PROVE TidyInv
  OBVIOUS
<1>1. EdgesInside(EmptyGraph, 0) /\ EmptyGraph.any = FALSE
  BY DEF EdgesInside, EmptyGraph
<1>2. Len(<<>>) = 0 /\ DOMAIN <<>> = {}
  OBVIOUS
<1> QED
  BY <1>1, <1>2 DEF Init, TidyInv, LevelsInv, EdgesStayInside

LEMMA NextTidy ==
    ASSUME UseReverseEdges, LabelInv, GraphInv, GraphsTyped, TidyInv, EntryDefined,
           [Next]_vars
    PROVE  TidyInv'
<1>1. CASE UNCHANGED <<total_count, bottom, routes, entry>>
  BY <1>1 DEF TidyInv, LevelsInv, EdgesStayInside
<1>2. ASSUME NEW label \in Labels, NEW v \in Vectors, NEW level \in -1 .. MaxLevel,
             Add(label, v, level)
      PROVE  TidyInv'
  BY <1>2, AddTidy
<1>3. ASSUME NEW label \in Labels, RemoveForce(label) PROVE TidyInv'
  BY <1>3, ForceTidy
<1>4. ASSUME NEW label \in Labels, RemoveMark(label)
      PROVE  UNCHANGED <<total_count, bottom, routes, entry>>
  BY <1>4 DEF RemoveMark
<1>5. ASSUME NEW old \in Labels, NEW new \in Labels, UpdateId(old, new)
      PROVE  UNCHANGED <<total_count, bottom, routes, entry>>
  BY <1>5 DEF UpdateId
<1>6. ASSUME NEW label \in Labels, NEW v \in Vectors, UpdateVector(label, v)
      PROVE  UNCHANGED <<total_count, bottom, routes, entry>>
  BY <1>6 DEF UpdateVector
<1> QED
  BY <1>1, <1>2, <1>3, <1>4, <1>5, <1>6 DEF Next, vars

AllInv == LabelInv /\ GraphInv /\ GraphsTyped /\ CountsTyped /\ TidyInv

LEMMA AlwaysAllInv == UseReverseEdges => (Spec /\ []EntryDefined => []AllInv)
<1> SUFFICES ASSUME UseReverseEdges PROVE Spec /\ []EntryDefined => []AllInv
  OBVIOUS
<1>1. Init => AllInv
  BY InitInv, InitTyped, InitTidy DEF AllInv
<1>2. AllInv /\ EntryDefined /\ [Next]_vars => AllInv'
  <2> SUFFICES ASSUME AllInv, EntryDefined, [Next]_vars PROVE AllInv'
    OBVIOUS
  <2>1. LabelInv' /\ GraphInv'
    BY NextLabelInv, NextGraphInv DEF AllInv
  <2>2. GraphsTyped' /\ CountsTyped'
    BY NextTypeInv DEF AllInv, TypeInv
  <2>3. TidyInv'
    BY NextTidy DEF AllInv
  <2> QED
    BY <2>1, <2>2, <2>3 DEF AllInv
<1> QED
  BY <1>1, <1>2, PTL DEF Spec

(* With reverse edges, and as long as the entry is not two removals beyond   *)
(* the points (where the code defines no outcome), no list ever names the    *)
(* point itself, a point that is gone, or the old id of one that moved: what *)
(* a search visits has codes and a label.                                    *)
THEOREM HGraphEdges == UseReverseEdges => (Spec /\ []EntryDefined => []EdgesStayInside)
<1>1. AllInv => EdgesStayInside
  BY DEF AllInv, TidyInv, LevelsInv
<1> QED
  BY <1>1, AlwaysAllInv, PTL

(* Under the same conditions the entry point is on every route level and a  *)
(* level's points are on the one below: whatever levels find_new_entry_point *)
(* drops and whatever points move, a descent finds its place on each level. *)
THEOREM HGraphEntryOnLevels ==
    UseReverseEdges => (Spec /\ []EntryDefined => []EntryOnEveryLevel)
<1>1. AllInv => EntryOnEveryLevel
  <2> SUFFICES ASSUME AllInv PROVE EntryOnEveryLevel
    OBVIOUS
  <2>1. Len(routes) \in Nat /\ DOMAIN routes = 1 .. Len(routes)
    BY DEF AllInv, GraphsTyped
  <2>2. ASSUME NEW j \in 1 .. Len(routes), NEW i \in Ids, j > 1, routes[j].nbrs[i] # {}
        PROVE  i \in routes[j - 1].has
    <3>1. PICK x : x \in routes[j].nbrs[i]
      BY <2>2
    <3>2. x \in Ids /\ EdgesInside(routes[j], total_count)
      <4>1. routes[j] \in Graph
        BY <2>1 DEF AllInv, GraphsTyped
      <4>2. routes[j].nbrs[i] \in SUBSET Ids
        BY <4>1 DEF Graph
      <4>3. EdgesInside(routes[j], total_count)
        BY <2>1 DEF AllInv, TidyInv, LevelsInv, EdgesStayInside
      <4> QED
        BY <3>1, <4>2, <4>3
    <3>3. i \in routes[j].has
      BY <3>1, <3>2 DEF EdgesInside
    <3>4. j - 1 \in 1 .. Len(routes) /\ j - 1 < j
      BY <2>1, <2>2
    <3> QED
      BY <3>3, <3>4 DEF AllInv, TidyInv, LevelsInv
  <2>3. \A j \in 1 .. Len(routes) : entry \in routes[j].has
    BY DEF AllInv, TidyInv, LevelsInv
  <2> QED
    BY <2>1, <2>2, <2>3 DEF EntryOnEveryLevel
<1> QED
  BY <1>1, AlwaysAllInv, PTL

----------------------------------------------------------------------------
(* The index as a store.  FORCE_REMOVE keeps labels and vectors apart only   *)
(* while the last point is the one its label is mapped to, so these results  *)
(* are about ApartSpec.                                                      *)

\* The labels and the slots in use agree, the marked ids are slots in use, and
\* every slot in use has its vector.
StoreInv ==
    /\ LabelsAgree(lt, total_count)
    /\ \A i \in lt.deleted : i < total_count
    /\ \A i \in Ids : i < total_count => codes[i] \in Vectors

(* Add as the label table sees it.                                          *)
LEMMA AddSlots ==
    ASSUME LabelInv, CountsTyped, NEW label \in Labels, NEW v \in Vectors,
           NEW level \in -1 .. MaxLevel, Add(label, v, level)
    PROVE  /\ total_count \in Ids /\ total_count' = total_count + 1
           /\ ~ CheckLabel(lt, label)
           /\ codes'[total_count] = v
           /\ \A i \in Ids : i # total_count => codes'[i] = codes[i]
           /\ \E slots \in Table :
                 /\ lt' = Insert(slots, total_count, label)
                 /\ slots.table = lt.table /\ slots.remap = lt.remap
                 /\ slots.deleted = lt.deleted /\ total_count <= slots.size
<1> DEFINE cap == Capacity(total_count + 1)
           slots == IF cap > max_capacity THEN Resize(lt, cap) ELSE lt
<1>1. /\ total_count \in Ids /\ total_count + 1 \in 1 .. MaxId /\ total_count \in Int
      /\ lt \in Table /\ max_capacity \in 1 .. MaxId
      /\ total_count <= lt.size /\ codes \in [Ids -> Vectors \cup {NoVector}]
  BY IdFacts DEF Add, LabelInv, CountsTyped
<1>2. cap \in 1 .. MaxId
  BY <1>1, CapacityBounded
<1>3. cap > max_capacity => total_count <= cap
  <2>1. \A a \in Int, R \in Int : R > 0 => ((a + R - 1) \div R) * R >= a
    OBVIOUS
  <2>2. ResizeStep \in Int /\ ResizeStep > 0
    BY ResizeAssumption, MaxIdAssumption
  <2> QED
    BY <1>1, <2>1, <2>2, IdFacts DEF Capacity
<1>4. /\ slots \in Table /\ slots.table = lt.table /\ slots.remap = lt.remap
      /\ slots.deleted = lt.deleted /\ total_count <= slots.size
  <2>1. cap \in 0 .. MaxId
    BY <1>2, IdFacts
  <2> HIDE DEF cap
  <2>2. CASE cap > max_capacity
    <3>1. slots = Resize(lt, cap)
      BY <2>2
    <3> HIDE DEF slots
    <3> QED
      BY <1>1, <1>3, <2>1, <2>2, <3>1 DEF Resize, Table
  <2>3. CASE ~ (cap > max_capacity)
    BY <1>1, <2>3
  <2> QED
    BY <2>2, <2>3
<1>5. /\ lt' = Insert(slots, total_count, label) /\ total_count' = total_count + 1
      /\ ~ CheckLabel(lt, label) /\ codes' = [codes EXCEPT ![total_count] = v]
  BY DEF Add
<1> HIDE DEF slots
<1> QED
  BY <1>1, <1>4, <1>5

(* RemoveForce as the label table and the cell of codes see it.             *)
LEMMA ForceSlots ==
    ASSUME LabelInv, CountsTyped, NEW label \in Labels, RemoveForce(label)
    PROVE  LET id == IdOf(lt, label)
               last == total_count - 1
           IN  /\ id \in Ids /\ last \in Ids /\ id <= last /\ lt.table[id] = label
               /\ label \in AnyLabel /\ total_count' = last
               /\ lt' = Forced(lt, label, last)
               /\ \A i \in Ids : i < last =>
                     codes'[i] = IF i = id THEN codes[last] ELSE codes[i]
<1> DEFINE id == IdOf(lt, label)
           last == total_count - 1
<1>1. Found(lt, label) /\ label \in AnyLabel
  BY IdFacts DEF RemoveForce
<1>2. id \in Ids /\ id < total_count /\ lt.table[id] = label
  BY <1>1, FoundId DEF LabelInv, PointsBack
<1>3. last \in Ids /\ id <= last
  <2>1. id \in Int /\ 0 <= id /\ total_count \in 0 .. MaxId /\ MaxId \in Nat
    BY <1>2, IdFacts DEF LabelInv
  <2>2. last \in Int /\ 0 <= last /\ last < MaxId /\ id <= last
    BY <1>2, <2>1
  <2> QED
    BY <2>2, IdFacts
<1>4. total_count' = last /\ lt' = Forced(lt, label, last)
  BY DEF RemoveForce, Forced
<1>5. IF last = id THEN codes' = [codes EXCEPT ![last] = NoVector]
      ELSE codes' = [codes EXCEPT ![id] = codes[last], ![last] = NoVector]
  BY DEF RemoveForce
<1> HIDE DEF id, last
<1>6. \A i \in Ids : i < last => codes'[i] = IF i = id THEN codes[last] ELSE codes[i]
  <2>1. codes \in [Ids -> Vectors \cup {NoVector}] /\ last \in Int
    BY <1>3, IdFacts DEF CountsTyped
  <2> QED
    BY <1>2, <1>3, <1>5, <2>1, IdFacts
<1> QED
  BY <1>1, <1>2, <1>3, <1>4, <1>6 DEF id, last

(* FORCE_REMOVE while the last point is mapped: the labels of the points     *)
(* that are left agree with their slots.                                    *)
LEMMA ForcedAgrees ==
    ASSUME NEW tab \in Table, NEW l \in AnyLabel, NEW id \in Ids, id = IdOf(tab, l),
           tab.table[id] = l, NEW last \in Ids, id <= last, NEW n, n = last + 1,
           LabelsAgree(tab, n), PointsBack(tab, n), IdOf(tab, tab.table[last]) = last,
           NEW fit \in Table, fit = Forced(tab, l, last), last <= fit.size
    PROVE  LabelsAgree(fit, last)
<1>0. id \in Int /\ last \in Int /\ n \in Int /\ \A i \in Ids : i \in Int /\ i # INVALID_ID
  BY IdFacts
<1>1. \A i \in Ids : i < last => fit.table[i] = IF i = id THEN tab.table[last] ELSE tab.table[i]
  BY ForcedFields
<1>2. \A i \in Ids : i \in fit.deleted
                 <=> \/ i # id /\ i # last /\ i \in tab.deleted
                     \/ i = id /\ id # last /\ last \in tab.deleted
  BY ForcedFields
<1>3. \A m \in AnyLabel : IdOf(fit, m)
                 = IF m = tab.table[last] /\ id # last THEN id
                   ELSE IF m = l THEN INVALID_ID ELSE IdOf(tab, m)
  BY ForcedFields
<1>4. /\ tab.table[last] \in AnyLabel /\ tab.table[last] \in Labels
      /\ \A i \in Ids : tab.table[i] \in AnyLabel
  BY <1>0, TableFields DEF LabelsAgree, SlotsLabelled
<1>5. SlotsLabelled(fit, last)
  <2>1. \A i \in Ids : i < last => tab.table[i] \in Labels
    BY <1>0 DEF LabelsAgree, SlotsLabelled
  <2> QED
    BY <1>1, <1>4, <2>1 DEF SlotsLabelled
<1>6. LiveMapped(fit, last)
  <2> SUFFICES ASSUME NEW i \in Ids, i < last, i \notin fit.deleted
               PROVE  IdOf(fit, fit.table[i]) = i
    BY DEF LiveMapped
  <2>0. i # last
    BY <1>0
  <2>1. CASE i = id
    BY <1>1, <1>3, <1>4, <2>0, <2>1
  <2>2. CASE i # id
    <3>1. i < n /\ i \notin tab.deleted
      BY <1>0, <1>2, <2>0, <2>2
    <3>2. IdOf(tab, tab.table[i]) = i
      BY <3>1 DEF LabelsAgree, LiveMapped
    <3>3. tab.table[i] # l /\ tab.table[i] # tab.table[last]
      BY <2>0, <2>2, <3>2
    <3> QED
      BY <1>1, <1>3, <1>4, <2>2, <3>2, <3>3
  <2> QED
    BY <2>1, <2>2
<1>7. PresentPointsBack(fit, last)
  <2> SUFFICES ASSUME NEW m \in AnyLabel, CheckLabel(fit, m)
               PROVE  IdOf(fit, m) < last /\ fit.table[IdOf(fit, m)] = m
    BY DEF PresentPointsBack
  <2>1. CASE m = tab.table[last] /\ id # last
    BY <1>0, <1>1, <1>3, <2>1
  <2>2. CASE ~ (m = tab.table[last] /\ id # last)
    <3>1. m # l /\ IdOf(fit, m) = IdOf(tab, m)
      BY <1>3, <2>2 DEF CheckLabel, Found
    <3>2. IdOf(tab, m) \in Ids
      BY <3>1, TableFields DEF CheckLabel, Found
    <3>3. IdOf(tab, m) < n /\ tab.table[IdOf(tab, m)] = m
      <4>1. Found(tab, m)
        BY <1>0, <3>2 DEF Found
      <4> QED
        BY <4>1 DEF PointsBack
    <3>4. IdOf(tab, m) # id /\ IdOf(tab, m) # last
      BY <2>2, <3>1, <3>3
    <3>5. IdOf(tab, m) < last
      <4>1. IdOf(tab, m) \in Int
        BY <1>0, <3>2
      <4> QED
        BY <1>0, <3>3, <3>4, <4>1
    <3> QED
      BY <1>1, <3>1, <3>2, <3>3, <3>4, <3>5
  <2> QED
    BY <2>1, <2>2
<1> QED
  BY <1>5, <1>6, <1>7 DEF LabelsAgree

(* The first state and every call but Clone.                                *)
LEMMA InitStore == Init => StoreInv
<1> SUFFICES ASSUME Init PROVE StoreInv
  OBVIOUS
<1>1. /\ lt.remap = [l \in AnyLabel |-> INVALID_ID] /\ lt.size = ResizeStep
      /\ lt.deleted = {} /\ total_count = 0
  BY DEF Init, Resize, EmptyTable
<1>2. ResizeStep \in Int /\ 0 <= ResizeStep /\ \A i \in Ids : ~ (i < 0)
  BY ResizeAssumption, MaxIdAssumption, IdFacts
<1>3. \A l \in AnyLabel : ~ CheckLabel(lt, l)
  BY <1>1 DEF CheckLabel, Found, IdOf
<1> QED
  BY <1>1, <1>2, <1>3
     DEF StoreInv, LabelsAgree, SlotsLabelled, LiveMapped, PresentPointsBack

LEMMA AddStore ==
    ASSUME LabelInv, CountsTyped, StoreInv, NEW label \in Labels, NEW v \in Vectors,
           NEW level \in -1 .. MaxLevel, Add(label, v, level)
    PROVE  StoreInv'
<1> DEFINE n == total_count
<1>1. /\ n \in Ids /\ total_count' = n + 1 /\ ~ CheckLabel(lt, label)
      /\ codes'[n] = v /\ \A i \in Ids : i # n => codes'[i] = codes[i]
  BY AddSlots
<1>2. PICK slots \in Table :
         /\ lt' = Insert(slots, total_count, label)
         /\ slots.table = lt.table /\ slots.remap = lt.remap
         /\ slots.deleted = lt.deleted /\ total_count <= slots.size
  BY AddSlots
<1>3. n \in Int /\ label \in AnyLabel /\ \A i \in Ids : i \in Int
  BY <1>1, IdFacts
<1>4. LabelsAgree(slots, n) /\ ~ CheckLabel(slots, label)
  BY <1>1, <1>2 DEF StoreInv, LabelsAgree, SlotsLabelled, LiveMapped, PresentPointsBack,
                    CheckLabel, Found, IdOf, IsRemoved
<1>5. LabelsAgree(lt', n + 1) /\ lt'.deleted = lt.deleted
  <2>1. LabelsAgree(Insert(slots, n, label), n + 1)
    BY <1>1, <1>4, InsertAgrees
  <2>2. Insert(slots, n, label).deleted = slots.deleted
    BY <1>1, <1>3, InsertFields
  <2> QED
    BY <1>2, <2>1, <2>2
<1>6. \A i \in lt'.deleted : i < n + 1
  <2>1. lt.deleted \in SUBSET Ids
    BY TableFields DEF CountsTyped
  <2> QED
    BY <1>3, <1>5, <2>1 DEF StoreInv
<1>7. \A i \in Ids : i < n + 1 => codes'[i] \in Vectors
  <2>1. \A i \in Int : i < n + 1 => i = n \/ (i # n /\ i < n)
    BY <1>3
  <2> QED
    BY <1>1, <1>3, <2>1 DEF StoreInv
<1> QED
  BY <1>1, <1>5, <1>6, <1>7 DEF StoreInv

LEMMA ForceStore ==
    ASSUME LabelInv, CountsTyped, StoreInv, LastIsMapped, NEW label \in Labels,
           RemoveForce(label), LabelInv', CountsTyped'
    PROVE  StoreInv'
<1> DEFINE id == IdOf(lt, label)
           last == total_count - 1
           n == total_count
<1>1. /\ id \in Ids /\ last \in Ids /\ id <= last /\ lt.table[id] = label
      /\ label \in AnyLabel /\ total_count' = last
      /\ lt' = Forced(lt, label, last)
      /\ \A i \in Ids : i < last => codes'[i] = IF i = id THEN codes[last] ELSE codes[i]
  BY ForceSlots
<1>2. /\ n = last + 1 /\ n \in Int /\ n > 0 /\ id \in Int /\ last \in Int
      /\ \A i \in Ids : i \in Int
  BY <1>1, IdFacts DEF LabelInv
<1>3. IdOf(lt, lt.table[last]) = last
  BY <1>2 DEF LastIsMapped
<1>4. lt \in Table /\ lt' \in Table /\ last <= lt'.size
  BY <1>1 DEF CountsTyped, LabelInv
<1>5. LabelsAgree(lt, n) /\ PointsBack(lt, n) /\ id = IdOf(lt, label)
  BY DEF StoreInv, LabelInv
<1> HIDE DEF id, last, n
<1>6. LabelsAgree(lt', last)
  BY <1>1, <1>2, <1>3, <1>4, <1>5, ForcedAgrees
<1>7. \A i \in lt'.deleted : i < last
  <2>1. \A i \in Ids : i \in Forced(lt, label, last).deleted
                 <=> \/ i # id /\ i # last /\ i \in lt.deleted
                     \/ i = id /\ id # last /\ last \in lt.deleted
    BY <1>1, <1>4, <1>5, ForcedFields
  <2>2. lt'.deleted \in SUBSET Ids /\ \A i \in lt.deleted : i < n
    BY <1>4, TableFields DEF StoreInv, n
  <2> SUFFICES ASSUME NEW i \in lt'.deleted PROVE i < last
    OBVIOUS
  <2>3. i \in Int /\ i \in Ids
    BY <1>2, <2>2
  <2>4. i \in Forced(lt, label, last).deleted
    BY <1>1
  <2>5. (i # last /\ i \in lt.deleted) \/ (i = id /\ id # last)
    BY <2>1, <2>3, <2>4
  <2>6. (i # last /\ i < n) \/ (i = id /\ id # last)
    BY <2>2, <2>5
  <2> QED
    BY <1>1, <1>2, <2>3, <2>6
<1>8. \A i \in Ids : i < last => codes'[i] \in Vectors
  <2>1. \A i \in Ids : i < n => codes[i] \in Vectors
    BY DEF StoreInv, n
  <2>2. codes[last] \in Vectors /\ \A i \in Ids : i < last => codes[i] \in Vectors
    BY <1>1, <1>2, <2>1
  <2> QED
    BY <1>1, <2>2
<1> QED
  BY <1>1, <1>6, <1>7, <1>8 DEF StoreInv

(* Clone while nothing is removed reads back the label table and the count. *)
LEMMA CloneForm ==
    ASSUME CountsTyped, lt.deleted = {}, codes_count = total_count, Clone
    PROVE  /\ lt' = lt /\ total_count' = total_count /\ delete_count' = delete_count
           /\ codes' = codes /\ max_capacity' = max_capacity /\ entry' = entry
<1>1. lt' = lt
  <2>1. lt = [table |-> lt.table, size |-> lt.size, remap |-> lt.remap, deleted |-> {}]
    BY DEF CountsTyped, Table
  <2>2. lt' = [table |-> lt.table, size |-> lt.size, remap |-> lt.remap, deleted |-> {}]
    BY DEF Clone, ReadLabels, EmptyTable
  <2> QED
    BY <2>1, <2>2
<1>2. delete_count = 0
  BY FS_EmptySet DEF CountsTyped
<1> QED
  BY <1>1, <1>2 DEF Clone, ReadTotal

LEMMA CloneGraphs ==
    ASSUME GraphsTyped, Clone
    PROVE  /\ GraphsTyped'
           /\ bottom'.nbrs = bottom.nbrs /\ bottom'.has = bottom.has /\ bottom'.any = bottom.any
           /\ Len(routes') = Len(routes)
           /\ \A j \in 1 .. Len(routes) : /\ routes'[j].nbrs = routes[j].nbrs
                                          /\ routes'[j].has = routes[j].has
<1>1. NoReverseEdges \in [Ids -> SUBSET Ids]
  BY DEF NoReverseEdges
<1>2. \A g \in Graph : /\ ReadDense(g) \in Graph /\ ReadDense(g).nbrs = g.nbrs
                       /\ ReadDense(g).has = g.has /\ ReadDense(g).any = g.any
  BY <1>1 DEF ReadDense, Graph
<1>3. \A g \in Graph : /\ ReadSparse(g) \in Graph /\ ReadSparse(g).nbrs = g.nbrs
                       /\ ReadSparse(g).has = g.has
  BY <1>1 DEF ReadSparse, Graph
<1>4. /\ bottom \in Graph /\ routes \in Seq(Graph) /\ Len(routes) \in Nat
      /\ bottom' = ReadDense(bottom) /\ entry' = entry
      /\ routes' = [j \in 1 .. Len(routes) |-> ReadSparse(routes[j])]
      /\ \A j \in 1 .. Len(routes) : routes[j] \in Graph
  BY DEF GraphsTyped, Clone
<1>5. /\ routes' \in Seq(Graph) /\ Len(routes') = Len(routes)
      /\ \A j \in 1 .. Len(routes) : routes'[j] = ReadSparse(routes[j])
  BY <1>3, <1>4
<1> QED
  BY <1>2, <1>3, <1>4, <1>5 DEF GraphsTyped

ApartInv == LabelInv /\ GraphsTyped /\ CountsTyped /\ StoreInv

LEMMA ApartSteps ==
    ASSUME [ApartNext]_pvars
    PROVE  \/ Next
           \/ UNCHANGED vars
           \/ lt.deleted = {} /\ codes_count = total_count /\ Clone
BY DEF ApartNext, Edit, Shrink, Next, pvars

(* The calls that ApartSpec allows keep all of it.                          *)
LEMMA ApartInvKept ==
    ASSUME ApartInv, [ApartNext]_pvars
    PROVE  ApartInv'
<1>0. LabelInv /\ GraphsTyped /\ CountsTyped /\ StoreInv
  BY DEF ApartInv
<1>1. CASE [Next]_vars
  <2>1. LabelInv' /\ GraphsTyped' /\ CountsTyped'
    BY <1>0, <1>1, NextTypeInv DEF TypeInv
  <2>2. StoreInv'
    <3>1. CASE UNCHANGED pvars
      BY <1>0, <3>1 DEF pvars, vars, StoreInv
    <3>2. ASSUME NEW label \in Labels, NEW v \in Vectors, NEW level \in -1 .. MaxLevel,
                 Add(label, v, level)
          PROVE  StoreInv'
      BY <1>0, <3>2, AddStore
    <3>3. ASSUME NEW label \in Labels, RemoveMark(label) PROVE StoreInv'
      <4>1. /\ lt \in Table /\ label \in AnyLabel /\ total_count' = total_count
            /\ codes' = codes /\ lt' = MarkRemove(lt, label) /\ LabelsAgree(lt, total_count)
        BY <1>0, <3>3, IdFacts DEF RemoveMark, CountsTyped, StoreInv
      <4>2. LabelsAgree(lt', total_count)
        BY <4>1, MarkAgrees
      <4>3. lt'.deleted = lt.deleted \cup (IF Found(lt, label) THEN {IdOf(lt, label)} ELSE {})
        BY <4>1, MarkFields
      <4>4. Found(lt, label) => IdOf(lt, label) < total_count
        BY <1>0, <4>1 DEF LabelInv, PointsBack
      <4> QED
        BY <1>0, <4>1, <4>2, <4>3, <4>4 DEF StoreInv
    <3>4. ASSUME NEW label \in Labels, LastIsMapped, RemoveForce(label) PROVE StoreInv'
      BY <1>0, <2>1, <3>4, ForceStore
    <3>5. ASSUME NEW old \in Labels, NEW new \in Labels, UpdateId(old, new) PROVE StoreInv'
      <4>1. /\ lt \in Table /\ old \in AnyLabel /\ new \in AnyLabel /\ old # new
            /\ total_count' = total_count /\ codes' = codes /\ total_count \in Int
            /\ lt' = UpdateLabel(lt, old, new) /\ ~ CheckLabel(lt, new)
            /\ LabelsAgree(lt, total_count)
        BY <1>0, <3>5, IdFacts DEF UpdateId, CanUpdateLabel, CountsTyped, StoreInv, LabelInv
      <4>2. LabelsAgree(lt', total_count)
        BY <4>1, UpdateAgrees
      <4>3. lt'.deleted = lt.deleted
        BY <4>1, UpdateFields
      <4> QED
        BY <1>0, <4>1, <4>2, <4>3 DEF StoreInv
    <3>6. ASSUME NEW label \in Labels, NEW v \in Vectors, UpdateVector(label, v) PROVE StoreInv'
      <4>1. /\ lt' = lt /\ total_count' = total_count
            /\ codes' = [codes EXCEPT ![IdOf(lt, label)] = v]
            /\ codes \in [Ids -> Vectors \cup {NoVector}]
        BY <1>0, <3>6 DEF UpdateVector, CountsTyped
      <4>2. \A i \in Ids : codes'[i] = codes[i] \/ codes'[i] = v
        BY <4>1
      <4> QED
        BY <1>0, <4>1, <4>2 DEF StoreInv
    <3>7. CASE lt.deleted = {} /\ codes_count = total_count /\ Clone
      BY <1>0, <3>7, CloneForm DEF StoreInv
    <3> QED
      BY <3>1, <3>2, <3>3, <3>4, <3>5, <3>6, <3>7 DEF ApartNext, Edit, Shrink
  <2> QED
    BY <2>1, <2>2 DEF ApartInv
<1>2. CASE lt.deleted = {} /\ codes_count = total_count /\ Clone
  <2>1. /\ lt' = lt /\ total_count' = total_count /\ delete_count' = delete_count
        /\ codes' = codes /\ max_capacity' = max_capacity
    BY <1>0, <1>2, CloneForm
  <2>2. GraphsTyped'
    BY <1>0, <1>2, CloneGraphs
  <2> QED
    BY <1>0, <2>1, <2>2 DEF ApartInv, LabelInv, CountsTyped, StoreInv
<1> QED
  BY <1>1, <1>2, ApartSteps

LEMMA AlwaysApartInv == ApartSpec => []ApartInv
<1>1. PersistInit => ApartInv
  BY InitInv, InitTyped, InitStore DEF PersistInit, ApartInv
<1> QED
  BY <1>1, ApartInvKept, PTL DEF ApartSpec

(* While FORCE_REMOVE meets a last point that its label is mapped to, and     *)
(* Clone an index with nothing removed, GetNumElements is the number of      *)
(* labels that are present: for any sequence of calls in both modes.         *)
THEOREM HGraphCount == ApartSpec => []CountIsExact
<1>1. ASSUME ApartInv PROVE CountIsExact
  <2>1. /\ lt \in Table /\ total_count \in 0 .. MaxId /\ LabelsAgree(lt, total_count)
        /\ \A i \in lt.deleted : i < total_count
    BY <1>1 DEF ApartInv, LabelInv, CountsTyped, StoreInv
  <2>2. Cardinality({l \in Labels : CheckLabel(lt, l)}) = total_count - Cardinality(lt.deleted)
    BY <2>1, PresentCount
  <2> QED
    BY <1>1, <2>2 DEF ApartInv, CountsTyped, GetNumElements, CountIsExact
<1> QED
  BY <1>1, AlwaysApartInv, PTL

(* The calls seen from the abstract store.                                  *)
LEMMA HGraphStoreSteps ==
    ASSUME ApartInv, ApartNext
    PROVE  \/ Store!Edit
           \/ \E l \in Labels, v \in Vectors : UpdateVector(l, v) /\ Store!Update(l, v)
           \/ UNCHANGED StoreView
<1> DEFINE view(l) == IF CheckLabel(lt, l) THEN codes[IdOf(lt, l)] ELSE NoVector
           view2(l) == IF CheckLabel(lt', l) THEN codes'[IdOf(lt', l)] ELSE NoVector
<1>0. /\ LabelInv /\ CountsTyped /\ StoreInv
      /\ Labels \subseteq AnyLabel /\ lt \in Table /\ total_count \in Int
      /\ \A i \in Ids : i \in Int /\ i # INVALID_ID
  BY IdFacts DEF ApartInv, CountsTyped, LabelInv
<1>1. StoreView = [l \in Labels |-> view(l)] /\ StoreView' = [l \in Labels |-> view2(l)]
  BY DEF StoreView
<1>2. \A l \in AnyLabel : Found(lt, l) =>
         IdOf(lt, l) \in Ids /\ IdOf(lt, l) < total_count /\ lt.table[IdOf(lt, l)] = l
  BY <1>0, TableFields DEF LabelInv, PointsBack
<1>3. ASSUME \A l \in Labels : view2(l) = view(l) PROVE UNCHANGED StoreView
  <2> HIDE DEF view, view2
  <2> QED
    BY <1>1, <1>3
<1>4. ASSUME NEW label \in Labels, NEW v \in Vectors, NEW level \in -1 .. MaxLevel,
             Add(label, v, level)
      PROVE  Store!Edit
  <2> DEFINE n == total_count
  <2>1. /\ n \in Ids /\ ~ CheckLabel(lt, label)
        /\ codes'[n] = v /\ \A i \in Ids : i # n => codes'[i] = codes[i]
    BY <1>0, <1>4, AddSlots
  <2>2. PICK slots \in Table :
           /\ lt' = Insert(slots, total_count, label)
           /\ slots.table = lt.table /\ slots.remap = lt.remap
           /\ slots.deleted = lt.deleted /\ total_count <= slots.size
    BY <1>0, <1>4, AddSlots
  <2>3. /\ lt'.deleted = lt.deleted /\ IdOf(lt', label) = n
        /\ \A m \in AnyLabel : m # label => IdOf(lt', m) = IdOf(lt, m)
    <3>1. /\ Insert(slots, n, label).deleted = slots.deleted
          /\ IdOf(Insert(slots, n, label), label) = n
          /\ \A m \in AnyLabel : m # label => IdOf(Insert(slots, n, label), m) = IdOf(slots, m)
      BY <1>0, <2>1, InsertFields
    <3> QED
      BY <2>2, <3>1 DEF IdOf
  <2>4. CheckLabel(lt', label)
    <3>1. n \notin lt.deleted /\ n # INVALID_ID
      BY <1>0, <2>1 DEF StoreInv
    <3> QED
      BY <2>3, <3>1 DEF CheckLabel, Found, IsRemoved
  <2>5. ASSUME NEW l \in Labels, l # label PROVE view2(l) = view(l)
    <3>1. IdOf(lt', l) = IdOf(lt, l) /\ (CheckLabel(lt', l) <=> CheckLabel(lt, l))
      BY <1>0, <2>3, <2>5 DEF CheckLabel, Found, IsRemoved
    <3>2. CheckLabel(lt, l) => IdOf(lt, l) \in Ids /\ IdOf(lt, l) # n
      BY <1>0, <1>2 DEF CheckLabel
    <3> QED
      BY <2>1, <3>1, <3>2
  <2>6. view(label) = NoVector /\ view2(label) = v
    BY <2>1, <2>3, <2>4
  <2> HIDE DEF view, view2
  <2>7. StoreView[label] = NoVector /\ StoreView' = [StoreView EXCEPT ![label] = v]
    BY <1>1, <2>5, <2>6
  <2> QED
    BY <2>7 DEF Store!Edit, Store!Add
<1>5. ASSUME NEW label \in Labels, view2(label) = NoVector,
             \A l \in Labels : l # label => view2(l) = view(l)
      PROVE  Store!Edit
  <2> HIDE DEF view, view2
  <2>1. StoreView' = [StoreView EXCEPT ![label] = NoVector]
    BY <1>1, <1>5
  <2> QED
    BY <2>1 DEF Store!Edit, Store!Remove
<1>6. ASSUME NEW label \in Labels, RemoveMark(label) PROVE Store!Edit
  <2>1. /\ lt'.remap = lt.remap /\ codes' = codes
        /\ lt'.deleted = lt.deleted \cup (IF Found(lt, label) THEN {IdOf(lt, label)} ELSE {})
    <3>1. label \in AnyLabel
      BY <1>0
    <3> QED
      BY <1>0, <1>6, <3>1, MarkFields DEF RemoveMark
  <2>2. \A l : IdOf(lt', l) = IdOf(lt, l)
    BY <2>1 DEF IdOf
  <2>3. ~ CheckLabel(lt', label)
    BY <2>1, <2>2 DEF CheckLabel, Found, IsRemoved
  <2>4. ASSUME NEW l \in Labels, l # label PROVE CheckLabel(lt', l) <=> CheckLabel(lt, l)
    <3>1. CheckLabel(lt, l) /\ Found(lt, label) => IdOf(lt, l) # IdOf(lt, label)
      BY <1>0, <1>2, <2>4 DEF CheckLabel
    <3> QED
      BY <2>1, <2>2, <3>1 DEF CheckLabel, Found, IsRemoved
  <2>5. view2(label) = NoVector /\ \A l \in Labels : l # label => view2(l) = view(l)
    BY <2>1, <2>2, <2>3, <2>4
  <2> HIDE DEF view, view2
  <2> QED
    BY <1>5, <2>5
<1>7. ASSUME NEW label \in Labels, LastIsMapped, RemoveForce(label) PROVE Store!Edit
  <2> DEFINE id == IdOf(lt, label)
             last == total_count - 1
  <2>1. /\ id \in Ids /\ last \in Ids /\ id <= last /\ lt.table[id] = label
        /\ label \in AnyLabel /\ lt' = Forced(lt, label, last)
        /\ \A i \in Ids : i < last => codes'[i] = IF i = id THEN codes[last] ELSE codes[i]
    BY <1>0, <1>7, ForceSlots
  <2>2. /\ id \in Int /\ last \in Int /\ total_count = last + 1 /\ id = IdOf(lt, label)
        /\ IdOf(lt, lt.table[last]) = last /\ lt.table[last] \in AnyLabel
    BY <1>0, <1>7, <2>1, TableFields, IdFacts DEF LastIsMapped
  <2> DEFINE a == lt.table[last]
  <2> HIDE DEF id, last
  <2>3. \A i \in Ids : i \in Forced(lt, label, last).deleted
                 <=> \/ i # id /\ i # last /\ i \in lt.deleted
                     \/ i = id /\ id # last /\ last \in lt.deleted
    BY <1>0, <2>1, <2>2, ForcedFields
  <2>4. \A m \in AnyLabel : IdOf(Forced(lt, label, last), m)
                 = IF m = lt.table[last] /\ id # last THEN id
                   ELSE IF m = label THEN INVALID_ID ELSE IdOf(lt, m)
    BY <1>0, <2>1, <2>2, ForcedFields
  <2>5. ~ CheckLabel(lt', label)
    <3>1. id # last => label # lt.table[last]
      BY <2>2
    <3>2. IdOf(lt', label) = INVALID_ID
      BY <2>1, <2>4, <3>1
    <3> QED
      BY <3>2 DEF CheckLabel, Found
  <2>6. ASSUME NEW l \in Labels, l # label PROVE view2(l) = view(l)
    <3>1. l \in AnyLabel
      BY <1>0
    <3>2. CASE l = a /\ id # last
      <4>1. IdOf(lt', l) = id /\ IdOf(lt, l) = last /\ id < last
        BY <2>1, <2>2, <2>4, <3>1, <3>2
      <4>2. CheckLabel(lt', l) <=> CheckLabel(lt, l)
        BY <1>0, <2>1, <2>3, <3>2, <4>1 DEF CheckLabel, Found, IsRemoved
      <4> QED
        BY <2>1, <4>1, <4>2
    <3>3. CASE ~ (l = a /\ id # last)
      <4>1. IdOf(lt', l) = IdOf(lt, l)
        BY <2>1, <2>4, <2>6, <3>1, <3>3
      <4>2. ASSUME Found(lt, l)
            PROVE  IdOf(lt, l) \in Ids /\ IdOf(lt, l) # id /\ IdOf(lt, l) # last
                     /\ IdOf(lt, l) < last
        <5>1. IdOf(lt, l) \in Ids /\ IdOf(lt, l) < total_count /\ lt.table[IdOf(lt, l)] = l
          BY <1>2, <3>1, <4>2
        <5>2. IdOf(lt, l) # id /\ IdOf(lt, l) # last
          BY <2>1, <2>6, <3>3, <5>1
        <5>3. IdOf(lt, l) \in Int
          BY <1>0, <5>1
        <5> QED
          BY <2>2, <5>1, <5>2, <5>3
      <4>3. CheckLabel(lt', l) <=> CheckLabel(lt, l)
        BY <2>1, <2>3, <4>1, <4>2 DEF CheckLabel, Found, IsRemoved
      <4> QED
        BY <2>1, <4>1, <4>2, <4>3 DEF CheckLabel
    <3> QED
      BY <3>2, <3>3
  <2>7. view2(label) = NoVector
    BY <2>5
  <2> HIDE DEF view, view2
  <2> QED
    BY <1>5, <2>6, <2>7
<1>8. ASSUME NEW old \in Labels, NEW new \in Labels, UpdateId(old, new)
      PROVE  Store!Edit \/ UNCHANGED StoreView
  <2>1. /\ old \in AnyLabel /\ new \in AnyLabel /\ old # new /\ lt' = UpdateLabel(lt, old, new)
        /\ ~ CheckLabel(lt, new) /\ codes' = codes
    BY <1>8, IdFacts DEF UpdateId, CanUpdateLabel
  <2>2. /\ lt'.deleted = lt.deleted
        /\ \A m \in AnyLabel : IdOf(lt', m)
              = IF ~ Found(lt, old) THEN IdOf(lt, m)
                ELSE IF m = new THEN IdOf(lt, old)
                ELSE IF m = old THEN INVALID_ID ELSE IdOf(lt, m)
    BY <1>0, <2>1, UpdateFields
  <2>3. CASE ~ Found(lt, old)
    <3>1. \A l \in Labels : IdOf(lt', l) = IdOf(lt, l) /\ (CheckLabel(lt', l) <=> CheckLabel(lt, l))
      BY <1>0, <2>2, <2>3 DEF CheckLabel, Found, IsRemoved
    <3> QED
      BY <1>3, <2>1, <3>1
  <2>4. CASE Found(lt, old)
    <3>1. /\ IdOf(lt', new) = IdOf(lt, old) /\ (CheckLabel(lt', new) <=> CheckLabel(lt, old))
          /\ ~ CheckLabel(lt', old)
          /\ \A l \in Labels : l # old /\ l # new =>
                IdOf(lt', l) = IdOf(lt, l) /\ (CheckLabel(lt', l) <=> CheckLabel(lt, l))
      BY <1>0, <2>1, <2>2, <2>4 DEF CheckLabel, Found, IsRemoved
    <3>2. /\ view(new) = NoVector /\ view2(new) = view(old) /\ view2(old) = NoVector
          /\ \A l \in Labels : l # old /\ l # new => view2(l) = view(l)
      BY <2>1, <3>1
    <3> HIDE DEF view, view2
    <3>3. /\ StoreView[new] = NoVector
          /\ StoreView' = [StoreView EXCEPT ![new] = StoreView[old], ![old] = NoVector]
      BY <1>1, <2>1, <3>2
    <3> QED
      BY <3>3 DEF Store!Edit, Store!Rename
  <2> QED
    BY <2>3, <2>4
<1>9. ASSUME NEW label \in Labels, NEW v \in Vectors, UpdateVector(label, v)
      PROVE  Store!Update(label, v)
  <2> DEFINE id == IdOf(lt, label)
  <2>1. /\ CheckLabel(lt, label) /\ lt' = lt /\ codes' = [codes EXCEPT ![id] = v]
        /\ codes \in [Ids -> Vectors \cup {NoVector}]
    BY <1>0, <1>9 DEF UpdateVector, CountsTyped
  <2>2. id \in Ids /\ id < total_count /\ lt.table[id] = label
    BY <1>0, <1>2, <2>1 DEF CheckLabel
  <2>3. codes[id] \in Vectors /\ codes'[id] = v
    BY <1>0, <2>1, <2>2 DEF StoreInv
  <2>4. ASSUME NEW l \in Labels, l # label PROVE view2(l) = view(l)
    <3>1. CheckLabel(lt, l) => IdOf(lt, l) \in Ids /\ IdOf(lt, l) # id
      BY <1>0, <1>2, <2>2, <2>4 DEF CheckLabel
    <3> HIDE DEF id
    <3> QED
      BY <2>1, <3>1
  <2>5. view(label) # NoVector /\ view2(label) = v
    BY <2>1, <2>3, NoVectorAssumption
  <2> HIDE DEF view, view2
  <2>6. StoreView[label] # NoVector /\ StoreView' = [StoreView EXCEPT ![label] = v]
    BY <1>1, <2>4, <2>5
  <2> QED
    BY <2>6 DEF Store!Update
<1>10. CASE lt.deleted = {} /\ codes_count = total_count /\ Clone
  <2>1. lt' = lt /\ codes' = codes
    BY <1>0, <1>10, CloneForm
  <2> QED
    BY <1>3, <2>1
<1> QED
  BY <1>4, <1>6, <1>7, <1>8, <1>9, <1>10 DEF ApartNext, Edit, Shrink

(* HGraph implements the abstract store: with FORCE_REMOVE and Clone called  *)
(* where their effects stay apart, every call is one operation of the store  *)
(* or none, although a removal moves another point's label, vector and edges *)
(* to the freed id and the search is never asked.                            *)
THEOREM HGraphRefinesStore == ApartSpec => ImplementsStore
<1>1. PersistInit => Store!Init
  <2> SUFFICES ASSUME Init PROVE Store!Init
    BY DEF PersistInit
  <2>1. lt.remap = [l \in AnyLabel |-> INVALID_ID]
    BY DEF Init, Resize, EmptyTable
  <2>2. \A l \in Labels : ~ CheckLabel(lt, l)
    BY <2>1, IdFacts DEF CheckLabel, Found, IdOf
  <2> QED
    BY <2>2 DEF StoreView, Store!Init
<1>2. ASSUME UNCHANGED pvars PROVE UNCHANGED StoreView
  BY <1>2 DEF pvars, vars, StoreView
<1>3. ApartInv /\ [ApartNext]_pvars =>
        [\/ Store!Edit
         \/ \E l \in Labels, v \in Vectors : UpdateVector(l, v) /\ Store!Update(l, v)]_StoreView
  BY <1>2, HGraphStoreSteps
<1> QED
  BY <1>1, <1>3, AlwaysApartInv, PTL DEF ApartSpec, ImplementsStore

(* The calls of ApartSpec keep the levels tidy: a clone has the lists of the  *)
(* index, and FORCE_REMOVE finds the reverse edges complete.                 *)
LEMMA ApartTidy ==
    ASSUME UseReverseEdges, ApartInv, TidyInv, EntryDefined, [ApartNext]_pvars
    PROVE  TidyInv'
<1>0. LabelInv /\ GraphsTyped /\ CountsTyped /\ StoreInv
  BY DEF ApartInv
<1>1. CASE UNCHANGED <<total_count, bottom, routes, entry>>
  BY <1>1 DEF TidyInv, LevelsInv, EdgesStayInside
<1>2. ASSUME NEW label \in Labels, NEW v \in Vectors, NEW level \in -1 .. MaxLevel,
             Add(label, v, level)
      PROVE  TidyInv'
  BY <1>0, <1>2, AddTidy
<1>3. ASSUME NEW label \in Labels, ReverseEdgesMirror, RemoveForce(label) PROVE TidyInv'
  <2>1. GraphInv
    <3>1. \A j \in DOMAIN routes : routes[j] \in Graph
      BY <1>0 DEF GraphsTyped
    <3> QED
      BY <1>0, <1>3, <3>1 DEF GraphInv, GraphsTyped, ReverseEdgesMirror, Sound
  <2> QED
    BY <1>0, <1>3, <2>1, ForceTidy
<1>4. ASSUME NEW label \in Labels, RemoveMark(label)
      PROVE  UNCHANGED <<total_count, bottom, routes, entry>>
  BY <1>4 DEF RemoveMark
<1>5. ASSUME NEW old \in Labels, NEW new \in Labels, UpdateId(old, new)
      PROVE  UNCHANGED <<total_count, bottom, routes, entry>>
  BY <1>5 DEF UpdateId
<1>6. ASSUME NEW label \in Labels, NEW v \in Vectors, UpdateVector(label, v)
      PROVE  UNCHANGED <<total_count, bottom, routes, entry>>
  BY <1>6 DEF UpdateVector
<1>7. CASE lt.deleted = {} /\ codes_count = total_count /\ Clone
  <2>1. /\ bottom'.nbrs = bottom.nbrs /\ bottom'.has = bottom.has /\ bottom'.any = bottom.any
        /\ Len(routes') = Len(routes)
        /\ \A j \in 1 .. Len(routes) : /\ routes'[j].nbrs = routes[j].nbrs
                                       /\ routes'[j].has = routes[j].has
    BY <1>0, <1>7, CloneGraphs
  <2>2. total_count' = total_count /\ entry' = entry
    BY <1>0, <1>7, CloneForm
  <2>3. DOMAIN routes = 1 .. Len(routes) /\ DOMAIN routes' = 1 .. Len(routes)
    BY <1>0, <1>7 DEF GraphsTyped, Clone
  <2>4. EdgesStayInside'
    BY <2>1, <2>2, <2>3 DEF TidyInv, LevelsInv, EdgesStayInside, EdgesInside
  <2>5. routes = <<>> => routes' = <<>>
    <3>1. routes' = [j \in DOMAIN routes |-> ReadSparse(routes[j])]
      BY <1>7 DEF Clone
    <3> QED
      BY <3>1
  <2> QED
    BY <2>1, <2>2, <2>4, <2>5 DEF TidyInv, LevelsInv
<1> QED
  BY <1>1, <1>2, <1>3, <1>4, <1>5, <1>6, <1>7 DEF ApartNext, Edit, Shrink, pvars, vars

(* Under the same conditions, with reverse edges and a defined entry, what a *)
(* search can return is present and no label comes twice: its walk stays     *)
(* among the points, and a live point is the only one with its label.        *)
THEOREM HGraphSearch ==
    UseReverseEdges => (ApartSpec /\ []EntryDefined => []SearchReturnsEachLabelOnce)
<1> SUFFICES ASSUME UseReverseEdges
             PROVE  ApartSpec /\ []EntryDefined => []SearchReturnsEachLabelOnce
  OBVIOUS
<1>1. PersistInit => TidyInv
  BY InitTidy DEF PersistInit
<1>2. ApartInv /\ TidyInv /\ EntryDefined /\ [ApartNext]_pvars => TidyInv'
  BY ApartTidy
<1>3. ASSUME ApartInv, TidyInv, EntryIsAPoint, NEW i \in Searchable
      PROVE  CheckLabel(lt, lt.table[i]) /\ IdOf(lt, lt.table[i]) = i
  <2>1. /\ i \in Reachable(bottom, entry) /\ ~ IsRemoved(lt, i)
        /\ GetNumElements # 0 /\ entry # INVALID_ID
    BY <1>3 DEF Searchable
  <2>2. /\ total_count \in 0 .. MaxId /\ delete_count = Cardinality(lt.deleted)
        /\ lt.deleted \in SUBSET Ids /\ bottom \in Graph /\ EdgesInside(bottom, total_count)
    BY <1>3, TableFields
       DEF ApartInv, LabelInv, CountsTyped, GraphsTyped, TidyInv, LevelsInv, EdgesStayInside
  <2>3. total_count # 0
    <3> SUFFICES ASSUME total_count = 0 PROVE FALSE
      OBVIOUS
    <3>1. lt.deleted = {}
      BY <1>3, <2>2, IdFacts DEF ApartInv, StoreInv
    <3> QED
      BY <2>1, <2>2, <3>1, FS_EmptySet DEF GetNumElements
  <2>4. entry \in bottom.has /\ entry \in 0 .. total_count - 1
    BY <1>3, <2>2, <2>3 DEF TidyInv, LevelsInv, EntryIsAPoint
  <2>5. i \in bottom.has /\ (i < total_count \/ i = entry)
    BY <2>1, <2>2, <2>4, ReachableInside
  <2>6. i \in Ids /\ i < total_count
    BY <2>2, <2>4, <2>5 DEF Graph
  <2>7. IdOf(lt, lt.table[i]) = i
    BY <1>3, <2>1, <2>6 DEF ApartInv, StoreInv, LabelsAgree, LiveMapped, IsRemoved
  <2> QED
    BY <2>1, <2>6, <2>7, IdFacts DEF CheckLabel, Found
<1>4. ApartInv /\ TidyInv => SearchReturnsEachLabelOnce
  BY <1>3 DEF SearchReturnsEachLabelOnce
<1> QED
  BY <1>1, <1>2, <1>4, AlwaysApartInv, PTL DEF ApartSpec

----------------------------------------------------------------------------
(* When no list of the bottom level is ever cut it stays in one piece.       *)

JoinedInv == Symmetric(bottom) /\ Joined(bottom, total_count)

LEMMA BottomNeverCut == MaxDegree > MaxId => NeverCut(MaxDegree)
<1> SUFFICES ASSUME MaxDegree > MaxId, NEW C \in SUBSET Ids PROVE Cardinality(C) < MaxDegree
  BY DEF NeverCut
<1>1. Cardinality(C) \in 0 .. MaxId
  BY SubsetsFinite
<1> QED
  BY <1>1, IdFacts, DegreeAssumption

(* Add: a search from a point of the index finds one to connect to.         *)
LEMMA AddJoined ==
    ASSUME NeverCut(MaxDegree), NEW label \in Labels, NEW v \in Vectors,
           NEW level \in -1 .. MaxLevel, Add(label, v, level),
           LabelInv, GraphsTyped, TidyInv, JoinedInv, EntryDefined, EntryIsAPoint
    PROVE  JoinedInv'
<1> DEFINE n == total_count
<1>0. n \in Ids /\ n \in Nat /\ total_count' = n + 1 /\ \A i \in Ids : i \in Int /\ 0 <= i
  BY IdFacts DEF Add, LabelInv
<1>1. PICK ep \in StartsBelow(level) : bottom' \in Linked(bottom, n, ep, MaxDegree)
  BY DEF Add
<1>2. bottom \in Graph /\ EdgesInside(bottom, n) /\ Symmetric(bottom) /\ Joined(bottom, n)
  BY DEF GraphsTyped, TidyInv, LevelsInv, EdgesStayInside, JoinedInv
<1>3. ep <= n /\ (bottom.any => ep \in bottom.has)
  BY <1>0, DescentStaysOnLevels DEF TidyInv
<1>4. n # 0 => ep < n
  <2> SUFFICES ASSUME n # 0 PROVE ep < n
    OBVIOUS
  <2>1. entry < n
    BY <1>0 DEF EntryIsAPoint
  <2> QED
    BY <1>0, <2>1, DescentStaysOnLevels DEF TidyInv
<1>5. CASE bottom.any
  <2>1. PICK found \in (SUBSET Reachable(bottom, ep)) \ {{}} :
           bottom' \in Connected(bottom, n, found \ {n}, MaxDegree)
    BY <1>1, <1>5 DEF Linked
  <2> DEFINE C == found \ {n}
  <2>2. C \in SUBSET Ids /\ bottom' \in Connected(bottom, n, C, MaxDegree)
    BY <2>1 DEF Reachable
  <2>3. \A c \in found : c \in bottom.has /\ (c < n \/ c = ep)
    BY <1>2, <1>3, <1>5, <2>1, ReachableInside
  <2>4. \A c \in C : c < n
    <3> SUFFICES ASSUME NEW c \in C PROVE c < n
      OBVIOUS
    <3>1. c \in Int /\ c # n
      BY <1>0, <2>2
    <3>2. c < n \/ c = ep
      BY <2>3
    <3>3. c <= n
      BY <1>0, <1>3, <3>1, <3>2
    <3> QED
      BY <1>0, <3>1, <3>3
  <2>5. C # {} \/ n = 0
    <3> SUFFICES ASSUME n # 0 PROVE C # {}
      OBVIOUS
    <3>1. PICK c \in found : TRUE
      BY <2>1
    <3>2. c \in Ids /\ c < n
      BY <1>4, <2>1, <2>3, <3>1 DEF Reachable
    <3>3. c # n
      BY <1>0, <3>2
    <3> QED
      BY <3>1, <3>3
  <2> HIDE DEF C, n
  <2>6. Symmetric(bottom') /\ Joined(bottom', n + 1)
    BY <1>0, <1>2, <2>2, <2>4, <2>5, ConnectedJoined
  <2> QED
    BY <1>0, <2>6 DEF JoinedInv
<1>6. CASE ~ bottom.any
  <2> DEFINE none == {}
  <2>1. n = 0 /\ bottom' = InsertNeighborsById(bottom, n, none) /\ none \in SUBSET Ids
    BY <1>1, <1>6 DEF Linked, TidyInv, LevelsInv
  <2>2. bottom'.nbrs = [i \in Ids |-> IF i = n THEN none ELSE bottom.nbrs[i]]
    <3> DEFINE h == InsertNeighborsById(bottom, n, none)
    <3>1. bottom \in Graph /\ n \in Ids /\ none \in SUBSET Ids
      BY <1>0, <1>2
    <3>2. h.nbrs = [i \in Ids |-> IF i = n THEN none ELSE bottom.nbrs[i]]
      <4> HIDE DEF none, n
      <4> QED
        BY <3>1, InsertTyped
    <3> HIDE DEF none, n
    <3> QED
      BY <2>1, <3>2
  <2>3. \A i \in Ids : bottom.nbrs[i] = {}
    <3>1. \A i, x \in Ids : x \in bottom.nbrs[i] => x < n
      BY <1>2 DEF EdgesInside
    <3>2. \A x \in Ids : ~ (x < n)
      BY <1>0, <2>1
    <3> QED
      BY <1>2, <3>1, <3>2 DEF Graph
  <2>4. \A i \in Ids : bottom'.nbrs[i] = {}
    BY <2>2, <2>3
  <2>5. \A i \in Ids : i < n + 1 => i = 0
    BY <1>0, <2>1
  <2> QED
    BY <1>0, <2>4, <2>5 DEF JoinedInv, Symmetric, Joined
<1> QED
  BY <1>5, <1>6

(* RemoveForce.                                                             *)
LEMMA ForceJoined ==
    ASSUME UseReverseEdges, NeverCut(MaxDegree), NEW label \in Labels, RemoveForce(label),
           LabelInv, GraphInv, TidyInv, JoinedInv
    PROVE  JoinedInv'
<1> DEFINE id == IdOf(lt, label)
           last == total_count - 1
           n == total_count
<1>0. routes \in Seq(Graph) /\ Sound(bottom) /\ EdgesInside(bottom, n)
      /\ Symmetric(bottom) /\ Joined(bottom, n)
  BY DEF GraphInv, TidyInv, LevelsInv, EdgesStayInside, JoinedInv
<1>1. /\ id \in Ids /\ last \in Ids /\ id <= last /\ total_count' = last
      /\ \E e, rts, b, rs :
            /\ Kept(id, e, rts) /\ rts \in Seq(Graph)
            /\ b \in ForceRemoved(bottom, id, total_count, MaxDegree)
            /\ rs \in Choices(Removals(id, rts))
            /\ Moved(id, last, e, b, rs)
  BY <1>0, RemoveForceForm
<1>2. n = last + 1 /\ n \in Int /\ id \in Int /\ last \in Int /\ id < n
  BY <1>1, IdFacts DEF LabelInv
<1>3. PICK b \in ForceRemoved(bottom, id, n, MaxDegree) :
         IF last = id THEN bottom' = b ELSE bottom' = MoveDense(b, last, id)
  BY <1>1 DEF Moved
<1> HIDE DEF id, last, n
<1>4. Sound(b) /\ EdgesInside(b, n) /\ NoEdgeAt(b, id)
  <2>1. Sound(b)
    BY <1>0, <1>1, <1>3, ForceRemovedSound
  <2>2. EdgesInside(b, n) /\ NoEdgeAt(b, id)
    BY <1>0, <1>1, <1>3, ForceRemovedTidy
  <2> QED
    BY <2>1, <2>2
<1>5. Symmetric(b) /\ JoinedBut(b, n, id)
  BY <1>0, <1>1, <1>2, <1>3, ForceRemovedJoined
<1>6. CASE last = id
  <2>1. Joined(b, last)
    BY <1>1, <1>2, <1>5, <1>6, LastJoined
  <2> QED
    BY <1>1, <1>3, <1>5, <1>6, <2>1 DEF JoinedInv
<1>7. CASE last # id
  <2>0. id < last
    BY <1>1, <1>2, <1>7
  <2>1. Symmetric(MoveDense(b, last, id)) /\ Joined(MoveDense(b, last, id), last)
    BY <1>1, <1>2, <1>4, <1>5, <2>0, MoveJoined
  <2> QED
    BY <1>1, <1>3, <1>7, <2>1 DEF JoinedInv
<1> QED
  BY <1>6, <1>7

(* The entry stays defined: of an index with one point, it is that point.    *)
LEMMA ForceEntry ==
    ASSUME NEW label \in Labels, RemoveForce(label), LabelInv, GraphsTyped, TidyInv,
           EntryIsAPoint, EntryIsAPoint'
    PROVE  EntryDefined'
<1> DEFINE id == IdOf(lt, label)
           last == total_count - 1
<1>0. routes \in Seq(Graph) /\ \A k \in 1 .. Len(routes) : routes[k] \in Graph
  BY DEF GraphsTyped
<1>1. /\ id \in Ids /\ last \in Ids /\ id <= last /\ total_count' = last
      /\ \E e, rts, b, rs : Kept(id, e, rts) /\ Moved(id, last, e, b, rs)
  BY <1>0, RemoveForceForm
<1>2. /\ last \in Int /\ 0 <= last /\ id \in Int /\ 0 <= id /\ total_count = last + 1
      /\ \A i \in Ids : i \in Int /\ 0 <= i
  BY <1>1, IdFacts DEF LabelInv
<1>3. CASE last > 0
  <2>1. entry' \in 0 .. last - 1
    BY <1>1, <1>2, <1>3 DEF EntryIsAPoint
  <2> QED
    BY <1>1, <1>2, <2>1 DEF EntryDefined
<1>4. CASE last = 0
  <2>1. entry = 0 /\ id = 0
    BY <1>1, <1>2, <1>4 DEF EntryIsAPoint
  <2>2. ASSUME NEW k \in 1 .. Len(routes), NEW e \in routes[k].nbrs[0] PROVE FALSE
    <3>1. e \in Ids /\ 0 \in Ids
      BY <1>0, <1>1, <1>4, <2>2 DEF Graph
    <3>2. EdgesInside(routes[k], 1)
      BY <1>0, <1>2, <1>4 DEF TidyInv, LevelsInv, EdgesStayInside
    <3>3. e < 1 /\ e # 0
      BY <2>2, <3>1, <3>2 DEF EdgesInside
    <3> QED
      BY <1>2, <3>1, <3>3
  <2>3. PICK e, rts, b, rs : Kept(id, e, rts) /\ Moved(id, last, e, b, rs)
    BY <1>1
  <2>4. e = 0
    BY <2>1, <2>2, <2>3 DEF Kept
  <2>5. entry' = 0
    BY <1>4, <2>1, <2>3, <2>4 DEF Moved
  <2> QED
    BY <1>1, <1>4, <2>5 DEF EntryDefined
<1> QED
  BY <1>2, <1>3, <1>4

(* Every call keeps the entry defined, as long as it is a point.            *)
LEMMA EntryKept ==
    ASSUME ApartInv, TidyInv, EntryDefined, EntryIsAPoint, EntryIsAPoint', [ApartNext]_pvars
    PROVE  EntryDefined'
<1>0. LabelInv /\ GraphsTyped /\ CountsTyped
  BY DEF ApartInv
<1>1. CASE UNCHANGED <<total_count, entry>>
  BY <1>1 DEF EntryDefined
<1>2. ASSUME NEW label \in Labels, NEW v \in Vectors, NEW level \in -1 .. MaxLevel,
             Add(label, v, level)
      PROVE  EntryDefined'
  <2>1. total_count' = total_count + 1 /\ total_count \in 0 .. MaxId
    BY <1>0, <1>2 DEF Add, LabelInv
  <2>2. entry' \in 0 .. total_count' - 1
    BY <2>1, MaxIdAssumption DEF EntryIsAPoint
  <2> QED
    BY <2>1, <2>2, MaxIdAssumption DEF EntryDefined
<1>3. ASSUME NEW label \in Labels, RemoveForce(label) PROVE EntryDefined'
  BY <1>0, <1>3, ForceEntry
<1>4. CASE lt.deleted = {} /\ codes_count = total_count /\ Clone
  BY <1>0, <1>4, CloneForm DEF EntryDefined
<1>5. ASSUME NEW label \in Labels, RemoveMark(label) PROVE UNCHANGED <<total_count, entry>>
  BY <1>5 DEF RemoveMark
<1>6. ASSUME NEW old \in Labels, NEW new \in Labels, UpdateId(old, new)
      PROVE  UNCHANGED <<total_count, entry>>
  BY <1>6 DEF UpdateId
<1>7. ASSUME NEW label \in Labels, NEW v \in Vectors, UpdateVector(label, v)
      PROVE  UNCHANGED <<total_count, entry>>
  BY <1>7 DEF UpdateVector
<1> QED
  BY <1>1, <1>2, <1>3, <1>4, <1>5, <1>6, <1>7 DEF ApartNext, Edit, Shrink, pvars, vars

(* ... and the bottom level in one piece.                                    *)
LEMMA JoinedKept ==
    ASSUME UseReverseEdges, MaxDegree > MaxId, ApartInv, TidyInv, EntryDefined, EntryIsAPoint,
           JoinedInv, [ApartNext]_pvars
    PROVE  JoinedInv'
<1>0. LabelInv /\ GraphsTyped /\ CountsTyped /\ NeverCut(MaxDegree)
  BY BottomNeverCut DEF ApartInv
<1>1. CASE UNCHANGED <<total_count, bottom>>
  BY <1>1 DEF JoinedInv
<1>2. ASSUME NEW label \in Labels, NEW v \in Vectors, NEW level \in -1 .. MaxLevel,
             Add(label, v, level)
      PROVE  JoinedInv'
  BY <1>0, <1>2, AddJoined
<1>3. ASSUME NEW label \in Labels, ReverseEdgesMirror, RemoveForce(label) PROVE JoinedInv'
  <2>1. GraphInv
    <3>1. \A j \in DOMAIN routes : routes[j] \in Graph
      BY <1>0 DEF GraphsTyped
    <3> QED
      BY <1>0, <1>3, <3>1 DEF GraphInv, GraphsTyped, ReverseEdgesMirror, Sound
  <2> QED
    BY <1>0, <1>3, <2>1, ForceJoined
<1>4. CASE lt.deleted = {} /\ codes_count = total_count /\ Clone
  <2>1. bottom'.nbrs = bottom.nbrs
    BY <1>0, <1>4, CloneGraphs
  <2>2. total_count' = total_count
    BY <1>0, <1>4, CloneForm
  <2> QED
    BY <2>1, <2>2 DEF JoinedInv, Symmetric, Joined, Closed
<1>5. ASSUME NEW label \in Labels, RemoveMark(label) PROVE UNCHANGED <<total_count, bottom>>
  BY <1>5 DEF RemoveMark
<1>6. ASSUME NEW old \in Labels, NEW new \in Labels, UpdateId(old, new)
      PROVE  UNCHANGED <<total_count, bottom>>
  BY <1>6 DEF UpdateId
<1>7. ASSUME NEW label \in Labels, NEW v \in Vectors, UpdateVector(label, v)
      PROVE  UNCHANGED <<total_count, bottom>>
  BY <1>7 DEF UpdateVector
<1> QED
  BY <1>1, <1>2, <1>3, <1>4, <1>5, <1>6, <1>7 DEF ApartNext, Edit, Shrink, pvars, vars

(* As long as the entry is a point, and when no list is ever cut, a search of *)
(* the bottom graph can visit every point: an edge always leads both ways,   *)
(* and a removal joins the neighbours of the point it takes out.             *)
THEOREM HGraphReachable ==
    UseReverseEdges => (ApartSpec /\ []EntryIsAPoint => []AllPointsReachable)
<1> SUFFICES ASSUME UseReverseEdges
             PROVE  ApartSpec /\ []EntryIsAPoint => []AllPointsReachable
  OBVIOUS
<1> DEFINE Inv == TidyInv /\ EntryDefined /\ (MaxDegree > MaxId => JoinedInv)
<1>1. PersistInit => Inv
  <2> SUFFICES ASSUME Init PROVE Inv
    BY DEF PersistInit
  <2>1. TidyInv
    BY InitTidy
  <2>2. EntryDefined
    BY DEF Init, EntryDefined, INVALID_ID
  <2>3. JoinedInv
    BY IdFacts DEF Init, EmptyGraph, JoinedInv, Symmetric, Joined
  <2> QED
    BY <2>1, <2>2, <2>3
<1>2. ApartInv /\ Inv /\ EntryIsAPoint /\ EntryIsAPoint' /\ [ApartNext]_pvars => Inv'
  BY ApartTidy, EntryKept, JoinedKept
<1>3. ApartInv /\ Inv => AllPointsReachable
  <2> SUFFICES ASSUME ApartInv, JoinedInv, EntryIsAPoint, NEW x \in Ids, x < total_count,
                      NEW S \in SUBSET Ids, entry \in S, Closed(bottom, S)
               PROVE  x \in S
    BY DEF AllPointsReachable, Reachable
  <2>1. total_count \in Int /\ x \in Int /\ 0 <= x
    BY IdFacts DEF ApartInv, LabelInv
  <2>2. entry < total_count
    BY <2>1 DEF EntryIsAPoint
  <2> QED
    BY <2>2 DEF JoinedInv, Joined
<1> QED
  BY <1>1, <1>2, <1>3, AlwaysApartInv, PTL DEF ApartSpec

----------------------------------------------------------------------------

(* However points are added, removed in either mode, moved and renamed, a   *)
(* mapped label leads to a point of the index that carries it.              *)
THEOREM HGraphLabels == Spec => []LabelsPointBack
<1>1. LabelInv /\ [Next]_vars => LabelInv'
  BY NextLabelInv
<1>2. Init => LabelInv
  BY InitInv
<1>3. LabelInv => LabelsPointBack
  BY DEF LabelInv, PointsBack, LabelsPointBack
<1> QED
  BY <1>1, <1>2, <1>3, PTL DEF Spec

(* With reverse edges kept, they are the inverse of the neighbour lists on  *)
(* every level after any sequence of calls: graph_force_remove_one and Move *)
(* find every list that names the point they remove or move.                *)
THEOREM HGraphMirror == UseReverseEdges => (Spec => []ReverseEdgesMirror)
<1> SUFFICES ASSUME UseReverseEdges PROVE Spec => []ReverseEdgesMirror
  OBVIOUS
<1>1. LabelInv /\ GraphInv /\ [Next]_vars => LabelInv' /\ GraphInv'
  BY NextLabelInv, NextGraphInv
<1>2. Init => LabelInv /\ GraphInv
  BY InitInv
<1>3. GraphInv => ReverseEdgesMirror
  BY DEF GraphInv, Sound, ReverseEdgesMirror
<1> QED
  BY <1>1, <1>2, <1>3, PTL DEF Spec

----------------------------------------------------------------------------
(* The degrees.                                                             *)

\* The levels are sound and their lists no longer than the degrees.
ShortInv ==
    /\ Short(bottom, MaxDegree)
    /\ \A j \in DOMAIN routes : Short(routes[j], RouteDegree)

LEMMA LinkedShort ==
    ASSUME UseReverseEdges, NEW max \in Nat, NEW g, Short(g, max), NEW id \in Ids,
           NEW ep, NEW h \in Linked(g, id, ep, max)
    PROVE  Short(h, max)
<1>1. CASE g.any
  <2>1. PICK found \in (SUBSET Reachable(g, ep)) \ {{}} : h \in Connected(g, id, found \ {id}, max)
    BY <1>1 DEF Linked
  <2>2. found \ {id} \in SUBSET Ids
    BY <2>1 DEF Reachable
  <2> QED
    BY <2>1, <2>2, ConnectedShort
<1>2. CASE ~ g.any
  <2> DEFINE none == {}
  <2>1. h = InsertNeighborsById(g, id, none)
    BY <1>2 DEF Linked
  <2>2. none \in SUBSET Ids /\ Cardinality(none) <= max
    BY FS_EmptySet
  <2> HIDE DEF none
  <2> QED
    BY <2>1, <2>2, InsertShort
<1> QED
  BY <1>1, <1>2

(* Every step keeps the lists short.                                        *)
LEMMA NextShort ==
    ASSUME UseReverseEdges, LabelInv, GraphInv, ShortInv, [Next]_vars
    PROVE  ShortInv'
<1>0. /\ Len(routes) \in Nat /\ DOMAIN routes = 1 .. Len(routes) /\ routes \in Seq(Graph)
      /\ MaxDegree \in Nat /\ RouteDegree \in Nat
  BY DegreeAssumption DEF GraphInv
<1>1. CASE UNCHANGED vars
  BY <1>1 DEF vars, ShortInv
<1>2. ASSUME NEW label \in Labels, NEW v \in Vectors, NEW level \in -1 .. MaxLevel,
             Add(label, v, level)
      PROVE  ShortInv'
  <2> DEFINE id == total_count
             n == IF level >= Len(routes) THEN level + 1 ELSE Len(routes)
             grown == [j \in 1 .. n |-> IF j <= Len(routes) THEN routes[j] ELSE EmptyGraph]
             options(ep) == [j \in DOMAIN grown |->
                               IF j <= level + 1
                               THEN Linked(grown[j], id, ep, RouteDegree)
                               ELSE {grown[j]}]
  <2>1. PICK ep \in StartsBelow(level) :
          bottom' \in Linked(bottom, id, ep, MaxDegree) /\ routes' \in Choices(options(ep))
    BY <1>2 DEF Add
  <2>2. id \in Ids
    BY <1>2, IdFacts DEF Add, LabelInv
  <2>3. Short(bottom', MaxDegree)
    BY <1>0, <2>1, <2>2, LinkedShort DEF ShortInv
  <2>4. DOMAIN grown = 1 .. n /\ \A j \in 1 .. n : Short(grown[j], RouteDegree)
    BY <1>0, EmptyShort DEF ShortInv
  <2>5. DOMAIN options(ep) = 1 .. n
    BY <2>4
  <2>6. \A j \in 1 .. n : \A h \in options(ep)[j] : Short(h, RouteDegree)
    <3> HIDE DEF grown, n
    <3> QED
      BY <1>0, <2>2, <2>4, LinkedShort
  <2>7. \A j \in DOMAIN routes' : Short(routes'[j], RouteDegree)
    <3> HIDE DEF options, n
    <3> QED
      BY <2>1, <2>5, <2>6 DEF Choices
  <2> QED
    BY <2>3, <2>7 DEF ShortInv
<1>3. ASSUME NEW label \in Labels, RemoveMark(label) PROVE ShortInv'
  BY <1>3 DEF RemoveMark, ShortInv
<1>4. ASSUME NEW label \in Labels, RemoveForce(label) PROVE ShortInv'
  <2> DEFINE id == IdOf(lt, label)
             last == total_count - 1
  <2>1. /\ id \in Ids /\ last \in Ids
        /\ \E e, rts, b, rs :
              /\ Kept(id, e, rts) /\ rts \in Seq(Graph)
              /\ b \in ForceRemoved(bottom, id, total_count, MaxDegree)
              /\ rs \in Choices(Removals(id, rts))
              /\ Moved(id, last, e, b, rs)
    BY <1>0, <1>4, RemoveForceForm
  <2> HIDE DEF id, last
  <2>2. PICK e, rts, b, rs :
              /\ Kept(id, e, rts) /\ rts \in Seq(Graph)
              /\ b \in ForceRemoved(bottom, id, total_count, MaxDegree)
              /\ rs \in Choices(Removals(id, rts))
              /\ Moved(id, last, e, b, rs)
    BY <2>1
  <2>3. \A j \in DOMAIN rts : Short(rts[j], RouteDegree)
    <3>1. \A j \in DOMAIN rts : j \in DOMAIN routes /\ rts[j] = routes[j]
      BY <1>0, <2>2 DEF Kept
    <3> QED
      BY <3>1 DEF ShortInv
  <2>4. Short(b, MaxDegree)
    BY <1>0, <2>1, <2>2, ForceRemovedShort DEF ShortInv
  <2>5. DOMAIN rs = DOMAIN rts /\ \A j \in DOMAIN rts : Short(rs[j], RouteDegree)
    <3>1. DOMAIN rs = DOMAIN rts
          /\ \A j \in DOMAIN rts : rs[j] \in ForceRemoved(rts[j], id, total_count, RouteDegree)
      BY <2>2 DEF Choices, Removals
    <3> QED
      BY <1>0, <2>1, <2>3, <3>1, ForceRemovedShort
  <2>6. CASE last = id
    BY <2>2, <2>4, <2>5, <2>6 DEF Moved, ShortInv
  <2>7. CASE last # id
    <3>1. bottom' = MoveDense(b, last, id)
          /\ routes' = [j \in DOMAIN rs |-> MoveSparse(rs[j], last, id)]
      BY <2>2, <2>7 DEF Moved
    <3>2. Short(bottom', MaxDegree)
      BY <1>0, <2>1, <2>4, <2>7, <3>1, MoveDenseShort
    <3>3. \A j \in DOMAIN routes' : Short(routes'[j], RouteDegree)
      BY <1>0, <2>1, <2>5, <2>7, <3>1, MoveSparseShort
    <3> QED
      BY <3>2, <3>3 DEF ShortInv
  <2> QED
    BY <2>6, <2>7
<1>5. ASSUME NEW old \in Labels, NEW new \in Labels, UpdateId(old, new) PROVE ShortInv'
  BY <1>5 DEF UpdateId, ShortInv
<1>6. ASSUME NEW label \in Labels, NEW v \in Vectors, UpdateVector(label, v) PROVE ShortInv'
  BY <1>6 DEF UpdateVector, ShortInv
<1> QED
  BY <1>1, <1>2, <1>3, <1>4, <1>5, <1>6 DEF Next

(* With reverse edges kept, no sequence of calls lets a list outgrow the     *)
(* degree of its graph: InsertNeighborsById never throws in the middle of an *)
(* insertion, a repair or a move.  A move is where the reverse edges are     *)
(* needed: a list that gains the new id has the old one to lose.             *)
THEOREM HGraphShortLists == UseReverseEdges => (Spec => []ListsStayShort)
<1> SUFFICES ASSUME UseReverseEdges PROVE Spec => []ListsStayShort
  OBVIOUS
<1> DEFINE I == LabelInv /\ GraphInv /\ ShortInv
<1>1. I /\ [Next]_vars => I'
  BY NextLabelInv, NextGraphInv, NextShort
<1>2. Init => I
  <2> SUFFICES ASSUME Init PROVE ShortInv
    BY InitInv
  <2>1. MaxDegree \in Nat
    BY DegreeAssumption
  <2>2. bottom = EmptyGraph /\ DOMAIN routes = {}
    BY DEF Init
  <2> QED
    BY <2>1, <2>2, EmptyShort DEF ShortInv
<1>3. I => ListsStayShort
  BY DEF ShortInv, Short, ListsStayShort
<1> QED
  BY <1>1, <1>2, <1>3, PTL DEF Spec
=============================================================================
