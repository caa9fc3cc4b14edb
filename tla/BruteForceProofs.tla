-------------------------- MODULE BruteForceProofs --------------------------
(***************************************************************************)
(* Proofs about BruteForce, for any number of adding threads, labels,       *)
(* vectors and ids and both modes of Remove.                                *)
(*                                                                         *)
(* They rest on what CellProofs says of the label table (LabelsAgree) *)
(* and on the ids that Add gives out: until FORCE_REMOVE is called, which   *)
(* the counts remember (ForcedForEver), no id is given out twice.           *)
(***************************************************************************)
EXTENDS BruteForce, CellProofs

\* A thread under way has a label and a vector, and an id once it allocated.
JobsGiven ==
    \A t \in Threads :
        /\ pc[t] \in {"allocate", "write"} => job[t].label \in Labels /\ job[t].vector \in Vectors
        /\ pc[t] = "write" => job[t].id \in Ids

\* The code of a live point is there or about to be written.
CodesComing ==
    \A i \in Ids : i < total_count /\ i \notin lt.deleted =>
        codes[i] \in Vectors \/ \E t \in Threads : pc[t] = "write" /\ job[t].id = i

\* FORCE_REMOVE lets the number of deleted ids run ahead of the count.
DeletedCounted == delete_count <= Cardinality(lt.deleted)

\* As long as it was never called, no id is given out twice.
IdsGivenOnce ==
    /\ \A l \in AnyLabel : Found(lt, l) => IdOf(lt, l) < total_count
    /\ \A i \in lt.deleted : i < total_count
    /\ \A t \in Threads : pc[t] = "write" => job[t].id < total_count
    /\ \A t, u \in Threads :
          pc[t] = "write" /\ pc[u] = "write" /\ job[t].id = job[u].id => t = u

IInv ==
    /\ TypeOK
    /\ LabelsAgree(lt, total_count)
    /\ JobsGiven
    /\ CodesComing
    /\ DeletedCounted
    /\ NeverForced => IdsGivenOnce

----------------------------------------------------------------------------
(* FORCE_REMOVE of this index, in the label table.                          *)

(* Remove by force: the last point takes the slot of the removed one, which *)
(* stays marked.                                                            *)
LEMMA ForceAgrees ==
    ASSUME NEW tab \in Table, NEW n \in Int, NEW l \in AnyLabel, LabelsAgree(tab, n),
           CheckLabel(tab, l), n - 1 \in Ids, IdOf(tab, l) < n - 1
    PROVE  LET last_label == tab.table[n - 1]
               new == Insert(MarkRemove(MarkRemove(tab, l), last_label), IdOf(tab, l), last_label)
           IN  /\ new \in Table
               /\ LabelsAgree(new, n - 1)
               /\ tab.deleted \subseteq new.deleted /\ IdOf(tab, l) \in new.deleted
               /\ \A m \in AnyLabel : CheckLabel(new, m) => CheckLabel(tab, m)
<1> DEFINE id == IdOf(tab, l)
           last_label == tab.table[n - 1]
           mid == MarkRemove(tab, l)
           low == MarkRemove(mid, last_label)
           new == Insert(low, id, last_label)
<1>1. id \in Ids /\ last_label \in AnyLabel /\ (\A i \in Ids : i \in Int)
  BY TableFields, IdFacts DEF CheckLabel
<1>2. /\ mid \in Table /\ mid.deleted = tab.deleted \cup {id}
      /\ mid.table = tab.table /\ mid.remap = tab.remap /\ mid.size = tab.size
  BY MarkFields DEF CheckLabel
<1>3. /\ low \in Table
      /\ low.deleted = mid.deleted \cup (IF Found(mid, last_label) THEN {IdOf(mid, last_label)} ELSE {})
      /\ low.table = tab.table /\ low.remap = tab.remap /\ low.size = tab.size
  <2> HIDE DEF mid, last_label
  <2> QED
    BY <1>1, <1>2, MarkFields
<1>4. /\ new \in Table /\ new.deleted = low.deleted
      /\ new.size >= low.size
      /\ new.table[id] = last_label
      /\ \A i \in Ids : i # id => new.table[i] = low.table[i]
      /\ IdOf(new, last_label) = id
      /\ \A m \in AnyLabel : m # last_label => IdOf(new, m) = IdOf(low, m)
  <2>1. low \in Table /\ id \in Ids /\ last_label \in AnyLabel
    BY <1>1, <1>3
  <2> HIDE DEF low, last_label, id
  <2> QED
    BY <2>1, InsertFields
<1>5. new.size \in Int /\ tab.size \in Int
  BY <1>4, TableFields, IdFacts
<1>6. /\ tab.deleted \subseteq new.deleted /\ id \in new.deleted
      /\ Found(tab, last_label) => IdOf(tab, last_label) \in new.deleted
  BY <1>2, <1>3, <1>4 DEF Found, IdOf
<1>7. \A m \in AnyLabel : CheckLabel(new, m) =>
         CheckLabel(tab, m) /\ m # last_label /\ IdOf(new, m) = IdOf(tab, m) /\ IdOf(tab, m) # id
  <2> HIDE DEF new, low, mid, last_label, id
  <2>0. \A m : IdOf(low, m) = IdOf(tab, m)
    BY <1>3 DEF IdOf
  <2>1. \A m \in AnyLabel : m # last_label => IdOf(new, m) = IdOf(tab, m)
    BY <1>4, <2>0
  <2> QED
    BY <1>4, <1>6, <2>1 DEF CheckLabel, Found, IsRemoved
<1> HIDE DEF new, low, mid, last_label
<1>8. SlotsLabelled(new, n - 1)
  <2>1. last_label \in Labels
    BY <1>1 DEF LabelsAgree, SlotsLabelled, last_label
  <2>2. \A i \in Ids : i < n - 1 => new.table[i] \in Labels
    BY <1>1, <1>3, <1>4, <2>1 DEF LabelsAgree, SlotsLabelled
  <2>3. n - 1 <= new.size
    BY <1>3, <1>4, <1>5 DEF LabelsAgree, SlotsLabelled
  <2> QED
    BY <2>2, <2>3 DEF SlotsLabelled
<1>9. LiveMapped(new, n - 1)
  <2> SUFFICES ASSUME NEW i \in Ids, i < n - 1, i \notin new.deleted
               PROVE  IdOf(new, new.table[i]) = i
    BY DEF LiveMapped
  <2>1. i # id /\ i < n /\ i \notin tab.deleted
    BY <1>1, <1>6
  <2>2. new.table[i] = tab.table[i] /\ IdOf(tab, tab.table[i]) = i /\ tab.table[i] \in AnyLabel
    BY <1>3, <1>4, <2>1, TableFields DEF LabelsAgree, LiveMapped
  <2>3. tab.table[i] # last_label
    <3>1. Found(tab, tab.table[i])
      BY <2>2, IdFacts DEF Found
    <3> QED
      BY <1>6, <2>2, <3>1
  <2> QED
    BY <1>3, <1>4, <2>2, <2>3 DEF IdOf
<1>10. PresentPointsBack(new, n - 1)
  <2> SUFFICES ASSUME NEW m \in AnyLabel, CheckLabel(new, m)
               PROVE  IdOf(new, m) < n - 1 /\ new.table[IdOf(new, m)] = m
    BY DEF PresentPointsBack
  <2>1. CheckLabel(tab, m) /\ m # last_label /\ IdOf(new, m) = IdOf(tab, m) /\ IdOf(tab, m) # id
    BY <1>7
  <2>2. IdOf(tab, m) \in Ids \cap Int
    BY <1>1, <2>1, TableFields DEF CheckLabel
  <2>3. IdOf(tab, m) < n /\ tab.table[IdOf(tab, m)] = m
    BY <2>1 DEF LabelsAgree, PresentPointsBack
  <2>4. IdOf(tab, m) # n - 1
    BY <2>1, <2>3 DEF last_label
  <2>5. IdOf(tab, m) < n - 1
    BY <2>2, <2>3, <2>4
  <2> QED
    BY <1>3, <1>4, <2>1, <2>2, <2>3, <2>5
<1> QED
  BY <1>4, <1>6, <1>7, <1>8, <1>9, <1>10 DEF LabelsAgree, new, low, mid, last_label

(* Remove by force of the last point.                                       *)
LEMMA ForceLastAgrees ==
    ASSUME NEW tab \in Table, NEW n \in Int, NEW l \in AnyLabel, LabelsAgree(tab, n),
           CheckLabel(tab, l), IdOf(tab, l) = n - 1
    PROVE  LabelsAgree(MarkRemove(tab, l), n - 1)
<1> DEFINE new == MarkRemove(tab, l)
<1>1. /\ new.size = tab.size /\ new.table = tab.table /\ new.remap = tab.remap
      /\ new.deleted = tab.deleted \cup {n - 1}
  BY MarkFields DEF CheckLabel
<1>2. tab.size \in Int /\ \A i \in Ids : i \in Int
  BY TableFields, IdFacts
<1>3. LabelsAgree(new, n)
  BY MarkAgrees
<1> HIDE DEF new
<1>4. SlotsLabelled(new, n - 1)
  BY <1>1, <1>2, <1>3 DEF LabelsAgree, SlotsLabelled
<1>5. LiveMapped(new, n - 1)
  BY <1>2, <1>3 DEF LabelsAgree, LiveMapped
<1>6. PresentPointsBack(new, n - 1)
  <2> SUFFICES ASSUME NEW m \in AnyLabel, CheckLabel(new, m)
               PROVE  IdOf(new, m) < n - 1 /\ new.table[IdOf(new, m)] = m
    BY DEF PresentPointsBack
  <2>1. IdOf(new, m) < n /\ new.table[IdOf(new, m)] = m
    BY <1>3 DEF LabelsAgree, PresentPointsBack
  <2>2. IdOf(new, m) \in Ids /\ IdOf(new, m) # n - 1
    BY <1>1, TableFields DEF CheckLabel, Found, IdOf, IsRemoved
  <2>3. IdOf(new, m) \in Int
    BY <1>2, <2>2
  <2> QED
    BY <2>1, <2>2, <2>3
<1> QED
  BY <1>4, <1>5, <1>6 DEF LabelsAgree, new

----------------------------------------------------------------------------
(* The steps of the index.                                                  *)

LEMMA TypeFacts ==
    ASSUME TypeOK
    PROVE  /\ lt \in Table /\ total_count \in Int
           /\ total_count < MaxId => total_count \in Ids /\ total_count + 1 \in 0 .. MaxId
           /\ lt.deleted \in SUBSET Ids
           /\ delete_count \in Int /\ Cardinality(lt.deleted) \in 0 .. MaxId
BY IdFacts, TableFields, SubsetsFinite DEF TypeOK

(* What FORCE_REMOVE leaves behind.                                         *)
LEMMA Forced ==
    ASSUME TypeOK, LabelsAgree(lt, total_count), NEW label \in Labels, RemoveForce(label)
    PROVE  /\ lt' \in Table /\ total_count' = total_count - 1 /\ total_count' \in 0 .. MaxId
           /\ LabelsAgree(lt', total_count')
           /\ lt.deleted \subseteq lt'.deleted
           /\ \E i \in lt'.deleted : i \notin lt.deleted
           /\ \A m \in AnyLabel : CheckLabel(lt', m) => CheckLabel(lt, m)
           /\ codes' \in [Ids -> Vectors \cup {NoVector}]
           /\ \A i \in Ids : i \notin lt'.deleted => codes'[i] = codes[i]
<1> DEFINE id == IdOf(lt, label)
           last == total_count - 1
           last_label == lt.table[last]
           new == Insert(MarkRemove(MarkRemove(lt, label), last_label), id, last_label)
<1>1. /\ lt \in Table /\ total_count \in Int /\ label \in AnyLabel
      /\ CheckLabel(lt, label) /\ id <= last /\ total_count' = last
  BY TypeFacts, IdFacts DEF RemoveForce
<1>2. id \in Ids /\ id \in Int /\ 0 <= id /\ id < MaxId
  BY <1>1, TableFields, IdFacts DEF CheckLabel
<1>3. last \in Ids /\ last \in 0 .. MaxId
  BY <1>1, <1>2, IdFacts DEF TypeOK
<1>4. id \notin lt.deleted
  BY <1>1 DEF CheckLabel, IsRemoved
<1>5. CASE id < last
  <2>1. lt' = new /\ codes' = [codes EXCEPT ![id] = codes[last]]
    BY <1>5 DEF RemoveForce
  <2>2. /\ new \in Table /\ LabelsAgree(new, last)
        /\ lt.deleted \subseteq new.deleted /\ id \in new.deleted
        /\ \A m \in AnyLabel : CheckLabel(new, m) => CheckLabel(lt, m)
    BY <1>1, <1>3, <1>5, ForceAgrees
  <2> HIDE DEF new
  <2>3. /\ codes' \in [Ids -> Vectors \cup {NoVector}]
        /\ \A i \in Ids : i # id => codes'[i] = codes[i]
    BY <1>3, <2>1 DEF TypeOK
  <2> QED
    BY <1>1, <1>3, <1>4, <2>1, <2>2, <2>3
<1>6. CASE id = last
  <2>0. ~ (id < last)
    BY <1>1, <1>2, <1>6
  <2>1. lt' = MarkRemove(lt, label) /\ codes' = codes
    BY <2>0 DEF RemoveForce
  <2>2. /\ lt' \in Table /\ lt'.deleted = lt.deleted \cup {id} /\ lt'.remap = lt.remap
    BY <1>1, <2>1, MarkFields DEF CheckLabel
  <2>3. LabelsAgree(lt', last)
    BY <1>1, <1>6, <2>1, ForceLastAgrees
  <2>4. \A m \in AnyLabel : CheckLabel(lt', m) => CheckLabel(lt, m)
    BY <2>2 DEF CheckLabel, Found, IdOf, IsRemoved
  <2> QED
    BY <1>1, <1>3, <1>4, <2>1, <2>2, <2>3, <2>4 DEF TypeOK
<1> QED
  BY <1>1, <1>2, <1>5, <1>6

(* What a mark leaves behind; the count follows the deleted ids.            *)
LEMMA Marked ==
    ASSUME TypeOK, NEW label \in Labels, RemoveMark(label)
    PROVE  /\ lt' \in Table /\ lt'.remap = lt.remap /\ lt'.table = lt.table
           /\ lt'.deleted
                = lt.deleted \cup (IF Found(lt, label) THEN {IdOf(lt, label)} ELSE {})
           /\ Cardinality(lt'.deleted) \in 0 .. MaxId
           /\ Cardinality(lt'.deleted) >= Cardinality(lt.deleted)
           /\ delete_count' = delete_count + (Cardinality(lt'.deleted) - Cardinality(lt.deleted))
<1>1. lt \in Table /\ label \in AnyLabel /\ lt' = MarkRemove(lt, label)
  BY TypeFacts, IdFacts DEF RemoveMark
<1>2. /\ lt' \in Table /\ lt'.remap = lt.remap /\ lt'.table = lt.table
      /\ lt'.deleted = lt.deleted \cup (IF Found(lt, label) THEN {IdOf(lt, label)} ELSE {})
  BY <1>1, MarkFields
<1>3. lt'.deleted \in SUBSET Ids /\ lt.deleted \in SUBSET lt'.deleted
  BY <1>2, TableFields
<1>4. IsFiniteSet(lt'.deleted) /\ Cardinality(lt'.deleted) \in 0 .. MaxId
  BY <1>3, SubsetsFinite
<1>5. Cardinality(lt.deleted) <= Cardinality(lt'.deleted)
  BY <1>3, <1>4, FS_Subset
<1>6. delete_count' = delete_count + (Cardinality(lt'.deleted) - Cardinality(lt.deleted))
  BY <1>1 DEF RemoveMark, MarkRemoveCount
<1> QED
  BY <1>2, <1>4, <1>5, <1>6, TypeFacts

LEMMA Allocated ==
    ASSUME TypeOK, JobsGiven, NEW t \in Threads, AddAllocate(t)
    PROVE  /\ total_count \in Ids /\ total_count' = total_count + 1 /\ total_count' \in 0 .. MaxId
           /\ job[t].label \in Labels /\ ~ CheckLabel(lt, job[t].label)
           /\ lt' = Insert(lt, total_count, job[t].label) /\ lt' \in Table
           /\ lt'.deleted = lt.deleted
           /\ IdOf(lt', job[t].label) = total_count
           /\ \A m \in AnyLabel : m # job[t].label => IdOf(lt', m) = IdOf(lt, m)
           /\ pc[t] = "allocate" /\ pc'[t] = "write" /\ job'[t].id = total_count
           /\ job'[t].label = job[t].label /\ job'[t].vector = job[t].vector
           /\ \A u \in Threads : u # t => pc'[u] = pc[u] /\ job'[u] = job[u]
<1> DEFINE l == job[t].label
<1>1. l \in Labels /\ l \in AnyLabel /\ lt \in Table /\ total_count \in Ids
  BY TypeFacts, IdFacts DEF JobsGiven, AddAllocate
<1>2. lt' = Insert(lt, total_count, l) /\ total_count' = total_count + 1 /\ ~ CheckLabel(lt, l)
  BY DEF AddAllocate
<1>3. /\ lt' \in Table /\ lt'.deleted = lt.deleted
      /\ IdOf(lt', l) = total_count
      /\ \A m \in AnyLabel : m # l => IdOf(lt', m) = IdOf(lt, m)
  <2> HIDE DEF l
  <2> QED
    BY <1>1, <1>2, InsertFields
<1>4. total_count' \in 0 .. MaxId
  BY <1>2, TypeFacts DEF AddAllocate
<1>5. /\ pc[t] = "allocate" /\ pc'[t] = "write" /\ job'[t].id = total_count
      /\ job'[t].label = job[t].label /\ job'[t].vector = job[t].vector
      /\ \A u \in Threads : u # t => pc'[u] = pc[u] /\ job'[u] = job[u]
  BY DEF AddAllocate, TypeOK
<1> QED
  BY <1>1, <1>2, <1>3, <1>4, <1>5

LEMMA NextTypeOK ==
    ASSUME TypeOK, LabelsAgree(lt, total_count), JobsGiven, DeletedCounted, [Next]_vars
    PROVE  TypeOK' /\ DeletedCounted'
<1>1. CASE UNCHANGED vars
  BY <1>1 DEF TypeOK, DeletedCounted, vars
<1>2. ASSUME NEW t \in Threads, NEW label \in Labels, NEW v \in Vectors, AddCheck(t, label, v)
      PROVE  TypeOK' /\ DeletedCounted'
  BY <1>2 DEF TypeOK, DeletedCounted, AddCheck
<1>3. ASSUME NEW t \in Threads, AddLost(t) PROVE TypeOK' /\ DeletedCounted'
  BY <1>3 DEF TypeOK, DeletedCounted, AddLost, NoJob
<1>4. ASSUME NEW t \in Threads, AddAllocate(t) PROVE TypeOK' /\ DeletedCounted'
  <2>1. lt' \in Table /\ total_count' \in 0 .. MaxId /\ total_count \in Ids /\ lt'.deleted = lt.deleted
    BY <1>4, Allocated
  <2>2. /\ delete_count' = delete_count /\ codes' = codes
        /\ pc' = [pc EXCEPT ![t] = "write"] /\ job' = [job EXCEPT ![t].id = total_count]
    BY <1>4 DEF AddAllocate
  <2> QED
    BY <2>1, <2>2 DEF TypeOK, DeletedCounted
<1>5. ASSUME NEW t \in Threads, AddWrite(t) PROVE TypeOK' /\ DeletedCounted'
  BY <1>5 DEF TypeOK, DeletedCounted, AddWrite, NoJob
<1>6. ASSUME NEW label \in Labels, RemoveMark(label) PROVE TypeOK' /\ DeletedCounted'
  <2>1. /\ lt' \in Table
        /\ Cardinality(lt'.deleted) \in 0 .. MaxId
        /\ Cardinality(lt'.deleted) >= Cardinality(lt.deleted)
        /\ delete_count' = delete_count + (Cardinality(lt'.deleted) - Cardinality(lt.deleted))
    BY <1>6, Marked
  <2>2. delete_count' \in 0 .. MaxId /\ delete_count' <= Cardinality(lt'.deleted)
    BY <2>1, TypeFacts, IdFacts DEF DeletedCounted, TypeOK
  <2> QED
    BY <1>6, <2>1, <2>2 DEF TypeOK, DeletedCounted, RemoveMark
<1>7. ASSUME NEW label \in Labels, RemoveForce(label) PROVE TypeOK' /\ DeletedCounted'
  <2>1. /\ lt' \in Table /\ total_count' \in 0 .. MaxId /\ lt.deleted \subseteq lt'.deleted
        /\ codes' \in [Ids -> Vectors \cup {NoVector}]
    BY <1>7, Forced
  <2>2. IsFiniteSet(lt'.deleted) /\ Cardinality(lt'.deleted) \in 0 .. MaxId
    BY <2>1, TableFields, SubsetsFinite
  <2>3. Cardinality(lt.deleted) <= Cardinality(lt'.deleted)
    BY <2>1, <2>2, FS_Subset
  <2> QED
    BY <1>7, <2>1, <2>2, <2>3, TypeFacts, IdFacts DEF TypeOK, DeletedCounted, RemoveForce
<1>8. ASSUME NEW old \in Labels, NEW new \in Labels, UpdateId(old, new)
      PROVE  TypeOK' /\ DeletedCounted'
  <2>1. lt \in Table /\ old \in AnyLabel /\ new \in AnyLabel /\ old # new
        /\ lt' = UpdateLabel(lt, old, new)
    BY <1>8, TypeFacts, IdFacts DEF UpdateId
  <2>2. lt' \in Table /\ lt'.deleted = lt.deleted
    BY <2>1, UpdateFields
  <2> QED
    BY <1>8, <2>2 DEF TypeOK, DeletedCounted, UpdateId
<1> QED
  BY <1>1, <1>2, <1>3, <1>4, <1>5, <1>6, <1>7, <1>8 DEF Next

LEMMA NextLabelsAgree ==
    ASSUME TypeOK, LabelsAgree(lt, total_count), JobsGiven, [Next]_vars
    PROVE  LabelsAgree(lt', total_count')
<1>1. CASE UNCHANGED <<lt, total_count>>
  BY <1>1
<1>2. ASSUME NEW t \in Threads, AddAllocate(t) PROVE LabelsAgree(lt', total_count')
  <2> DEFINE l == job[t].label
  <2>1. /\ total_count \in Ids /\ total_count' = total_count + 1 /\ l \in Labels
        /\ ~ CheckLabel(lt, l) /\ lt' = Insert(lt, total_count, l) /\ lt \in Table
    BY <1>2, Allocated, TypeFacts
  <2> HIDE DEF l
  <2> QED
    BY <2>1, InsertAgrees
<1>3. ASSUME NEW label \in Labels, RemoveMark(label) PROVE LabelsAgree(lt', total_count')
  <2>1. /\ lt \in Table /\ label \in AnyLabel
        /\ lt' = MarkRemove(lt, label) /\ total_count' = total_count
    BY <1>3, TypeFacts, IdFacts DEF RemoveMark
  <2> QED
    BY <2>1, MarkAgrees
<1>4. ASSUME NEW label \in Labels, RemoveForce(label) PROVE LabelsAgree(lt', total_count')
  BY <1>4, Forced
<1>5. ASSUME NEW old \in Labels, NEW new \in Labels, UpdateId(old, new)
      PROVE  LabelsAgree(lt', total_count')
  <2>1. /\ lt \in Table /\ total_count \in Int /\ old # new /\ ~ CheckLabel(lt, new)
        /\ lt' = UpdateLabel(lt, old, new) /\ total_count' = total_count
    BY <1>5, TypeFacts DEF UpdateId, CanUpdateLabel
  <2> QED
    BY <2>1, UpdateAgrees
<1> QED
  BY <1>1, <1>2, <1>3, <1>4, <1>5 DEF Next, vars, AddCheck, AddLost, AddWrite

LEMMA NextJobsGiven ==
    ASSUME TypeOK, JobsGiven, [Next]_vars
    PROVE  JobsGiven'
<1>1. CASE UNCHANGED <<pc, job>>
  BY <1>1 DEF JobsGiven
<1>2. ASSUME NEW t \in Threads, NEW label \in Labels, NEW v \in Vectors, AddCheck(t, label, v)
      PROVE  JobsGiven'
  BY <1>2 DEF JobsGiven, TypeOK, AddCheck
<1>3. ASSUME NEW t \in Threads, AddLost(t) PROVE JobsGiven'
  BY <1>3 DEF JobsGiven, TypeOK, AddLost
<1>4. ASSUME NEW t \in Threads, AddAllocate(t) PROVE JobsGiven'
  BY <1>4, Allocated DEF JobsGiven
<1>5. ASSUME NEW t \in Threads, AddWrite(t) PROVE JobsGiven'
  BY <1>5 DEF JobsGiven, TypeOK, AddWrite
<1> QED
  BY <1>1, <1>2, <1>3, <1>4, <1>5 DEF Next, vars, RemoveMark, RemoveForce, UpdateId

(* A code is written once its id was allocated, by the thread that did.     *)
LEMMA NextCodesComing ==
    ASSUME TypeOK, LabelsAgree(lt, total_count), JobsGiven, CodesComing, [Next]_vars
    PROVE  CodesComing'
<1>1. CASE UNCHANGED vars
  BY <1>1 DEF CodesComing, vars
<1>2. ASSUME NEW t \in Threads, NEW label \in Labels, NEW v \in Vectors, AddCheck(t, label, v)
      PROVE  CodesComing'
  <2>1. \A u \in Threads : pc[u] = "write" => pc'[u] = "write" /\ job'[u] = job[u]
    BY <1>2 DEF AddCheck, TypeOK
  <2> QED
    BY <1>2, <2>1 DEF CodesComing, AddCheck
<1>3. ASSUME NEW t \in Threads, AddLost(t) PROVE CodesComing'
  <2>1. \A u \in Threads : pc[u] = "write" => pc'[u] = "write" /\ job'[u] = job[u]
    BY <1>3 DEF AddLost, TypeOK
  <2> QED
    BY <1>3, <2>1 DEF CodesComing, AddLost
<1>4. ASSUME NEW t \in Threads, AddAllocate(t) PROVE CodesComing'
  <2>1. /\ total_count' = total_count + 1 /\ total_count \in Int /\ lt'.deleted = lt.deleted
        /\ codes' = codes /\ pc'[t] = "write" /\ job'[t].id = total_count
        /\ \A u \in Threads : pc[u] = "write" => pc'[u] = "write" /\ job'[u] = job[u]
    BY <1>4, Allocated, TypeFacts DEF AddAllocate
  <2>2. \A i \in Ids : i < total_count + 1 => i = total_count \/ i < total_count
    BY <2>1, IdFacts
  <2> QED
    BY <2>1, <2>2 DEF CodesComing
<1>5. ASSUME NEW t \in Threads, AddWrite(t) PROVE CodesComing'
  <2>1. /\ pc[t] = "write" /\ job[t].id \in Ids /\ job[t].vector \in Vectors
        /\ lt' = lt /\ total_count' = total_count
    BY <1>5 DEF AddWrite, JobsGiven
  <2>2. /\ codes'[job[t].id] = job[t].vector
        /\ \A i \in Ids : i # job[t].id => codes'[i] = codes[i]
        /\ \A u \in Threads : u # t => pc'[u] = pc[u] /\ job'[u] = job[u]
    BY <1>5, <2>1 DEF AddWrite, TypeOK
  <2> QED
    BY <2>1, <2>2 DEF CodesComing
<1>6. ASSUME NEW label \in Labels, RemoveMark(label) PROVE CodesComing'
  <2>1. lt.deleted \subseteq lt'.deleted
    BY <1>6, Marked
  <2> QED
    BY <1>6, <2>1 DEF CodesComing, RemoveMark
<1>7. ASSUME NEW label \in Labels, RemoveForce(label) PROVE CodesComing'
  <2>1. /\ total_count' = total_count - 1 /\ total_count \in Int
        /\ lt.deleted \subseteq lt'.deleted
        /\ \A i \in Ids : i \notin lt'.deleted => codes'[i] = codes[i]
        /\ pc' = pc /\ job' = job
    BY <1>7, Forced, TypeFacts DEF RemoveForce
  <2>2. \A i \in Ids : i < total_count - 1 => i < total_count
    BY <2>1, IdFacts
  <2> QED
    BY <2>1, <2>2 DEF CodesComing
<1>8. ASSUME NEW old \in Labels, NEW new \in Labels, UpdateId(old, new) PROVE CodesComing'
  <2>1. lt \in Table /\ old \in AnyLabel /\ new \in AnyLabel /\ old # new
        /\ lt' = UpdateLabel(lt, old, new)
    BY <1>8, TypeFacts, IdFacts DEF UpdateId
  <2>2. lt'.deleted = lt.deleted
    BY <2>1, UpdateFields
  <2> QED
    BY <1>8, <2>2 DEF CodesComing, UpdateId
<1> QED
  BY <1>1, <1>2, <1>3, <1>4, <1>5, <1>6, <1>7, <1>8 DEF Next

(* FORCE_REMOVE leaves its mark on the counts for ever.                     *)
LEMMA ForcedForEver ==
    ASSUME TypeOK, LabelsAgree(lt, total_count), JobsGiven, DeletedCounted, [Next]_vars,
           NeverForced'
    PROVE  NeverForced /\ \A label \in Labels : ~ RemoveForce(label)
<1>0. delete_count \in Int /\ Cardinality(lt.deleted) \in Int
  BY TypeFacts, IdFacts
<1>1. ASSUME NEW label \in Labels, RemoveForce(label) PROVE FALSE
  <2>1. /\ lt' \in Table /\ lt.deleted \subseteq lt'.deleted
        /\ \E i \in lt'.deleted : i \notin lt.deleted
    BY <1>1, Forced
  <2>2. IsFiniteSet(lt'.deleted) /\ Cardinality(lt'.deleted) \in Int
    BY <2>1, TableFields, SubsetsFinite, IdFacts
  <2>3. /\ Cardinality(lt.deleted) <= Cardinality(lt'.deleted)
        /\ Cardinality(lt'.deleted) = Cardinality(lt.deleted) => lt'.deleted = lt.deleted
    BY <2>1, <2>2, FS_Subset
  <2>4. Cardinality(lt.deleted) < Cardinality(lt'.deleted)
    BY <1>0, <2>1, <2>2, <2>3
  <2>5. delete_count' = delete_count
    BY <1>1 DEF RemoveForce
  <2> QED
    BY <1>0, <2>2, <2>4, <2>5 DEF NeverForced, DeletedCounted
<1>2. CASE lt'.deleted = lt.deleted /\ delete_count' = delete_count
  BY <1>1, <1>2 DEF NeverForced
<1>3. ASSUME NEW label \in Labels, RemoveMark(label) PROVE NeverForced
  <2>1. /\ Cardinality(lt'.deleted) \in 0 .. MaxId
        /\ delete_count' = delete_count + (Cardinality(lt'.deleted) - Cardinality(lt.deleted))
    BY <1>3, Marked
  <2>2. Cardinality(lt'.deleted) \in Int
    BY <2>1, IdFacts
  <2> QED
    BY <1>0, <2>1, <2>2 DEF NeverForced
<1>4. ASSUME NEW t \in Threads, AddAllocate(t)
      PROVE  lt'.deleted = lt.deleted /\ delete_count' = delete_count
  BY <1>4, Allocated DEF AddAllocate
<1>5. ASSUME NEW old \in Labels, NEW new \in Labels, UpdateId(old, new)
      PROVE  lt'.deleted = lt.deleted /\ delete_count' = delete_count
  <2>1. lt \in Table /\ old \in AnyLabel /\ new \in AnyLabel /\ old # new
        /\ lt' = UpdateLabel(lt, old, new) /\ delete_count' = delete_count
    BY <1>5, TypeFacts, IdFacts DEF UpdateId
  <2> QED
    BY <2>1, UpdateFields
<1> QED
  BY <1>1, <1>2, <1>3, <1>4, <1>5 DEF Next, vars, AddCheck, AddLost, AddWrite

LEMMA NextIdsGivenOnce ==
    ASSUME TypeOK, JobsGiven, IdsGivenOnce, [Next]_vars,
           \A label \in Labels : ~ RemoveForce(label)
    PROVE  IdsGivenOnce'
<1> DEFINE Mapped == \A l \in AnyLabel : Found(lt', l) => IdOf(lt', l) < total_count'
           Deleted == \A i \in lt'.deleted : i < total_count'
           Writing == /\ \A t \in Threads : pc'[t] = "write" => job'[t].id < total_count'
                      /\ \A t, u \in Threads :
                            pc'[t] = "write" /\ pc'[u] = "write" /\ job'[t].id = job'[u].id => t = u
<1>0. Mapped /\ Deleted /\ Writing => IdsGivenOnce'
  BY DEF IdsGivenOnce
<1>1. CASE UNCHANGED vars
  BY <1>1 DEF IdsGivenOnce, vars
<1>2. ASSUME NEW t \in Threads, NEW label \in Labels, NEW v \in Vectors, AddCheck(t, label, v)
      PROVE  IdsGivenOnce'
  <2>1. \A u \in Threads : pc'[u] = "write" => pc[u] = "write" /\ job'[u] = job[u]
    BY <1>2 DEF AddCheck, TypeOK
  <2> QED
    BY <1>2, <2>1 DEF IdsGivenOnce, AddCheck
<1>3. ASSUME NEW t \in Threads, AddLost(t) \/ AddWrite(t) PROVE IdsGivenOnce'
  <2>1. \A u \in Threads : pc'[u] = "write" => pc[u] = "write" /\ job'[u] = job[u]
    BY <1>3 DEF AddLost, AddWrite, TypeOK
  <2> QED
    BY <1>3, <2>1 DEF IdsGivenOnce, AddLost, AddWrite
<1>4. ASSUME NEW t \in Threads, AddAllocate(t) PROVE IdsGivenOnce'
  <2>1. /\ total_count \in Int /\ total_count' = total_count + 1
        /\ lt' \in Table /\ lt'.deleted = lt.deleted /\ lt.deleted \in SUBSET Ids
        /\ IdOf(lt', job[t].label) = total_count
        /\ \A m \in AnyLabel : m # job[t].label => IdOf(lt', m) = IdOf(lt, m)
        /\ pc'[t] = "write" /\ job'[t].id = total_count
        /\ \A u \in Threads : u # t => pc'[u] = pc[u] /\ job'[u] = job[u]
    BY <1>4, Allocated, TypeFacts
  <2>2. Mapped
    <3> SUFFICES ASSUME NEW l \in AnyLabel, Found(lt', l) PROVE IdOf(lt', l) < total_count + 1
      BY <2>1
    <3>1. CASE l = job[t].label
      BY <2>1, <3>1
    <3>2. CASE l # job[t].label
      <4>1. IdOf(lt', l) < total_count
        BY <2>1, <3>2 DEF IdsGivenOnce, Found
      <4>2. IdOf(lt', l) \in Int
        BY <2>1, TableFields, IdFacts
      <4> QED
        BY <2>1, <4>1, <4>2
    <3> QED
      BY <3>1, <3>2
  <2>3. Deleted
    <3>1. \A i \in lt.deleted : i \in Int /\ i < total_count
      BY <2>1, IdFacts DEF IdsGivenOnce
    <3> QED
      BY <2>1, <3>1
  <2>4. Writing
    <3>1. \A u \in Threads : u # t /\ pc'[u] = "write" =>
             job'[u] = job[u] /\ pc[u] = "write" /\ job[u].id < total_count /\ job[u].id \in Int
      BY <2>1, IdFacts DEF IdsGivenOnce, JobsGiven
    <3>2. \A u \in Threads : pc'[u] = "write" => job'[u].id < total_count + 1
      BY <2>1, <3>1
    <3>3. \A u, w \in Threads :
             pc'[u] = "write" /\ pc'[w] = "write" /\ job'[u].id = job'[w].id => u = w
      BY <2>1, <3>1 DEF IdsGivenOnce
    <3> QED
      BY <2>1, <3>2, <3>3
  <2> QED
    BY <1>0, <2>2, <2>3, <2>4
<1>5. ASSUME NEW label \in Labels, RemoveMark(label) PROVE IdsGivenOnce'
  <2>1. /\ lt'.remap = lt.remap
        /\ lt'.deleted = lt.deleted \cup (IF Found(lt, label) THEN {IdOf(lt, label)} ELSE {})
        /\ label \in AnyLabel
    BY <1>5, Marked, IdFacts
  <2> QED
    BY <1>5, <2>1 DEF IdsGivenOnce, Found, IdOf, RemoveMark
<1>6. ASSUME NEW old \in Labels, NEW new \in Labels, UpdateId(old, new) PROVE IdsGivenOnce'
  <2>1. lt \in Table /\ old \in AnyLabel /\ new \in AnyLabel /\ old # new
        /\ lt' = UpdateLabel(lt, old, new) /\ UNCHANGED <<total_count, pc, job>>
    BY <1>6, TypeFacts, IdFacts DEF UpdateId
  <2>2. /\ lt'.deleted = lt.deleted
        /\ \A m \in AnyLabel : IdOf(lt', m)
              = IF ~ Found(lt, old) THEN IdOf(lt, m)
                ELSE IF m = new THEN IdOf(lt, old)
                ELSE IF m = old THEN INVALID_ID ELSE IdOf(lt, m)
    BY <2>1, UpdateFields
  <2> QED
    BY <2>1, <2>2 DEF IdsGivenOnce, Found
<1> QED
  BY <1>1, <1>2, <1>3, <1>4, <1>5, <1>6 DEF Next

----------------------------------------------------------------------------
(* The invariant, and what follows from it.                                 *)

LEMMA InitIInv == Init => IInv
<1> SUFFICES ASSUME Init PROVE IInv
  OBVIOUS
<1>1. lt \in Table /\ lt.deleted = {} /\ \A l \in AnyLabel : ~ Found(lt, l)
  BY IdFacts DEF Init, EmptyTable, Table, Found, IdOf
<1>2. TypeOK
  BY <1>1, IdFacts DEF Init, TypeOK, NoJob
<1>3. LabelsAgree(lt, total_count)
  <2>1. total_count = 0 /\ lt.size = 0 /\ \A i \in Ids : ~ (i < 0)
    BY IdFacts DEF Init, EmptyTable
  <2> QED
    BY <1>1, <2>1 DEF LabelsAgree, SlotsLabelled, LiveMapped, PresentPointsBack, CheckLabel
<1>4. JobsGiven /\ CodesComing
  <2>1. \A i \in Ids : ~ (i < 0)
    BY IdFacts
  <2> QED
    BY <2>1 DEF Init, JobsGiven, CodesComing
<1>5. DeletedCounted
  BY <1>1, FS_EmptySet DEF Init, DeletedCounted
<1>6. IdsGivenOnce
  BY <1>1 DEF Init, IdsGivenOnce
<1> QED
  BY <1>2, <1>3, <1>4, <1>5, <1>6 DEF IInv

LEMMA NextIInv == IInv /\ [Next]_vars => IInv'
<1> SUFFICES ASSUME IInv, [Next]_vars PROVE IInv'
  OBVIOUS
<1>1. TypeOK' /\ DeletedCounted' /\ JobsGiven' /\ CodesComing'
  BY NextTypeOK, NextJobsGiven, NextCodesComing DEF IInv
<1>2. LabelsAgree(lt, total_count)'
  BY NextLabelsAgree DEF IInv
<1>3. NeverForced' => IdsGivenOnce'
  BY ForcedForEver, NextIdsGivenOnce DEF IInv
<1> QED
  BY <1>1, <1>2, <1>3 DEF IInv

LEMMA AlwaysIInv == Spec => []IInv
BY InitIInv, NextIInv, PTL DEF Spec

(* The table, the counts, the codes and the threads have their types; in    *)
(* particular delete_count_ never exceeds the ids there are.                *)
THEOREM BruteForceTypeCorrect == Spec => []TypeOK
<1>1. IInv => TypeOK
  BY DEF IInv
<1> QED
  BY <1>1, AlwaysIInv, PTL

(* KnnSearch scores exactly the present labels, each once, in both modes of *)
(* Remove and with any number of threads that add: the look at the label    *)
(* under both mutexes is enough.                                            *)
THEOREM BruteForceScores == Spec => []KnnScoresEachLabelOnce
<1>1. ASSUME IInv PROVE KnnScoresEachLabelOnce
  <2>1. \A i \in KnnScored : /\ i \in Ids /\ i < total_count /\ i \notin lt.deleted
                             /\ IdOf(lt, lt.table[i]) = i
    BY <1>1 DEF IInv, LabelsAgree, LiveMapped, KnnScored, IsRemoved
  <2>2. ASSUME NEW label \in Labels
        PROVE  CheckLabel(lt, label) <=> \E i \in KnnScored : lt.table[i] = label
    <3>1. ASSUME CheckLabel(lt, label) PROVE \E i \in KnnScored : lt.table[i] = label
      <4>1. lt \in Table /\ label \in AnyLabel
        BY <1>1, IdFacts DEF IInv, TypeOK
      <4>2. /\ IdOf(lt, label) \in Ids /\ IdOf(lt, label) < total_count
            /\ lt.table[IdOf(lt, label)] = label /\ IdOf(lt, label) \notin lt.deleted
        BY <1>1, <3>1, <4>1, TableFields
           DEF IInv, LabelsAgree, PresentPointsBack, CheckLabel, IsRemoved
      <4> QED
        BY <4>2 DEF KnnScored, IsRemoved
    <3>2. ASSUME NEW i \in KnnScored, lt.table[i] = label PROVE CheckLabel(lt, label)
      BY <2>1, <3>2, IdFacts DEF CheckLabel, Found, IsRemoved
    <3> QED
      BY <3>1, <3>2
  <2>3. \A i, j \in KnnScored : lt.table[i] = lt.table[j] => i = j
    BY <2>1
  <2> QED
    BY <2>2, <2>3 DEF KnnScoresEachLabelOnce
<1> QED
  BY <1>1, AlwaysIInv, PTL

(* Between Adds, every point that KnnSearch scores has its vector, although *)
(* Add writes it outside both mutexes and FORCE_REMOVE moves vectors.       *)
THEOREM BruteForceCodes == Spec => []QuietCodesWritten
<1>1. ASSUME IInv PROVE QuietCodesWritten
  BY <1>1, NoneAssumption DEF IInv, CodesComing, QuietCodesWritten, Quiet, KnnScored, IsRemoved
<1> QED
  BY <1>1, AlwaysIInv, PTL

(* With MARK_REMOVE alone, GetNumElements is exact: the live slots and the  *)
(* present labels are the two sides of a bijection.                         *)
THEOREM BruteForceCount == Spec => []CountIsExact
<1>1. ASSUME IInv, NeverForced
      PROVE  GetNumElements = Cardinality({l \in Labels : CheckLabel(lt, l)})
  <2>1. /\ lt \in Table /\ total_count \in 0 .. MaxId /\ LabelsAgree(lt, total_count)
        /\ \A i \in lt.deleted : i < total_count
    BY <1>1 DEF IInv, TypeOK, IdsGivenOnce
  <2>2. Cardinality({l \in Labels : CheckLabel(lt, l)}) = total_count - Cardinality(lt.deleted)
    BY <2>1, PresentCount
  <2> QED
    BY <1>1, <2>2 DEF NeverForced, GetNumElements
<1>2. IInv => CountIsExact
  BY <1>1 DEF CountIsExact
<1> QED
  BY <1>2, AlwaysIInv, PTL

----------------------------------------------------------------------------
(* What a step may do.                                                      *)

(* No step but an Add of a label, or the renaming of a present point to it, *)
(* makes the label present.                                                 *)
THEOREM BruteForceNothingComesBack == Spec => OnlyAddBringsBack
<1> DEFINE Back(label) ==
             ~ CheckLabel(lt, label) /\ CheckLabel(lt', label) =>
                 \/ \E t \in Threads : job[t].label = label /\ AddAllocate(t)
                 \/ \E old \in Labels : CheckLabel(lt, old) /\ UpdateId(old, label)
<1>1. ASSUME IInv, Next, NEW label \in Labels PROVE Back(label)
  <2> SUFFICES ASSUME ~ CheckLabel(lt, label), CheckLabel(lt', label)
               PROVE  \/ \E t \in Threads : job[t].label = label /\ AddAllocate(t)
                      \/ \E old \in Labels : CheckLabel(lt, old) /\ UpdateId(old, label)
    OBVIOUS
  <2>0. TypeOK /\ JobsGiven /\ LabelsAgree(lt, total_count) /\ label \in AnyLabel /\ lt \in Table
    BY <1>1, IdFacts DEF IInv, TypeOK
  <2>1. lt' # lt
    OBVIOUS
  <2>2. ASSUME NEW t \in Threads, AddAllocate(t) PROVE job[t].label = label
    BY <2>0, <2>2, Allocated DEF CheckLabel, Found, IsRemoved
  <2>3. ASSUME NEW m \in Labels, RemoveMark(m) PROVE FALSE
    <3>1. lt'.remap = lt.remap /\ lt.deleted \subseteq lt'.deleted
      BY <2>0, <2>3, Marked
    <3> QED
      BY <3>1 DEF CheckLabel, Found, IdOf, IsRemoved
  <2>4. ASSUME NEW m \in Labels, RemoveForce(m) PROVE FALSE
    BY <2>0, <2>4, Forced
  <2>5. ASSUME NEW old \in Labels, NEW new \in Labels, UpdateId(old, new)
        PROVE  new = label /\ CheckLabel(lt, old)
    <3>1. old \in AnyLabel /\ new \in AnyLabel /\ old # new /\ lt' = UpdateLabel(lt, old, new)
      BY <2>5, IdFacts DEF UpdateId
    <3>2. /\ lt'.deleted = lt.deleted
          /\ \A m \in AnyLabel : IdOf(lt', m)
                = IF ~ Found(lt, old) THEN IdOf(lt, m)
                  ELSE IF m = new THEN IdOf(lt, old)
                  ELSE IF m = old THEN INVALID_ID ELSE IdOf(lt, m)
      BY <2>0, <3>1, UpdateFields
    <3> QED
      BY <2>0, <3>2 DEF CheckLabel, Found, IsRemoved
  <2>6. \A t \in Threads : \A l \in Labels, v \in Vectors : ~ AddCheck(t, l, v)
    BY <2>1 DEF AddCheck
  <2>7. \A t \in Threads : ~ AddLost(t) /\ ~ AddWrite(t)
    BY <2>1 DEF AddLost, AddWrite
  <2> QED
    BY <1>1, <2>2, <2>3, <2>4, <2>5, <2>6, <2>7 DEF Next
<1>2. IInv /\ [Next]_vars => [\A label \in Labels : Back(label)]_vars
  BY <1>1
<1> QED
  BY <1>2, AlwaysIInv, PTL DEF Spec, OnlyAddBringsBack

(* The steps of the index seen from the abstract store.  An Add takes       *)
(* effect where it writes its code; the others where they change the table. *)
LEMMA StoreSteps ==
    ASSUME IInv, Next, NeverForced'
    PROVE  Store!Edit \/ UNCHANGED StoreView
<1> DEFINE Pending(i) == \E t \in Threads : pc[t] = "write" /\ job[t].id = i
           Pending2(i) == \E t \in Threads : pc'[t] = "write" /\ job'[t].id = i
           view(l) == IF CheckLabel(lt, l) /\ ~ Pending(IdOf(lt, l))
                      THEN codes[IdOf(lt, l)] ELSE NoVector
           view2(l) == IF CheckLabel(lt', l) /\ ~ Pending2(IdOf(lt', l))
                       THEN codes'[IdOf(lt', l)] ELSE NoVector
<1>0. /\ TypeOK /\ JobsGiven /\ LabelsAgree(lt, total_count) /\ DeletedCounted
      /\ Labels \subseteq AnyLabel /\ lt \in Table
  BY IdFacts DEF IInv, TypeOK
<1>1. NeverForced /\ (\A label \in Labels : ~ RemoveForce(label)) /\ IdsGivenOnce
  BY <1>0, ForcedForEver DEF IInv
<1>2. StoreView = [l \in Labels |-> view(l)] /\ StoreView' = [l \in Labels |-> view2(l)]
  BY DEF StoreView
<1>3. \A l \in Labels : CheckLabel(lt, l) =>
         /\ IdOf(lt, l) \in Ids /\ IdOf(lt, l) < total_count /\ lt.table[IdOf(lt, l)] = l
         /\ IdOf(lt, l) \notin lt.deleted
  BY <1>0, TableFields DEF LabelsAgree, PresentPointsBack, CheckLabel, IsRemoved
<1>4. ASSUME \A l \in Labels : view2(l) = view(l) PROVE UNCHANGED StoreView
  <2> HIDE DEF view, view2
  <2> QED
    BY <1>2, <1>4
<1>5. ASSUME NEW t \in Threads, NEW label \in Labels, NEW v \in Vectors, AddCheck(t, label, v)
      PROVE  UNCHANGED StoreView
  <2>1. lt' = lt /\ codes' = codes /\ \A i : Pending2(i) <=> Pending(i)
    BY <1>0, <1>5 DEF AddCheck, TypeOK
  <2> QED
    BY <1>4, <2>1
<1>6. ASSUME NEW t \in Threads, AddLost(t) PROVE UNCHANGED StoreView
  <2>1. lt' = lt /\ codes' = codes /\ \A i : Pending2(i) <=> Pending(i)
    BY <1>0, <1>6 DEF AddLost, TypeOK
  <2> QED
    BY <1>4, <2>1
<1>7. ASSUME NEW t \in Threads, AddAllocate(t) PROVE UNCHANGED StoreView
  <2>1. /\ total_count \in Int /\ ~ CheckLabel(lt, job[t].label)
        /\ lt'.deleted = lt.deleted
        /\ IdOf(lt', job[t].label) = total_count
        /\ \A m \in AnyLabel : m # job[t].label => IdOf(lt', m) = IdOf(lt, m)
        /\ pc[t] = "allocate" /\ pc'[t] = "write" /\ job'[t].id = total_count
        /\ \A u \in Threads : u # t => pc'[u] = pc[u] /\ job'[u] = job[u]
        /\ codes' = codes
    BY <1>0, <1>7, Allocated, TypeFacts DEF AddAllocate
  <2>2. \A i : i # total_count => (Pending2(i) <=> Pending(i))
    BY <2>1
  <2>3. Pending2(total_count)
    BY <2>1
  <2>4. ASSUME NEW l \in Labels PROVE view2(l) = view(l)
    <3>1. CASE l = job[t].label
      BY <2>1, <2>3, <3>1
    <3>2. CASE l # job[t].label
      <4>1. IdOf(lt', l) = IdOf(lt, l) /\ (CheckLabel(lt', l) <=> CheckLabel(lt, l))
        BY <1>0, <2>1, <3>2 DEF CheckLabel, Found, IsRemoved
      <4>2. CheckLabel(lt, l) => IdOf(lt, l) # total_count
        BY <1>3, <2>1
      <4> HIDE DEF Pending, Pending2
      <4> QED
        BY <2>1, <2>2, <4>1, <4>2
    <3> QED
      BY <3>1, <3>2
  <2> QED
    BY <1>4, <2>4
<1>8. ASSUME NEW t \in Threads, AddWrite(t) PROVE Store!Edit \/ UNCHANGED StoreView
  <2> DEFINE id == job[t].id
             v == job[t].vector
  <2>1. /\ pc[t] = "write" /\ pc'[t] = "idle" /\ id \in Ids /\ v \in Vectors /\ lt' = lt
        /\ codes'[id] = v /\ (\A i \in Ids : i # id => codes'[i] = codes[i])
        /\ \A u \in Threads : u # t => pc'[u] = pc[u] /\ job'[u] = job[u]
    BY <1>0, <1>8 DEF AddWrite, TypeOK, JobsGiven
  <2>2. /\ Pending(id) /\ ~ Pending2(id)
        /\ \A i : i # id => (Pending2(i) <=> Pending(i))
    BY <1>1, <2>1 DEF IdsGivenOnce
  <2> HIDE DEF Pending, Pending2, id, v
  <2>3. \A l \in Labels : ~ (CheckLabel(lt, l) /\ IdOf(lt, l) = id) => view2(l) = view(l)
    BY <1>3, <2>1, <2>2
  <2>4. \A l \in Labels : CheckLabel(lt, l) /\ IdOf(lt, l) = id =>
           view(l) = NoVector /\ view2(l) = v
    BY <2>1, <2>2
  <2>5. CASE \E l \in Labels : CheckLabel(lt, l) /\ IdOf(lt, l) = id
    <3>1. PICK l \in Labels : CheckLabel(lt, l) /\ IdOf(lt, l) = id
      BY <2>5
    <3>2. \A m \in Labels : m # l => view2(m) = view(m)
      BY <1>3, <2>3, <3>1
    <3>3. view(l) = NoVector /\ view2(l) = v
      BY <2>4, <3>1
    <3> HIDE DEF view, view2
    <3>4. StoreView[l] = NoVector /\ StoreView' = [StoreView EXCEPT ![l] = v]
      BY <1>2, <3>2, <3>3
    <3> QED
      BY <2>1, <3>4 DEF Store!Edit, Store!Add
  <2>6. CASE ~ \E l \in Labels : CheckLabel(lt, l) /\ IdOf(lt, l) = id
    BY <1>4, <2>3, <2>6
  <2> QED
    BY <2>5, <2>6
<1>9. ASSUME NEW label \in Labels, RemoveMark(label) PROVE Store!Edit
  <2>1. /\ lt'.remap = lt.remap
        /\ lt'.deleted = lt.deleted \cup (IF Found(lt, label) THEN {IdOf(lt, label)} ELSE {})
        /\ codes' = codes /\ pc' = pc /\ job' = job
    BY <1>0, <1>9, Marked DEF RemoveMark
  <2>2. \A l : IdOf(lt', l) = IdOf(lt, l)
    BY <2>1 DEF IdOf
  <2>3. ~ CheckLabel(lt', label)
    BY <2>1, <2>2 DEF CheckLabel, Found, IsRemoved
  <2>4. ASSUME NEW l \in Labels, l # label PROVE CheckLabel(lt', l) <=> CheckLabel(lt, l)
    <3>1. CheckLabel(lt, l) /\ Found(lt, label) => IdOf(lt, l) # IdOf(lt, label)
      BY <1>3, <2>4 DEF CheckLabel, Found, IsRemoved
    <3> QED
      BY <2>1, <2>2, <3>1 DEF CheckLabel, Found, IsRemoved
  <2>5. view2(label) = NoVector /\ \A l \in Labels : l # label => view2(l) = view(l)
    BY <2>1, <2>2, <2>3, <2>4
  <2> HIDE DEF view, view2
  <2>6. StoreView' = [StoreView EXCEPT ![label] = NoVector]
    BY <1>2, <2>5
  <2> QED
    BY <2>6 DEF Store!Edit, Store!Remove
<1>10. ASSUME NEW old \in Labels, NEW new \in Labels, UpdateId(old, new)
       PROVE  Store!Edit \/ UNCHANGED StoreView
  <2>1. /\ old \in AnyLabel /\ new \in AnyLabel /\ old # new /\ lt' = UpdateLabel(lt, old, new)
        /\ ~ CheckLabel(lt, new) /\ codes' = codes /\ pc' = pc /\ job' = job
    BY <1>10, IdFacts DEF UpdateId, CanUpdateLabel
  <2>2. /\ lt'.deleted = lt.deleted
        /\ \A m \in AnyLabel : IdOf(lt', m)
              = IF ~ Found(lt, old) THEN IdOf(lt, m)
                ELSE IF m = new THEN IdOf(lt, old)
                ELSE IF m = old THEN INVALID_ID ELSE IdOf(lt, m)
    BY <1>0, <2>1, UpdateFields
  <2>3. CASE ~ Found(lt, old)
    <3>1. \A l \in Labels : IdOf(lt', l) = IdOf(lt, l) /\ (CheckLabel(lt', l) <=> CheckLabel(lt, l))
      BY <1>0, <2>2, <2>3 DEF CheckLabel, Found, IsRemoved
    <3> QED
      BY <1>4, <2>1, <3>1
  <2>4. CASE Found(lt, old)
    <3>1. /\ IdOf(lt', new) = IdOf(lt, old) /\ (CheckLabel(lt', new) <=> CheckLabel(lt, old))
          /\ ~ CheckLabel(lt', old)
          /\ \A l \in Labels : l # old /\ l # new =>
                IdOf(lt', l) = IdOf(lt, l) /\ (CheckLabel(lt', l) <=> CheckLabel(lt, l))
      BY <1>0, <2>1, <2>2, <2>4 DEF CheckLabel, Found, IsRemoved
    <3>2. /\ view(new) = NoVector /\ view2(new) = view(old) /\ view2(old) = NoVector
          /\ \A l \in Labels : l # old /\ l # new => view2(l) = view(l)
      BY <2>1, <3>1
    <3> HIDE DEF view, view2
    <3>3. /\ StoreView[new] = NoVector
          /\ StoreView' = [StoreView EXCEPT ![new] = StoreView[old], ![old] = NoVector]
      BY <1>2, <2>1, <3>2
    <3> QED
      BY <3>3 DEF Store!Edit, Store!Rename
  <2> QED
    BY <2>3, <2>4
<1> QED
  BY <1>1, <1>5, <1>6, <1>7, <1>8, <1>9, <1>10 DEF Next

(* With MARK_REMOVE alone BruteForce implements the abstract store, however *)
(* many threads add: each step is one operation of the store or none.       *)
THEOREM BruteForceRefinesStore == Spec => ImplementsStore
<1>1. Init => Store!Init
  BY IdFacts DEF Init, EmptyTable, StoreView, CheckLabel, Found, IdOf, Store!Init
<1>2. ASSUME UNCHANGED vars PROVE UNCHANGED StoreView
  BY <1>2 DEF vars, StoreView
<1>3. IInv /\ [Next]_vars => [NeverForced' => Store!Edit]_StoreView
  BY <1>2, StoreSteps
<1> QED
  BY <1>1, <1>3, AlwaysIInv, PTL DEF Spec, ImplementsStore
=============================================================================
