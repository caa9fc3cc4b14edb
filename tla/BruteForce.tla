----------------------------- MODULE BruteForce -----------------------------
(***************************************************************************)
(* The BruteForce index (algorithm/brute_force.cpp): a label table, an      *)
(* array of codes and a count.  Adds run on several threads: each checks    *)
(* the label, then, in a second critical section, checks it again and       *)
(* allocates an id, and writes the code of that id outside both mutexes.    *)
(* Remove runs as one critical section, in either of its modes.             *)
(*                                                                         *)
(* A search holds global_mutex_ shared and is not declared safe beside an   *)
(* Add (no SUPPORT_ADD_SEARCH_CONCURRENT), so its answer is an operator on  *)
(* the state, read when no Add is under way.                                *)
(***************************************************************************)
EXTENDS LabelTable

CONSTANTS
    Vectors,        \* what users store
    Threads,        \* the threads that add
    RemoveModes,    \* the RemoveMode values this instance calls Remove with
    NoVector,       \* a code that was never written
    NoLabel         \* the label of a thread that adds nothing

ASSUME ModesAssumption == RemoveModes \subseteq {"MARK_REMOVE", "FORCE_REMOVE"}

ASSUME NoneAssumption == NoVector \notin Vectors /\ NoLabel \notin AnyLabel

VARIABLES
    lt,             \* label_table_
    total_count,    \* total_count_
    delete_count,   \* delete_count_
    codes,          \* inner_codes_: the vector stored at each id
    pc,             \* where a thread is in Add
    job             \* the label, vector and id a thread adds

vars == <<lt, total_count, delete_count, codes, pc, job>>

NoJob == [label |-> NoLabel, vector |-> NoVector, id |-> INVALID_ID]

Init ==
    /\ lt = EmptyTable
    /\ total_count = 0
    /\ delete_count = 0
    /\ codes = [i \in Ids |-> NoVector]
    /\ pc = [t \in Threads |-> "idle"]
    /\ job = [t \in Threads |-> NoJob]

----------------------------------------------------------------------------
(* Add of one vector.                                                       *)

\* The first look, under label_lookup_mutex_: a label that is present goes to
\* failed_ids and the thread is done.
AddCheck(t, label, v) ==
    /\ pc[t] = "idle"
    /\ ~ CheckLabel(lt, label)
    /\ pc' = [pc EXCEPT ![t] = "allocate"]
    /\ job' = [job EXCEPT ![t] = [label |-> label, vector |-> v,
                                  id |-> INVALID_ID]]
    /\ UNCHANGED <<lt, total_count, delete_count, codes>>

\* add_func finds, under both mutexes, that another thread was faster.
AddLost(t) ==
    /\ pc[t] = "allocate"
    /\ CheckLabel(lt, job[t].label)
    /\ pc' = [pc EXCEPT ![t] = "idle"]
    /\ job' = [job EXCEPT ![t] = NoJob]
    /\ UNCHANGED <<lt, total_count, delete_count, codes>>

\* An add_func that trusts the first look.
AddAllocateUnchecked(t) ==
    /\ pc[t] = "allocate"
    /\ total_count < MaxId
    /\ lt' = Insert(lt, total_count, job[t].label)
    /\ job' = [job EXCEPT ![t].id = total_count]
    /\ total_count' = total_count + 1
    /\ pc' = [pc EXCEPT ![t] = "write"]
    /\ UNCHANGED <<delete_count, codes>>

AddAllocate(t) ==
    /\ pc[t] = "allocate"
    /\ total_count < MaxId                                   \* bound
    /\ ~ CheckLabel(lt, job[t].label)
    /\ lt' = Insert(lt, total_count, job[t].label)
    /\ job' = [job EXCEPT ![t].id = total_count]
    /\ total_count' = total_count + 1
    /\ pc' = [pc EXCEPT ![t] = "write"]
    /\ UNCHANGED <<delete_count, codes>>

\* An Add that writes the vector to the id allocated last, not to its own.
AddWriteLast(t) ==
    /\ pc[t] = "write"
    /\ codes' = [codes EXCEPT ![total_count - 1] = job[t].vector]
    /\ pc' = [pc EXCEPT ![t] = "idle"]
    /\ job' = [job EXCEPT ![t] = NoJob]
    /\ UNCHANGED <<lt, total_count, delete_count>>

AddWrite(t) ==
    /\ pc[t] = "write"
    /\ codes' = [codes EXCEPT ![job[t].id] = job[t].vector]
    /\ pc' = [pc EXCEPT ![t] = "idle"]
    /\ job' = [job EXCEPT ![t] = NoJob]
    /\ UNCHANGED <<lt, total_count, delete_count>>

----------------------------------------------------------------------------
(* Remove of one label.                                                     *)

RemoveMark(label) ==
    /\ "MARK_REMOVE" \in RemoveModes
    /\ lt' = MarkRemove(lt, label)
    /\ delete_count' = delete_count + MarkRemoveCount(lt, label)
    /\ UNCHANGED <<total_count, codes, pc, job>>

\* The last point takes the place of the removed one.  A label that is absent
\* or removed makes GetIdByLabel throw.
RemoveForce(label) ==
    LET last   == total_count - 1
        id     == IdOf(lt, label)
        marked == MarkRemove(lt, label)
        last_label == lt.table[last]
    IN
    /\ "FORCE_REMOVE" \in RemoveModes
    /\ CheckLabel(lt, label)
    /\ id <= last
    /\ IF id < last
       THEN /\ codes' = [codes EXCEPT ![id] = codes[last]]
            /\ lt' = Insert(MarkRemove(marked, last_label), id, last_label)
       ELSE /\ lt' = marked
            /\ UNCHANGED codes
    /\ total_count' = last
    /\ UNCHANGED <<delete_count, pc, job>>

UpdateId(old, new) ==
    /\ old # new
    /\ CanUpdateLabel(lt, old, new)
    /\ lt' = UpdateLabel(lt, old, new)
    /\ UNCHANGED <<total_count, delete_count, codes, pc, job>>

Next ==
    \/ \E t \in Threads :
          \/ \E label \in Labels, v \in Vectors : AddCheck(t, label, v)
          \/ AddLost(t)
          \/ AddAllocate(t)
          \/ AddWrite(t)
    \/ \E label \in Labels : RemoveMark(label) \/ RemoveForce(label)
    \/ \E old, new \in Labels : UpdateId(old, new)

Spec == Init /\ [][Next]_vars

----------------------------------------------------------------------------
(* What the index answers.                                                  *)

GetNumElements == total_count - delete_count

\* The ids KnnSearch scores: those below the count that the filter of deleted
\* ids lets through.
KnnScored == {i \in Ids : i < total_count /\ ~ IsRemoved(lt, i)}

Quiet == \A t \in Threads : pc[t] = "idle"

----------------------------------------------------------------------------
(* Properties.                                                              *)

TypeOK ==
    /\ lt \in Table
    /\ total_count \in 0 .. MaxId
    /\ delete_count \in 0 .. MaxId
    /\ codes \in [Ids -> Vectors \cup {NoVector}]
    /\ pc \in [Threads -> {"idle", "allocate", "write"}]
    /\ job \in [Threads -> [label : Labels \cup {NoLabel},
                            vector : Vectors \cup {NoVector},
                            id : Ids \cup {INVALID_ID}]]

\* KnnSearch scores the points of the present labels and nothing else, each
\* label once: the double check of Add keeps two threads from storing one
\* label twice, and a label that is removed and added again counts once.
KnnScoresEachLabelOnce ==
    /\ \A i, j \in KnnScored : lt.table[i] = lt.table[j] => i = j
    /\ \A label \in Labels :
          CheckLabel(lt, label) <=> \E i \in KnnScored : lt.table[i] = label

\* FORCE_REMOVE adds its id to deleted_ids_ and not to delete_count_, so the
\* two agree as long as it was never called.
NeverForced == Cardinality(lt.deleted) = delete_count

\* As long as MARK_REMOVE alone is used, GetNumElements is the number of labels
\* that are present, whatever was removed twice, removed and added again, or
\* added by two threads at once.
CountIsExact ==
    NeverForced => GetNumElements = Cardinality({l \in Labels : CheckLabel(lt, l)})

\* A point that KnnSearch scores while no Add is under way has its vector.
QuietCodesWritten ==
    Quiet => \A i \in KnnScored : codes[i] # NoVector

\* Only an Add of a label, or a present point renamed to it, makes the label
\* present: neither mode of Remove, nor the renaming of a removed point, brings
\* back what was removed, whatever ids the points swap.
OnlyAddBringsBack ==
    [][\A label \in Labels :
          ~ CheckLabel(lt, label) /\ CheckLabel(lt', label) =>
              \/ \E t \in Threads : job[t].label = label /\ AddAllocate(t)
              \/ \E old \in Labels : CheckLabel(lt, old) /\ UpdateId(old, label)]_vars

\* FORCE_REMOVE of a label leaves every other label present.
ForceRemoveKeepsOthers ==
    [][\A label \in Labels : Quiet /\ RemoveForce(label) =>
          \A other \in Labels \ {label} :
              CheckLabel(lt, other) => CheckLabel(lt', other)]_vars

\* An Add of a label is linearised where it writes the code, a Remove where it
\* marks the label.
StoreView ==
    [l \in Labels |->
        IF CheckLabel(lt, l)
             /\ ~ \E t \in Threads : pc[t] = "write" /\ job[t].id = IdOf(lt, l)
        THEN codes[IdOf(lt, l)] ELSE NoVector]

Store == INSTANCE VectorStore WITH live <- StoreView

\* As long as MARK_REMOVE alone is used, the index implements the abstract
\* store: concurrent Adds of one label take effect once, a Remove takes its
\* label away and nothing else, no step changes the vector of a present label.
ImplementsStore == Store!Init /\ [][NeverForced' => Store!Edit]_StoreView
=============================================================================
