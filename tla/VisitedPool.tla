---------------------------- MODULE VisitedPool ----------------------------
(***************************************************************************)
(* The pool of visited lists that every graph search takes one of.         *)
(*                                                                         *)
(* A visited list (utils/visited_list.h) is an array of 16-bit tags and a  *)
(* current tag: an id is visited when its entry equals the current tag, so *)
(* that Reset costs one increment, and a memset only when the tag reaches  *)
(* its maximum.  Lists are recycled through ResourceObjectPool             *)
(* (utils/resource_object_pool.h): K sub-pools, each a deque behind its    *)
(* own mutex.  TakeOne tries the sub-pools in turn with try_lock and       *)
(* constructs a list when the one it locks is empty; ReturnOne blocks on   *)
(* the mutex of the sub-pool the list came from.                           *)
(*                                                                         *)
(* A thread here is one search: it takes a list, visits ids, resets the    *)
(* list between the graph levels it walks, and returns it, or leaves by an *)
(* exception, in which case the last shared_ptr destroys the list.         *)
(***************************************************************************)
EXTENDS Naturals, Sequences, FiniteSets

CONSTANTS
    Threads,    \* the searches that may run at the same time
    Objects,    \* identities of the lists; bounds the lists alive at once
    Ids,        \* inner ids a list has an entry for
    K,          \* kSubPoolCount
    TagMax,     \* numeric_limits<VisitedListType>::max()
    NoThread,   \* owner of a free mutex
    NoObject    \* what a thread that holds no list holds

ASSUME PoolAssumption ==
    /\ K \in Nat \ {0}
    /\ TagMax \in Nat \ {0}
    /\ NoThread \notin Threads
    /\ NoObject \notin Objects

ASSUME ThreadsAssumption == IsFiniteSet(Threads) /\ Threads # {}

VARIABLES
    pool,       \* pool_: the deque of each sub-pool
    mutex,      \* sub_pool_mutexes_: the owner of each mutex
    pc,         \* where a thread is in TakeOne, its search or ReturnOne
    poolId,     \* pool_id / prefer_pool_id_ of a thread
    held,       \* the list a thread holds
    born,       \* lists constructed and not yet destroyed
    source,     \* source_pool_id_ of a list
    list,       \* list_ of a list
    tag,        \* tag_ of a list
    seen        \* history: the ids a thread visited since its last reset

vars == <<pool, mutex, pc, poolId, held, born, source, list, tag, seen>>

SubPools == 0 .. K - 1

----------------------------------------------------------------------------
(* VisitedList.                                                            *)

Zeroed == [i \in Ids |-> 0]

Get(o, id) == list[o][id] = tag[o]

Set(o, id) == list' = [list EXCEPT ![o][id] = tag[o]]

\* A Reset that forgets the memset when the tag wraps around.
ResetNoClear(o) ==
    /\ tag' = [tag EXCEPT ![o] = IF @ = TagMax THEN 1 ELSE @ + 1]
    /\ UNCHANGED list

\* A Reset that lets the tag run past its largest value.
ResetNoWrap(o) ==
    /\ tag' = [tag EXCEPT ![o] = @ + 1]
    /\ UNCHANGED list

Reset(o) ==
    IF tag[o] = TagMax
    THEN /\ list' = [list EXCEPT ![o] = Zeroed]
         /\ tag' = [tag EXCEPT ![o] = 1]
    ELSE /\ tag' = [tag EXCEPT ![o] = @ + 1]
         /\ UNCHANGED list

----------------------------------------------------------------------------
(* The constructor of the pool fills sub-pool 0 with one list, the size     *)
(* HGraph passes; a thread starts at the sub-pool its id hashes to.         *)

Init ==
    /\ \E o \in Objects :
          /\ born = {o}
          /\ pool = [p \in SubPools |-> IF p = 0 THEN <<o>> ELSE <<>>]
    /\ mutex = [p \in SubPools |-> NoThread]
    /\ pc = [t \in Threads |-> "idle"]
    /\ poolId \in [Threads -> SubPools]
    /\ held = [t \in Threads |-> NoObject]
    /\ source = [o \in Objects |-> 0]
    /\ list = [o \in Objects |-> Zeroed]
    /\ tag = [o \in Objects |-> 1]
    /\ seen = [t \in Threads |-> {}]

Goto(t, from, to) ==
    /\ pc[t] = from
    /\ pc' = [pc EXCEPT ![t] = to]

\* try_lock succeeds and the thread will prefer this sub-pool from now on.
TryLock(t) ==
    /\ Goto(t, "idle", "locked")
    /\ mutex[poolId[t]] = NoThread
    /\ mutex' = [mutex EXCEPT ![poolId[t]] = t]
    /\ UNCHANGED <<pool, poolId, held, born, source, list, tag, seen>>

\* try_lock fails: go on to the next sub-pool.
TryNext(t) ==
    /\ pc[t] = "idle"
    /\ mutex[poolId[t]] # NoThread
    /\ poolId' = [poolId EXCEPT ![t] = (@ + 1) % K]
    /\ UNCHANGED <<pool, mutex, pc, held, born, source, list, tag, seen>>

\* A TakeOne that reads the front of the deque and does not pop it.
TakeFrontNoPop(t) ==
    LET p == poolId[t] IN
    /\ Goto(t, "locked", "reset")
    /\ pool[p] # <<>>
    /\ held' = [held EXCEPT ![t] = Head(pool[p])]
    /\ mutex' = [mutex EXCEPT ![p] = NoThread]
    /\ UNCHANGED <<pool, poolId, born, source, list, tag, seen>>

TakeFront(t) ==
    LET p == poolId[t] IN
    /\ Goto(t, "locked", "reset")
    /\ pool[p] # <<>>
    /\ held' = [held EXCEPT ![t] = Head(pool[p])]
    /\ pool' = [pool EXCEPT ![p] = Tail(@)]
    /\ mutex' = [mutex EXCEPT ![p] = NoThread]
    /\ UNCHANGED <<poolId, born, source, list, tag, seen>>

\* A TakeOne that constructs a list without looking for a free one.
TakeEmptyUnchecked(t) ==
    /\ Goto(t, "locked", "construct")
    /\ mutex' = [mutex EXCEPT ![poolId[t]] = NoThread]
    /\ UNCHANGED <<pool, poolId, held, born, source, list, tag, seen>>

\* The sub-pool is empty: unlock it, the list is constructed outside.
TakeEmpty(t) ==
    /\ Goto(t, "locked", "construct")
    /\ pool[poolId[t]] = <<>>
    /\ mutex' = [mutex EXCEPT ![poolId[t]] = NoThread]
    /\ UNCHANGED <<pool, poolId, held, born, source, list, tag, seen>>

Construct(t) ==
    /\ Goto(t, "construct", "search")
    /\ \E o \in Objects \ born :
          /\ born' = born \cup {o}
          /\ held' = [held EXCEPT ![t] = o]
          /\ source' = [source EXCEPT ![o] = poolId[t]]
          /\ list' = [list EXCEPT ![o] = Zeroed]
          /\ tag' = [tag EXCEPT ![o] = 1]
    /\ seen' = [seen EXCEPT ![t] = {}]
    /\ UNCHANGED <<pool, mutex, poolId>>

\* The allocator throws: the search ends before it has a list.
ConstructFails(t) ==
    /\ Goto(t, "construct", "idle")
    /\ UNCHANGED <<pool, mutex, poolId, held, born, source, list, tag, seen>>

\* The end of TakeOne for a recycled list, outside the mutex.
ResetTaken(t) ==
    /\ Goto(t, "reset", "search")
    /\ source' = [source EXCEPT ![held[t]] = poolId[t]]
    /\ Reset(held[t])
    /\ seen' = [seen EXCEPT ![t] = {}]
    /\ UNCHANGED <<pool, mutex, poolId, held, born>>

----------------------------------------------------------------------------
(* The search, as far as it touches the list.                               *)

Visit(t, id) ==
    /\ pc[t] = "search"
    /\ ~ Get(held[t], id)
    /\ Set(held[t], id)
    /\ seen' = [seen EXCEPT ![t] = @ \cup {id}]
    /\ UNCHANGED <<pool, mutex, pc, poolId, held, born, source, tag>>

\* search_one_graph resets the list it is given before it walks a level.
NextLevel(t) ==
    /\ pc[t] = "search"
    /\ Reset(held[t])
    /\ seen' = [seen EXCEPT ![t] = {}]
    /\ UNCHANGED <<pool, mutex, pc, poolId, held, born, source>>

\* An exception leaves the search: the list is destroyed, never returned
\* (its identity goes back to the unused ones, its state to a canonical one).
Abandon(t) ==
    /\ Goto(t, "search", "idle")
    /\ born' = born \ {held[t]}
    /\ held' = [held EXCEPT ![t] = NoObject]
    /\ seen' = [seen EXCEPT ![t] = {}]
    /\ source' = [source EXCEPT ![held[t]] = 0]
    /\ list' = [list EXCEPT ![held[t]] = Zeroed]
    /\ tag' = [tag EXCEPT ![held[t]] = 1]
    /\ UNCHANGED <<pool, mutex, poolId>>

ReturnLock(t) ==
    /\ Goto(t, "search", "return")
    /\ mutex[source[held[t]]] = NoThread
    /\ mutex' = [mutex EXCEPT ![source[held[t]]] = t]
    /\ UNCHANGED <<pool, poolId, held, born, source, list, tag, seen>>

ReturnPush(t) ==
    LET p == source[held[t]] IN
    /\ Goto(t, "return", "idle")
    /\ pool' = [pool EXCEPT ![p] = Append(@, held[t])]
    /\ held' = [held EXCEPT ![t] = NoObject]
    /\ mutex' = [mutex EXCEPT ![p] = NoThread]
    /\ seen' = [seen EXCEPT ![t] = {}]
    /\ UNCHANGED <<poolId, born, source, list, tag>>

Next ==
    \E t \in Threads :
        \/ TryLock(t) \/ TryNext(t)
        \/ TakeFront(t) \/ TakeEmpty(t)
        \/ Construct(t) \/ ConstructFails(t) \/ ResetTaken(t)
        \/ \E id \in Ids : Visit(t, id)
        \/ NextLevel(t) \/ Abandon(t)
        \/ ReturnLock(t) \/ ReturnPush(t)

Spec == Init /\ [][Next]_vars

----------------------------------------------------------------------------
(* Properties.                                                              *)

Holding(t) == pc[t] \in {"reset", "search", "return"}

TypeOK ==
    /\ pool \in [SubPools -> Seq(Objects)]
    /\ mutex \in [SubPools -> Threads \cup {NoThread}]
    /\ pc \in [Threads ->
                 {"idle", "locked", "construct", "reset", "search", "return"}]
    /\ poolId \in [Threads -> SubPools]
    /\ held \in [Threads -> Objects \cup {NoObject}]
    /\ born \in SUBSET Objects
    /\ source \in [Objects -> SubPools]
    /\ list \in [Objects -> [Ids -> 0 .. TagMax]]
    /\ tag \in [Objects -> 1 .. TagMax]
    /\ seen \in [Threads -> SUBSET Ids]

\* A list that a search holds is held by no other search, lies in no deque,
\* and no deque holds a list twice: the unsynchronised Set and Get of
\* visited_list.h are never a race, whatever TakeOne and ReturnOne interleave.
ExclusiveLists ==
    /\ \A t, u \in Threads :
          t # u /\ held[t] # NoObject => held[t] # held[u]
    /\ \A t \in Threads : \A p \in SubPools : \A i \in DOMAIN pool[p] :
          pool[p][i] # held[t]
    /\ \A p, q \in SubPools : \A i \in DOMAIN pool[p] : \A j \in DOMAIN pool[q] :
          pool[p][i] = pool[q][j] => p = q /\ i = j

\* Get answers for exactly the ids this search visited since its last Reset:
\* entries a former owner of the list left, however many resets ago, are
\* never read as visited, also after the 16-bit tag has wrapped around.
VisitedIsFresh ==
    \A t \in Threads : pc[t] \in {"search", "return"} =>
        \A id \in Ids : Get(held[t], id) <=> id \in seen[t]

\* The pool never keeps more lists of one sub-pool alive than there are
\* searches: TakeOne constructs only when the sub-pool it locked is empty.
BoundedLists ==
    \A p \in SubPools :
        Cardinality({o \in born : source[o] = p}) <= Cardinality(Threads)
============================================================================
