------------------------- MODULE VisitedPoolProofs -------------------------
(***************************************************************************)
(* Proofs about VisitedPool, for any number of searches, lists, ids and     *)
(* sub-pools and any tag width.  The inductive invariant adds to the two    *)
(* properties what they rest on: a thread holds a list exactly between      *)
(* TakeOne and ReturnOne, every list in use is constructed, and no entry of *)
(* a list exceeds its tag, so that the next tag is unused in it.  The last  *)
(* part bounds the lists of a sub-pool by counting with them the searches   *)
(* that are about to construct one there.                                   *)
(***************************************************************************)
EXTENDS VisitedPool, FiniteSetTheorems, TLAPS

HeldWhileSearching ==
    \A t \in Threads : held[t] # NoObject <=> Holding(t)

UsedAreBorn ==
    /\ \A t \in Threads : held[t] # NoObject => held[t] \in born
    /\ \A p \in SubPools : \A i \in DOMAIN pool[p] : pool[p][i] \in born

EntriesBelowTag == \A o \in Objects : \A id \in Ids : list[o][id] <= tag[o]

IInv ==
    /\ TypeOK
    /\ HeldWhileSearching
    /\ UsedAreBorn
    /\ ExclusiveLists
    /\ EntriesBelowTag
    /\ VisitedIsFresh

(* What a search holds is a list.                                           *)
LEMMA HoldsObject ==
    ASSUME TypeOK, HeldWhileSearching, NEW t \in Threads, Holding(t)
    PROVE  held[t] \in Objects /\ held[t] # NoObject
BY PoolAssumption DEF TypeOK, HeldWhileSearching

(* Goto moves one thread.                                                   *)
LEMMA GotoMoves ==
    ASSUME TypeOK, NEW t \in Threads, NEW from, NEW to, Goto(t, from, to)
    PROVE  pc[t] = from /\ pc'[t] = to /\ \A u \in Threads \ {t} : pc'[u] = pc[u]
BY DEF TypeOK, Goto

(* Reset keeps the types of a list, and leaves it with no visited id and    *)
(* every other list as it was.                                              *)
LEMMA ResetClears ==
    ASSUME TypeOK, EntriesBelowTag, NEW o \in Objects, Reset(o)
    PROVE  /\ list' \in [Objects -> [Ids -> 0 .. TagMax]]
           /\ tag' \in [Objects -> 1 .. TagMax]
           /\ \A u \in Objects \ {o} : list'[u] = list[u] /\ tag'[u] = tag[u]
           /\ \A id \in Ids : list'[o][id] < tag'[o]
<1>1. list \in [Objects -> [Ids -> 0 .. TagMax]] /\ tag \in [Objects -> 1 .. TagMax]
  BY DEF TypeOK
<1>2. TagMax \in Nat \ {0}
  BY PoolAssumption
<1>3. CASE tag[o] = TagMax
  <2>1. list' = [list EXCEPT ![o] = Zeroed] /\ tag' = [tag EXCEPT ![o] = 1]
    BY <1>3 DEF Reset
  <2>2. Zeroed \in [Ids -> 0 .. TagMax] /\ \A id \in Ids : Zeroed[id] = 0
    BY <1>2 DEF Zeroed
  <2> QED
    BY <2>1, <2>2, <1>1, <1>2
<1>4. CASE tag[o] # TagMax
  <2>1. list' = list /\ tag' = [tag EXCEPT ![o] = tag[o] + 1]
    BY <1>4 DEF Reset
  <2>0. tag[o] \in 1 .. TagMax
    BY <1>1
  <2>2. tag[o] + 1 \in 1 .. TagMax
    BY <2>0, <1>2, <1>4
  <2>3. \A id \in Ids : list[o][id] \in Nat /\ list[o][id] <= tag[o]
    BY <1>1 DEF EntriesBelowTag
  <2> QED
    BY <2>1, <2>2, <2>3, <1>1
<1> QED
  BY <1>3, <1>4

(* Popping the front and appending at the back, position by position.       *)
LEMMA TailPositions ==
    ASSUME NEW S, NEW s \in Seq(S), s # <<>>
    PROVE  /\ Tail(s) \in Seq(S)
           /\ Head(s) = s[1] /\ 1 \in DOMAIN s
           /\ \A i \in DOMAIN Tail(s) :
                 i + 1 \in DOMAIN s /\ i \in Nat \ {0} /\ Tail(s)[i] = s[i + 1]
OBVIOUS

LEMMA AppendPositions ==
    ASSUME NEW S, NEW s \in Seq(S), NEW x \in S
    PROVE  /\ Append(s, x) \in Seq(S)
           /\ \A i \in DOMAIN Append(s, x) :
                 \/ i \in DOMAIN s /\ Append(s, x)[i] = s[i]
                 \/ i = Len(s) + 1 /\ Append(s, x)[i] = x
OBVIOUS

----------------------------------------------------------------------------

(* The initial pool satisfies the invariant.                                *)
LEMMA InitIInv == Init => IInv
<1> SUFFICES ASSUME Init PROVE IInv
  OBVIOUS
<1>1. PICK o \in Objects :
         born = {o} /\ pool = [p \in SubPools |-> IF p = 0 THEN <<o>> ELSE <<>>]
  BY DEF Init
<1>2. 0 \in SubPools
  BY PoolAssumption DEF SubPools
<1>3. TypeOK
  <2>1. <<o>> \in Seq(Objects) /\ <<>> \in Seq(Objects)
    OBVIOUS
  <2>2. Zeroed \in [Ids -> 0 .. TagMax]
    BY PoolAssumption DEF Zeroed
  <2>3. 1 \in 1 .. TagMax
    BY PoolAssumption
  <2> QED
    BY <1>1, <1>2, <2>1, <2>2, <2>3 DEF Init, TypeOK
<1>4. \A p \in SubPools : \A i \in DOMAIN pool[p] : p = 0 /\ i = 1 /\ pool[p][i] = o
  BY <1>1
<1>5. HeldWhileSearching /\ UsedAreBorn
  BY <1>1, <1>4 DEF Init, HeldWhileSearching, UsedAreBorn, Holding
<1>6. ExclusiveLists
  BY <1>1, <1>4, PoolAssumption DEF Init, ExclusiveLists
<1>7. EntriesBelowTag /\ VisitedIsFresh
  BY DEF Init, EntriesBelowTag, VisitedIsFresh, Zeroed
<1> QED
  BY <1>3, <1>5, <1>6, <1>7 DEF IInv

(* Every step keeps the types.                                              *)
LEMMA NextTypeOK ==
    ASSUME IInv, [Next]_vars
    PROVE  TypeOK'
<1> USE DEF IInv
<1>1. CASE UNCHANGED vars
  BY <1>1 DEF vars, TypeOK
<1>2. ASSUME NEW t \in Threads,
             TryLock(t) \/ TryNext(t) \/ TakeEmpty(t) \/ ConstructFails(t)
      PROVE  TypeOK'
  <2>1. CASE TryLock(t)
    BY <2>1 DEF TypeOK, TryLock, Goto
  <2>2. CASE TryNext(t)
    <3>1. (poolId[t] + 1) % K \in SubPools
      BY PoolAssumption DEF TypeOK, SubPools
    <3> QED
      BY <2>2, <3>1 DEF TypeOK, TryNext
  <2>3. CASE TakeEmpty(t)
    BY <2>3 DEF TypeOK, TakeEmpty, Goto
  <2>4. CASE ConstructFails(t)
    BY <2>4 DEF TypeOK, ConstructFails, Goto
  <2> QED
    BY <1>2, <2>1, <2>2, <2>3, <2>4
<1>3. ASSUME NEW t \in Threads, TakeFront(t) PROVE TypeOK'
  <2>1. pool[poolId[t]] \in Seq(Objects) /\ pool[poolId[t]] # <<>>
    BY <1>3 DEF TypeOK, TakeFront
  <2>2. Tail(pool[poolId[t]]) \in Seq(Objects) /\ Head(pool[poolId[t]]) \in Objects
    BY <2>1
  <2> QED
    BY <1>3, <2>2 DEF TypeOK, TakeFront, Goto
<1>4. ASSUME NEW t \in Threads, Construct(t) PROVE TypeOK'
  <2>1. Zeroed \in [Ids -> 0 .. TagMax] /\ 1 \in 1 .. TagMax
    BY PoolAssumption DEF Zeroed
  <2> QED
    BY <1>4, <2>1 DEF TypeOK, Construct, Goto
<1>5. ASSUME NEW t \in Threads, ResetTaken(t) \/ NextLevel(t) PROVE TypeOK'
  <2>1. Holding(t)
    BY <1>5 DEF ResetTaken, NextLevel, Goto, Holding
  <2>2. held[t] \in Objects
    BY <2>1, HoldsObject
  <2>3. Reset(held[t])
    BY <1>5 DEF ResetTaken, NextLevel
  <2>4. list' \in [Objects -> [Ids -> 0 .. TagMax]] /\ tag' \in [Objects -> 1 .. TagMax]
    BY <2>2, <2>3, ResetClears
  <2> QED
    BY <1>5, <2>2, <2>4 DEF TypeOK, ResetTaken, NextLevel, Goto
<1>6. ASSUME NEW t \in Threads, NEW id \in Ids, Visit(t, id) PROVE TypeOK'
  <2>1. held[t] \in Objects
    BY <1>6, HoldsObject DEF Visit, Holding
  <2>2. tag[held[t]] \in 0 .. TagMax
    BY <2>1, PoolAssumption DEF TypeOK
  <2> QED
    BY <1>6, <2>1, <2>2 DEF TypeOK, Visit, Set
<1>7. ASSUME NEW t \in Threads, Abandon(t) PROVE TypeOK'
  <2>1. held[t] \in Objects
    BY <1>7, HoldsObject DEF Abandon, Goto, Holding
  <2>2. Zeroed \in [Ids -> 0 .. TagMax] /\ 1 \in 1 .. TagMax /\ 0 \in SubPools
    BY PoolAssumption DEF Zeroed, SubPools
  <2> QED
    BY <1>7, <2>1, <2>2 DEF TypeOK, Abandon, Goto
<1>8. ASSUME NEW t \in Threads, ReturnLock(t) PROVE TypeOK'
  <2>1. held[t] \in Objects
    BY <1>8, HoldsObject DEF ReturnLock, Goto, Holding
  <2> QED
    BY <1>8, <2>1 DEF TypeOK, ReturnLock, Goto
<1>9. ASSUME NEW t \in Threads, ReturnPush(t) PROVE TypeOK'
  <2>1. held[t] \in Objects
    BY <1>9, HoldsObject DEF ReturnPush, Goto, Holding
  <2>2. Append(pool[source[held[t]]], held[t]) \in Seq(Objects)
    BY <2>1 DEF TypeOK
  <2> QED
    BY <1>9, <2>1, <2>2 DEF TypeOK, ReturnPush, Goto
<1> QED
  BY <1>1, <1>2, <1>3, <1>4, <1>5, <1>6, <1>7, <1>8, <1>9 DEF Next

(* A step of one thread leaves the others where they are, and what it holds *)
(* and the deques contain stays exclusive and constructed.                  *)
LEMMA NextOwnership ==
    ASSUME IInv, [Next]_vars
    PROVE  HeldWhileSearching' /\ UsedAreBorn' /\ ExclusiveLists'
<1> USE DEF IInv
<1> DEFINE Goal == HeldWhileSearching' /\ UsedAreBorn' /\ ExclusiveLists'
<1>1. CASE UNCHANGED vars
  BY <1>1 DEF vars, HeldWhileSearching, UsedAreBorn, ExclusiveLists, Holding
<1>2. ASSUME NEW t \in Threads, UNCHANGED <<pool, held, born>>,
             Holding(t)' <=> Holding(t),
             \A u \in Threads \ {t} : pc'[u] = pc[u]
      PROVE  Goal
  <2>1. HeldWhileSearching'
    BY <1>2 DEF HeldWhileSearching, Holding
  <2> QED
    BY <1>2, <2>1 DEF UsedAreBorn, ExclusiveLists
<1>3. ASSUME NEW t \in Threads,
             TryLock(t) \/ TryNext(t) \/ TakeEmpty(t) \/ ConstructFails(t)
               \/ ResetTaken(t) \/ NextLevel(t) \/ ReturnLock(t)
               \/ \E id \in Ids : Visit(t, id)
      PROVE  Goal
  <2>1. UNCHANGED <<pool, held, born>>
    BY <1>3 DEF TryLock, TryNext, TakeEmpty, ConstructFails, ResetTaken,
                NextLevel, ReturnLock, Visit
  <2>2. CASE TryNext(t) \/ NextLevel(t) \/ \E id \in Ids : Visit(t, id)
    <3>1. pc' = pc
      BY <2>2 DEF TryNext, NextLevel, Visit
    <3> QED
      BY <2>1, <3>1, <1>2 DEF Holding
  <2>3. CASE TryLock(t) \/ TakeEmpty(t) \/ ConstructFails(t)
    <3>1. \E from, to \in {"idle", "locked", "construct"} : Goto(t, from, to)
      BY <2>3 DEF TryLock, TakeEmpty, ConstructFails
    <3>2. ~ Holding(t) /\ ~ Holding(t)' /\ \A u \in Threads \ {t} : pc'[u] = pc[u]
      BY <3>1, GotoMoves DEF Holding
    <3> QED
      BY <2>1, <3>2, <1>2
  <2>4. CASE ResetTaken(t) \/ ReturnLock(t)
    <3>1. \E from, to \in {"reset", "search", "return"} : Goto(t, from, to)
      BY <2>4 DEF ResetTaken, ReturnLock
    <3>2. Holding(t) /\ Holding(t)' /\ \A u \in Threads \ {t} : pc'[u] = pc[u]
      BY <3>1, GotoMoves DEF Holding
    <3> QED
      BY <2>1, <3>2, <1>2
  <2> QED
    BY <1>3, <2>2, <2>3, <2>4
<1>4. ASSUME NEW t \in Threads, TakeFront(t) PROVE Goal
  <2> DEFINE p == poolId[t]
  <2> DEFINE o == Head(pool[p])
  <2>1. p \in SubPools /\ pool[p] \in Seq(Objects) /\ pool[p] # <<>>
    BY <1>4 DEF TypeOK, TakeFront
  <2>2. o = pool[p][1] /\ 1 \in DOMAIN pool[p] /\ o \in Objects
    BY <2>1
  <2>3. held' = [held EXCEPT ![t] = o] /\ born' = born
    BY <1>4 DEF TakeFront
  <2>4. pool' = [pool EXCEPT ![p] = Tail(pool[p])]
    BY <1>4 DEF TakeFront
  <2>5. \A q \in SubPools : \A i \in DOMAIN pool'[q] :
          \E j \in DOMAIN pool[q] :
             /\ pool'[q][i] = pool[q][j]
             /\ q = p => j = i + 1 /\ i \in Nat \ {0}
             /\ q # p => j = i
    BY <2>1, <2>4, TailPositions DEF TypeOK
  <2>6. HeldWhileSearching'
    BY <1>4, <2>2, <2>3, PoolAssumption DEF HeldWhileSearching, Holding, TakeFront, Goto, TypeOK
  <2>7. UsedAreBorn'
    BY <2>1, <2>2, <2>3, <2>5 DEF UsedAreBorn, TypeOK
  <2>8. \A u, w \in Threads : u # w /\ held'[u] # NoObject => held'[u] # held'[w]
    BY <2>1, <2>2, <2>3 DEF ExclusiveLists, TypeOK
  <2>9. \A u \in Threads : \A q \in SubPools : \A i \in DOMAIN pool'[q] :
          pool'[q][i] # held'[u]
    <3> SUFFICES ASSUME NEW u \in Threads, NEW q \in SubPools, NEW i \in DOMAIN pool'[q]
                 PROVE  pool'[q][i] # held'[u]
      OBVIOUS
    <3>1. PICK j \in DOMAIN pool[q] :
             /\ pool'[q][i] = pool[q][j]
             /\ q = p => j = i + 1 /\ i \in Nat \ {0}
             /\ q # p => j = i
      BY <2>5
    <3>2. CASE u = t
      <4>1. ~(q = p /\ j = 1)
        BY <3>1
      <4>2. pool[q][j] # pool[p][1]
        BY <4>1, <2>1, <2>2 DEF ExclusiveLists
      <4> QED
        BY <3>1, <3>2, <4>2, <2>2, <2>3 DEF TypeOK
    <3>3. CASE u # t
      BY <3>1, <3>3, <2>3 DEF TypeOK, ExclusiveLists
    <3> QED
      BY <3>2, <3>3
  <2>10. \A q, r \in SubPools : \A i \in DOMAIN pool'[q] : \A j \in DOMAIN pool'[r] :
          pool'[q][i] = pool'[r][j] => q = r /\ i = j
    <3> SUFFICES ASSUME NEW q \in SubPools, NEW r \in SubPools,
                        NEW i \in DOMAIN pool'[q], NEW j \in DOMAIN pool'[r],
                        pool'[q][i] = pool'[r][j]
                 PROVE  q = r /\ i = j
      OBVIOUS
    <3>1. PICK k \in DOMAIN pool[q] :
             /\ pool'[q][i] = pool[q][k]
             /\ q = p => k = i + 1 /\ i \in Nat \ {0}
             /\ q # p => k = i
      BY <2>5
    <3>2. PICK l \in DOMAIN pool[r] :
             /\ pool'[r][j] = pool[r][l]
             /\ r = p => l = j + 1 /\ j \in Nat \ {0}
             /\ r # p => l = j
      BY <2>5
    <3>3. pool[q][k] = pool[r][l]
      BY <3>1, <3>2
    <3>4. q = r /\ k = l
      BY <3>3 DEF ExclusiveLists
    <3> QED
      BY <3>1, <3>2, <3>4
  <2> QED
    BY <2>6, <2>7, <2>8, <2>9, <2>10 DEF ExclusiveLists
<1>5. ASSUME NEW t \in Threads, Construct(t) PROVE Goal
  <2>1. PICK o \in Objects \ born : born' = born \cup {o} /\ held' = [held EXCEPT ![t] = o]
    BY <1>5 DEF Construct
  <2>2. pool' = pool
    BY <1>5 DEF Construct
  <2>3. HeldWhileSearching'
    BY <1>5, <2>1, PoolAssumption DEF HeldWhileSearching, Holding, Construct, Goto, TypeOK
  <2>4. UsedAreBorn'
    BY <2>1, <2>2 DEF UsedAreBorn, TypeOK
  <2>5. ExclusiveLists'
    BY <2>1, <2>2 DEF UsedAreBorn, ExclusiveLists, TypeOK
  <2> QED
    BY <2>3, <2>4, <2>5
<1>6. ASSUME NEW t \in Threads, Abandon(t) PROVE Goal
  <2>1. held[t] \in Objects /\ held[t] # NoObject
    BY <1>6, HoldsObject DEF Abandon, Goto, Holding
  <2>2. /\ born' = born \ {held[t]}
        /\ held' = [held EXCEPT ![t] = NoObject]
        /\ pool' = pool
    BY <1>6 DEF Abandon
  <2>3. HeldWhileSearching'
    BY <1>6, <2>2 DEF HeldWhileSearching, Holding, Abandon, Goto, TypeOK
  <2>4. UsedAreBorn'
    BY <2>1, <2>2 DEF UsedAreBorn, ExclusiveLists, TypeOK
  <2>5. ExclusiveLists'
    <3>1. \A p \in SubPools : \A i \in DOMAIN pool[p] : pool[p][i] # NoObject
      BY PoolAssumption DEF TypeOK, UsedAreBorn
    <3> QED
      BY <2>1, <2>2, <3>1 DEF ExclusiveLists, TypeOK
  <2> QED
    BY <2>3, <2>4, <2>5
<1>7. ASSUME NEW t \in Threads, ReturnPush(t) PROVE Goal
  <2> DEFINE o == held[t]
  <2> DEFINE p == source[o]
  <2>1. o \in Objects /\ o # NoObject
    BY <1>7, HoldsObject DEF ReturnPush, Goto, Holding
  <2>2. p \in SubPools /\ pool[p] \in Seq(Objects)
    BY <2>1 DEF TypeOK
  <2>3. /\ pool' = [pool EXCEPT ![p] = Append(pool[p], o)]
        /\ held' = [held EXCEPT ![t] = NoObject]
        /\ born' = born
    BY <1>7 DEF ReturnPush
  <2>4. \A q \in SubPools : \A i \in DOMAIN pool'[q] :
          \/ i \in DOMAIN pool[q] /\ pool'[q][i] = pool[q][i]
          \/ q = p /\ i = Len(pool[p]) + 1 /\ pool'[q][i] = o
    BY <2>1, <2>2, <2>3, AppendPositions DEF TypeOK
  <2>5. HeldWhileSearching'
    BY <1>7, <2>3 DEF HeldWhileSearching, Holding, ReturnPush, Goto, TypeOK
  <2>6. UsedAreBorn'
    BY <2>1, <2>3, <2>4 DEF UsedAreBorn, TypeOK
  <2>7. \A u, w \in Threads : u # w /\ held'[u] # NoObject => held'[u] # held'[w]
    BY <2>3 DEF ExclusiveLists, TypeOK
  <2>8. \A u \in Threads : \A q \in SubPools : \A i \in DOMAIN pool'[q] :
          pool'[q][i] # held'[u]
    <3>1. \A q \in SubPools : \A i \in DOMAIN pool'[q] : pool'[q][i] # NoObject
      BY <2>1, <2>4, PoolAssumption DEF TypeOK, UsedAreBorn
    <3>2. \A u \in Threads \ {t} : held'[u] = held[u] /\ held[u] # o
      BY <2>1, <2>3 DEF ExclusiveLists, TypeOK
    <3>3. held'[t] = NoObject
      BY <2>3 DEF TypeOK
    <3> QED
      BY <2>4, <3>1, <3>2, <3>3 DEF ExclusiveLists
  <2>9. \A q, r \in SubPools : \A i \in DOMAIN pool'[q] : \A j \in DOMAIN pool'[r] :
          pool'[q][i] = pool'[r][j] => q = r /\ i = j
    BY <2>1, <2>4 DEF ExclusiveLists
  <2> QED
    BY <2>5, <2>6, <2>7, <2>8, <2>9 DEF ExclusiveLists
<1> QED
  BY <1>1, <1>3, <1>4, <1>5, <1>6, <1>7 DEF Next

(* No step leaves an entry above its tag, or an answer of Get that differs  *)
(* from what the search visited.                                            *)
LEMMA NextFresh ==
    ASSUME IInv, [Next]_vars
    PROVE  EntriesBelowTag' /\ VisitedIsFresh'
<1> USE DEF IInv
<1> DEFINE Goal == EntriesBelowTag' /\ VisitedIsFresh'
<1>1. CASE UNCHANGED vars
  BY <1>1 DEF vars, EntriesBelowTag, VisitedIsFresh, Get
\* A step that touches no list, and no history of a thread that keeps its list.
<1>2. ASSUME NEW t \in Threads, UNCHANGED <<list, tag>>,
             pc'[t] \in {"search", "return"} =>
                 /\ pc[t] = "search"
                 /\ held'[t] = held[t] /\ seen'[t] = seen[t],
             \A u \in Threads \ {t} :
                 pc'[u] = pc[u] /\ held'[u] = held[u] /\ seen'[u] = seen[u]
      PROVE  Goal
  BY <1>2 DEF EntriesBelowTag, VisitedIsFresh, Get
<1>3. ASSUME NEW t \in Threads,
             TryLock(t) \/ TryNext(t) \/ TakeFront(t) \/ TakeEmpty(t)
               \/ ConstructFails(t) \/ ReturnLock(t) \/ ReturnPush(t)
      PROVE  Goal
  <2>1. UNCHANGED <<list, tag>>
    BY <1>3 DEF TryLock, TryNext, TakeFront, TakeEmpty, ConstructFails,
                ReturnLock, ReturnPush
  <2>2. /\ pc'[t] \in {"search", "return"} =>
                 /\ pc[t] = "search"
                 /\ held'[t] = held[t] /\ seen'[t] = seen[t]
        /\ \A u \in Threads \ {t} :
                 pc'[u] = pc[u] /\ held'[u] = held[u] /\ seen'[u] = seen[u]
    BY <1>3 DEF TypeOK, Goto, TryLock, TryNext, TakeFront, TakeEmpty,
                ConstructFails, ReturnLock, ReturnPush
  <2> QED
    BY <2>1, <2>2, <1>2
\* A step of t that changes one list, which no other thread holds.
<1>4. ASSUME NEW t \in Threads, NEW o \in Objects,
             \A u \in Objects \ {o} : list'[u] = list[u] /\ tag'[u] = tag[u],
             \A id \in Ids : list'[o][id] <= tag'[o],
             \A u \in Threads \ {t} :
                 pc'[u] = pc[u] /\ held'[u] = held[u] /\ seen'[u] = seen[u],
             \A u \in Threads \ {t} : held[u] # o,
             pc'[t] \in {"search", "return"} =>
                 /\ held'[t] = o
                 /\ \A id \in Ids : list'[o][id] = tag'[o] <=> id \in seen'[t]
      PROVE  Goal
  <2>1. EntriesBelowTag'
    BY <1>4 DEF EntriesBelowTag
  <2>2. VisitedIsFresh'
    <3> SUFFICES ASSUME NEW u \in Threads, pc'[u] \in {"search", "return"}, NEW id \in Ids
                 PROVE  list'[held'[u]][id] = tag'[held'[u]] <=> id \in seen'[u]
      BY DEF VisitedIsFresh, Get
    <3>1. CASE u = t
      BY <3>1, <1>4
    <3>2. CASE u # t
      <4>1. held[u] \in Objects
        BY <3>2, <1>4, HoldsObject DEF Holding
      <4> QED
        BY <3>2, <4>1, <1>4 DEF VisitedIsFresh, Get
    <3> QED
      BY <3>1, <3>2
  <2> QED
    BY <2>1, <2>2
<1>5. ASSUME NEW t \in Threads, Construct(t) PROVE Goal
  <2>1. PICK o \in Objects \ born :
           /\ held' = [held EXCEPT ![t] = o]
           /\ list' = [list EXCEPT ![o] = Zeroed]
           /\ tag' = [tag EXCEPT ![o] = 1]
    BY <1>5 DEF Construct
  <2>2. \A u \in Threads \ {t} : held[u] # o
    BY <2>1, PoolAssumption DEF UsedAreBorn
  <2>3. \A id \in Ids : list'[o][id] = 0 /\ tag'[o] = 1
    BY <2>1 DEF TypeOK, Zeroed
  <2>4. held'[t] = o /\ seen'[t] = {}
    BY <1>5, <2>1 DEF TypeOK, Construct
  <2>5. \A u \in Threads \ {t} :
           pc'[u] = pc[u] /\ held'[u] = held[u] /\ seen'[u] = seen[u]
    BY <1>5, <2>1 DEF TypeOK, Construct, Goto
  <2>6. \A u \in Objects \ {o} : list'[u] = list[u] /\ tag'[u] = tag[u]
    BY <2>1 DEF TypeOK
  <2> QED
    BY <1>4, <2>2, <2>3, <2>4, <2>5, <2>6
<1>6. ASSUME NEW t \in Threads, ResetTaken(t) \/ NextLevel(t) PROVE Goal
  <2> DEFINE o == held[t]
  <2>1. o \in Objects /\ o # NoObject
    BY <1>6, HoldsObject DEF ResetTaken, NextLevel, Goto, Holding
  <2>2. Reset(o)
    BY <1>6 DEF ResetTaken, NextLevel
  <2>3. /\ \A u \in Objects \ {o} : list'[u] = list[u] /\ tag'[u] = tag[u]
        /\ list' \in [Objects -> [Ids -> 0 .. TagMax]]
        /\ tag' \in [Objects -> 1 .. TagMax]
        /\ \A id \in Ids : list'[o][id] < tag'[o]
    BY <2>1, <2>2, ResetClears
  <2>4. \A u \in Threads \ {t} : held[u] # o
    BY <2>1 DEF ExclusiveLists
  <2>5. /\ held' = held /\ seen' = [seen EXCEPT ![t] = {}]
        /\ \A u \in Threads \ {t} : pc'[u] = pc[u]
    BY <1>6 DEF TypeOK, ResetTaken, NextLevel, Goto
  <2>6. \A id \in Ids : list'[o][id] <= tag'[o] /\ list'[o][id] # tag'[o]
    BY <2>1, <2>3
  <2> QED
    BY <1>4, <2>1, <2>3, <2>4, <2>5, <2>6 DEF TypeOK
<1>7. ASSUME NEW t \in Threads, NEW id \in Ids, Visit(t, id) PROVE Goal
  <2> DEFINE o == held[t]
  <2>1. o \in Objects /\ o # NoObject
    BY <1>7, HoldsObject DEF Visit, Holding
  <2>2. \A u \in Threads \ {t} : held[u] # o
    BY <2>1 DEF ExclusiveLists
  <2>3. /\ list' = [list EXCEPT ![o][id] = tag[o]]
        /\ UNCHANGED <<tag, pc, held>>
        /\ seen' = [seen EXCEPT ![t] = seen[t] \cup {id}]
        /\ pc[t] = "search"
    BY <1>7 DEF Visit, Set
  <2>4. \A u \in Objects \ {o} : list'[u] = list[u]
    BY <2>1, <2>3 DEF TypeOK
  <2>5. \A j \in Ids : list'[o][j] = IF j = id THEN tag[o] ELSE list[o][j]
    BY <2>1, <2>3 DEF TypeOK
  <2>6. \A j \in Ids : list'[o][j] <= tag'[o]
    <3>1. tag[o] \in Nat
      BY <2>1 DEF TypeOK
    <3> QED
      BY <2>1, <2>3, <2>5, <3>1 DEF EntriesBelowTag
  <2>7. \A j \in Ids : list'[o][j] = tag'[o] <=> j \in seen'[t]
    <3>1. \A j \in Ids : list[o][j] = tag[o] <=> j \in seen[t]
      BY <2>3 DEF VisitedIsFresh, Get
    <3> QED
      BY <2>3, <2>5, <3>1 DEF TypeOK
  <2> QED
    BY <1>4, <2>1, <2>2, <2>3, <2>4, <2>6, <2>7 DEF TypeOK
<1>8. ASSUME NEW t \in Threads, Abandon(t) PROVE Goal
  <2> DEFINE o == held[t]
  <2>1. o \in Objects /\ o # NoObject
    BY <1>8, HoldsObject DEF Abandon, Goto, Holding
  <2>2. \A u \in Threads \ {t} : held[u] # o
    BY <2>1 DEF ExclusiveLists
  <2>3. /\ list' = [list EXCEPT ![o] = Zeroed]
        /\ tag' = [tag EXCEPT ![o] = 1]
    BY <1>8 DEF Abandon
  <2>4. \A id \in Ids : list'[o][id] = 0 /\ tag'[o] = 1
    BY <2>1, <2>3 DEF TypeOK, Zeroed
  <2>5. pc'[t] = "idle"
    BY <1>8 DEF TypeOK, Abandon, Goto
  <2>6. \A u \in Threads \ {t} :
           pc'[u] = pc[u] /\ held'[u] = held[u] /\ seen'[u] = seen[u]
    BY <1>8 DEF TypeOK, Abandon, Goto
  <2>7. \A u \in Objects \ {o} : list'[u] = list[u] /\ tag'[u] = tag[u]
    BY <2>1, <2>3 DEF TypeOK
  <2> QED
    BY <1>4, <2>1, <2>2, <2>4, <2>5, <2>6, <2>7
<1> QED
  BY <1>1, <1>3, <1>5, <1>6, <1>7, <1>8 DEF Next

(* The invariant is inductive.                                              *)
LEMMA PoolInduction == Spec => []IInv
<1>1. IInv /\ [Next]_vars => IInv'
  BY NextTypeOK, NextOwnership, NextFresh DEF IInv
<1> QED
  BY InitIInv, <1>1, PTL DEF Spec

----------------------------------------------------------------------------
(* How many lists there are.                                                *)

\* The lists of a sub-pool, and the threads about to construct one for it.
ListsOf(p) == {o \in born : source[o] = p}

Builders(p) == {t \in Threads : pc[t] = "construct" /\ poolId[t] = p}

\* A list is where its source says, or some search holds it.
SourcesKept ==
    /\ \A p \in SubPools : \A i \in DOMAIN pool[p] : source[pool[p][i]] = p
    /\ \A t \in Threads : pc[t] = "reset" => source[held[t]] = poolId[t]
    /\ \A o \in born :
          \/ \E t \in Threads : held[t] = o
          \/ \E p \in SubPools : \E i \in DOMAIN pool[p] : pool[p][i] = o

\* Who is about to construct a list is counted with the lists there are.
RoomFor(L, B) == IsFiniteSet(L) /\ Cardinality(L) + Cardinality(B) <= Cardinality(Threads)

ListsFit == \A p \in SubPools : RoomFor(ListsOf(p), Builders(p))

LEMMA ThreadSets ==
    ASSUME NEW B \in SUBSET Threads
    PROVE  IsFiniteSet(B) /\ Cardinality(B) \in Nat /\ Cardinality(Threads) \in Nat
BY ThreadsAssumption, FS_Subset, FS_CardinalityType

(* Fewer lists and fewer threads about to construct one still fit, ...      *)
LEMMA FewerFit ==
    ASSUME NEW L, NEW B \in SUBSET Threads, RoomFor(L, B),
           NEW L2 \in SUBSET L, NEW B2 \in SUBSET B
    PROVE  RoomFor(L2, B2)
<1>1. IsFiniteSet(L) /\ IsFiniteSet(B) /\ Cardinality(B) \in Nat /\ Cardinality(Threads) \in Nat
  BY ThreadSets DEF RoomFor
<1>2. IsFiniteSet(L2) /\ Cardinality(L2) <= Cardinality(L) /\ Cardinality(B2) <= Cardinality(B)
  BY <1>1, FS_Subset
<1>3. Cardinality(L) \in Nat /\ Cardinality(L2) \in Nat /\ Cardinality(B2) \in Nat
  BY <1>1, <1>2, FS_CardinalityType, ThreadSets
<1> QED
  BY <1>1, <1>2, <1>3 DEF RoomFor

(* ... so does a list constructed by a thread that was about to, ...        *)
LEMMA BuiltFits ==
    ASSUME NEW L, NEW B \in SUBSET Threads, RoomFor(L, B), NEW o, NEW t \in B
    PROVE  RoomFor(L \cup {o}, B \ {t})
<1>1. IsFiniteSet(L) /\ IsFiniteSet(B) /\ Cardinality(B) \in Nat /\ Cardinality(Threads) \in Nat
  BY ThreadSets DEF RoomFor
<1>2. /\ IsFiniteSet(L \cup {o}) /\ Cardinality(L) \in Nat
      /\ Cardinality(L \cup {o}) = Cardinality(L) \/ Cardinality(L \cup {o}) = Cardinality(L) + 1
  BY <1>1, FS_AddElement, FS_CardinalityType
<1>3. Cardinality(B \ {t}) = Cardinality(B) - 1
  BY <1>1, FS_RemoveElement
<1>4. Cardinality(L \cup {o}) \in Nat
  BY <1>2, FS_CardinalityType
<1> QED
  BY <1>1, <1>2, <1>3, <1>4 DEF RoomFor

(* ... and one more thread about to construct one when each list is in the   *)
(* hands of a thread that is not.                                           *)
LEMMA HeldFits ==
    ASSUME NEW L, IsFiniteSet(L), NEW B \in SUBSET Threads, NEW f,
           \A o \in L : \E u \in Threads \ B : f[u] = o
    PROVE  RoomFor(L, B)
<1> DEFINE rest == Threads \ B
           g == [o \in L |-> CHOOSE u \in rest : f[u] = o]
<1>1. IsFiniteSet(rest) /\ IsFiniteSet(B) /\ Cardinality(B) \in Nat
      /\ Cardinality(rest) \in Nat /\ Cardinality(Threads) \in Nat
  BY ThreadSets
<1>2. Cardinality(Threads) = Cardinality(B) + Cardinality(rest)
  <2>1. rest \cup B = Threads /\ rest \cap B = {}
    OBVIOUS
  <2>2. Cardinality(rest \cup B)
          = Cardinality(rest) + Cardinality(B) - Cardinality(rest \cap B)
    <3> HIDE DEF rest
    <3> QED
      BY <1>1, FS_Union
  <2>3. Cardinality(rest \cap B) = 0
    BY <2>1, FS_EmptySet
  <2>4. Cardinality(rest \cup B) = Cardinality(Threads)
    BY <2>1
  <2> HIDE DEF rest
  <2> QED
    BY <1>1, <2>2, <2>3, <2>4
<1>3. g \in [L -> rest] /\ \A o \in L : f[g[o]] = o
  OBVIOUS
<1>4. Cardinality(L) \in Nat
  BY FS_CardinalityType
<1>5. ~ (Cardinality(rest) < Cardinality(L))
  <2> HIDE DEF rest, g
  <2> SUFFICES ASSUME Cardinality(rest) < Cardinality(L) PROVE FALSE
    OBVIOUS
  <2>1. \E x, y \in L : x # y /\ g[x] = g[y]
    BY <1>1, <1>3, FS_PigeonHole
  <2> QED
    BY <1>3, <2>1
<1> HIDE DEF rest
<1> QED
  BY <1>1, <1>2, <1>4, <1>5 DEF RoomFor

(* Every step keeps each list where its source says.                         *)
LEMMA NextSources ==
    ASSUME IInv, SourcesKept, [Next]_vars
    PROVE  SourcesKept'
<1> USE DEF IInv
<1>1. CASE UNCHANGED vars
  BY <1>1 DEF vars, SourcesKept
\* A step that moves no list.
<1>2. ASSUME NEW t \in Threads, UNCHANGED <<pool, held, born, source>>,
             pc'[t] # "reset", UNCHANGED poolId \/ pc[t] = "idle",
             \A u \in Threads \ {t} : pc'[u] = pc[u] /\ poolId'[u] = poolId[u]
      PROVE  SourcesKept'
  BY <1>2 DEF SourcesKept
<1>3. ASSUME NEW t \in Threads,
             TryLock(t) \/ TryNext(t) \/ TakeEmpty(t) \/ ConstructFails(t)
               \/ NextLevel(t) \/ ReturnLock(t) \/ \E id \in Ids : Visit(t, id)
      PROVE  SourcesKept'
  <2>1. UNCHANGED <<pool, held, born, source>>
    BY <1>3 DEF TryLock, TryNext, TakeEmpty, ConstructFails, NextLevel, ReturnLock, Visit
  <2>2. /\ pc'[t] # "reset" /\ (UNCHANGED poolId \/ pc[t] = "idle")
        /\ \A u \in Threads \ {t} : pc'[u] = pc[u] /\ poolId'[u] = poolId[u]
    BY <1>3 DEF TypeOK, Goto, TryLock, TryNext, TakeEmpty, ConstructFails, NextLevel,
                ReturnLock, Visit
  <2> QED
    BY <1>2, <2>1, <2>2
<1>4. ASSUME NEW t \in Threads, ResetTaken(t) PROVE SourcesKept'
  <2>1. held[t] \in Objects /\ pc[t] = "reset"
    BY <1>4, HoldsObject DEF ResetTaken, Goto, Holding
  <2>2. source' = source
    BY <1>4, <2>1 DEF ResetTaken, SourcesKept, TypeOK
  <2>3. UNCHANGED <<pool, held, born, poolId>> /\ pc'[t] # "reset"
        /\ \A u \in Threads \ {t} : pc'[u] = pc[u]
    BY <1>4 DEF ResetTaken, Goto, TypeOK
  <2> QED
    BY <1>2, <2>2, <2>3
<1>5. ASSUME NEW t \in Threads, TakeFront(t) PROVE SourcesKept'
  <2> DEFINE p == poolId[t]
             o == Head(pool[p])
  <2>1. p \in SubPools /\ pool[p] \in Seq(Objects) /\ pool[p] # <<>>
    BY <1>5 DEF TypeOK, TakeFront
  <2>2. o = pool[p][1] /\ 1 \in DOMAIN pool[p]
    BY <2>1
  <2>3. /\ UNCHANGED <<born, source, poolId>> /\ held'[t] = o /\ held[t] = NoObject
        /\ \A u \in Threads \ {t} : pc'[u] = pc[u] /\ held'[u] = held[u]
        /\ pool' = [pool EXCEPT ![p] = Tail(pool[p])]
    BY <1>5 DEF TypeOK, TakeFront, Goto, HeldWhileSearching, Holding
  <2>4. \A q \in SubPools : \A i \in DOMAIN pool'[q] :
           \E j \in DOMAIN pool[q] : pool'[q][i] = pool[q][j]
    BY <2>1, <2>3, TailPositions DEF TypeOK
  <2>5. \A q \in SubPools : \A j \in DOMAIN pool[q] :
           (q = p /\ j = 1) \/ \E i \in DOMAIN pool'[q] : pool'[q][i] = pool[q][j]
    <3> SUFFICES ASSUME NEW q \in SubPools, NEW j \in DOMAIN pool[q], ~ (q = p /\ j = 1)
                 PROVE  \E i \in DOMAIN pool'[q] : pool'[q][i] = pool[q][j]
      OBVIOUS
    <3>1. CASE q # p
      BY <2>3, <3>1 DEF TypeOK
    <3>2. CASE q = p
      <4>1. pool'[q] = Tail(pool[q]) /\ pool[q] \in Seq(Objects) /\ j # 1
        BY <2>1, <2>3, <3>2 DEF TypeOK
      <4>2. j - 1 \in DOMAIN Tail(pool[q]) /\ Tail(pool[q])[j - 1] = pool[q][j]
        BY <4>1
      <4> QED
        BY <4>1, <4>2
    <3> QED
      BY <3>1, <3>2
  <2>6. \A q \in SubPools : \A i \in DOMAIN pool'[q] : source'[pool'[q][i]] = q
    BY <2>3, <2>4 DEF SourcesKept
  <2>7. \A u \in Threads : pc'[u] = "reset" => source'[held'[u]] = poolId'[u]
    <3> SUFFICES ASSUME NEW u \in Threads, pc'[u] = "reset"
                 PROVE  source'[held'[u]] = poolId'[u]
      OBVIOUS
    <3>1. CASE u = t
      <4>1. source[pool[p][1]] = p
        BY <2>1, <2>2 DEF SourcesKept
      <4> QED
        BY <2>2, <2>3, <3>1, <4>1
    <3>2. CASE u # t
      BY <2>3, <3>2 DEF SourcesKept
    <3> QED
      BY <3>1, <3>2
  <2>8. ASSUME NEW x \in born'
        PROVE  \/ \E u \in Threads : held'[u] = x
               \/ \E q \in SubPools : \E i \in DOMAIN pool'[q] : pool'[q][i] = x
    <3>1. x \in born /\ x # NoObject
      BY <2>3, PoolAssumption DEF TypeOK
    <3>2. CASE \E u \in Threads : held[u] = x
      BY <2>3, <3>1, <3>2
    <3>3. CASE \E q \in SubPools : \E j \in DOMAIN pool[q] : pool[q][j] = x
      BY <2>2, <2>3, <2>5, <3>3
    <3> QED
      BY <3>1, <3>2, <3>3 DEF SourcesKept
  <2> QED
    BY <2>6, <2>7, <2>8 DEF SourcesKept
<1>6. ASSUME NEW t \in Threads, Construct(t) PROVE SourcesKept'
  <2>1. PICK o \in Objects \ born : /\ born' = born \cup {o} /\ held' = [held EXCEPT ![t] = o]
                                    /\ source' = [source EXCEPT ![o] = poolId[t]]
    BY <1>6 DEF Construct
  <2>2. /\ UNCHANGED <<pool, poolId>> /\ pc'[t] # "reset" /\ held[t] = NoObject
        /\ \A u \in Threads \ {t} : pc'[u] = pc[u]
    BY <1>6 DEF TypeOK, Construct, Goto, HeldWhileSearching, Holding
  <2>3. held'[t] = o /\ \A u \in Threads \ {t} : held'[u] = held[u]
    BY <2>1 DEF TypeOK
  <2>4. \A x \in born : source'[x] = source[x] /\ x # NoObject
    BY <2>1, PoolAssumption DEF TypeOK
  <2>5. \A u \in Threads \ {t} : pc[u] = "reset" => held[u] \in born
    BY DEF UsedAreBorn, HeldWhileSearching, Holding
  <2> QED
    BY <2>1, <2>2, <2>3, <2>4, <2>5 DEF SourcesKept, UsedAreBorn
<1>7. ASSUME NEW t \in Threads, Abandon(t) PROVE SourcesKept'
  <2> DEFINE o == held[t]
  <2>1. o \in Objects /\ o # NoObject
    BY <1>7, HoldsObject DEF Abandon, Goto, Holding
  <2>2. /\ born' = born \ {o} /\ held'[t] = NoObject /\ UNCHANGED <<pool, poolId>>
        /\ \A u \in Threads \ {t} : pc'[u] = pc[u] /\ held'[u] = held[u] /\ held[u] # o
        /\ pc'[t] # "reset"
        /\ \A x \in Objects \ {o} : source'[x] = source[x]
    BY <1>7, <2>1 DEF TypeOK, Abandon, Goto, ExclusiveLists
  <2>3. \A q \in SubPools : \A i \in DOMAIN pool[q] : pool[q][i] # o /\ pool[q][i] \in Objects
    BY DEF ExclusiveLists, UsedAreBorn, TypeOK
  <2>4. \A u \in Threads \ {t} : pc[u] = "reset" => held[u] \in Objects
    BY HoldsObject DEF Holding
  <2>5. \A q \in SubPools : \A i \in DOMAIN pool'[q] : source'[pool'[q][i]] = q
    BY <2>2, <2>3 DEF SourcesKept
  <2>6. \A u \in Threads : pc'[u] = "reset" => source'[held'[u]] = poolId'[u]
    BY <2>2, <2>4 DEF SourcesKept
  <2>7. \A x \in born' :
               \/ \E u \in Threads : held'[u] = x
               \/ \E q \in SubPools : \E i \in DOMAIN pool'[q] : pool'[q][i] = x
    <3> HIDE DEF o
    <3>1. o = held[t]
      BY DEF o
    <3> QED
      BY <2>2, <3>1 DEF SourcesKept
  <2> QED
    BY <2>5, <2>6, <2>7 DEF SourcesKept
<1>8. ASSUME NEW t \in Threads, ReturnPush(t) PROVE SourcesKept'
  <2> DEFINE o == held[t]
             p == source[o]
  <2>1. o \in Objects /\ o # NoObject
    BY <1>8, HoldsObject DEF ReturnPush, Goto, Holding
  <2>2. p \in SubPools /\ pool[p] \in Seq(Objects)
    BY <2>1 DEF TypeOK
  <2>3. /\ pool' = [pool EXCEPT ![p] = Append(pool[p], o)] /\ held'[t] = NoObject
        /\ UNCHANGED <<born, source, poolId>> /\ pc'[t] # "reset"
        /\ \A u \in Threads \ {t} : pc'[u] = pc[u] /\ held'[u] = held[u]
    BY <1>8 DEF TypeOK, ReturnPush, Goto
  <2>4. \A q \in SubPools : \A i \in DOMAIN pool'[q] :
          \/ i \in DOMAIN pool[q] /\ pool'[q][i] = pool[q][i]
          \/ q = p /\ pool'[q][i] = o
    BY <2>1, <2>2, <2>3, AppendPositions DEF TypeOK
  <2>5. /\ \A q \in SubPools : \A i \in DOMAIN pool[q] :
              i \in DOMAIN pool'[q] /\ pool'[q][i] = pool[q][i]
        /\ \E i \in DOMAIN pool'[p] : pool'[p][i] = o
    <3>1. /\ \A i \in DOMAIN pool[p] : i \in DOMAIN Append(pool[p], o)
                                         /\ Append(pool[p], o)[i] = pool[p][i]
          /\ \E i \in DOMAIN Append(pool[p], o) : Append(pool[p], o)[i] = o
      <4> DEFINE s == pool[p]
      <4>1. s \in Seq(Objects)
        BY <2>2
      <4> HIDE DEF s, o
      <4>2. Len(s) + 1 \in DOMAIN Append(s, o) /\ Append(s, o)[Len(s) + 1] = o
        BY <4>1
      <4>3. \A i \in DOMAIN s : i \in DOMAIN Append(s, o) /\ Append(s, o)[i] = s[i]
        BY <4>1
      <4> QED
        BY <4>2, <4>3 DEF s
    <3>2. pool'[p] = Append(pool[p], o) /\ \A q \in SubPools : q # p => pool'[q] = pool[q]
      BY <2>2, <2>3 DEF TypeOK
    <3> HIDE DEF o, p
    <3> QED
      BY <3>1, <3>2
  <2>6. \A q \in SubPools : \A i \in DOMAIN pool'[q] : source'[pool'[q][i]] = q
    BY <2>3, <2>4 DEF SourcesKept
  <2>7. \A u \in Threads : pc'[u] = "reset" => source'[held'[u]] = poolId'[u]
    BY <2>3 DEF SourcesKept
  <2>8. \A x \in born' :
               \/ \E u \in Threads : held'[u] = x
               \/ \E q \in SubPools : \E i \in DOMAIN pool'[q] : pool'[q][i] = x
    BY <2>2, <2>3, <2>5 DEF SourcesKept
  <2> QED
    BY <2>6, <2>7, <2>8 DEF SourcesKept
<1> QED
  BY <1>1, <1>3, <1>4, <1>5, <1>6, <1>7, <1>8 DEF Next

(* Every step keeps the count: a thread that finds its sub-pool empty knows   *)
(* that every list of the sub-pool is held by another search.                *)
LEMMA NextListsFit ==
    ASSUME IInv, SourcesKept, ListsFit, [Next]_vars
    PROVE  ListsFit'
<1> USE DEF IInv
<1>0. \A p \in SubPools : Builders(p) \in SUBSET Threads /\ RoomFor(ListsOf(p), Builders(p))
  BY DEF Builders, ListsFit
\* A step that adds neither a list nor a thread about to construct one.
<1>1. ASSUME \A p \in SubPools : /\ ListsOf(p)' \subseteq ListsOf(p)
                                 /\ Builders(p)' \subseteq Builders(p)
      PROVE  ListsFit'
  BY <1>0, <1>1, FewerFit DEF ListsFit, RoomFor
<1>2. CASE UNCHANGED vars
  BY <1>1, <1>2 DEF vars, ListsOf, Builders
<1>3. ASSUME NEW t \in Threads,
             TryLock(t) \/ TryNext(t) \/ TakeFront(t) \/ ConstructFails(t) \/ NextLevel(t)
               \/ ReturnLock(t) \/ ReturnPush(t) \/ \E id \in Ids : Visit(t, id)
      PROVE  ListsFit'
  <2>1. UNCHANGED <<born, source>>
    BY <1>3 DEF TryLock, TryNext, TakeFront, ConstructFails, NextLevel, ReturnLock, ReturnPush,
                Visit
  <2>2. /\ pc'[t] # "construct"
        /\ \A u \in Threads \ {t} : pc'[u] = pc[u] /\ poolId'[u] = poolId[u]
    BY <1>3 DEF TypeOK, Goto, TryLock, TryNext, TakeFront, ConstructFails, NextLevel,
                ReturnLock, ReturnPush, Visit
  <2> QED
    BY <1>1, <2>1, <2>2 DEF ListsOf, Builders
<1>4. ASSUME NEW t \in Threads, ResetTaken(t) PROVE ListsFit'
  <2>1. held[t] \in Objects /\ pc[t] = "reset"
    BY <1>4, HoldsObject DEF ResetTaken, Goto, Holding
  <2>2. source' = source
    BY <1>4, <2>1 DEF ResetTaken, SourcesKept, TypeOK
  <2>3. UNCHANGED <<born, poolId>> /\ pc'[t] # "construct"
        /\ \A u \in Threads \ {t} : pc'[u] = pc[u]
    BY <1>4 DEF ResetTaken, Goto, TypeOK
  <2> QED
    BY <1>1, <2>2, <2>3 DEF ListsOf, Builders
<1>5. ASSUME NEW t \in Threads, Abandon(t) PROVE ListsFit'
  <2>1. held[t] \in Objects
    BY <1>5, HoldsObject DEF Abandon, Goto, Holding
  <2>2. /\ born' = born \ {held[t]} /\ UNCHANGED poolId /\ pc'[t] # "construct"
        /\ \A u \in Threads \ {t} : pc'[u] = pc[u]
        /\ \A x \in Objects \ {held[t]} : source'[x] = source[x]
    BY <1>5, <2>1 DEF TypeOK, Abandon, Goto
  <2>3. born \in SUBSET Objects
    BY DEF TypeOK
  <2> QED
    BY <1>1, <2>2, <2>3 DEF ListsOf, Builders
<1>6. ASSUME NEW t \in Threads, Construct(t) PROVE ListsFit'
  <2>0. PICK p \in SubPools : p = poolId[t]
    BY DEF TypeOK
  <2>1. PICK o \in Objects \ born : /\ born' = born \cup {o}
                                    /\ source' = [source EXCEPT ![o] = p]
    BY <1>6, <2>0 DEF Construct
  <2>2. /\ poolId' = poolId /\ pc[t] = "construct" /\ pc'[t] # "construct"
        /\ \A u \in Threads \ {t} : pc'[u] = pc[u]
    BY <1>6 DEF TypeOK, Construct, Goto
  <2>3. source'[o] = p /\ \A x \in born : source'[x] = source[x]
    BY <2>1 DEF TypeOK
  <2>4. ListsOf(p)' = ListsOf(p) \cup {o} /\ Builders(p)' = Builders(p) \ {t} /\ t \in Builders(p)
    BY <2>0, <2>1, <2>2, <2>3 DEF ListsOf, Builders
  <2>5. \A q \in SubPools : q # p => ListsOf(q)' = ListsOf(q) /\ Builders(q)' = Builders(q)
    BY <2>0, <2>1, <2>2, <2>3 DEF ListsOf, Builders
  <2>6. RoomFor(ListsOf(p)', Builders(p)')
    <3>1. RoomFor(ListsOf(p) \cup {o}, Builders(p) \ {t})
      BY <1>0, <2>4, BuiltFits
    <3> QED
      BY <2>4, <3>1
  <2> QED
    BY <1>0, <2>5, <2>6 DEF ListsFit, RoomFor
<1>7. ASSUME NEW t \in Threads, TakeEmpty(t) PROVE ListsFit'
  <2>0. PICK p \in SubPools : p = poolId[t]
    BY DEF TypeOK
  <2> DEFINE L == ListsOf(p)
             B == Builders(p) \cup {t}
  <2>1. /\ UNCHANGED <<born, source, poolId>> /\ pool[p] = <<>>
        /\ pc[t] = "locked" /\ pc'[t] = "construct"
        /\ \A u \in Threads \ {t} : pc'[u] = pc[u]
    BY <1>7, <2>0 DEF TypeOK, TakeEmpty, Goto
  <2>2. /\ \A q \in SubPools : ListsOf(q)' = ListsOf(q)
        /\ Builders(p)' = B
        /\ \A q \in SubPools : q # p => Builders(q)' = Builders(q)
    BY <2>0, <2>1 DEF ListsOf, Builders
  <2>3. \A o \in L : \E u \in Threads \ B : held[u] = o
    <3> SUFFICES ASSUME NEW o \in L PROVE \E u \in Threads \ B : held[u] = o
      OBVIOUS
    <3>1. o \in born /\ source[o] = p /\ o # NoObject
      BY PoolAssumption DEF ListsOf, TypeOK
    <3>2. ~ \E q \in SubPools : \E i \in DOMAIN pool[q] : pool[q][i] = o
      <4> SUFFICES ASSUME NEW q \in SubPools, NEW i \in DOMAIN pool[q], pool[q][i] = o
                   PROVE  FALSE
        OBVIOUS
      <4>1. q = p
        BY <3>1 DEF SourcesKept
      <4> QED
        BY <2>1, <4>1
    <3>3. PICK u \in Threads : held[u] = o
      BY <3>1, <3>2 DEF SourcesKept
    <3>4. Holding(u)
      BY <3>1, <3>3 DEF HeldWhileSearching
    <3>5. u \notin B
      BY <2>1, <3>4 DEF Holding, Builders
    <3> QED
      BY <3>3, <3>5
  <2>4. RoomFor(L, B)
    <3>1. IsFiniteSet(L) /\ B \in SUBSET Threads
      BY <1>0, <2>1 DEF RoomFor
    <3> HIDE DEF L, B
    <3> QED
      BY <2>3, <3>1, HeldFits
  <2>5. RoomFor(ListsOf(p)', Builders(p)')
    BY <2>1, <2>2, <2>4
  <2> QED
    BY <1>0, <2>2, <2>5 DEF ListsFit, RoomFor
<1> QED
  BY <1>2, <1>3, <1>4, <1>5, <1>6, <1>7 DEF Next

LEMMA InitListsFit == Init => SourcesKept /\ ListsFit
<1> SUFFICES ASSUME Init PROVE SourcesKept /\ ListsFit
  OBVIOUS
<1>1. PICK o \in Objects :
         born = {o} /\ pool = [p \in SubPools |-> IF p = 0 THEN <<o>> ELSE <<>>]
  BY DEF Init
<1>2. 0 \in SubPools /\ source[o] = 0 /\ (\A t \in Threads : pc[t] = "idle")
  BY PoolAssumption DEF SubPools, Init
<1>3. SourcesKept
  <2>1. \A p \in SubPools : \A i \in DOMAIN pool[p] : p = 0 /\ pool[p][i] = o
    BY <1>1
  <2>2. 1 \in DOMAIN pool[0] /\ pool[0][1] = o
    BY <1>1, <1>2
  <2> QED
    BY <1>1, <1>2, <2>1, <2>2 DEF SourcesKept
<1>4. ASSUME NEW p \in SubPools PROVE RoomFor(ListsOf(p), Builders(p))
  <2>1. ListsOf(p) \in SUBSET {o} /\ Builders(p) = {}
    BY <1>1, <1>2 DEF ListsOf, Builders
  <2>2. RoomFor({o}, {})
    <3>1. /\ IsFiniteSet({o}) /\ Cardinality({o}) = 1 /\ Cardinality({}) = 0
          /\ Cardinality(Threads) \in Nat
      BY FS_Singleton, FS_EmptySet, ThreadSets
    <3>2. Cardinality(Threads) # 0
      BY ThreadsAssumption, FS_EmptySet
    <3> QED
      BY <3>1, <3>2 DEF RoomFor
  <2>3. RoomFor(ListsOf(p), {})
    <3> DEFINE L == ListsOf(p)
               one == {o}
               none == {}
    <3>1. L \in SUBSET one /\ none \in SUBSET Threads /\ none \in SUBSET none /\ RoomFor(one, none)
      BY <2>1, <2>2
    <3> HIDE DEF L, one, none
    <3>2. RoomFor(L, none)
      BY <3>1, FewerFit
    <3> QED
      BY <3>2 DEF L, none
  <2> QED
    BY <2>1, <2>3
<1> QED
  BY <1>3, <1>4 DEF ListsFit

----------------------------------------------------------------------------

(* The variables of the pool keep their types: in particular a tag never    *)
(* leaves 1 .. TagMax, whatever number of resets a list goes through.       *)
THEOREM PoolTypeCorrect == Spec => []TypeOK
<1>1. IInv => TypeOK
  BY DEF IInv
<1> QED
  BY PoolInduction, <1>1, PTL

(* For any number of searches and sub-pools no list is ever held by two     *)
(* searches, or held and pooled, or pooled twice: TakeOne and ReturnOne     *)
(* hand a list to one owner at a time.                                      *)
THEOREM PoolExclusive == Spec => []ExclusiveLists
<1>1. IInv => ExclusiveLists
  BY DEF IInv
<1> QED
  BY PoolInduction, <1>1, PTL

(* For any tag width and any history of a recycled list, Get tells a search *)
(* exactly the ids it visited since its last Reset.                         *)
THEOREM PoolFresh == Spec => []VisitedIsFresh
<1>1. IInv => VisitedIsFresh
  BY DEF IInv
<1> QED
  BY PoolInduction, <1>1, PTL

(* For any number of searches, lists and sub-pools, a sub-pool never has      *)
(* more lists alive than there are searches, although TakeOne constructs a   *)
(* list after it let go of the mutex under which it found the sub-pool empty.*)
THEOREM PoolBounded == Spec => []BoundedLists
<1>1. SourcesKept /\ ListsFit /\ IInv /\ [Next]_vars => SourcesKept' /\ ListsFit'
  BY NextSources, NextListsFit
<1>2. ListsFit => BoundedLists
  <2> SUFFICES ASSUME ListsFit, NEW p \in SubPools
               PROVE  Cardinality(ListsOf(p)) <= Cardinality(Threads)
    BY DEF BoundedLists, ListsOf
  <2> DEFINE L == ListsOf(p)
             B == Builders(p)
  <2>1. RoomFor(L, B) /\ B \in SUBSET Threads
    BY DEF ListsFit, Builders
  <2> HIDE DEF L, B
  <2>2. Cardinality(B) \in Nat /\ Cardinality(Threads) \in Nat /\ Cardinality(L) \in Nat
    BY <2>1, ThreadSets, FS_CardinalityType DEF RoomFor
  <2>3. Cardinality(L) <= Cardinality(Threads)
    BY <2>1, <2>2 DEF RoomFor
  <2> QED
    BY <2>3 DEF L
<1> QED
  BY <1>1, <1>2, InitListsFit, PoolInduction, PTL DEF Spec
============================================================================
