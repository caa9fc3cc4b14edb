------------------------ MODULE ParallelSearchProofs ------------------------
(***************************************************************************)
(* Whatever the workers of ParallelSearcher do and whenever they do it, its  *)
(* searches are those of BasicSearcher, hop by hop, and return what it       *)
(* returns, which for a wide search is the exact answer.                    *)
(***************************************************************************)
EXTENDS ParallelSearch, FiniteSetTheorems, WellFoundedInduction, TLAPS

----------------------------------------------------------------------------
(* Induction over numbers, and functions defined by recursion.              *)

Below == {p \in Nat \X Nat : p[1] < p[2]}

(* A set of numbers has a least element.                                    *)
LEMMA Least ==
    ASSUME NEW T \in SUBSET Nat, T # {}
    PROVE  \E x \in T : \A y \in T : x <= y
<1>1. IsWellFoundedOn(OpToRel(<, Nat), Nat)
  BY NatLessThanWellFounded, Zenon
<1>2. OpToRel(<, Nat) = Below
  BY Zenon DEF OpToRel, Below
<1>3. IsWellFoundedOn(Below, Nat)
  BY <1>1, <1>2, Zenon
<1>4. \E x \in T : \A y \in T : ~ (<<y, x>> \in Below)
  BY <1>3, WFMin
<1>5. \A x, y \in Nat : <<y, x>> \in Below <=> y < x
  BY DEF Below
<1>6. PICK x \in T : \A y \in T : ~ (<<y, x>> \in Below)
  BY <1>4
<1>7. ASSUME NEW y \in T PROVE x <= y
  <2>1. ~ (y < x) /\ x \in Nat /\ y \in Nat
    BY <1>5, <1>6
  <2> QED
    BY <2>1
<1> QED
  BY <1>7

(* What holds of 0 and passes from each number to the next holds up to n.   *)
LEMMA Induct ==
    ASSUME NEW n \in Nat, NEW T, 0 \in T, \A i \in 0 .. n - 1 : i \in T => i + 1 \in T
    PROVE  0 .. n \subseteq T
<1> SUFFICES ASSUME ~ (0 .. n \subseteq T) PROVE FALSE
  OBVIOUS
<1> DEFINE Bad == (0 .. n) \ T
<1>1. PICK x \in Bad : \A y \in Bad : x <= y
  <2>1. Bad \in SUBSET Nat /\ Bad # {}
    OBVIOUS
  <2> QED
    BY <2>1, Least
<1>2. x - 1 \in 0 .. n - 1 /\ x - 1 \notin Bad
  BY <1>1
<1> QED
  BY <1>1, <1>2

\* F[i] makes the i-th value out of the one before, and x is the first.
Solution(n, S, x, F, f) ==
    f \in [0 .. n -> S] /\ f[0] = x /\ \A i \in 1 .. n : f[i] = F[i][f[i - 1]]

(* A recursion over 0 .. n that stays in a set S has a solution.            *)
LEMMA Recursion ==
    ASSUME NEW n \in Nat, NEW S, NEW x \in S, NEW F \in [1 .. n -> [S -> S]]
    PROVE  \E f : Solution(n, S, x, F, f)
<1> DEFINE Good(m, f) == \A i \in 0 .. m : f[i] = IF i = 0 THEN x ELSE F[i][f[i - 1]]
           T == {m \in 0 .. n : \E f \in [0 .. m -> S] : Good(m, f)}
<1>1. 0 \in T
  <2> DEFINE g == [i \in 0 .. 0 |-> x]
  <2>1. g \in [0 .. 0 -> S] /\ Good(0, g)
    OBVIOUS
  <2>2. \E f \in [0 .. 0 -> S] : Good(0, f)
    BY <2>1
  <2> QED
    BY <2>2
<1>2. ASSUME NEW m \in 0 .. n - 1, m \in T
      PROVE  m + 1 \in T
  <2>1. PICK f \in [0 .. m -> S] : Good(m, f)
    BY <1>2
  <2> DEFINE g == [i \in 0 .. m + 1 |-> IF i = m + 1 THEN F[m + 1][f[m]] ELSE f[i]]
  <2>2. g \in [0 .. m + 1 -> S]
    <3>1. F[m + 1][f[m]] \in S
      BY <2>1
    <3> QED
      BY <3>1
  <2>3. ASSUME NEW i \in 0 .. m + 1
        PROVE  g[i] = IF i = 0 THEN x ELSE F[i][g[i - 1]]
    <3>1. CASE i = m + 1
      BY <3>1
    <3>2. CASE i # m + 1
      BY <2>1, <3>2
    <3> QED
      BY <3>1, <3>2
  <2>4. Good(m + 1, g)
    BY <2>3
  <2>5. \E h \in [0 .. m + 1 -> S] : Good(m + 1, h)
    BY <2>2, <2>4
  <2> QED
    BY <2>5
<1> HIDE DEF T
<1>3. 0 .. n \subseteq T
  BY <1>1, <1>2, Induct
<1>4. n \in T
  BY <1>3
<1>5. PICK f \in [0 .. n -> S] : Good(n, f)
  BY <1>4 DEF T
<1>6. Solution(n, S, x, F, f)
  BY <1>5 DEF Solution
<1> QED
  BY <1>6

----------------------------------------------------------------------------
(* The inductive invariant.                                                 *)

Entries == (1 .. Cardinality(Points)) \X Points

SearchStates == [visited : SUBSET Points, cand : SUBSET Entries, top : SUBSET Entries,
                 bound : 1 .. FloatMax]

\* A nullptr comes without points.
Items == {t \in [from : Nat, count : Nat, nullptr : BOOLEAN] : t.nullptr => t.count = 0}

QueueType == [buffer : [0 .. QueueSize - 1 -> Items], write_idx : Nat, read_idx : Nat]

InHop == {"push", "publish", "wait"}

WorkerType == [pc : {"queued", "pop", "release", "query", "count", "done"}, item : Items]

Publishing == {"publish", "publish_stop"}

Leaving == {"stop", "publish_stop", "join", "done"}

PTypeOK ==
    /\ query \in [Searches -> Queries]
    /\ st \in [Searches -> SearchStates]
    /\ pc \in [Searches -> InHop \cup Leaving \cup {"enqueue", "hop"}]
    /\ ids \in [Searches -> [1 .. MaxLine -> Points]]
    /\ count \in [Searches -> 0 .. MaxLine]
    /\ line_dists \in [Searches -> [1 .. MaxLine -> Nat]]
    /\ num_points \in [Searches -> Nat]
    /\ offset \in [Searches -> Nat]
    /\ nextq \in [Searches -> Workers]
    /\ queues \in [Searches -> [Workers -> QueueType]]
    /\ pool \in Seq(Searches \X Workers)
    /\ worker \in [Searches -> [Workers -> WorkerType]]

\* A worker between Pop and its next Pop.
Holds(wk) == wk.pc \in {"release", "query", "count"}

\* The first index of a queue that is not taken, and the last that is written.
First(q, wk) == IF wk.pc = "release" THEN q.read_idx + 1 ELSE q.read_idx

Last(q, p, n, w) ==
    IF p \in {"publish", "publish_stop"} /\ n = w THEN q.write_idx ELSE q.write_idx - 1

\* An item a worker holds or still finds in its queue, with an index.
Pending(q, wk, p, n, w, i, t) ==
    \/ Holds(wk) /\ i = First(q, wk) - 1 /\ t = wk.item
    \/ First(q, wk) <= i /\ i <= Last(q, p, n, w) /\ t = q.buffer[i % QueueSize]

\* The tasks of a search that are not done, each with its worker and an index.
Tasks(p, n, qs, wks) ==
    {k \in Workers \X Int \X Items : Pending(qs[k[1]], wks[k[1]], p, n, k[1], k[2], k[3])}

\* A queue and its worker.  A slot is written only where nothing is unread.
Lane(q, wk, p, n, w) ==
    /\ First(q, wk) <= q.write_idx
    /\ Last(q, p, n, w) - q.read_idx < QueueSize - 1
    /\ ~ Holds(wk) => wk.item.count = 0

\* Where the share of the w-th worker starts, of c points.
Start(c, w) ==
    (w - 1) * (c \div (NumThreads + 1))
        + (IF w - 1 <= c % (NumThreads + 1) THEN w - 1 ELSE c % (NumThreads + 1))

\* The positions of a task.
Cells(t) == t.from + 1 .. t.from + t.count

\* The distances at some positions are right.
Right(q, line, dists, S) == \A i \in S : dists[i] = q.dist[line[i]]

\* A hop of c points under way, n of which are counted and the first off given
\* away: the counted ones have their distances, and no two tasks share a point.
HopInv(q, line, c, dists, n, off, K) ==
    /\ off <= c
    /\ \A k \in K : k[3].count > 0 => k[3].from + k[3].count <= off
    /\ \A k, l \in K : k # l => Cells(k[3]) \cap Cells(l[3]) = {}
    /\ \E counted \in SUBSET (1 .. off) :
          /\ IsFiniteSet(counted) /\ Cardinality(counted) = n
          /\ Right(q, line, dists, counted)
          /\ \A k \in K : Cells(k[3]) \cap counted = {}

TasksOf(s) == Tasks(pc[s], nextq[s], queues[s], worker[s])

LanesInv(s) ==
    \A w \in Workers : Lane(queues[s][w], worker[s][w], pc[s], nextq[s], w)

SharesInv(s) ==
    /\ pc[s] \in {"hop", "wait"} => nextq[s] = 1
    /\ pc[s] = "push" => offset[s] = Start(count[s], nextq[s])
    /\ pc[s] = "publish" => offset[s] = Start(count[s], nextq[s] + 1)

\* Between hops no task has points.
HopsInv(s) ==
    IF pc[s] \in InHop
    THEN HopInv(query[s], ids[s], count[s], line_dists[s], num_points[s], offset[s], TasksOf(s))
    ELSE \A k \in TasksOf(s) : k[3].count = 0

CountingInv(s) ==
    \A w \in Workers :
        worker[s][w].pc = "count" =>
            Right(query[s], ids[s], line_dists[s], Cells(worker[s][w].item))

LeavingInv(s) == pc[s] \in Leaving => Finished(query[s], st[s])

SearchInv(s) ==
    LanesInv(s) /\ SharesInv(s) /\ HopsInv(s) /\ CountingInv(s) /\ LeavingInv(s)

\* A worker is enqueued once, and waits there until the pool starts it.
PoolInv ==
    /\ \A i \in 1 .. Len(pool) :
          /\ worker[pool[i][1]][pool[i][2]].pc = "queued"
          /\ pc[pool[i][1]] = "enqueue" => pool[i][2] < nextq[pool[i][1]]
    /\ \A i, j \in 1 .. Len(pool) : i # j => pool[i] # pool[j]
    /\ \A s \in Searches, w \in Workers :
          pc[s] = "enqueue" /\ w >= nextq[s] => worker[s][w].pc = "queued"

PInv == PTypeOK /\ PoolInv /\ \A s \in Searches : SearchInv(s)

----------------------------------------------------------------------------
(* A search on one thread.                                                  *)

LEMMA PointsFacts ==
    /\ Cardinality(Points) \in Nat \ {0}
    /\ FloatMax \in Nat
    /\ Ep \in Points
<1>1. IsFiniteSet(Points) /\ Points # {} /\ Ep \in Points
  BY SearchAssumption
<1>2. Cardinality(Points) \in Nat /\ Cardinality(Points) # 0
  BY <1>1, FS_CardinalityType, FS_EmptySet
<1> QED
  BY <1>1, <1>2 DEF FloatMax

(* The top of a heap is its nearest, or farthest, entry.                     *)
LEMMA HeapTop ==
    ASSUME NEW heap \in SUBSET Entries, heap # {}
    PROVE  /\ Nearest(heap) \in heap
           /\ \A f \in heap : Nearest(heap)[1] <= f[1]
           /\ Farthest(heap) \in heap
           /\ \A f \in heap : Farthest(heap)[1] >= f[1]
<1> DEFINE N == Cardinality(Points)
<1>1. \A e \in heap : e[1] \in 1 .. N
  BY DEF Entries
<1>2. N \in Nat
  BY PointsFacts
<1> HIDE DEF N
<1>3. \E e \in heap : \A f \in heap : e[1] <= f[1]
  <2> DEFINE T == {e[1] : e \in heap}
  <2>1. T \in SUBSET Nat /\ T # {}
    BY <1>1
  <2>2. PICK x \in T : \A y \in T : x <= y
    BY <2>1, Least
  <2> QED
    BY <2>2
<1>4. \E e \in heap : \A f \in heap : e[1] >= f[1]
  <2> DEFINE T == {N - e[1] : e \in heap}
  <2>1. T \in SUBSET Nat /\ T # {}
    BY <1>1, <1>2
  <2>2. PICK x \in T : \A y \in T : x <= y
    BY <2>1, Least
  <2>3. PICK e \in heap : x = N - e[1]
    BY <2>2
  <2>4. ASSUME NEW f \in heap PROVE e[1] >= f[1]
    <3>1. N - e[1] <= N - f[1]
      BY <2>2, <2>3
    <3> QED
      BY <1>1, <1>2, <3>1
  <2> QED
    BY <2>4
<1>5. Nearest(heap) \in heap /\ \A f \in heap : Nearest(heap)[1] <= f[1]
  BY <1>3 DEF Nearest
<1>6. Farthest(heap) \in heap /\ \A f \in heap : Farthest(heap)[1] >= f[1]
  BY <1>4 DEF Farthest
<1> QED
  BY <1>5, <1>6

LEMMA StartedType ==
    ASSUME NEW q \in Queries
    PROVE  Started(q) \in SearchStates
<1>1. q.dist[Ep] \in 1 .. Cardinality(Points) /\ FloatMax = Cardinality(Points) + 1
  BY PointsFacts DEF Queries, FloatMax
<1> QED
  BY <1>1, PointsFacts DEF Started, SearchStates, Entries

LEMMA ConsiderType ==
    ASSUME NEW q \in Queries, NEW v \in SearchStates,
           NEW d \in 1 .. Cardinality(Points), NEW id \in Points
    PROVE  Consider(q, v, d, id) \in SearchStates
<1> DEFINE top == IF id \in q.allowed THEN v.top \cup {<<d, id>>} ELSE v.top
           kept == IF q.mode = "KNN_SEARCH" /\ Cardinality(top) > q.ef
                   THEN top \ {Farthest(top)} ELSE top
           b == IF kept = {} THEN v.bound ELSE Farthest(kept)[1]
           c == v.cand \cup {<<d, id>>}
<1>1. <<d, id>> \in Entries
  BY DEF Entries
<1>2. kept \in SUBSET Entries /\ c \in SUBSET Entries
  BY <1>1 DEF SearchStates
<1>3. b \in 1 .. FloatMax
  <2>1. CASE kept = {}
    BY <2>1 DEF SearchStates
  <2>2. CASE kept # {}
    <3>1. Farthest(kept) \in Entries
      BY <1>2, <2>2, HeapTop
    <3>2. Farthest(kept)[1] \in 1 .. Cardinality(Points)
      BY <3>1 DEF Entries
    <3>3. b = Farthest(kept)[1]
      BY <2>2
    <3> HIDE DEF b
    <3> QED
      BY <3>2, <3>3, PointsFacts DEF FloatMax
  <2> QED
    BY <2>1, <2>2
<1>4. Consider(q, v, d, id) \in {[v EXCEPT !.cand = c, !.top = kept, !.bound = b], v}
  BY DEF Consider
<1> HIDE DEF c, kept, b
<1> QED
  BY <1>2, <1>3, <1>4 DEF SearchStates

\* The distances of what was gathered.
DistLines(batch) == [1 .. Len(batch) -> 1 .. Cardinality(Points)]

LEMMA MergingIs ==
    ASSUME NEW q \in Queries, NEW v \in SearchStates, NEW batch \in Seq(Points),
           NEW dists \in DistLines(batch)
    PROVE  /\ Merging(q, v, batch, dists) \in [0 .. Len(batch) -> SearchStates]
           /\ Merging(q, v, batch, dists)[0] = v
           /\ \A i \in 1 .. Len(batch) :
                 Merging(q, v, batch, dists)[i]
                    = Consider(q, Merging(q, v, batch, dists)[i - 1], dists[i], batch[i])
<1> DEFINE n == Len(batch)
           F == [i \in 1 .. n |-> [x \in SearchStates |-> Consider(q, x, dists[i], batch[i])]]
           M == Merging(q, v, batch, dists)
<1>0. n \in Nat /\ \A i \in 1 .. n : batch[i] \in Points /\ dists[i] \in 1 .. Cardinality(Points)
  BY DEF DistLines
<1>1. F \in [1 .. n -> [SearchStates -> SearchStates]]
  BY <1>0, ConsiderType
<1>2. \A i \in 1 .. n : \A x \in SearchStates : F[i][x] = Consider(q, x, dists[i], batch[i])
  OBVIOUS
<1> HIDE DEF F, n
<1>3. PICK f : Solution(n, SearchStates, v, F, f)
  BY <1>0, <1>1, Recursion
<1>4. f = [i \in 0 .. n |-> IF i = 0 THEN v ELSE Consider(q, f[i - 1], dists[i], batch[i])]
  BY <1>0, <1>2, <1>3 DEF Solution
<1>5. M = [i \in 0 .. n |-> IF i = 0 THEN v ELSE Consider(q, M[i - 1], dists[i], batch[i])]
  BY <1>4, Zenon DEF Merging, n
<1> HIDE DEF M
<1>6. \A i \in 0 .. n : M[i] = IF i = 0 THEN v ELSE Consider(q, M[i - 1], dists[i], batch[i])
  BY <1>5
<1>7. \A i \in 1 .. n : M[i] = Consider(q, M[i - 1], dists[i], batch[i])
  BY <1>0, <1>6
<1>8. M[0] = v /\ DOMAIN M = 0 .. n /\ M = [i \in 0 .. n |-> M[i]]
  BY <1>0, <1>5, <1>6
<1>9. 0 .. n \subseteq {i \in 0 .. n : M[i] \in SearchStates}
  <2> DEFINE T == {i \in 0 .. n : M[i] \in SearchStates}
  <2>1. 0 \in T
    BY <1>0, <1>8
  <2>2. ASSUME NEW i \in 0 .. n - 1, i \in T PROVE i + 1 \in T
    <3>1. i + 1 \in 1 .. n /\ (i + 1) - 1 = i
      BY <1>0
    <3>2. M[i + 1] = Consider(q, M[i], dists[i + 1], batch[i + 1])
      BY <1>7, <3>1
    <3>3. M[i + 1] \in SearchStates
      BY <1>0, <2>2, <3>1, <3>2, ConsiderType
    <3> QED
      BY <3>1, <3>3
  <2> HIDE DEF T
  <2> QED
    BY <1>0, <2>1, <2>2, Induct DEF T
<1> QED
  BY <1>7, <1>8, <1>9 DEF M, n

Gathered == [batch : Seq(Points), visited : SUBSET Points]

LEMMA GatherType ==
    ASSUME NEW q, NEW acc \in Gathered, NEW n \in Points
    PROVE  Gather(q, acc, n) \in Gathered
<1>1. Append(acc.batch, n) \in Seq(Points) /\ acc.visited \cup {n} \in SUBSET Points
  BY DEF Gathered
<1> QED
  BY <1>1 DEF Gather, Gathered

LEMMA GatheringIs ==
    ASSUME NEW q, NEW V \in SUBSET Points, NEW list \in Seq(Points)
    PROVE  /\ Gathering(q, V, list)[0] = [batch |-> <<>>, visited |-> V]
           /\ \A i \in 1 .. Len(list) :
                 Gathering(q, V, list)[i] = Gather(q, Gathering(q, V, list)[i - 1], list[i])
<1> DEFINE n == Len(list)
           F == [i \in 1 .. n |-> [x \in Gathered |-> Gather(q, x, list[i])]]
           G == Gathering(q, V, list)
           none == [batch |-> <<>>, visited |-> V]
<1>0. n \in Nat /\ \A i \in 1 .. n : list[i] \in Points
  OBVIOUS
<1>1. F \in [1 .. n -> [Gathered -> Gathered]]
  BY <1>0, GatherType
<1>2. \A i \in 1 .. n : \A x \in Gathered : F[i][x] = Gather(q, x, list[i])
  OBVIOUS
<1>a. none \in Gathered
  BY DEF Gathered
<1> HIDE DEF F, n, none
<1>3. PICK f : Solution(n, Gathered, none, F, f)
  BY <1>0, <1>1, <1>a, Recursion
<1>4. f = [i \in 0 .. n |-> IF i = 0 THEN none ELSE Gather(q, f[i - 1], list[i])]
  BY <1>0, <1>2, <1>3 DEF Solution
<1>5. G = [i \in 0 .. n |-> IF i = 0 THEN none ELSE Gather(q, G[i - 1], list[i])]
  BY <1>4, Zenon DEF Gathering, n, none
<1> HIDE DEF G
<1>6. \A i \in 0 .. n : G[i] = IF i = 0 THEN none ELSE Gather(q, G[i - 1], list[i])
  BY <1>5
<1>7. G[0] = none /\ \A i \in 1 .. n : G[i] = Gather(q, G[i - 1], list[i])
  BY <1>0, <1>6
<1> QED
  BY <1>7 DEF G, n, none

\* What visit has after i neighbours of a list: the list so far is visited, and
\* what was gathered was not visited before and is there once.
GatheredInv(q, V, list, acc, i) ==
    /\ acc \in Gathered
    /\ Len(acc.batch) <= i
    /\ acc.visited = V \cup {list[j] : j \in 1 .. i}
    /\ \A j \in 1 .. Len(acc.batch) : acc.batch[j] \in acc.visited \ V
    /\ \A j, k \in 1 .. Len(acc.batch) : j # k => acc.batch[j] # acc.batch[k]
    /\ q.allowed = Points =>
          \A p \in acc.visited \ V : \E j \in 1 .. Len(acc.batch) : acc.batch[j] = p

LEMMA GatherStep ==
    ASSUME NEW q, NEW V \in SUBSET Points, NEW list \in Seq(Points),
           NEW i \in 1 .. Len(list), NEW acc, GatheredInv(q, V, list, acc, i - 1)
    PROVE  GatheredInv(q, V, list, Gather(q, acc, list[i]), i)
<1> DEFINE n == list[i]
           new == Gather(q, acc, n)
<1>1. n \in Points /\ acc \in Gathered /\ Len(acc.batch) \in Nat /\ i \in Nat
  BY DEF GatheredInv, Gathered
<1>2. new \in Gathered
  BY <1>1, GatherType
<1>3. {list[j] : j \in 1 .. i} = {list[j] : j \in 1 .. i - 1} \cup {n}
  BY <1>1
<1>4. CASE n \in acc.visited
  <2>1. new = acc
    BY <1>4 DEF Gather
  <2> QED
    BY <1>1, <1>2, <1>3, <1>4, <2>1 DEF GatheredInv
<1>5. CASE n \notin acc.visited
  <2>1. new.visited = acc.visited \cup {n} /\ n \notin V
    BY <1>5 DEF Gather, GatheredInv
  <2>2. new.visited = V \cup {list[j] : j \in 1 .. i}
    BY <1>3, <2>1 DEF GatheredInv
  <2>3. CASE new.batch = acc.batch
    <3>1. q.allowed # Points
      <4> SUFFICES ASSUME q.allowed = Points PROVE FALSE
        OBVIOUS
      <4>1. new.batch = Append(acc.batch, n)
        BY <1>1, <1>5 DEF Gather
      <4>2. Len(new.batch) = Len(acc.batch) + 1
        BY <1>1, <4>1 DEF Gathered
      <4> QED
        BY <1>1, <2>3, <4>2
    <3> QED
      BY <1>1, <1>2, <2>1, <2>2, <2>3, <3>1 DEF GatheredInv
  <2>4. CASE new.batch = Append(acc.batch, n)
    <3>1. /\ Len(new.batch) = Len(acc.batch) + 1
          /\ \A j \in 1 .. Len(acc.batch) : new.batch[j] = acc.batch[j]
          /\ new.batch[Len(acc.batch) + 1] = n
      BY <1>1, <2>4 DEF Gathered
    <3>2. \A j \in 1 .. Len(new.batch) : new.batch[j] \in new.visited \ V
      <4> SUFFICES ASSUME NEW j \in 1 .. Len(new.batch) PROVE new.batch[j] \in new.visited \ V
        OBVIOUS
      <4>1. CASE j = Len(acc.batch) + 1
        BY <2>1, <3>1, <4>1
      <4>2. CASE j # Len(acc.batch) + 1
        <5>1. j \in 1 .. Len(acc.batch)
          BY <1>1, <3>1, <4>2
        <5> QED
          BY <2>1, <3>1, <5>1 DEF GatheredInv
      <4> QED
        BY <4>1, <4>2
    <3>a. \A j \in 1 .. Len(acc.batch) : acc.batch[j] # n
      BY <1>5 DEF GatheredInv
    <3>3. ASSUME NEW j \in 1 .. Len(new.batch), NEW k \in 1 .. Len(new.batch), j # k
          PROVE  new.batch[j] # new.batch[k]
      <4> DEFINE m == Len(acc.batch)
      <4>0. m \in Nat /\ Len(new.batch) = m + 1
        BY <1>1, <3>1
      <4>1. CASE j = m + 1
        <5>1. k \in 1 .. m
          BY <3>3, <4>0, <4>1
        <5> QED
          BY <3>1, <3>a, <4>1, <5>1
      <4>2. CASE k = m + 1
        <5>1. j \in 1 .. m
          BY <3>3, <4>0, <4>2
        <5> QED
          BY <3>1, <3>a, <4>2, <5>1
      <4>3. CASE j # m + 1 /\ k # m + 1
        <5>1. j \in 1 .. m /\ k \in 1 .. m
          BY <4>0, <4>3
        <5> QED
          BY <3>1, <3>3, <5>1 DEF GatheredInv
      <4> QED
        BY <4>1, <4>2, <4>3
    <3>4. ASSUME q.allowed = Points, NEW p \in new.visited \ V
          PROVE  \E j \in 1 .. Len(new.batch) : new.batch[j] = p
      <4>1. CASE p = n
        BY <1>1, <3>1, <4>1
      <4>2. CASE p # n
        <5>1. PICK j \in 1 .. Len(acc.batch) : acc.batch[j] = p
          BY <2>1, <3>4, <4>2 DEF GatheredInv
        <5> QED
          BY <1>1, <3>1, <5>1
      <4> QED
        BY <4>1, <4>2
    <3>5. Len(new.batch) <= i
      BY <1>1, <3>1 DEF GatheredInv
    <3> QED
      BY <1>2, <2>2, <3>2, <3>3, <3>4, <3>5 DEF GatheredInv
  <2> QED
    BY <1>5, <2>3, <2>4 DEF Gather
<1> QED
  BY <1>4, <1>5

LEMMA GatheringInv ==
    ASSUME NEW q, NEW V \in SUBSET Points, NEW list \in Seq(Points)
    PROVE  GatheredInv(q, V, list, Gathering(q, V, list)[Len(list)], Len(list))
<1> DEFINE n == Len(list)
           G == Gathering(q, V, list)
           T == {i \in 0 .. n : GatheredInv(q, V, list, G[i], i)}
<1>0. n \in Nat
  OBVIOUS
<1>a. G[0] = [batch |-> <<>>, visited |-> V] /\ \A i \in 1 .. n : G[i] = Gather(q, G[i - 1], list[i])
  BY GatheringIs
<1> HIDE DEF G
<1>1. 0 \in T
  <2>1. G[0] = [batch |-> <<>>, visited |-> V]
    BY <1>a
  <2>2. GatheredInv(q, V, list, G[0], 0)
    BY <2>1 DEF GatheredInv, Gathered
  <2> QED
    BY <1>0, <2>2
<1>2. ASSUME NEW i \in 0 .. n - 1, i \in T PROVE i + 1 \in T
  <2>1. i + 1 \in 1 .. n /\ (i + 1) - 1 = i
    BY <1>0
  <2>2. G[i + 1] = Gather(q, G[i], list[i + 1])
    BY <2>1, <1>a
  <2>3. GatheredInv(q, V, list, G[i], (i + 1) - 1)
    BY <1>2, <2>1
  <2>4. GatheredInv(q, V, list, Gather(q, G[i], list[i + 1]), i + 1)
    BY <2>1, <2>3, GatherStep
  <2> QED
    BY <2>1, <2>2, <2>4
<1> HIDE DEF T
<1>3. 0 .. n \subseteq T
  BY <1>0, <1>1, <1>2, Induct
<1> QED
  BY <1>0, <1>3 DEF T, G

(* visit, of a search that is at a point.                                   *)
LEMMA VisitFacts ==
    ASSUME NEW q, NEW v \in SearchStates, NEW p \in Points
    PROVE  /\ Visit(q, v, p).batch \in Seq(Points)
           /\ Len(Visit(q, v, p).batch) \in 0 .. MaxLine
           /\ GatheredInv(q, v.visited, Neighbors[p], Visit(q, v, p), Len(Neighbors[p]))
           /\ Visit(q, v, p).visited \in SUBSET Points
<1>1. Neighbors[p] \in Seq(Points) /\ Len(Neighbors[p]) <= MaxLine /\ MaxLine \in Nat
  BY SearchAssumption, ParallelAssumption
<1>2. v.visited \in SUBSET Points
  BY DEF SearchStates
<1>3. GatheredInv(q, v.visited, Neighbors[p], Visit(q, v, p), Len(Neighbors[p]))
  BY <1>1, <1>2, GatheringInv DEF Visit
<1>4. Visit(q, v, p) \in Gathered /\ Len(Visit(q, v, p).batch) <= Len(Neighbors[p])
  BY <1>3 DEF GatheredInv
<1> QED
  BY <1>1, <1>3, <1>4 DEF GatheredInv, Gathered

\* The distances of gathered points.
DistsOf(q, batch) == [i \in 1 .. Len(batch) |-> q.dist[batch[i]]]

LEMMA DistsOfType ==
    ASSUME NEW q \in Queries, NEW batch \in Seq(Points)
    PROVE  DistsOf(q, batch) \in DistLines(batch)
<1>1. \A i \in 1 .. Len(batch) : batch[i] \in Points
  OBVIOUS
<1> QED
  BY <1>1 DEF DistsOf, DistLines, Queries

LEMMA MergeType ==
    ASSUME NEW q \in Queries, NEW v \in SearchStates, NEW batch \in Seq(Points)
    PROVE  Merge(q, v, batch, DistsOf(q, batch)) \in SearchStates
<1>1. Merging(q, v, batch, DistsOf(q, batch)) \in [0 .. Len(batch) -> SearchStates]
  BY DistsOfType, MergingIs
<1> QED
  BY <1>1 DEF Merge

\* The state in which a hop looks at what it gathered.
Popped(q, v) ==
    [v EXCEPT !.cand = @ \ {Nearest(v.cand)}, !.visited = Visit(q, v, Nearest(v.cand)[2]).visited]

Batch(q, v) == Visit(q, v, Nearest(v.cand)[2]).batch

LEMMA HopParts ==
    ASSUME NEW q \in Queries, NEW v \in SearchStates, ~ Finished(q, v)
    PROVE  /\ v.cand # {}
           /\ Nearest(v.cand) \in v.cand
           /\ Nearest(v.cand)[2] \in Points
           /\ Popped(q, v) \in SearchStates
           /\ Batch(q, v) \in Seq(Points)
           /\ Len(Batch(q, v)) \in 0 .. MaxLine
           /\ Hop(q, v) = Merge(q, Popped(q, v), Batch(q, v), DistsOf(q, Batch(q, v)))
           /\ Hop(q, v) \in SearchStates
<1>1. v.cand # {} /\ v.cand \in SUBSET Entries
  BY DEF Finished, SearchStates
<1>2. Nearest(v.cand) \in v.cand
  BY <1>1, HeapTop
<1>3. Nearest(v.cand)[2] \in Points
  BY <1>1, <1>2 DEF Entries
<1>4. Popped(q, v) \in SearchStates
  <2>1. Visit(q, v, Nearest(v.cand)[2]).visited \in SUBSET Points
    BY <1>3, VisitFacts
  <2> QED
    BY <1>1, <2>1 DEF Popped, SearchStates
<1>5. Batch(q, v) \in Seq(Points) /\ Len(Batch(q, v)) \in 0 .. MaxLine
  BY <1>3, VisitFacts DEF Batch
<1>6. DOMAIN Batch(q, v) = 1 .. Len(Batch(q, v))
  BY <1>5
<1>7. Hop(q, v) = Merge(q, Popped(q, v), Batch(q, v), DistsOf(q, Batch(q, v)))
  BY <1>6 DEF Hop, Popped, Batch, DistsOf
<1> QED
  BY <1>1, <1>2, <1>3, <1>4, <1>5, <1>7, MergeType

----------------------------------------------------------------------------
(* A hop under way.                                                         *)

LEMMA CellsFacts ==
    ASSUME NEW t \in Items
    PROVE  /\ Cells(t) \in SUBSET (Nat \ {0})
           /\ IsFiniteSet(Cells(t)) /\ Cardinality(Cells(t)) = t.count
           /\ t.count = 0 => Cells(t) = {}
<1>1. t.from \in Nat /\ t.count \in Nat
  BY DEF Items
<1> DEFINE a == t.from + 1
           b == t.from + t.count
<1>a. a \in Int /\ b \in Int
  BY <1>1
<1> HIDE DEF a, b
<1>b. IsFiniteSet(a .. b) /\ Cardinality(a .. b) = IF a > b THEN 0 ELSE b - a + 1
  BY <1>a, FS_Interval
<1>2. IsFiniteSet(a .. b) /\ Cardinality(a .. b) = t.count
  BY <1>1, <1>b DEF a, b
<1> USE DEF a, b
<1> QED
  BY <1>1, <1>2 DEF Cells

(* Tasks that end leave a hop as it was.                                    *)
LEMMA HopShrinks ==
    ASSUME NEW q, NEW line, NEW c, NEW dists, NEW n, NEW off, NEW K,
           HopInv(q, line, c, dists, n, off, K), NEW L \in SUBSET K
    PROVE  HopInv(q, line, c, dists, n, off, L)
BY DEF HopInv

(* A hop starts with no points given away.                                  *)
LEMMA HopStarts ==
    ASSUME NEW q, NEW line, NEW c \in Nat, NEW dists, NEW K,
           \A k \in K : k[3] \in Items /\ k[3].count = 0
    PROVE  HopInv(q, line, c, dists, 0, 0, K)
<1>1. \A k \in K : Cells(k[3]) = {}
  BY CellsFacts
<1>2. IsFiniteSet({}) /\ Cardinality({}) = 0
  BY FS_EmptySet
<1>3. Right(q, line, dists, {})
  BY DEF Right
<1>4. {} \in SUBSET (1 .. 0)
  OBVIOUS
<1>5. \E counted \in SUBSET (1 .. 0) :
          /\ IsFiniteSet(counted) /\ Cardinality(counted) = 0
          /\ Right(q, line, dists, counted)
          /\ \A k \in K : Cells(k[3]) \cap counted = {}
  BY <1>2, <1>3, <1>4
<1> QED
  BY <1>1, <1>5 DEF HopInv

(* A share is given away, whether or not its task arrives.                   *)
LEMMA HopShares ==
    ASSUME NEW q, NEW line, NEW c \in Nat, NEW dists, NEW n, NEW off \in Nat, NEW K,
           \A k \in K : k[3] \in Items,
           HopInv(q, line, c, dists, n, off, K),
           NEW t \in Items, t.from = off, off + t.count <= c, NEW l, l[3] = t
    PROVE  HopInv(q, line, c, dists, n, off + t.count, K \cup {l})
<1>1. t.count \in Nat /\ t.from \in Nat /\ Cells(t) = off + 1 .. off + t.count
  BY DEF Items, Cells
<1>2. PICK counted \in SUBSET (1 .. off) :
          /\ IsFiniteSet(counted) /\ Cardinality(counted) = n
          /\ Right(q, line, dists, counted)
          /\ \A k \in K : Cells(k[3]) \cap counted = {}
  BY DEF HopInv
<1>3. ASSUME NEW k \in K PROVE Cells(k[3]) \cap Cells(t) = {}
  <2>1. k[3].from \in Nat /\ k[3].count \in Nat
    BY DEF Items
  <2>2. k[3].count > 0 => k[3].from + k[3].count <= off
    BY DEF HopInv
  <2> QED
    BY <1>1, <2>1, <2>2 DEF Cells
<1>4. Cells(t) \cap counted = {}
  BY <1>1
<1>5. counted \in SUBSET (1 .. off + t.count)
  BY <1>1
<1>6. \A k \in K \cup {l} : k[3].count > 0 => k[3].from + k[3].count <= off + t.count
  <2>1. ASSUME NEW k \in K, k[3].count > 0 PROVE k[3].from + k[3].count <= off + t.count
    <3>1. k[3].from \in Nat /\ k[3].count \in Nat
      BY DEF Items
    <3>2. k[3].from + k[3].count <= off
      BY <2>1 DEF HopInv
    <3> QED
      BY <1>1, <3>1, <3>2
  <2>2. l[3].from + l[3].count <= off + t.count
    BY <1>1
  <2> QED
    BY <2>1, <2>2
<1>7. \A k, m \in K \cup {l} : k # m => Cells(k[3]) \cap Cells(m[3]) = {}
  BY <1>3 DEF HopInv
<1>8. \A k \in K \cup {l} : Cells(k[3]) \cap counted = {}
  BY <1>2, <1>4
<1> QED
  BY <1>2, <1>5, <1>6, <1>7, <1>8 DEF HopInv

(* A worker counts the points of a task whose distances are there.           *)
LEMMA HopCounts ==
    ASSUME NEW q, NEW line, NEW c \in Nat, NEW dists, NEW n \in Nat, NEW off \in Nat, NEW K,
           \A k \in K : k[3] \in Items,
           HopInv(q, line, c, dists, n, off, K),
           NEW l \in K, Right(q, line, dists, Cells(l[3])),
           NEW L \in SUBSET (K \ {l})
    PROVE  HopInv(q, line, c, dists, n + l[3].count, off, L)
<1> DEFINE C == Cells(l[3])
<1>1. PICK counted \in SUBSET (1 .. off) :
          /\ IsFiniteSet(counted) /\ Cardinality(counted) = n
          /\ Right(q, line, dists, counted)
          /\ \A k \in K : Cells(k[3]) \cap counted = {}
  BY DEF HopInv
<1>2. IsFiniteSet(C) /\ Cardinality(C) = l[3].count /\ C \in SUBSET (Nat \ {0})
  BY CellsFacts
<1>3. C \cap counted = {}
  BY <1>1
<1>4. C \subseteq 1 .. off
  <2>1. l[3].from \in Nat /\ l[3].count \in Nat
    BY DEF Items
  <2>2. l[3].count > 0 => l[3].from + l[3].count <= off
    BY DEF HopInv
  <2> QED
    BY <2>1, <2>2 DEF Cells
<1> DEFINE all == counted \cup C
<1>5. IsFiniteSet(all) /\ Cardinality(all) = n + l[3].count
  <2>1. /\ IsFiniteSet(counted \cup C) /\ IsFiniteSet(counted \cap C)
        /\ Cardinality(counted \cup C)
              = Cardinality(counted) + Cardinality(C) - Cardinality(counted \cap C)
    BY <1>1, <1>2, FS_Union, FS_Intersection
  <2>2. Cardinality(counted \cap C) = 0
    BY <1>3, FS_EmptySet
  <2>3. Cardinality(counted) \in Nat /\ Cardinality(C) \in Nat
    BY <1>1, <1>2, FS_CardinalityType
  <2> QED
    BY <1>1, <1>2, <2>1, <2>2, <2>3
<1>6. Right(q, line, dists, all)
  BY <1>1 DEF Right
<1>7. \A k \in L : Cells(k[3]) \cap all = {}
  BY <1>1 DEF HopInv
<1>8. all \in SUBSET (1 .. off)
  BY <1>1, <1>4
<1> HIDE DEF all
<1>9. \E x \in SUBSET (1 .. off) :
          /\ IsFiniteSet(x) /\ Cardinality(x) = n + l[3].count
          /\ Right(q, line, dists, x)
          /\ \A k \in L : Cells(k[3]) \cap x = {}
  BY <1>5, <1>6, <1>7, <1>8
<1> QED
  BY <1>9 DEF HopInv

(* Right distances are written at some positions.                            *)
LEMMA HopWrites ==
    ASSUME NEW q, NEW line, NEW c, NEW dists, NEW n, NEW off, NEW K,
           HopInv(q, line, c, dists, n, off, K),
           NEW new, \A i \in 1 .. off : new[i] = dists[i] \/ new[i] = q.dist[line[i]]
    PROVE  HopInv(q, line, c, new, n, off, K)
<1>1. PICK counted \in SUBSET (1 .. off) :
          /\ IsFiniteSet(counted) /\ Cardinality(counted) = n
          /\ Right(q, line, dists, counted)
          /\ \A k \in K : Cells(k[3]) \cap counted = {}
  BY DEF HopInv
<1>2. Right(q, line, new, counted)
  BY <1>1 DEF Right
<1> QED
  BY <1>1, <1>2 DEF HopInv

(* Once as many points are counted as there are, all distances are right and  *)
(* no task has points.                                                      *)
LEMMA HopEnds ==
    ASSUME NEW q, NEW line, NEW c \in Nat, NEW dists, NEW n \in Nat, NEW off \in Nat, NEW K,
           \A k \in K : k[3] \in Items,
           HopInv(q, line, c, dists, n, off, K), n >= c
    PROVE  /\ Right(q, line, dists, 1 .. c)
           /\ \A k \in K : k[3].count = 0
<1>1. PICK counted \in SUBSET (1 .. off) :
          /\ IsFiniteSet(counted) /\ Cardinality(counted) = n
          /\ Right(q, line, dists, counted)
          /\ \A k \in K : Cells(k[3]) \cap counted = {}
  BY DEF HopInv
<1>2. off <= c
  BY DEF HopInv
<1>3. counted = 1 .. c
  <2>1. IsFiniteSet(1 .. c) /\ Cardinality(1 .. c) = c
    BY FS_Interval
  <2>2. counted \subseteq 1 .. c
    BY <1>1, <1>2
  <2>3. Cardinality(counted) <= Cardinality(1 .. c)
        /\ (Cardinality(counted) = Cardinality(1 .. c) => counted = 1 .. c)
    BY <2>1, <2>2, FS_Subset
  <2> QED
    BY <1>1, <2>1, <2>3
<1>4. ASSUME NEW k \in K, k[3].count # 0 PROVE FALSE
  <2>1. k[3].from \in Nat /\ k[3].count \in Nat
    BY DEF Items
  <2>2. k[3].from + k[3].count <= off
    BY <1>4, <2>1 DEF HopInv
  <2>3. k[3].from + 1 \in Cells(k[3]) /\ k[3].from + 1 \in 1 .. c
    BY <1>2, <1>4, <2>1, <2>2 DEF Cells
  <2> QED
    BY <1>1, <1>3, <2>3
<1> QED
  BY <1>1, <1>3, <1>4

----------------------------------------------------------------------------
(* The shares of a hop.                                                     *)

LEMMA Division ==
    ASSUME NEW a \in Nat, NEW b \in Nat \ {0}
    PROVE  a \div b \in Nat /\ a % b \in 0 .. b - 1 /\ a = b * (a \div b) + (a % b)
<1> DEFINE q == a \div b
           r == a % b
<1>1. q \in Nat
  BY SMT
<1>2. r \in 0 .. b - 1
  BY SMT
<1>3. a = b * q + r
  BY SMT
<1> QED
  BY <1>1, <1>2, <1>3

LEMMA ShareStarts ==
    ASSUME NEW c \in Nat
    PROVE  /\ Start(c, 1) = 0
           /\ \A w \in Workers :
                 /\ Start(c, w) \in Nat /\ Start(c, w + 1) \in Nat
                 /\ Start(c, w + 1) <= c
                 /\ Start(c, w) + (c \div (NumThreads + 1))
                       + (IF w <= c % (NumThreads + 1) THEN 1 ELSE 0) = Start(c, w + 1)
<1> DEFINE a == c \div (NumThreads + 1)
           r == c % (NumThreads + 1)
<1>1. NumThreads \in Nat \ {0}
  BY ParallelAssumption
<1>2. a \in Nat /\ r \in 0 .. NumThreads /\ c = (NumThreads + 1) * a + r
  <2>1. NumThreads + 1 \in Nat \ {0} /\ (NumThreads + 1) - 1 = NumThreads
    BY <1>1
  <2> QED
    BY <2>1, Division
<1>3. \A w : Start(c, w) = (w - 1) * a + (IF w - 1 <= r THEN w - 1 ELSE r)
  BY DEF Start
<1> HIDE DEF a, r
<1>4. ASSUME NEW w \in Workers
      PROVE  /\ Start(c, w) \in Nat /\ Start(c, w + 1) \in Nat
             /\ Start(c, w + 1) <= c
             /\ Start(c, w) + a + (IF w <= r THEN 1 ELSE 0) = Start(c, w + 1)
  <2>1. w \in Nat \ {0} /\ w <= NumThreads
    BY <1>1 DEF Workers
  <2>2. (w - 1) * a \in Nat /\ w * a \in Nat /\ w * a = (w - 1) * a + a
    BY <1>2, <2>1, SMT
  <2>3. w * a <= (NumThreads + 1) * a /\ (NumThreads + 1) * a \in Nat
    BY <1>1, <1>2, <2>1, SMT
  <2>4. Start(c, w) = (w - 1) * a + (IF w - 1 <= r THEN w - 1 ELSE r)
    BY <1>3
  <2>5. Start(c, w + 1) = w * a + (IF w <= r THEN w ELSE r)
    <3>1. (w + 1) - 1 = w
      BY <2>1
    <3> QED
      BY <1>3, <3>1
  <2> DEFINE x == (w - 1) * a
             y == w * a
             z == (NumThreads + 1) * a
  <2> HIDE DEF x, y, z
  <2>6. /\ x \in Nat /\ y \in Nat /\ z \in Nat /\ y = x + a /\ y <= z /\ c = z + r
        /\ Start(c, w) = x + (IF w - 1 <= r THEN w - 1 ELSE r)
        /\ Start(c, w + 1) = y + (IF w <= r THEN w ELSE r)
    BY <1>2, <2>2, <2>3, <2>4, <2>5 DEF x, y, z
  <2> QED
    BY <1>2, <2>1, <2>6
<1>5. Start(c, 1) = 0
  <2>1. Start(c, 1) = 0 * a + (IF 0 <= r THEN 0 ELSE r)
    BY <1>3
  <2> QED
    BY <1>2, <2>1, SMT
<1> QED
  BY <1>4, <1>5 DEF a, r

----------------------------------------------------------------------------
(* A queue and its worker.                                                  *)

(* What a queue of the right type is.                                        *)
LEMMA QueueFacts ==
    ASSUME NEW q \in QueueType
    PROVE  /\ q.write_idx \in Nat /\ q.read_idx \in Nat /\ QueueSize \in Nat \ {0}
           /\ \A i \in Nat : i % QueueSize \in 0 .. QueueSize - 1
           /\ \A i \in 0 .. QueueSize - 1 : q.buffer[i] \in Items
<1>1. QueueSize \in Nat \ {0}
  BY ParallelAssumption
<1>2. \A i \in Nat : i % QueueSize \in 0 .. QueueSize - 1
  BY <1>1, Division
<1> QED
  BY <1>1, <1>2 DEF QueueType

(* Two indices that are less than the size of the queue apart have their own  *)
(* slots.                                                                   *)
LEMMA Window ==
    ASSUME NEW i \in Nat, NEW j \in Nat, i < j, j - i < QueueSize
    PROVE  i % QueueSize # j % QueueSize
<1> DEFINE a == i \div QueueSize
           b == j \div QueueSize
           r == i % QueueSize
           t == j % QueueSize
<1>1. QueueSize \in Nat \ {0}
  BY ParallelAssumption
<1>2. a \in Nat /\ r \in 0 .. QueueSize - 1 /\ i = QueueSize * a + r
  BY <1>1, Division
<1>3. b \in Nat /\ t \in 0 .. QueueSize - 1 /\ j = QueueSize * b + t
  BY <1>1, Division
<1> HIDE DEF a, b, r, t
<1> SUFFICES ASSUME r = t PROVE FALSE
  BY DEF r, t
<1>4. QueueSize * a \in Nat /\ QueueSize * b \in Nat
  BY <1>1, <1>2, <1>3, SMT
<1>5. CASE b <= a
  <2>1. QueueSize * b <= QueueSize * a
    BY <1>1, <1>2, <1>3, <1>5, SMT
  <2> QED
    BY <1>2, <1>3, <1>4, <2>1
<1>6. CASE ~ (b <= a)
  <2>1. QueueSize * (a + 1) <= QueueSize * b /\ QueueSize * (a + 1) = QueueSize * a + QueueSize
    BY <1>1, <1>2, <1>3, <1>6, SMT
  <2> QED
    BY <1>1, <1>2, <1>3, <1>4, <2>1
<1> QED
  BY <1>5, <1>6

(* A step after which a lane has no item that it did not have before.         *)
Narrows(q, wk, p, n, r, vk, o, m, w) ==
    /\ Lane(r, vk, o, m, w)
    /\ \A i \in Int, t \in Items : Pending(r, vk, o, m, w, i, t) => Pending(q, wk, p, n, w, i, t)

LEMMA LanePopSlot ==
    ASSUME NEW q \in QueueType, NEW wk \in WorkerType, NEW p, NEW n, NEW w,
           Lane(q, wk, p, n, w), wk.pc = "pop", ~ Empty(q)
    PROVE  Narrows(q, wk, p, n, q, [pc |-> "release", item |-> ReadSlot(q)], p, n, w)
<1> DEFINE vk == [pc |-> "release", item |-> ReadSlot(q)]
<1>1. q.read_idx < q.write_idx /\ q.read_idx \in Nat /\ q.write_idx \in Nat
  BY QueueFacts DEF Lane, First, Empty
<1>2. First(q, wk) = q.read_idx /\ First(q, vk) = q.read_idx + 1 /\ Holds(vk)
  BY DEF First, Holds
<1>3. Last(q, p, n, w) \in {q.write_idx, q.write_idx - 1}
  BY DEF Last
<1>4. Lane(q, vk, p, n, w)
  BY <1>1, <1>2, <1>3 DEF Lane
<1>5. ASSUME NEW i \in Int, NEW t \in Items, Pending(q, vk, p, n, w, i, t)
      PROVE  Pending(q, wk, p, n, w, i, t)
  <2>1. CASE i = First(q, vk) - 1 /\ t = vk.item
    <3>1. i = q.read_idx /\ t = q.buffer[i % QueueSize]
      BY <1>1, <1>2, <2>1 DEF ReadSlot
    <3> QED
      BY <1>1, <1>2, <1>3, <3>1 DEF Pending
  <2>2. CASE First(q, vk) <= i /\ i <= Last(q, p, n, w) /\ t = q.buffer[i % QueueSize]
    BY <1>1, <1>2, <2>2 DEF Pending
  <2> QED
    BY <1>5, <2>1, <2>2 DEF Pending
<1> QED
  BY <1>4, <1>5 DEF Narrows

LEMMA LanePopIndex ==
    ASSUME NEW q \in QueueType, NEW wk \in WorkerType, NEW p, NEW n, NEW w,
           Lane(q, wk, p, n, w), wk.pc = "release", NEW vk \in WorkerType,
           vk.item = wk.item, vk.pc = IF wk.item.nullptr THEN "done" ELSE "query"
    PROVE  Narrows(q, wk, p, n, Release(q), vk, p, n, w)
<1> DEFINE r == Release(q)
<1>1. q.read_idx \in Nat /\ q.write_idx \in Nat
  BY QueueFacts
<1>2. r.read_idx = q.read_idx + 1 /\ r.write_idx = q.write_idx /\ r.buffer = q.buffer
  BY DEF Release, QueueType
<1> HIDE DEF r
<1>3. First(q, wk) = q.read_idx + 1 /\ First(r, vk) = q.read_idx + 1 /\ Holds(wk)
  BY <1>2 DEF First, Holds
<1>4. Last(r, p, n, w) = Last(q, p, n, w) /\ Last(q, p, n, w) \in {q.write_idx, q.write_idx - 1}
  BY <1>2 DEF Last
<1>5. ~ Holds(vk) => vk.item.count = 0
  <2>1. wk.item.nullptr => wk.item.count = 0
    BY DEF WorkerType, Items
  <2>2. CASE wk.item.nullptr
    BY <2>1, <2>2
  <2>3. CASE ~ wk.item.nullptr
    <3>1. vk.pc = "query"
      BY <2>3
    <3> QED
      BY <3>1 DEF Holds
  <2> QED
    BY <2>2, <2>3
<1>6. Lane(r, vk, p, n, w)
  BY <1>1, <1>2, <1>3, <1>4, <1>5, QueueFacts DEF Lane
<1>7. ASSUME NEW i \in Int, NEW t \in Items, Pending(r, vk, p, n, w, i, t)
      PROVE  Pending(q, wk, p, n, w, i, t)
  BY <1>2, <1>3, <1>4, <1>7 DEF Pending
<1> QED
  BY <1>6, <1>7 DEF Narrows, r

LEMMA LaneWorkerQuery ==
    ASSUME NEW q \in QueueType, NEW wk \in WorkerType, NEW p, NEW n, NEW w,
           Lane(q, wk, p, n, w), wk.pc = "query", NEW vk \in WorkerType,
           vk.item = wk.item, vk.pc = "count"
    PROVE  Narrows(q, wk, p, n, q, vk, p, n, w)
<1>1. First(q, vk) = First(q, wk) /\ Holds(wk) /\ Holds(vk)
  BY DEF First, Holds
<1> QED
  BY <1>1 DEF Narrows, Lane, Pending

(* A task that was counted is gone.                                          *)
LEMMA LaneWorkerCount ==
    ASSUME NEW q \in QueueType, NEW wk \in WorkerType, NEW p, NEW n, NEW w,
           Lane(q, wk, p, n, w), wk.pc = "count"
    PROVE  /\ Narrows(q, wk, p, n, q, [pc |-> "pop", item |-> Nullptr], p, n, w)
           /\ Pending(q, wk, p, n, w, First(q, wk) - 1, wk.item)
           /\ \A t \in Items :
                 ~ Pending(q, [pc |-> "pop", item |-> Nullptr], p, n, w, First(q, wk) - 1, t)
<1> DEFINE vk == [pc |-> "pop", item |-> Nullptr]
<1>1. First(q, vk) = q.read_idx /\ First(q, wk) = q.read_idx /\ Holds(wk) /\ ~ Holds(vk)
  BY DEF First, Holds
<1>2. q.read_idx \in Nat /\ vk.item.count = 0
  BY QueueFacts DEF Nullptr
<1> HIDE DEF vk
<1>3. Lane(q, vk, p, n, w)
  BY <1>1, <1>2 DEF Lane
<1>4. ASSUME NEW i \in Int, NEW t \in Items, Pending(q, vk, p, n, w, i, t)
      PROVE  Pending(q, wk, p, n, w, i, t)
  BY <1>1, <1>4 DEF Pending
<1>5. Pending(q, wk, p, n, w, First(q, wk) - 1, wk.item)
  BY <1>1 DEF Pending
<1>6. \A t \in Items : ~ Pending(q, vk, p, n, w, First(q, wk) - 1, t)
  BY <1>1, <1>2 DEF Pending
<1> QED
  BY <1>3, <1>4, <1>5, <1>6 DEF Narrows, vk

LEMMA LaneStartWorker ==
    ASSUME NEW q \in QueueType, NEW wk \in WorkerType, NEW p, NEW n, NEW w,
           Lane(q, wk, p, n, w), wk.pc = "queued", NEW vk \in WorkerType,
           vk.item = wk.item, vk.pc = "pop"
    PROVE  Narrows(q, wk, p, n, q, vk, p, n, w)
<1>1. First(q, vk) = First(q, wk) /\ ~ Holds(wk) /\ ~ Holds(vk)
  BY DEF First, Holds
<1> QED
  BY <1>1 DEF Narrows, Lane, Pending

(* Where a search writes no slot, it does not matter where it is.             *)
LEMMA LaneElsewhere ==
    ASSUME NEW q, NEW wk, NEW p, NEW n, NEW o, NEW m, NEW w,
           Lane(q, wk, p, n, w), p \in Publishing => n # w, o \in Publishing => m # w
    PROVE  Narrows(q, wk, p, n, q, wk, o, m, w)
<1>1. Last(q, p, n, w) = Last(q, o, m, w)
  BY DEF Last, Publishing
<1> QED
  BY <1>1 DEF Narrows, Lane, Pending

(* The index moves past the slot that was written.                           *)
LEMMA LanePushIndex ==
    ASSUME NEW q \in QueueType, NEW wk \in WorkerType, NEW p, NEW o, NEW m, NEW w,
           Lane(q, wk, p, w, w), p \in Publishing, o \notin Publishing
    PROVE  Narrows(q, wk, p, w, Publish(q), wk, o, m, w)
<1> DEFINE r == Publish(q)
<1>1. q.read_idx \in Nat /\ q.write_idx \in Nat
  BY QueueFacts
<1>2. r.read_idx = q.read_idx /\ r.write_idx = q.write_idx + 1 /\ r.buffer = q.buffer
  BY DEF Publish, QueueType
<1> HIDE DEF r
<1>3. First(r, wk) = First(q, wk) /\ First(q, wk) \in Nat
  BY <1>1, <1>2 DEF First
<1>4. Last(r, o, m, w) = Last(q, p, w, w)
  BY <1>1, <1>2 DEF Last, Publishing
<1>5. Lane(r, wk, o, m, w)
  BY <1>1, <1>2, <1>3, <1>4 DEF Lane
<1>6. ASSUME NEW i \in Int, NEW t \in Items, Pending(r, wk, o, m, w, i, t)
      PROVE  Pending(q, wk, p, w, w, i, t)
  BY <1>2, <1>3, <1>4, <1>6 DEF Pending
<1> QED
  BY <1>5, <1>6 DEF Narrows, r

(* A step after which a lane has one item more.                              *)
Widens(q, wk, p, r, o, w, item) ==
    /\ Lane(r, wk, o, w, w)
    /\ \A i \in Int, t \in Items :
          Pending(r, wk, o, w, w, i, t)
             => Pending(q, wk, p, w, w, i, t) \/ (i = q.write_idx /\ t = item)

(* A slot is written: whatever was in it before was read.                    *)
LEMMA LanePushSlot ==
    ASSUME NEW q \in QueueType, NEW wk \in WorkerType, NEW p, NEW o, NEW w, NEW item \in Items,
           Lane(q, wk, p, w, w), p \notin Publishing, o \in Publishing, ~ Full(q)
    PROVE  Widens(q, wk, p, WriteSlot(q, item), o, w, item)
<1> DEFINE r == WriteSlot(q, item)
<1>1. q.read_idx \in Nat /\ q.write_idx \in Nat
      /\ \A i \in Nat : i % QueueSize \in 0 .. QueueSize - 1
  BY QueueFacts
<1>2. r.read_idx = q.read_idx /\ r.write_idx = q.write_idx
      /\ r.buffer = [q.buffer EXCEPT ![q.write_idx % QueueSize] = item]
  BY DEF WriteSlot, QueueType
<1> HIDE DEF r
<1>3. First(r, wk) = First(q, wk) /\ First(q, wk) \in Nat /\ First(q, wk) >= q.read_idx
  BY <1>1, <1>2 DEF First
<1>4. Last(r, o, w, w) = q.write_idx /\ Last(q, p, w, w) = q.write_idx - 1
  BY <1>1, <1>2 DEF Last, Publishing
<1>5. q.write_idx - q.read_idx < QueueSize - 1 /\ QueueSize \in Nat
  BY <1>1, QueueFacts DEF Full
<1>6. Lane(r, wk, o, w, w)
  BY <1>1, <1>2, <1>3, <1>4, <1>5 DEF Lane
<1>7. ASSUME NEW i \in Int, NEW t \in Items, Pending(r, wk, o, w, w, i, t)
      PROVE  Pending(q, wk, p, w, w, i, t) \/ (i = q.write_idx /\ t = item)
  <2>1. CASE Holds(wk) /\ i = First(r, wk) - 1 /\ t = wk.item
    BY <1>3, <2>1 DEF Pending
  <2>2. CASE First(r, wk) <= i /\ i <= Last(r, o, w, w) /\ t = r.buffer[i % QueueSize]
    <3>1. i \in Nat /\ i <= q.write_idx /\ q.read_idx <= i /\ First(q, wk) <= i
      BY <1>1, <1>3, <1>4, <2>2
    <3>2. CASE i = q.write_idx
      BY <1>1, <1>2, <2>2, <3>2 DEF QueueType
    <3>3. CASE i # q.write_idx
      <4>1. i < q.write_idx /\ q.write_idx - i < QueueSize /\ i <= q.write_idx - 1
        BY <1>1, <1>5, <3>1, <3>3
      <4>2. i % QueueSize # q.write_idx % QueueSize
        BY <1>1, <3>1, <4>1, Window
      <4>3. t = q.buffer[i % QueueSize]
        BY <1>1, <1>2, <2>2, <3>1, <4>2 DEF QueueType
      <4> QED
        BY <1>4, <3>1, <4>1, <4>3 DEF Pending
    <3> QED
      BY <3>2, <3>3
  <2> QED
    BY <1>7, <2>1, <2>2 DEF Pending
<1> QED
  BY <1>6, <1>7 DEF r, Widens

----------------------------------------------------------------------------
(* Steps of a search and of its workers.                                    *)

(* A step that leaves alone what a search has keeps its invariant.            *)
LEMMA Frame ==
    ASSUME NEW s, SearchInv(s),
           query'[s] = query[s], st'[s] = st[s], pc'[s] = pc[s], ids'[s] = ids[s],
           count'[s] = count[s], line_dists'[s] = line_dists[s],
           num_points'[s] = num_points[s], offset'[s] = offset[s], nextq'[s] = nextq[s],
           queues'[s] = queues[s], worker'[s] = worker[s]
    PROVE  SearchInv(s)'
<1>1. LanesInv(s)'
  BY DEF SearchInv, LanesInv
<1>2. SharesInv(s)'
  BY DEF SearchInv, SharesInv
<1>3. TasksOf(s)' = TasksOf(s)
  BY DEF TasksOf
<1>4. HopsInv(s)'
  BY <1>3 DEF SearchInv, HopsInv
<1>5. CountingInv(s)'
  BY DEF SearchInv, CountingInv
<1>6. LeavingInv(s)'
  BY DEF SearchInv, LeavingInv
<1> QED
  BY <1>1, <1>2, <1>4, <1>5, <1>6 DEF SearchInv

(* A step that takes no worker out of the pool.                              *)
LEMMA PoolFrame ==
    ASSUME PTypeOK, PoolInv, pool' = pool,
           \A s \in Searches : pc'[s] = "enqueue" => pc[s] = "enqueue" /\ nextq'[s] = nextq[s],
           \A s \in Searches, w \in Workers :
              worker[s][w].pc = "queued" => worker'[s][w].pc = "queued"
    PROVE  PoolInv'
<1>1. \A i \in 1 .. Len(pool) : pool[i] \in Searches \X Workers
  BY DEF PTypeOK
<1>2. \A i \in 1 .. Len(pool) : pool[i][1] \in Searches /\ pool[i][2] \in Workers
  BY <1>1
<1> QED
  BY <1>2 DEF PoolInv

(* When every lane narrows, so do the tasks of the search.                    *)
LEMMA Narrow ==
    ASSUME NEW s,
           \A w \in Workers : Narrows(queues[s][w], worker[s][w], pc[s], nextq[s],
                                      queues'[s][w], worker'[s][w], pc'[s], nextq'[s], w)
    PROVE  TasksOf(s)' \subseteq TasksOf(s) /\ LanesInv(s)'
<1>1. LanesInv(s)'
  BY DEF LanesInv, Narrows
<1>2. ASSUME NEW k \in TasksOf(s)' PROVE k \in TasksOf(s)
  <2>1. /\ k \in Workers \X Int \X Items
        /\ Pending(queues'[s][k[1]], worker'[s][k[1]], pc'[s], nextq'[s], k[1], k[2], k[3])
    BY <1>2 DEF TasksOf, Tasks
  <2>2. k[1] \in Workers /\ k[2] \in Int /\ k[3] \in Items
    BY <2>1
  <2>3. Pending(queues[s][k[1]], worker[s][k[1]], pc[s], nextq[s], k[1], k[2], k[3])
    BY <2>1, <2>2 DEF Narrows
  <2> QED
    BY <2>1, <2>3 DEF TasksOf, Tasks
<1> QED
  BY <1>1, <1>2

(* A step of one lane, the others as they were.                              *)
LEMMA NarrowOne ==
    ASSUME NEW s, NEW w \in Workers, LanesInv(s),
           Narrows(queues[s][w], worker[s][w], pc[s], nextq[s],
                   queues'[s][w], worker'[s][w], pc'[s], nextq'[s], w),
           pc'[s] = pc[s], nextq'[s] = nextq[s],
           \A v \in Workers \ {w} : queues'[s][v] = queues[s][v] /\ worker'[s][v] = worker[s][v]
    PROVE  TasksOf(s)' \subseteq TasksOf(s) /\ LanesInv(s)'
<1>1. ASSUME NEW v \in Workers \ {w}
      PROVE  Narrows(queues[s][v], worker[s][v], pc[s], nextq[s],
                     queues'[s][v], worker'[s][v], pc'[s], nextq'[s], v)
  BY DEF Narrows, LanesInv
<1> QED
  BY <1>1, Narrow

(* A step of the search that writes no slot.                                 *)
LEMMA NarrowNone ==
    ASSUME NEW s, LanesInv(s), queues'[s] = queues[s], worker'[s] = worker[s],
           pc[s] \notin Publishing, pc'[s] \notin Publishing
    PROVE  TasksOf(s)' \subseteq TasksOf(s) /\ LanesInv(s)'
<1>1. ASSUME NEW w \in Workers
      PROVE  Narrows(queues[s][w], worker[s][w], pc[s], nextq[s],
                     queues'[s][w], worker'[s][w], pc'[s], nextq'[s], w)
  <2>1. Lane(queues[s][w], worker[s][w], pc[s], nextq[s], w)
    BY DEF LanesInv
  <2> QED
    BY <2>1, LaneElsewhere
<1> QED
  BY <1>1, Narrow

LEMMA TaskFacts ==
    ASSUME NEW s
    PROVE  \A k \in TasksOf(s) : k[1] \in Workers /\ k[2] \in Int /\ k[3] \in Items
BY DEF TasksOf, Tasks

(* What a worker holds is a task of its search.                              *)
LEMMA HeldTask ==
    ASSUME PTypeOK, NEW s \in Searches, NEW w \in Workers, Holds(worker[s][w])
    PROVE  <<w, First(queues[s][w], worker[s][w]) - 1, worker[s][w].item>> \in TasksOf(s)
<1>1. queues[s][w] \in QueueType /\ worker[s][w] \in WorkerType
  BY DEF PTypeOK
<1>2. First(queues[s][w], worker[s][w]) \in Int /\ worker[s][w].item \in Items
  BY <1>1, QueueFacts DEF First, WorkerType
<1> QED
  BY <1>2 DEF TasksOf, Tasks, Pending

(* The positions a worker writes are those of the vectors, and in a hop those *)
(* given away.                                                              *)
LEMMA HeldCells ==
    ASSUME PInv, NEW s \in Searches, NEW w \in Workers, Holds(worker[s][w])
    PROVE  /\ Cells(worker[s][w].item) \subseteq 1 .. MaxLine
           /\ pc[s] \notin InHop => worker[s][w].item.count = 0 /\ Cells(worker[s][w].item) = {}
           /\ pc[s] \in InHop /\ worker[s][w].item.count > 0 =>
                 worker[s][w].item.from + worker[s][w].item.count <= offset[s]
<1> DEFINE t == worker[s][w].item
           k == <<w, First(queues[s][w], worker[s][w]) - 1, t>>
<1>1. k \in TasksOf(s) /\ k[3] = t
  BY HeldTask DEF PInv
<1>2. t \in Items /\ t.from \in Nat /\ t.count \in Nat
  BY DEF PInv, PTypeOK, WorkerType, Items
<1>3. offset[s] \in Nat /\ count[s] \in 0 .. MaxLine /\ MaxLine \in Nat
  BY ParallelAssumption DEF PInv, PTypeOK
<1> HIDE DEF k
<1>4. CASE pc[s] \in InHop
  <2>1. offset[s] <= count[s] /\ (t.count > 0 => t.from + t.count <= offset[s])
    BY <1>1, <1>4 DEF PInv, SearchInv, HopsInv, HopInv
  <2> QED
    BY <1>2, <1>3, <1>4, <2>1 DEF Cells
<1>5. CASE pc[s] \notin InHop
  <2>1. t.count = 0
    BY <1>1, <1>5 DEF PInv, SearchInv, HopsInv
  <2>2. Cells(t) = {}
    BY <1>2, <2>1, CellsFacts
  <2> QED
    BY <1>5, <2>1, <2>2
<1> QED
  BY <1>4, <1>5

(* What a pair in the pool is.                                              *)
LEMMA PoolPairs ==
    ASSUME PTypeOK, NEW i \in 1 .. Len(pool)
    PROVE  pool[i][1] \in Searches /\ pool[i][2] \in Workers /\ pool[i] = <<pool[i][1], pool[i][2]>>
<1>1. pool[i] \in Searches \X Workers
  BY DEF PTypeOK
<1> QED
  BY <1>1

LEMMA EnqueueWorkerStep ==
    ASSUME PInv, NEW s \in Searches, EnqueueWorker(s)
    PROVE  PInv'
<1>0. PTypeOK /\ PoolInv /\ SearchInv(s) /\ NumThreads \in Nat \ {0}
  BY ParallelAssumption DEF PInv
<1>1. PTypeOK'
  <2>1. nextq[s] \in Workers /\ (nextq[s] # NumThreads => nextq[s] + 1 \in Workers) /\ 1 \in Workers
    BY <1>0 DEF PTypeOK, Workers
  <2>2. pool' \in Seq(Searches \X Workers)
    BY <2>1 DEF EnqueueWorker, PInv, PTypeOK
  <2>3. nextq' \in [Searches -> Workers]
    BY <2>1 DEF EnqueueWorker, PInv, PTypeOK
  <2>4. pc' \in [Searches -> InHop \cup Leaving \cup {"enqueue", "hop"}]
    BY DEF EnqueueWorker, PInv, PTypeOK
  <2> QED
    BY <1>0, <2>2, <2>3, <2>4 DEF EnqueueWorker, PTypeOK
<1>2. pc[s] = "enqueue" /\ pc'[s] \in {"enqueue", "hop"} /\ nextq[s] \in Workers
      /\ (pc'[s] = "enqueue" => nextq'[s] = nextq[s] + 1)
      /\ (pc'[s] = "hop" => nextq'[s] = 1)
  BY DEF EnqueueWorker, PInv, PTypeOK
<1>3. \A x \in Searches : x # s => pc'[x] = pc[x] /\ nextq'[x] = nextq[x]
  BY DEF EnqueueWorker, PInv, PTypeOK
<1>4. PoolInv'
  <2> DEFINE n == Len(pool)
  <2>1. n \in Nat /\ Len(pool') = n + 1 /\ pool'[n + 1] = <<s, nextq[s]>>
        /\ \A i \in 1 .. n : pool'[i] = pool[i]
    BY DEF EnqueueWorker, PInv, PTypeOK
  <2>2. worker' = worker
    BY DEF EnqueueWorker
  <2> HIDE DEF n
  <2>3. \A i \in 1 .. n : pool[i][1] \in Searches /\ pool[i][2] \in Workers
    BY <1>0, PoolPairs DEF n
  <2>4. \A x, y \in Workers : x \in Nat /\ y \in Nat
    BY DEF Workers
  <2>5. ASSUME NEW i \in 1 .. n + 1
        PROVE  /\ worker'[pool'[i][1]][pool'[i][2]].pc = "queued"
               /\ pc'[pool'[i][1]] = "enqueue" => pool'[i][2] < nextq'[pool'[i][1]]
    <3>1. CASE i = n + 1
      <4>1. worker[s][nextq[s]].pc = "queued"
        BY <1>0, <1>2, <2>4 DEF PoolInv
      <4>2. pool'[i][1] = s /\ pool'[i][2] = nextq[s]
        BY <2>1, <3>1
      <4>3. nextq[s] \in Nat
        BY <1>2, <2>4
      <4>4. pc'[s] = "enqueue" => nextq[s] < nextq'[s]
        BY <1>2, <4>3
      <4> QED
        BY <2>2, <4>1, <4>2, <4>4
    <3>2. CASE i # n + 1
      <4>1. i \in 1 .. n /\ pool'[i] = pool[i]
        BY <2>1, <3>2
      <4>2. worker[pool[i][1]][pool[i][2]].pc = "queued"
            /\ (pc[pool[i][1]] = "enqueue" => pool[i][2] < nextq[pool[i][1]])
        BY <1>0, <4>1 DEF PoolInv, n
      <4>3. CASE pool[i][1] = s
        <5>1. pool[i][2] < nextq[s] /\ pool[i][2] \in Nat /\ nextq[s] \in Nat
          BY <1>2, <2>3, <2>4, <4>1, <4>2, <4>3
        <5> QED
          BY <1>2, <2>2, <4>1, <4>2, <4>3, <5>1
      <4>4. CASE pool[i][1] # s
        BY <1>3, <2>2, <2>3, <4>1, <4>2, <4>4
      <4> QED
        BY <4>3, <4>4
    <3> QED
      BY <3>1, <3>2
  <2>6. \A i \in 1 .. n : pool[i] # <<s, nextq[s]>>
    <3>1. ASSUME NEW i \in 1 .. n, pool[i] = <<s, nextq[s]>> PROVE FALSE
      <4>1. pool[i][1] = s /\ pool[i][2] = nextq[s]
        BY <3>1
      <4>2. nextq[s] < nextq[s]
        BY <1>0, <1>2, <4>1 DEF PoolInv, n
      <4> QED
        BY <1>2, <2>4, <4>2
    <3> QED
      BY <3>1
  <2>7. ASSUME NEW i \in 1 .. n + 1, NEW j \in 1 .. n + 1, i # j
        PROVE  pool'[i] # pool'[j]
    <3>1. CASE i = n + 1
      <4>1. j \in 1 .. n
        BY <2>1, <2>7, <3>1
      <4> QED
        BY <2>1, <2>6, <3>1, <4>1
    <3>2. CASE j = n + 1
      <4>1. i \in 1 .. n
        BY <2>1, <2>7, <3>2
      <4> QED
        BY <2>1, <2>6, <3>2, <4>1
    <3>3. CASE i # n + 1 /\ j # n + 1
      <4>1. i \in 1 .. n /\ j \in 1 .. n
        BY <2>1, <3>3
      <4> QED
        BY <1>0, <2>1, <2>7, <4>1 DEF PoolInv, n
    <3> QED
      BY <3>1, <3>2, <3>3
  <2>8. ASSUME NEW x \in Searches, NEW w \in Workers, pc'[x] = "enqueue", w >= nextq'[x]
        PROVE  worker'[x][w].pc = "queued"
    <3>1. CASE x = s
      <4>1. w >= nextq[s]
        BY <1>2, <2>4, <2>8, <3>1
      <4> QED
        BY <1>0, <1>2, <2>2, <3>1, <4>1 DEF PoolInv
    <3>2. CASE x # s
      BY <1>0, <1>3, <2>2, <2>8, <3>2 DEF PoolInv
    <3> QED
      BY <3>1, <3>2
  <2> QED
    BY <2>1, <2>5, <2>7, <2>8 DEF PoolInv
<1>5. ASSUME NEW x \in Searches \ {s} PROVE SearchInv(x)'
  <2>1. SearchInv(x)
    BY DEF PInv
  <2> QED
    BY <1>3, <2>1, Frame DEF EnqueueWorker
<1>6. SearchInv(s)'
  <2>1. TasksOf(s)' \subseteq TasksOf(s) /\ LanesInv(s)'
    BY <1>0, <1>2, NarrowNone DEF SearchInv, EnqueueWorker, Publishing
  <2>2. SharesInv(s)'
    BY <1>2 DEF SharesInv
  <2>3. HopsInv(s)'
    BY <1>0, <1>2, <2>1 DEF SearchInv, HopsInv, InHop
  <2>4. CountingInv(s)'
    BY <1>0 DEF SearchInv, CountingInv, EnqueueWorker
  <2>5. LeavingInv(s)'
    BY <1>2 DEF LeavingInv, Leaving
  <2> QED
    BY <2>1, <2>2, <2>3, <2>4, <2>5 DEF SearchInv
<1> QED
  BY <1>1, <1>4, <1>5, <1>6 DEF PInv

LEMMA NextHopStep ==
    ASSUME PInv, NEW s \in Searches, NextHop(s)
    PROVE  /\ PInv'
           /\ st'[s] = Popped(query[s], st[s])
           /\ count'[s] = Len(Batch(query[s], st[s]))
           /\ \A i \in 1 .. count'[s] : ids'[s][i] = Batch(query[s], st[s])[i]
<1> DEFINE q == query[s]
           v == st[s]
           b == Batch(q, v)
<1>0. PTypeOK /\ PoolInv /\ SearchInv(s) /\ MaxLine \in Nat
  BY ParallelAssumption DEF PInv
<1>a. q \in Queries /\ v \in SearchStates /\ pc[s] = "hop" /\ ~ Finished(q, v)
  BY <1>0 DEF PTypeOK, NextHop
<1>b. Popped(q, v) \in SearchStates /\ b \in Seq(Points) /\ Len(b) \in 0 .. MaxLine
  BY <1>a, HopParts
<1>c. st' = [st EXCEPT ![s] = Popped(q, v)]
  BY <1>0, <1>a DEF NextHop, Popped, PTypeOK, SearchStates
<1>d. ids' = [ids EXCEPT ![s] = [i \in 1 .. MaxLine |-> IF i <= Len(b) THEN b[i] ELSE ids[s][i]]]
      /\ count' = [count EXCEPT ![s] = Len(b)]
  BY <1>0 DEF NextHop, Batch, PTypeOK
<1> HIDE DEF b, q, v
<1>1. PTypeOK'
  <2>1. st' \in [Searches -> SearchStates]
    BY <1>0, <1>b, <1>c DEF PTypeOK
  <2>2. [i \in 1 .. MaxLine |-> IF i <= Len(b) THEN b[i] ELSE ids[s][i]] \in [1 .. MaxLine -> Points]
    <3>1. \A i \in 1 .. MaxLine : ids[s][i] \in Points
      BY <1>0 DEF PTypeOK
    <3>2. \A i \in 1 .. MaxLine : i <= Len(b) => b[i] \in Points
      BY <1>0, <1>b
    <3> QED
      BY <3>1, <3>2
  <2>3. ids' \in [Searches -> [1 .. MaxLine -> Points]] /\ count' \in [Searches -> 0 .. MaxLine]
    BY <1>0, <1>b, <1>d, <2>2 DEF PTypeOK
  <2>4. /\ num_points' \in [Searches -> Nat] /\ offset' \in [Searches -> Nat]
        /\ pc' \in [Searches -> InHop \cup Leaving \cup {"enqueue", "hop"}]
    BY <1>0 DEF PTypeOK, NextHop, InHop
  <2> QED
    BY <1>0, <2>1, <2>3, <2>4 DEF PTypeOK, NextHop
<1>2. /\ pc'[s] = "push" /\ num_points'[s] = 0 /\ offset'[s] = 0 /\ count'[s] = Len(b)
      /\ st'[s] = Popped(q, v)
      /\ ids'[s] = [i \in 1 .. MaxLine |-> IF i <= Len(b) THEN b[i] ELSE ids[s][i]]
  BY <1>0, <1>c, <1>d DEF PTypeOK, NextHop
<1>3. \A x \in Searches : x # s =>
          /\ st'[x] = st[x] /\ pc'[x] = pc[x] /\ ids'[x] = ids[x] /\ count'[x] = count[x]
          /\ num_points'[x] = num_points[x] /\ offset'[x] = offset[x]
  BY <1>0, <1>c, <1>d DEF PTypeOK, NextHop
<1>4. PoolInv'
  <2>1. \A x \in Searches : pc'[x] = "enqueue" => pc[x] = "enqueue"
    BY <1>2, <1>3
  <2> QED
    BY <1>0, <2>1, PoolFrame DEF NextHop
<1>5. ASSUME NEW x \in Searches \ {s} PROVE SearchInv(x)'
  <2>1. SearchInv(x)
    BY DEF PInv
  <2> QED
    BY <1>3, <2>1, Frame DEF NextHop
<1>6. SearchInv(s)'
  <2>1. TasksOf(s)' \subseteq TasksOf(s) /\ LanesInv(s)'
    BY <1>0, <1>2, <1>a, NarrowNone DEF SearchInv, NextHop, Publishing
  <2>2. SharesInv(s)'
    <3>1. nextq'[s] = 1
      BY <1>0, <1>a DEF SearchInv, SharesInv, NextHop
    <3>2. Start(count'[s], 1) = 0
      BY <1>2, <1>b, ShareStarts
    <3> QED
      BY <1>2, <3>1, <3>2 DEF SharesInv
  <2>3. \A k \in TasksOf(s)' : k[3] \in Items /\ k[3].count = 0
    BY <1>0, <1>a, <2>1, TaskFacts DEF SearchInv, HopsInv, InHop
  <2>4. HopsInv(s)'
    <3>1. HopInv(query'[s], ids'[s], count'[s], line_dists'[s], 0, 0, TasksOf(s)')
      BY <1>2, <1>b, <2>3, HopStarts
    <3> QED
      BY <1>2, <3>1 DEF HopsInv, InHop
  <2>5. CountingInv(s)'
    <3> SUFFICES ASSUME NEW w \in Workers, worker'[s][w].pc = "count"
                 PROVE  Right(query'[s], ids'[s], line_dists'[s], Cells(worker'[s][w].item))
      BY DEF CountingInv
    <3>1. worker'[s][w] = worker[s][w] /\ Holds(worker[s][w])
      BY DEF NextHop, Holds
    <3>2. Cells(worker[s][w].item) = {}
      BY <1>a, <3>1, HeldCells DEF InHop
    <3> QED
      BY <3>1, <3>2 DEF Right
  <2>6. LeavingInv(s)'
    BY <1>2 DEF LeavingInv, Leaving
  <2> QED
    BY <2>1, <2>2, <2>4, <2>5, <2>6 DEF SearchInv
<1>7. \A i \in 1 .. count'[s] : ids'[s][i] = b[i]
  BY <1>0, <1>2, <1>b
<1> QED
  BY <1>1, <1>2, <1>4, <1>5, <1>6, <1>7 DEF PInv, b, q, v

(* The push to one queue is over.                                            *)
LEMMA PushedStep ==
    ASSUME PTypeOK, NEW s \in Searches, Pushed(s),
           pc[s] \in {"push", "stop", "publish", "publish_stop"}
    PROVE  /\ nextq' \in [Searches -> Workers]
           /\ pc' \in [Searches -> InHop \cup Leaving \cup {"enqueue", "hop"}]
           /\ \A x \in Searches : x # s => pc'[x] = pc[x] /\ nextq'[x] = nextq[x]
           /\ pc'[s] \in {"push", "wait", "stop", "join"}
           /\ pc[s] \in {"push", "publish"} <=> pc'[s] \in {"push", "wait"}
           /\ pc'[s] = "push" => nextq'[s] = nextq[s] + 1
           /\ pc'[s] = "wait" => nextq'[s] = 1
<1>1. NumThreads \in Nat \ {0} /\ nextq[s] \in Workers
  BY ParallelAssumption DEF PTypeOK
<1>2. 1 \in Workers /\ (nextq[s] < NumThreads => nextq[s] + 1 \in Workers)
  BY <1>1 DEF Workers
<1>3. nextq' \in [Searches -> Workers]
  BY <1>2 DEF PTypeOK, Pushed
<1>4. pc' \in [Searches -> InHop \cup Leaving \cup {"enqueue", "hop"}]
  BY DEF PTypeOK, Pushed, InHop, Leaving
<1>5. \A x \in Searches : x # s => pc'[x] = pc[x] /\ nextq'[x] = nextq[x]
  BY DEF PTypeOK, Pushed
<1>6. /\ pc'[s] = IF nextq[s] < NumThreads
                  THEN IF pc[s] \in {"stop", "publish_stop"} THEN "stop" ELSE "push"
                  ELSE IF pc[s] \in {"stop", "publish_stop"} THEN "join" ELSE "wait"
      /\ nextq'[s] = IF nextq[s] < NumThreads THEN nextq[s] + 1 ELSE 1
  BY DEF PTypeOK, Pushed
<1> QED
  BY <1>3, <1>4, <1>5, <1>6

LEMMA TaskType ==
    ASSUME NEW a \in Nat, NEW b \in Nat
    PROVE  Task(a, b) \in Items /\ Task(a, b).from = a /\ Task(a, b).count = b
BY DEF Task, Items

LEMMA NullptrType == Nullptr \in Items /\ Nullptr.count = 0
BY DEF Nullptr, Items

(* What a push adds to the offset: a share of the hop, or nothing.           *)
LEMMA ShareItem ==
    ASSUME PInv, NEW s \in Searches, pc[s] \in {"push", "stop"}, NEW item,
           item = IF pc[s] = "push" THEN Task(offset[s], Share(s, nextq[s])) ELSE Nullptr
    PROVE  /\ item \in Items
           /\ pc[s] = "stop" => item.count = 0
           /\ pc[s] = "push" => /\ item.from = offset[s]
                                /\ offset[s] + item.count = Start(count[s], nextq[s] + 1)
                                /\ offset[s] + item.count <= count[s]
<1>1. /\ offset[s] \in Nat /\ count[s] \in Nat /\ nextq[s] \in Workers
      /\ NumThreads + 1 \in Nat \ {0}
  BY ParallelAssumption DEF PInv, PTypeOK
<1>2. CASE pc[s] = "stop"
  <2>1. item = Nullptr
    BY <1>2
  <2> QED
    BY <1>2, <2>1, NullptrType
<1>3. CASE pc[s] = "push"
  <2>1. item = Task(offset[s], Share(s, nextq[s]))
    BY <1>3
  <2>2. count[s] \div (NumThreads + 1) \in Nat
    BY <1>1, Division
  <2>3. Share(s, nextq[s]) \in Nat
    BY <2>2 DEF Share
  <2>4. offset[s] = Start(count[s], nextq[s])
    BY <1>3 DEF PInv, SearchInv, SharesInv
  <2>5. Start(count[s], nextq[s]) + Share(s, nextq[s]) = Start(count[s], nextq[s] + 1)
        /\ Start(count[s], nextq[s] + 1) <= count[s]
    <3>1. /\ Start(count[s], nextq[s]) \in Nat
          /\ Start(count[s], nextq[s]) + (count[s] \div (NumThreads + 1))
                + (IF nextq[s] <= count[s] % (NumThreads + 1) THEN 1 ELSE 0)
                = Start(count[s], nextq[s] + 1)
          /\ Start(count[s], nextq[s] + 1) <= count[s]
      BY <1>1, ShareStarts
    <3> DEFINE x == count[s] \div (NumThreads + 1)
               y == IF nextq[s] <= count[s] % (NumThreads + 1) THEN 1 ELSE 0
    <3>2. x \in Nat /\ y \in Nat /\ Share(s, nextq[s]) = x + y
          /\ Start(count[s], nextq[s]) + x + y = Start(count[s], nextq[s] + 1)
      BY <2>2, <3>1 DEF Share
    <3> HIDE DEF x, y
    <3> QED
      BY <3>1, <3>2
  <2>6. item \in Items /\ item.from = offset[s] /\ item.count = Share(s, nextq[s])
    BY <1>1, <2>1, <2>3, TaskType
  <2> QED
    BY <1>3, <2>4, <2>5, <2>6
<1> QED
  BY <1>2, <1>3

LEMMA PushSlotStep ==
    ASSUME PInv, NEW s \in Searches, PushSlot(s)
    PROVE  PInv'
<1> DEFINE w == nextq[s]
           item == IF pc[s] = "push" THEN Task(offset[s], Share(s, w)) ELSE Nullptr
           Q == queues[s][w]
<1>0. PTypeOK /\ PoolInv /\ SearchInv(s) /\ pc[s] \in {"push", "stop"}
  BY DEF PInv, PushSlot
<1>a. /\ offset[s] \in Nat /\ count[s] \in Nat /\ w \in Workers
      /\ Q \in QueueType /\ worker[s][w] \in WorkerType
  BY <1>0 DEF PTypeOK
<1>b. /\ item \in Items
      /\ pc[s] = "stop" => item.count = 0
      /\ pc[s] = "push" => /\ item.from = offset[s]
                           /\ offset[s] + item.count = Start(count[s], w + 1)
                           /\ offset[s] + item.count <= count[s]
  BY <1>0, ShareItem
<1>c. offset' = [offset EXCEPT ![s] = offset[s] + item.count]
  BY <1>0 DEF PushSlot, PTypeOK
<1>d. CASE Full(Q)
  <2>1. Pushed(s) /\ queues' = queues
    BY <1>d DEF PushSlot
  <2> HIDE DEF item, w
  <2>2. /\ nextq' \in [Searches -> Workers]
        /\ pc' \in [Searches -> InHop \cup Leaving \cup {"enqueue", "hop"}]
        /\ \A x \in Searches : x # s => pc'[x] = pc[x] /\ nextq'[x] = nextq[x]
        /\ pc'[s] \in {"push", "wait", "stop", "join"}
        /\ pc[s] \in {"push", "publish"} <=> pc'[s] \in {"push", "wait"}
        /\ pc'[s] = "push" => nextq'[s] = nextq[s] + 1
        /\ pc'[s] = "wait" => nextq'[s] = 1
    BY <1>0, <2>1, PushedStep
  <2>3. item.count \in Nat
    BY <1>b DEF Items
  <2>4. offset' \in [Searches -> Nat] /\ offset'[s] = offset[s] + item.count
        /\ \A x \in Searches : x # s => offset'[x] = offset[x]
    BY <1>0, <1>a, <1>c, <2>3 DEF PTypeOK
  <2>5. PTypeOK'
    BY <1>0, <2>1, <2>2, <2>4 DEF PTypeOK, PushSlot
  <2>6. PoolInv'
    <3>1. \A x \in Searches : pc'[x] = "enqueue" => pc[x] = "enqueue" /\ nextq'[x] = nextq[x]
      BY <2>2
    <3> QED
      BY <1>0, <3>1, PoolFrame DEF PushSlot
  <2>7. ASSUME NEW x \in Searches \ {s} PROVE SearchInv(x)'
    <3>1. SearchInv(x)
      BY DEF PInv
    <3> QED
      BY <2>1, <2>2, <2>4, <3>1, Frame DEF PushSlot
  <2>8. SearchInv(s)'
    <3>1. TasksOf(s)' \subseteq TasksOf(s) /\ LanesInv(s)'
      BY <1>0, <2>1, <2>2, NarrowNone DEF SearchInv, PushSlot, Publishing
    <3>2. SharesInv(s)'
      BY <1>0, <1>b, <2>2, <2>4 DEF SharesInv, PushSlot, w
    <3>3. HopsInv(s)'
      <4>1. CASE pc[s] = "push"
        <5> DEFINE K == TasksOf(s)
                   l == <<w, 0, item>>
        <5>1. HopInv(query[s], ids[s], count[s], line_dists[s], num_points[s], offset[s], K)
          BY <1>0, <4>1 DEF SearchInv, HopsInv, InHop
        <5>2. l[3] = item /\ \A k \in K : k[3] \in Items
          BY TaskFacts
        <5> HIDE DEF K, l
        <5>3. HopInv(query[s], ids[s], count[s], line_dists[s], num_points[s],
                     offset[s] + item.count, K \cup {l})
          BY <1>a, <1>b, <4>1, <5>1, <5>2, HopShares
        <5>4. HopInv(query[s], ids[s], count[s], line_dists[s], num_points[s],
                     offset[s] + item.count, TasksOf(s)')
          BY <3>1, <5>3, HopShrinks DEF K
        <5> QED
          BY <2>2, <2>4, <4>1, <5>4 DEF HopsInv, InHop, PushSlot
      <4>2. CASE pc[s] = "stop"
        <5>1. pc'[s] \notin InHop
          BY <2>2, <4>2 DEF InHop
        <5> QED
          BY <1>0, <3>1, <4>2, <5>1 DEF SearchInv, HopsInv, InHop
      <4> QED
        BY <1>0, <4>1, <4>2
    <3>4. CountingInv(s)'
      BY <1>0 DEF SearchInv, CountingInv, PushSlot
    <3>5. LeavingInv(s)'
      BY <1>0, <2>2 DEF SearchInv, LeavingInv, Leaving, PushSlot
    <3> QED
      BY <3>1, <3>2, <3>3, <3>4, <3>5 DEF SearchInv
  <2> QED
    BY <2>5, <2>6, <2>7, <2>8 DEF PInv
<1>e. CASE ~ Full(Q)
  <2>1. /\ queues' = [queues EXCEPT ![s][w] = WriteSlot(Q, item)]
        /\ pc' = [pc EXCEPT ![s] = IF pc[s] = "push" THEN "publish" ELSE "publish_stop"]
        /\ nextq' = nextq
    BY <1>0, <1>a, <1>e DEF PushSlot, PTypeOK
  <2> HIDE DEF item
  <2>2. item.count \in Nat
    BY <1>b DEF Items
  <2>3. WriteSlot(Q, item) \in QueueType
    <3>1. Q.write_idx % QueueSize \in 0 .. QueueSize - 1
      BY <1>a, QueueFacts
    <3> QED
      BY <1>a, <1>b, <3>1 DEF WriteSlot, QueueType
  <2>4. offset' \in [Searches -> Nat] /\ offset'[s] = offset[s] + item.count
        /\ \A x \in Searches : x # s => offset'[x] = offset[x]
    BY <1>0, <1>a, <1>c, <2>2 DEF PTypeOK
  <2>5. /\ queues' \in [Searches -> [Workers -> QueueType]]
        /\ queues'[s][w] = WriteSlot(Q, item)
        /\ \A x \in Workers : x # w => queues'[s][x] = queues[s][x]
        /\ \A x \in Searches : x # s => queues'[x] = queues[x]
    <3> DEFINE W == WriteSlot(Q, item)
    <3> HIDE DEF W, w
    <3> QED
      BY <1>0, <1>a, <2>1, <2>3 DEF PTypeOK, W
  <2>6. /\ pc' \in [Searches -> InHop \cup Leaving \cup {"enqueue", "hop"}]
        /\ pc'[s] = IF pc[s] = "push" THEN "publish" ELSE "publish_stop"
        /\ \A x \in Searches : x # s => pc'[x] = pc[x]
    BY <1>0, <2>1 DEF PTypeOK, InHop, Leaving
  <2>7. PTypeOK'
    BY <1>0, <2>1, <2>4, <2>5, <2>6 DEF PTypeOK, PushSlot
  <2>8. PoolInv'
    <3>1. \A x \in Searches : pc'[x] = "enqueue" => pc[x] = "enqueue" /\ nextq'[x] = nextq[x]
      BY <2>1, <2>6
    <3> QED
      BY <1>0, <3>1, PoolFrame DEF PushSlot
  <2>9. ASSUME NEW x \in Searches \ {s} PROVE SearchInv(x)'
    <3>1. SearchInv(x)
      BY DEF PInv
    <3> QED
      BY <2>1, <2>4, <2>5, <2>6, <3>1, Frame DEF PushSlot
  <2>10. SearchInv(s)'
    <3> DEFINE l == <<w, Q.write_idx, item>>
    <3>1. pc[s] \notin Publishing /\ pc'[s] \in Publishing /\ nextq'[s] = w /\ worker' = worker
      BY <1>0, <2>1, <2>6 DEF Publishing, PushSlot
    <3>a. Q.write_idx \in Nat
      BY <1>a, QueueFacts
    <3>2. Lane(Q, worker[s][w], pc[s], w, w)
      BY <1>0, <1>a DEF SearchInv, LanesInv
    <3>b. Widens(Q, worker[s][w], pc[s], queues'[s][w], pc'[s], w, item)
      BY <1>a, <1>b, <1>e, <2>5, <3>1, <3>2, LanePushSlot
    <3>3. /\ Lane(queues'[s][w], worker[s][w], pc'[s], w, w)
          /\ \A i \in Int, t \in Items :
                Pending(queues'[s][w], worker[s][w], pc'[s], w, w, i, t)
                   => Pending(Q, worker[s][w], pc[s], w, w, i, t) \/ (i = Q.write_idx /\ t = item)
      BY <3>b, Zenon DEF Widens
    <3>4. ASSUME NEW x \in Workers, x # w
          PROVE  Narrows(queues[s][x], worker[s][x], pc[s], nextq[s],
                         queues'[s][x], worker'[s][x], pc'[s], nextq'[s], x)
      <4>1. Lane(queues[s][x], worker[s][x], pc[s], nextq[s], x)
        BY <1>0 DEF SearchInv, LanesInv
      <4> QED
        BY <2>5, <3>1, <3>4, <4>1, LaneElsewhere
    <3> HIDE DEF w, Q
    <3>5. LanesInv(s)'
      BY <3>1, <3>3, <3>4 DEF LanesInv, Narrows
    <3>6. TasksOf(s)' \subseteq TasksOf(s) \cup {l}
      <4> SUFFICES ASSUME NEW k \in TasksOf(s)', k \notin TasksOf(s) PROVE k = l
        OBVIOUS
      <4>1. /\ k \in Workers \X Int \X Items
            /\ Pending(queues'[s][k[1]], worker'[s][k[1]], pc'[s], nextq'[s], k[1], k[2], k[3])
        BY DEF TasksOf, Tasks
      <4>2. k[1] \in Workers /\ k[2] \in Int /\ k[3] \in Items /\ k = <<k[1], k[2], k[3]>>
        BY <4>1
      <4>3. ~ Pending(queues[s][k[1]], worker[s][k[1]], pc[s], nextq[s], k[1], k[2], k[3])
        BY <4>1 DEF TasksOf, Tasks
      <4>4. k[1] = w
        BY <3>4, <4>1, <4>2, <4>3 DEF Narrows
      <4>5. k[2] = Q.write_idx /\ k[3] = item
        BY <3>1, <3>3, <4>1, <4>2, <4>3, <4>4 DEF w, Q
      <4> QED
        BY <4>2, <4>4, <4>5
    <3>7. SharesInv(s)'
      BY <1>0, <1>b, <2>1, <2>4, <2>6 DEF SharesInv, PushSlot, w
    <3>8. HopsInv(s)'
      <4>1. CASE pc[s] = "push"
        <5> DEFINE K == TasksOf(s)
        <5>1. HopInv(query[s], ids[s], count[s], line_dists[s], num_points[s], offset[s], K)
          BY <1>0, <4>1 DEF SearchInv, HopsInv, InHop
        <5>2. l[3] = item /\ \A k \in K : k[3] \in Items
          BY TaskFacts
        <5> HIDE DEF K, l
        <5>3. HopInv(query[s], ids[s], count[s], line_dists[s], num_points[s],
                     offset[s] + item.count, K \cup {l})
          BY <1>a, <1>b, <4>1, <5>1, <5>2, HopShares DEF w
        <5>4. HopInv(query[s], ids[s], count[s], line_dists[s], num_points[s],
                     offset[s] + item.count, TasksOf(s)')
          BY <3>6, <5>3, HopShrinks DEF K
        <5> QED
          BY <2>4, <2>6, <4>1, <5>4 DEF HopsInv, InHop, PushSlot
      <4>2. CASE pc[s] = "stop"
        <5>1. pc'[s] \notin InHop
          BY <2>6, <4>2 DEF InHop
        <5>2. \A k \in TasksOf(s) \cup {l} : k[3].count = 0
          BY <1>0, <1>b, <4>2 DEF SearchInv, HopsInv, InHop
        <5> QED
          BY <3>6, <5>1, <5>2 DEF HopsInv
      <4> QED
        BY <1>0, <4>1, <4>2
    <3>9. CountingInv(s)'
      BY <1>0 DEF SearchInv, CountingInv, PushSlot
    <3>10. LeavingInv(s)'
      BY <1>0, <2>6 DEF SearchInv, LeavingInv, Leaving, PushSlot
    <3> QED
      BY <3>5, <3>7, <3>8, <3>9, <3>10 DEF SearchInv
  <2> QED
    BY <2>7, <2>8, <2>9, <2>10 DEF PInv
<1> QED
  BY <1>d, <1>e

LEMMA PushIndexStep ==
    ASSUME PInv, NEW s \in Searches, PushIndex(s)
    PROVE  PInv'
<1> DEFINE w == nextq[s]
           Q == queues[s][w]
<1>0. PTypeOK /\ PoolInv /\ SearchInv(s) /\ pc[s] \in Publishing /\ Pushed(s)
  BY DEF PInv, PushIndex, Publishing
<1>a. w \in Workers /\ Q \in QueueType /\ worker[s][w] \in WorkerType
  BY <1>0 DEF PTypeOK
<1>1. Publish(Q) \in QueueType
  BY <1>a DEF Publish, QueueType
<1>2. queues' = [queues EXCEPT ![s][w] = Publish(Q)]
  BY <1>0, <1>a DEF PushIndex, PTypeOK
<1>3. /\ queues' \in [Searches -> [Workers -> QueueType]]
      /\ queues'[s][w] = Publish(Q)
      /\ \A x \in Workers : x # w => queues'[s][x] = queues[s][x]
      /\ \A x \in Searches : x # s => queues'[x] = queues[x]
  <2> DEFINE W == Publish(Q)
  <2> HIDE DEF W, w
  <2> QED
    BY <1>0, <1>a, <1>1, <1>2 DEF PTypeOK, W
<1>4. /\ nextq' \in [Searches -> Workers]
      /\ pc' \in [Searches -> InHop \cup Leaving \cup {"enqueue", "hop"}]
      /\ \A x \in Searches : x # s => pc'[x] = pc[x] /\ nextq'[x] = nextq[x]
      /\ pc'[s] \in {"push", "wait", "stop", "join"}
      /\ pc[s] \in {"push", "publish"} <=> pc'[s] \in {"push", "wait"}
      /\ pc'[s] = "push" => nextq'[s] = nextq[s] + 1
      /\ pc'[s] = "wait" => nextq'[s] = 1
  BY <1>0, PushedStep DEF Publishing
<1>5. PTypeOK'
  BY <1>0, <1>3, <1>4 DEF PTypeOK, PushIndex
<1>6. PoolInv'
  <2>1. \A x \in Searches : pc'[x] = "enqueue" => pc[x] = "enqueue" /\ nextq'[x] = nextq[x]
    BY <1>4
  <2> QED
    BY <1>0, <2>1, PoolFrame DEF PushIndex
<1>7. ASSUME NEW x \in Searches \ {s} PROVE SearchInv(x)'
  <2>1. SearchInv(x)
    BY DEF PInv
  <2> QED
    BY <1>3, <1>4, <2>1, Frame DEF PushIndex
<1>8. SearchInv(s)'
  <2>1. pc'[s] \notin Publishing /\ worker' = worker
    BY <1>4 DEF Publishing, PushIndex
  <2>2. ASSUME NEW x \in Workers
        PROVE  Narrows(queues[s][x], worker[s][x], pc[s], nextq[s],
                       queues'[s][x], worker'[s][x], pc'[s], nextq'[s], x)
    <3>1. Lane(queues[s][x], worker[s][x], pc[s], nextq[s], x)
      BY <1>0 DEF SearchInv, LanesInv
    <3>2. CASE x = w
      BY <1>0, <1>3, <1>a, <2>1, <3>1, <3>2, LanePushIndex
    <3>3. CASE x # w
      BY <1>3, <2>1, <3>1, <3>3, LaneElsewhere
    <3> QED
      BY <3>2, <3>3
  <2>3. TasksOf(s)' \subseteq TasksOf(s) /\ LanesInv(s)'
    BY <2>2, Narrow
  <2>4. SharesInv(s)'
    BY <1>0, <1>4 DEF SearchInv, SharesInv, PushIndex, Publishing
  <2>5. HopsInv(s)'
    <3>1. CASE pc[s] = "publish"
      <4>1. HopInv(query[s], ids[s], count[s], line_dists[s], num_points[s], offset[s], TasksOf(s))
        BY <1>0, <3>1 DEF SearchInv, HopsInv, InHop
      <4>2. HopInv(query[s], ids[s], count[s], line_dists[s], num_points[s], offset[s], TasksOf(s)')
        BY <2>3, <4>1, HopShrinks
      <4> QED
        BY <1>4, <3>1, <4>2 DEF HopsInv, InHop, PushIndex
    <3>2. CASE pc[s] = "publish_stop"
      <4>1. pc'[s] \notin InHop
        BY <1>4, <3>2 DEF InHop
      <4> QED
        BY <1>0, <2>3, <3>2, <4>1 DEF SearchInv, HopsInv, InHop
    <3> QED
      BY <1>0, <3>1, <3>2 DEF Publishing
  <2>6. CountingInv(s)'
    BY <1>0 DEF SearchInv, CountingInv, PushIndex
  <2>7. LeavingInv(s)'
    BY <1>0, <1>4 DEF SearchInv, LeavingInv, Leaving, PushIndex, Publishing
  <2> QED
    BY <2>3, <2>4, <2>5, <2>6, <2>7 DEF SearchInv
<1> QED
  BY <1>5, <1>6, <1>7, <1>8 DEF PInv

(* Query writes right distances at its positions and leaves the others.       *)
LEMMA QueriedFacts ==
    ASSUME PTypeOK, NEW s \in Searches, NEW a \in Nat, NEW b \in Nat
    PROVE  /\ Queried(s, a, b) \in [1 .. MaxLine -> Nat]
           /\ \A i \in 1 .. MaxLine :
                 \/ Queried(s, a, b)[i] = line_dists[s][i]
                 \/ Queried(s, a, b)[i] = query[s].dist[ids[s][i]]
           /\ \A i \in 1 .. MaxLine : i \in a + 1 .. a + b =>
                 Queried(s, a, b)[i] = query[s].dist[ids[s][i]]
<1>1. query[s] \in Queries /\ ids[s] \in [1 .. MaxLine -> Points]
      /\ line_dists[s] \in [1 .. MaxLine -> Nat]
  BY DEF PTypeOK
<1>2. \A i \in 1 .. MaxLine : query[s].dist[ids[s][i]] \in Nat
  <2>1. query[s].dist \in [Points -> 1 .. Cardinality(Points)]
    BY <1>1 DEF Queries
  <2>2. \A p \in Points : query[s].dist[p] \in 1 .. Cardinality(Points)
    BY <2>1
  <2>3. \A p \in Points : query[s].dist[p] \in Nat
    BY <2>2, PointsFacts
  <2> QED
    BY <1>1, <2>3
<1> QED
  BY <1>1, <1>2 DEF Queried

(* A write of right distances keeps those that wait to be counted right.      *)
LEMMA CountingKept ==
    ASSUME PInv, NEW s \in Searches,
           query' = query, ids' = ids,
           \A i \in 1 .. MaxLine : \/ line_dists'[s][i] = line_dists[s][i]
                                   \/ line_dists'[s][i] = query[s].dist[ids[s][i]],
           NEW w \in Workers, worker[s][w].pc = "count", worker'[s][w] = worker[s][w]
    PROVE  Right(query'[s], ids'[s], line_dists'[s], Cells(worker'[s][w].item))
<1>1. Holds(worker[s][w])
  BY DEF Holds
<1>2. Cells(worker[s][w].item) \subseteq 1 .. MaxLine
  BY <1>1, HeldCells
<1>3. Right(query[s], ids[s], line_dists[s], Cells(worker[s][w].item))
  BY DEF PInv, SearchInv, CountingInv
<1> QED
  BY <1>2, <1>3 DEF Right

LEMMA ComputeRestStep ==
    ASSUME PInv, NEW s \in Searches, ComputeRest(s)
    PROVE  PInv'
<1> DEFINE rest == count[s] - offset[s]
           t == Task(offset[s], rest)
           l == <<0, 0, t>>
<1>0. PTypeOK /\ PoolInv /\ SearchInv(s) /\ pc[s] = "wait" /\ MaxLine \in Nat
  BY ParallelAssumption DEF PInv, ComputeRest
<1>a. /\ offset[s] \in Nat /\ count[s] \in Nat /\ num_points[s] \in Nat /\ rest \in Nat
      /\ count[s] <= MaxLine /\ offset[s] + rest = count[s]
  BY <1>0 DEF PTypeOK, ComputeRest
<1>b. t \in Items /\ t.from = offset[s] /\ t.count = rest
  BY <1>a, TaskType
<1>c. /\ line_dists' = [line_dists EXCEPT ![s] = Queried(s, offset[s], rest)]
      /\ num_points' = [num_points EXCEPT ![s] = num_points[s] + rest]
      /\ offset' = [offset EXCEPT ![s] = offset[s] + rest]
  BY <1>0 DEF ComputeRest, PTypeOK
<1> HIDE DEF rest, t
<1>d. /\ Queried(s, offset[s], rest) \in [1 .. MaxLine -> Nat]
      /\ \A i \in 1 .. MaxLine : \/ Queried(s, offset[s], rest)[i] = line_dists[s][i]
                                 \/ Queried(s, offset[s], rest)[i] = query[s].dist[ids[s][i]]
      /\ \A i \in 1 .. MaxLine : i \in offset[s] + 1 .. offset[s] + rest =>
            Queried(s, offset[s], rest)[i] = query[s].dist[ids[s][i]]
  BY <1>0, <1>a, QueriedFacts
<1>1. PTypeOK'
  <2>1. /\ line_dists' \in [Searches -> [1 .. MaxLine -> Nat]]
        /\ num_points' \in [Searches -> Nat] /\ offset' \in [Searches -> Nat]
    BY <1>0, <1>a, <1>c, <1>d DEF PTypeOK
  <2> QED
    BY <1>0, <2>1 DEF PTypeOK, ComputeRest
<1>2. /\ line_dists'[s] = Queried(s, offset[s], rest)
      /\ num_points'[s] = num_points[s] + rest /\ offset'[s] = offset[s] + rest
      /\ \A x \in Searches : x # s => /\ line_dists'[x] = line_dists[x]
                                      /\ num_points'[x] = num_points[x] /\ offset'[x] = offset[x]
  BY <1>0, <1>c DEF PTypeOK
<1>3. PoolInv'
  BY <1>0, PoolFrame DEF ComputeRest
<1>4. ASSUME NEW x \in Searches \ {s} PROVE SearchInv(x)'
  <2>1. SearchInv(x)
    BY DEF PInv
  <2> QED
    BY <1>2, <2>1, Frame DEF ComputeRest
<1>5. SearchInv(s)'
  <2>1. TasksOf(s)' \subseteq TasksOf(s) /\ LanesInv(s)'
    BY <1>0, NarrowNone DEF SearchInv, ComputeRest, Publishing
  <2>2. SharesInv(s)'
    BY <1>0 DEF SearchInv, SharesInv, ComputeRest
  <2>3. HopsInv(s)'
    <3> DEFINE K == TasksOf(s)
               D == line_dists'[s]
    <3>1. HopInv(query[s], ids[s], count[s], line_dists[s], num_points[s], offset[s], K)
      BY <1>0 DEF SearchInv, HopsInv, InHop
    <3>2. l[3] = t /\ (\A k \in K : k[3] \in Items) /\ l \notin K
      <4>1. ASSUME l \in K PROVE FALSE
        <5>1. l[1] \in Workers /\ l[1] = 0
          BY <4>1, TaskFacts
        <5> QED
          BY <5>1 DEF Workers
      <4> QED
        BY <4>1, TaskFacts
    <3> HIDE DEF K, l, D
    <3>a. offset[s] + t.count <= count[s]
      BY <1>a, <1>b
    <3>3. HopInv(query[s], ids[s], count[s], line_dists[s], num_points[s], offset[s] + t.count, K \cup {l})
      BY <1>a, <1>b, <3>1, <3>2, <3>a, HopShares
    <3>4. \A i \in 1 .. offset[s] + t.count : D[i] = line_dists[s][i] \/ D[i] = query[s].dist[ids[s][i]]
      <4>1. \A i \in 1 .. offset[s] + t.count : i \in 1 .. MaxLine
        BY <1>0, <1>a, <1>b
      <4> QED
        BY <1>2, <1>d, <4>1 DEF D
    <3>5. HopInv(query[s], ids[s], count[s], D, num_points[s], offset[s] + t.count, K \cup {l})
      BY <3>3, <3>4, HopWrites
    <3>6. Right(query[s], ids[s], D, Cells(l[3]))
      <4>1. Cells(l[3]) = offset[s] + 1 .. offset[s] + rest
        BY <1>b, <3>2 DEF Cells
      <4>2. \A i \in Cells(l[3]) : i \in 1 .. MaxLine
        BY <1>0, <1>a, <4>1
      <4> QED
        BY <1>2, <1>d, <4>1, <4>2 DEF Right, D
    <3>7. K \in SUBSET ((K \cup {l}) \ {l})
      BY <3>2
    <3>8. offset[s] + t.count \in Nat /\ \A k \in K \cup {l} : k[3] \in Items
      BY <1>a, <1>b, <3>2
    <3>9. HopInv(query[s], ids[s], count[s], D, num_points[s] + l[3].count, offset[s] + t.count, K)
      BY <1>a, <3>5, <3>6, <3>7, <3>8, HopCounts
    <3>10. HopInv(query[s], ids[s], count[s], D, num_points[s] + l[3].count, offset[s] + t.count, TasksOf(s)')
      BY <2>1, <3>9, HopShrinks DEF K
    <3>11. HopInv(query'[s], ids'[s], count'[s], line_dists'[s], num_points'[s], offset'[s], TasksOf(s)')
      BY <1>2, <1>b, <3>2, <3>10 DEF D, ComputeRest
    <3> QED
      BY <1>0, <3>11 DEF HopsInv, InHop, ComputeRest
  <2>4. CountingInv(s)'
    <3>1. query' = query /\ ids' = ids /\ worker' = worker
      BY DEF ComputeRest
    <3>2. \A i \in 1 .. MaxLine : \/ line_dists'[s][i] = line_dists[s][i]
                                  \/ line_dists'[s][i] = query[s].dist[ids[s][i]]
      BY <1>2, <1>d
    <3> QED
      BY <3>1, <3>2, CountingKept DEF CountingInv
  <2>5. LeavingInv(s)'
    BY <1>0 DEF SearchInv, LeavingInv, ComputeRest
  <2> QED
    BY <2>1, <2>2, <2>3, <2>4, <2>5 DEF SearchInv
<1> QED
  BY <1>1, <1>3, <1>4, <1>5 DEF PInv

(* What a hop gathered, as SerialView and MergeHop see it.                    *)
LEMMA FilledFacts ==
    ASSUME PTypeOK, NEW s \in Searches
    PROVE  /\ Filled(s, ids[s]) \in Seq(Points)
           /\ Len(Filled(s, ids[s])) = count[s]
           /\ \A i \in 1 .. count[s] : Filled(s, ids[s])[i] = ids[s][i]
           /\ DistsOf(query[s], Filled(s, ids[s]))
                 = [i \in 1 .. count[s] |-> query[s].dist[ids[s][i]]]
<1>1. count[s] \in Nat /\ count[s] <= MaxLine /\ MaxLine \in Nat
      /\ ids[s] \in [1 .. MaxLine -> Points]
  BY ParallelAssumption DEF PTypeOK
<1>2. Filled(s, ids[s]) \in [1 .. count[s] -> Points]
  BY <1>1 DEF Filled
<1>3. Filled(s, ids[s]) \in Seq(Points) /\ Len(Filled(s, ids[s])) = count[s]
  BY <1>1, <1>2
<1>4. \A i \in 1 .. count[s] : Filled(s, ids[s])[i] = ids[s][i]
  BY DEF Filled
<1> QED
  BY <1>3, <1>4 DEF DistsOf

(* When the wait ends every distance is right, so the hop is that of one       *)
(* thread.                                                                  *)
LEMMA MergeHopIs ==
    ASSUME PInv, NEW s \in Searches, MergeHop(s)
    PROVE  st'[s] = SerialView(s) /\ st'[s] \in SearchStates
           /\ \A k \in TasksOf(s) : k[3].count = 0
<1>0. PTypeOK /\ SearchInv(s) /\ pc[s] = "wait" /\ num_points[s] >= count[s]
  BY DEF PInv, MergeHop
<1>1. /\ count[s] \in Nat /\ num_points[s] \in Nat /\ offset[s] \in Nat /\ count[s] <= MaxLine
      /\ query[s] \in Queries /\ st[s] \in SearchStates
  BY <1>0 DEF PTypeOK
<1>2. HopInv(query[s], ids[s], count[s], line_dists[s], num_points[s], offset[s], TasksOf(s))
  BY <1>0 DEF SearchInv, HopsInv, InHop
<1>3. \A k \in TasksOf(s) : k[3] \in Items
  BY TaskFacts
<1>4. /\ Right(query[s], ids[s], line_dists[s], 1 .. count[s])
      /\ \A k \in TasksOf(s) : k[3].count = 0
  BY <1>0, <1>1, <1>2, <1>3, HopEnds
<1>5. Filled(s, line_dists[s]) = [i \in 1 .. count[s] |-> query[s].dist[ids[s][i]]]
  BY <1>4 DEF Filled, Right
<1>6. st'[s] = Merge(query[s], st[s], Filled(s, ids[s]), Filled(s, line_dists[s]))
  BY <1>0 DEF MergeHop, PTypeOK
<1>7. st'[s] = SerialView(s)
  BY <1>0, <1>5, <1>6 DEF SerialView
<1>8. st'[s] = Merge(query[s], st[s], Filled(s, ids[s]), DistsOf(query[s], Filled(s, ids[s])))
  BY <1>0, <1>5, <1>6, FilledFacts
<1>9. st'[s] \in SearchStates
  BY <1>0, <1>1, <1>8, FilledFacts, MergeType
<1> QED
  BY <1>4, <1>7, <1>9

(* A step of a search that leaves its hop, its queues and its workers alone.  *)
LEMMA QuietStep ==
    ASSUME PInv, NEW s \in Searches,
           pc' = [pc EXCEPT ![s] = pc'[s]], st' = [st EXCEPT ![s] = st'[s]],
           st'[s] \in SearchStates,
           pc[s] \notin Publishing, pc'[s] \in {"hop", "stop", "done"},
           \A k \in TasksOf(s) : k[3].count = 0,
           pc'[s] = "hop" => nextq[s] = 1,
           pc'[s] # "hop" => Finished(query[s], st'[s]),
           UNCHANGED <<query, ids, count, line_dists, num_points, offset, nextq, queues, pool, worker>>
    PROVE  PInv'
<1>0. PTypeOK /\ PoolInv /\ SearchInv(s)
  BY DEF PInv
<1>1. PTypeOK'
  <2> DEFINE a == pc'[s]
             b == st'[s]
  <2>1. pc' = [pc EXCEPT ![s] = a] /\ a \in InHop \cup Leaving \cup {"enqueue", "hop"}
    BY DEF Leaving
  <2>2. st' = [st EXCEPT ![s] = b] /\ b \in SearchStates
    OBVIOUS
  <2> HIDE DEF a, b
  <2>3. pc' \in [Searches -> InHop \cup Leaving \cup {"enqueue", "hop"}]
    BY <1>0, <2>1 DEF PTypeOK
  <2>4. st' \in [Searches -> SearchStates]
    BY <1>0, <2>2 DEF PTypeOK
  <2> QED
    BY <1>0, <2>3, <2>4 DEF PTypeOK
<1>2. \A x \in Searches : x # s => pc'[x] = pc[x] /\ st'[x] = st[x]
  BY <1>0 DEF PTypeOK
<1>3. PoolInv'
  BY <1>0, <1>2, PoolFrame
<1>4. ASSUME NEW x \in Searches \ {s} PROVE SearchInv(x)'
  <2>1. SearchInv(x)
    BY DEF PInv
  <2> QED
    BY <1>2, <2>1, Frame
<1>5. SearchInv(s)'
  <2>1. TasksOf(s)' \subseteq TasksOf(s) /\ LanesInv(s)'
    BY <1>0, NarrowNone DEF SearchInv, Publishing
  <2>2. SharesInv(s)'
    BY DEF SharesInv
  <2>3. HopsInv(s)'
    BY <2>1 DEF HopsInv, InHop
  <2>4. CountingInv(s)'
    BY <1>0 DEF SearchInv, CountingInv
  <2>5. LeavingInv(s)'
    BY DEF LeavingInv, Leaving
  <2> QED
    BY <2>1, <2>2, <2>3, <2>4, <2>5 DEF SearchInv
<1> QED
  BY <1>1, <1>3, <1>4, <1>5 DEF PInv

LEMMA MergeHopStep ==
    ASSUME PInv, NEW s \in Searches, MergeHop(s)
    PROVE  PInv'
<1>0. PTypeOK /\ SearchInv(s)
  BY DEF PInv
<1>1. st'[s] \in SearchStates /\ \A k \in TasksOf(s) : k[3].count = 0
  BY MergeHopIs
<1>2. pc[s] = "wait" /\ pc'[s] = "hop" /\ pc' = [pc EXCEPT ![s] = pc'[s]]
      /\ st' = [st EXCEPT ![s] = st'[s]]
  BY <1>0 DEF MergeHop, PTypeOK
<1>3. nextq[s] = 1
  BY <1>0, <1>2 DEF SearchInv, SharesInv
<1> QED
  BY <1>1, <1>2, <1>3, QuietStep DEF MergeHop, Publishing

LEMMA EndHopsStep ==
    ASSUME PInv, NEW s \in Searches, EndHops(s)
    PROVE  PInv'
<1>0. PTypeOK /\ SearchInv(s)
  BY DEF PInv
<1>1. /\ pc[s] = "hop" /\ pc'[s] = "stop" /\ pc' = [pc EXCEPT ![s] = pc'[s]]
      /\ st' = [st EXCEPT ![s] = st'[s]] /\ st'[s] \in SearchStates
      /\ Finished(query[s], st'[s])
  BY <1>0 DEF EndHops, PTypeOK
<1>2. \A k \in TasksOf(s) : k[3].count = 0
  BY <1>0, <1>1 DEF SearchInv, HopsInv, InHop
<1> QED
  BY <1>1, <1>2, QuietStep DEF EndHops, Publishing

LEMMA JoinStep ==
    ASSUME PInv, NEW s \in Searches, Join(s)
    PROVE  PInv'
<1>0. PTypeOK /\ SearchInv(s)
  BY DEF PInv
<1>1. /\ pc[s] = "join" /\ pc'[s] = "done" /\ pc' = [pc EXCEPT ![s] = pc'[s]]
      /\ st' = [st EXCEPT ![s] = st'[s]] /\ st'[s] = st[s] /\ st'[s] \in SearchStates
  BY <1>0 DEF Join, PTypeOK
<1>2. Finished(query[s], st'[s])
  BY <1>0, <1>1 DEF SearchInv, LeavingInv, Leaving
<1>3. \A k \in TasksOf(s) : k[3].count = 0
  BY <1>0, <1>1 DEF SearchInv, HopsInv, InHop
<1> QED
  BY <1>1, <1>2, <1>3, QuietStep DEF Join, Publishing

\* A step of one worker, with what it must show of its lane and of the hop.
WorkerDoes(s, w, vk, r, D, n) ==
    /\ vk \in WorkerType /\ r \in QueueType /\ D \in [1 .. MaxLine -> Nat] /\ n \in Nat
    /\ worker' = [worker EXCEPT ![s][w] = vk]
    /\ queues' = [queues EXCEPT ![s][w] = r]
    /\ line_dists' = [line_dists EXCEPT ![s] = D]
    /\ num_points' = [num_points EXCEPT ![s] = n]
    /\ UNCHANGED <<query, st, pc, ids, count, offset, nextq>>
    /\ Narrows(queues[s][w], worker[s][w], pc[s], nextq[s], r, vk, pc[s], nextq[s], w)
    /\ TasksOf(s)' \subseteq TasksOf(s) /\ pc[s] \in InHop =>
          HopInv(query[s], ids[s], count[s], D, n, offset[s], TasksOf(s)')
    /\ \A i \in 1 .. MaxLine : D[i] = line_dists[s][i] \/ D[i] = query[s].dist[ids[s][i]]
    /\ vk.pc = "count" => Right(query[s], ids[s], D, Cells(vk.item))

LEMMA WorkerStep ==
    ASSUME PInv, NEW s \in Searches, NEW w \in Workers, NEW vk, NEW r, NEW D, NEW n,
           WorkerDoes(s, w, vk, r, D, n)
    PROVE  /\ SearchInv(s)'
           /\ \A x \in Searches \ {s} : SearchInv(x)'
           /\ pool' = pool => PTypeOK'
           /\ pool' = pool /\ worker[s][w].pc # "queued" => PoolInv'
<1>0. PTypeOK /\ PoolInv /\ SearchInv(s)
  BY DEF PInv
<1>1. /\ worker' \in [Searches -> [Workers -> WorkerType]] /\ worker'[s][w] = vk
      /\ \A v \in Workers \ {w} : worker'[s][v] = worker[s][v]
      /\ \A x \in Searches \ {s} : worker'[x] = worker[x]
  BY <1>0 DEF PTypeOK, WorkerDoes
<1>2. /\ queues' \in [Searches -> [Workers -> QueueType]] /\ queues'[s][w] = r
      /\ \A v \in Workers \ {w} : queues'[s][v] = queues[s][v]
      /\ \A x \in Searches \ {s} : queues'[x] = queues[x]
  BY <1>0 DEF PTypeOK, WorkerDoes
<1>3. /\ line_dists' \in [Searches -> [1 .. MaxLine -> Nat]] /\ line_dists'[s] = D
      /\ num_points' \in [Searches -> Nat] /\ num_points'[s] = n
      /\ \A x \in Searches \ {s} : line_dists'[x] = line_dists[x] /\ num_points'[x] = num_points[x]
  BY <1>0 DEF PTypeOK, WorkerDoes
<1>4. pool' = pool => PTypeOK'
  BY <1>0, <1>1, <1>2, <1>3 DEF PTypeOK, WorkerDoes
<1>5. ASSUME pool' = pool, worker[s][w].pc # "queued" PROVE PoolInv'
  <2>1. \A x \in Searches, v \in Workers :
            worker[x][v].pc = "queued" => worker'[x][v].pc = "queued"
    BY <1>1, <1>5
  <2> QED
    BY <1>0, <1>5, <2>1, PoolFrame DEF WorkerDoes
<1>6. ASSUME NEW x \in Searches \ {s} PROVE SearchInv(x)'
  <2>1. SearchInv(x)
    BY DEF PInv
  <2> QED
    BY <1>1, <1>2, <1>3, <2>1, Frame DEF WorkerDoes
<1>7. SearchInv(s)'
  <2>1. TasksOf(s)' \subseteq TasksOf(s) /\ LanesInv(s)'
    BY <1>0, <1>1, <1>2, NarrowOne DEF SearchInv, WorkerDoes
  <2>2. SharesInv(s)'
    BY <1>0 DEF SearchInv, SharesInv, WorkerDoes
  <2>3. HopsInv(s)'
    <3>1. CASE pc[s] \in InHop
      BY <1>3, <2>1, <3>1 DEF HopsInv, WorkerDoes
    <3>2. CASE pc[s] \notin InHop
      BY <1>0, <2>1, <3>2 DEF SearchInv, HopsInv, WorkerDoes
    <3> QED
      BY <3>1, <3>2
  <2>4. ASSUME NEW v \in Workers, worker'[s][v].pc = "count"
        PROVE  Right(query'[s], ids'[s], line_dists'[s], Cells(worker'[s][v].item))
    <3>1. CASE v = w
      BY <1>1, <1>3, <2>4, <3>1 DEF WorkerDoes
    <3>2. CASE v # w
      <4>1. worker'[s][v] = worker[s][v]
        BY <1>1, <3>2
      <4> QED
        BY <1>3, <2>4, <4>1, CountingKept DEF WorkerDoes
    <3> QED
      BY <3>1, <3>2
  <2>5. CountingInv(s)'
    BY <2>4 DEF CountingInv
  <2>6. LeavingInv(s)'
    BY <1>0 DEF SearchInv, LeavingInv, WorkerDoes
  <2> QED
    BY <2>1, <2>2, <2>3, <2>5, <2>6 DEF SearchInv
<1> QED
  BY <1>4, <1>5, <1>6, <1>7

(* What a worker's step finds.                                               *)
LEMMA AtWork ==
    ASSUME PInv, NEW s \in Searches, NEW w \in Workers
    PROVE  /\ queues[s][w] \in QueueType /\ worker[s][w] \in WorkerType
           /\ worker[s][w].item \in Items
           /\ worker[s][w].item.from \in Nat /\ worker[s][w].item.count \in Nat
           /\ Lane(queues[s][w], worker[s][w], pc[s], nextq[s], w)
           /\ line_dists[s] \in [1 .. MaxLine -> Nat] /\ num_points[s] \in Nat
           /\ offset[s] \in Nat /\ count[s] \in Nat
           /\ queues = [queues EXCEPT ![s][w] = queues[s][w]]
           /\ line_dists = [line_dists EXCEPT ![s] = line_dists[s]]
           /\ num_points = [num_points EXCEPT ![s] = num_points[s]]
           /\ pc[s] \in InHop =>
                 HopInv(query[s], ids[s], count[s], line_dists[s], num_points[s], offset[s], TasksOf(s))
<1>1. PTypeOK /\ SearchInv(s)
  BY DEF PInv
<1>2. queues[s][w] \in QueueType /\ worker[s][w] \in WorkerType
  BY <1>1 DEF PTypeOK
<1>3. worker[s][w].item \in Items
  BY <1>2 DEF WorkerType
<1>4. worker[s][w].item.from \in Nat /\ worker[s][w].item.count \in Nat
  BY <1>3 DEF Items
<1>5. Lane(queues[s][w], worker[s][w], pc[s], nextq[s], w)
  BY <1>1 DEF SearchInv, LanesInv
<1>6. /\ line_dists[s] \in [1 .. MaxLine -> Nat] /\ num_points[s] \in Nat
      /\ offset[s] \in Nat /\ count[s] \in Nat
  BY <1>1 DEF PTypeOK
<1>7. /\ queues = [queues EXCEPT ![s][w] = queues[s][w]]
      /\ line_dists = [line_dists EXCEPT ![s] = line_dists[s]]
      /\ num_points = [num_points EXCEPT ![s] = num_points[s]]
  BY <1>1 DEF PTypeOK
<1> QED
  BY <1>1, <1>2, <1>3, <1>4, <1>5, <1>6, <1>7 DEF SearchInv, HopsInv

LEMMA PopSlotStep ==
    ASSUME PInv, NEW s \in Searches, NEW w \in Workers, PopSlot(s, w)
    PROVE  PInv'
<1> DEFINE Q == queues[s][w]
           vk == [pc |-> "release", item |-> ReadSlot(Q)]
<1>1. /\ worker[s][w].pc = "pop" /\ ~ Empty(Q)
      /\ worker' = [worker EXCEPT ![s][w] = vk]
      /\ UNCHANGED <<query, st, pc, ids, count, line_dists, num_points, offset, nextq, queues, pool>>
  BY DEF PopSlot
<1>2. ReadSlot(Q) \in Items
  BY AtWork, QueueFacts DEF ReadSlot
<1>3. vk \in WorkerType /\ vk.pc = "release"
  BY <1>2 DEF WorkerType
<1>4. Narrows(Q, worker[s][w], pc[s], nextq[s], Q, vk, pc[s], nextq[s], w)
  BY <1>1, AtWork, LanePopSlot
<1> HIDE DEF Q, vk
<1>5. queues' = [queues EXCEPT ![s][w] = Q] /\ line_dists' = [line_dists EXCEPT ![s] = line_dists[s]]
      /\ num_points' = [num_points EXCEPT ![s] = num_points[s]] /\ Q \in QueueType
  BY <1>1, AtWork DEF Q
<1>6. TasksOf(s)' \subseteq TasksOf(s) /\ pc[s] \in InHop =>
         HopInv(query[s], ids[s], count[s], line_dists[s], num_points[s], offset[s], TasksOf(s)')
  BY AtWork, HopShrinks
<1>a. WorkerDoes(s, w, vk, Q, line_dists[s], num_points[s])
  BY <1>1, <1>3, <1>4, <1>5, <1>6, AtWork DEF Q, WorkerDoes
<1>7. /\ SearchInv(s)' /\ \A x \in Searches \ {s} : SearchInv(x)'
      /\ PTypeOK' /\ PoolInv'
  BY <1>1, <1>a, WorkerStep
<1> QED
  BY <1>7 DEF PInv

LEMMA PopIndexStep ==
    ASSUME PInv, NEW s \in Searches, NEW w \in Workers, PopIndex(s, w)
    PROVE  PInv'
<1> DEFINE Q == queues[s][w]
           a == IF worker[s][w].item.nullptr THEN "done" ELSE "query"
           vk == [worker[s][w] EXCEPT !.pc = a]
           r == Release(Q)
<1>1. /\ worker[s][w].pc = "release"
      /\ worker' = [worker EXCEPT ![s][w] = vk] /\ queues' = [queues EXCEPT ![s][w] = r]
      /\ UNCHANGED <<query, st, pc, ids, count, line_dists, num_points, offset, nextq, pool>>
  BY DEF PopIndex, PInv, PTypeOK
<1>2. vk \in WorkerType /\ vk.pc = a /\ vk.item = worker[s][w].item
  BY AtWork DEF WorkerType
<1>3. r \in QueueType
  BY AtWork DEF Release, QueueType
<1> HIDE DEF vk, r
<1>4. Narrows(Q, worker[s][w], pc[s], nextq[s], r, vk, pc[s], nextq[s], w)
  BY <1>1, <1>2, AtWork, LanePopIndex DEF r
<1>5. line_dists' = [line_dists EXCEPT ![s] = line_dists[s]]
      /\ num_points' = [num_points EXCEPT ![s] = num_points[s]]
  BY <1>1, AtWork
<1>6. TasksOf(s)' \subseteq TasksOf(s) /\ pc[s] \in InHop =>
         HopInv(query[s], ids[s], count[s], line_dists[s], num_points[s], offset[s], TasksOf(s)')
  BY AtWork, HopShrinks
<1>a. vk.pc # "count"
  BY <1>2
<1>b. WorkerDoes(s, w, vk, r, line_dists[s], num_points[s])
  BY <1>1, <1>2, <1>3, <1>4, <1>5, <1>6, <1>a, AtWork DEF WorkerDoes
<1>7. /\ SearchInv(s)' /\ \A x \in Searches \ {s} : SearchInv(x)'
      /\ PTypeOK' /\ PoolInv'
  BY <1>1, <1>b, WorkerStep
<1> QED
  BY <1>7 DEF PInv

LEMMA WorkerQueryStep ==
    ASSUME PInv, NEW s \in Searches, NEW w \in Workers, WorkerQuery(s, w)
    PROVE  PInv'
<1> DEFINE Q == queues[s][w]
           t == worker[s][w].item
           vk == [worker[s][w] EXCEPT !.pc = "count"]
           D == Queried(s, t.from, t.count)
<1>0. PTypeOK /\ MaxLine \in Nat
  BY ParallelAssumption DEF PInv
<1>1. /\ worker[s][w].pc = "query"
      /\ worker' = [worker EXCEPT ![s][w] = vk] /\ line_dists' = [line_dists EXCEPT ![s] = D]
      /\ UNCHANGED <<query, st, pc, ids, count, num_points, offset, nextq, queues, pool>>
  BY DEF WorkerQuery, PInv, PTypeOK
<1>2. vk \in WorkerType /\ vk.pc = "count" /\ vk.item = t
  BY AtWork DEF WorkerType
<1>3. Narrows(Q, worker[s][w], pc[s], nextq[s], Q, vk, pc[s], nextq[s], w)
  BY <1>1, <1>2, AtWork, LaneWorkerQuery
<1>b. t.from \in Nat /\ t.count \in Nat
  BY AtWork
<1> HIDE DEF Q, vk, t
<1>4. /\ D \in [1 .. MaxLine -> Nat]
      /\ \A i \in 1 .. MaxLine : D[i] = line_dists[s][i] \/ D[i] = query[s].dist[ids[s][i]]
      /\ \A i \in 1 .. MaxLine : i \in t.from + 1 .. t.from + t.count =>
            D[i] = query[s].dist[ids[s][i]]
  BY <1>0, <1>b, QueriedFacts
<1> HIDE DEF D
<1>5. queues' = [queues EXCEPT ![s][w] = Q] /\ Q \in QueueType
      /\ num_points' = [num_points EXCEPT ![s] = num_points[s]]
  BY <1>1, AtWork DEF Q
<1>6. ASSUME TasksOf(s)' \subseteq TasksOf(s), pc[s] \in InHop
      PROVE  HopInv(query[s], ids[s], count[s], D, num_points[s], offset[s], TasksOf(s)')
  <2>1. HopInv(query[s], ids[s], count[s], line_dists[s], num_points[s], offset[s], TasksOf(s))
    BY <1>6, AtWork
  <2>2. \A i \in 1 .. offset[s] : i \in 1 .. MaxLine
    <3>1. offset[s] <= count[s] /\ count[s] <= MaxLine /\ offset[s] \in Nat /\ count[s] \in Nat
      BY <1>0, <2>1, AtWork DEF HopInv, PTypeOK
    <3> QED
      BY <1>0, <3>1
  <2>3. HopInv(query[s], ids[s], count[s], D, num_points[s], offset[s], TasksOf(s))
    BY <1>4, <2>1, <2>2, HopWrites
  <2> QED
    BY <1>6, <2>3, HopShrinks
<1>7. Right(query[s], ids[s], D, Cells(vk.item))
  <2>1. Cells(t) \subseteq 1 .. MaxLine
    BY <1>1, HeldCells DEF Holds, t
  <2> QED
    BY <1>2, <1>4, <2>1 DEF Right, Cells
<1>a. WorkerDoes(s, w, vk, Q, D, num_points[s])
  BY <1>1, <1>2, <1>3, <1>4, <1>5, <1>6, <1>7, AtWork DEF Q, WorkerDoes
<1>8. /\ SearchInv(s)' /\ \A x \in Searches \ {s} : SearchInv(x)'
      /\ PTypeOK' /\ PoolInv'
  BY <1>1, <1>a, WorkerStep
<1> QED
  BY <1>8 DEF PInv

LEMMA WorkerCountStep ==
    ASSUME PInv, NEW s \in Searches, NEW w \in Workers, WorkerCount(s, w)
    PROVE  PInv'
<1> DEFINE Q == queues[s][w]
           t == worker[s][w].item
           vk == [pc |-> "pop", item |-> Nullptr]
           k0 == <<w, First(Q, worker[s][w]) - 1, t>>
           n == num_points[s] + t.count
<1>0. PTypeOK /\ SearchInv(s)
  BY DEF PInv
<1>1. /\ worker[s][w].pc = "count"
      /\ worker' = [worker EXCEPT ![s][w] = vk] /\ num_points' = [num_points EXCEPT ![s] = n]
      /\ UNCHANGED <<query, st, pc, ids, count, line_dists, offset, nextq, queues, pool>>
  BY DEF WorkerCount, PInv, PTypeOK
<1>2. vk \in WorkerType /\ vk.pc = "pop"
  BY NullptrType DEF WorkerType
<1>3. /\ Narrows(Q, worker[s][w], pc[s], nextq[s], Q, vk, pc[s], nextq[s], w)
      /\ \A x \in Items : ~ Pending(Q, vk, pc[s], nextq[s], w, First(Q, worker[s][w]) - 1, x)
  BY <1>1, AtWork, LaneWorkerCount
<1>4. k0 \in TasksOf(s) /\ k0[3] = t
  BY <1>0, <1>1, HeldTask DEF Holds
<1>5. k0 \notin TasksOf(s)'
  <2> SUFFICES ASSUME k0 \in TasksOf(s)' PROVE FALSE
    OBVIOUS
  <2>1. worker'[s][w] = vk /\ queues'[s][w] = Q /\ t \in Items
    BY <1>0, <1>1, AtWork DEF PTypeOK
  <2>2. Pending(queues'[s][k0[1]], worker'[s][k0[1]], pc'[s], nextq'[s], k0[1], k0[2], k0[3])
    BY Zenon DEF TasksOf, Tasks
  <2>3. k0[1] = w /\ k0[2] = First(Q, worker[s][w]) - 1 /\ k0[3] = t
    OBVIOUS
  <2> HIDE DEF k0, vk, Q, t
  <2>4. Pending(Q, vk, pc[s], nextq[s], w, First(Q, worker[s][w]) - 1, t)
    BY <1>1, <2>1, <2>2, <2>3
  <2> QED
    BY <1>3, <2>1, <2>4
<1> HIDE DEF Q, vk, t, k0, n
<1>6. /\ queues' = [queues EXCEPT ![s][w] = Q] /\ Q \in QueueType
      /\ line_dists' = [line_dists EXCEPT ![s] = line_dists[s]]
  BY <1>1, AtWork DEF Q
<1>7. n \in Nat
  BY AtWork DEF n, t
<1>8. ASSUME TasksOf(s)' \subseteq TasksOf(s), pc[s] \in InHop
      PROVE  HopInv(query[s], ids[s], count[s], line_dists[s], n, offset[s], TasksOf(s)')
  <2>1. HopInv(query[s], ids[s], count[s], line_dists[s], num_points[s], offset[s], TasksOf(s))
    BY <1>8, AtWork
  <2>2. \A k \in TasksOf(s) : k[3] \in Items
    BY TaskFacts
  <2>3. TasksOf(s)' \in SUBSET (TasksOf(s) \ {k0})
    BY <1>5, <1>8
  <2>4. Right(query[s], ids[s], line_dists[s], Cells(k0[3]))
    BY <1>0, <1>1, <1>4 DEF SearchInv, CountingInv, t
  <2>5. HopInv(query[s], ids[s], count[s], line_dists[s], num_points[s] + k0[3].count, offset[s], TasksOf(s)')
    BY <1>4, <2>1, <2>2, <2>3, <2>4, AtWork, HopCounts
  <2> QED
    BY <1>4, <2>5 DEF n
<1>a. WorkerDoes(s, w, vk, Q, line_dists[s], n)
  BY <1>1, <1>2, <1>3, <1>6, <1>7, <1>8, AtWork DEF Q, WorkerDoes
<1>9. /\ SearchInv(s)' /\ \A x \in Searches \ {s} : SearchInv(x)'
      /\ PTypeOK' /\ PoolInv'
  BY <1>1, <1>a, WorkerStep
<1> QED
  BY <1>9 DEF PInv

LEMMA StartWorkerStep ==
    ASSUME PInv, StartWorker
    PROVE  PInv'
<1>0. PTypeOK /\ PoolInv /\ pool # <<>> /\ pool \in Seq(Searches \X Workers)
  BY DEF PInv, StartWorker, PTypeOK
<1>1. Head(pool) = pool[1] /\ 1 \in 1 .. Len(pool) /\ Len(pool) \in Nat
  BY <1>0
<1>2. PICK s \in Searches, w \in Workers : pool[1] = <<s, w>>
  BY <1>0, <1>1, PoolPairs
<1> DEFINE vk == [worker[s][w] EXCEPT !.pc = "pop"]
           Q == queues[s][w]
<1>a. pool[1][1] = s /\ pool[1][2] = w
  BY <1>2
<1>3. worker[s][w].pc = "queued"
  BY <1>0, <1>1, <1>a DEF PoolInv
<1>4. /\ worker' = [worker EXCEPT ![s][w] = vk] /\ pool' = Tail(pool)
      /\ UNCHANGED <<query, st, pc, ids, count, line_dists, num_points, offset, nextq, queues>>
  BY <1>0, <1>1, <1>a DEF StartWorker, PTypeOK
<1>5. vk \in WorkerType /\ vk.pc = "pop" /\ vk.item = worker[s][w].item
  BY <1>2, AtWork DEF WorkerType
<1>6. Narrows(Q, worker[s][w], pc[s], nextq[s], Q, vk, pc[s], nextq[s], w)
  BY <1>2, <1>3, <1>5, AtWork, LaneStartWorker
<1> HIDE DEF vk, Q
<1>7. /\ queues' = [queues EXCEPT ![s][w] = Q] /\ Q \in QueueType
      /\ line_dists' = [line_dists EXCEPT ![s] = line_dists[s]]
      /\ num_points' = [num_points EXCEPT ![s] = num_points[s]]
  BY <1>2, <1>4, AtWork DEF Q
<1>8. TasksOf(s)' \subseteq TasksOf(s) /\ pc[s] \in InHop =>
         HopInv(query[s], ids[s], count[s], line_dists[s], num_points[s], offset[s], TasksOf(s)')
  BY <1>2, AtWork, HopShrinks
<1>9. SearchInv(s)' /\ \A x \in Searches \ {s} : SearchInv(x)'
  <2>1. vk.pc # "count"
    BY <1>5
  <2>2. WorkerDoes(s, w, vk, Q, line_dists[s], num_points[s])
    BY <1>4, <1>5, <1>6, <1>7, <1>8, <2>1, AtWork DEF Q, WorkerDoes
  <2> QED
    BY <2>2, WorkerStep
<1>10. PTypeOK'
  <2>1. pool' \in Seq(Searches \X Workers)
    BY <1>0, <1>4
  <2>2. worker' \in [Searches -> [Workers -> WorkerType]]
    BY <1>0, <1>2, <1>4, <1>5 DEF PTypeOK
  <2> QED
    BY <1>0, <1>4, <2>1, <2>2 DEF PTypeOK
<1>11. PoolInv'
  <2> DEFINE m == Len(pool)
  <2>1. Len(pool') = m - 1 /\ m \in Nat /\ \A i \in 1 .. m - 1 : pool'[i] = pool[i + 1]
    BY <1>0, <1>1, <1>4
  <2>2. /\ worker'[s][w] = vk
        /\ \A x \in Searches, v \in Workers : <<x, v>> # <<s, w>> => worker'[x][v] = worker[x][v]
    BY <1>0, <1>2, <1>4 DEF PTypeOK
  <2>3. ASSUME NEW i \in 1 .. m - 1
        PROVE  /\ worker'[pool'[i][1]][pool'[i][2]].pc = "queued"
               /\ pc'[pool'[i][1]] = "enqueue" => pool'[i][2] < nextq'[pool'[i][1]]
    <3>1. i + 1 \in 1 .. m /\ i + 1 # 1
      BY <2>1
    <3>2. pool[i + 1] # pool[1]
      BY <1>0, <1>1, <3>1 DEF PoolInv
    <3>3. pool[i + 1][1] \in Searches /\ pool[i + 1][2] \in Workers
          /\ pool[i + 1] = <<pool[i + 1][1], pool[i + 1][2]>>
      BY <1>0, <3>1, PoolPairs
    <3>4. worker'[pool[i + 1][1]][pool[i + 1][2]] = worker[pool[i + 1][1]][pool[i + 1][2]]
      BY <1>2, <2>2, <3>2, <3>3
    <3>5. worker[pool[i + 1][1]][pool[i + 1][2]].pc = "queued"
          /\ (pc[pool[i + 1][1]] = "enqueue" => pool[i + 1][2] < nextq[pool[i + 1][1]])
      BY <1>0, <3>1 DEF PoolInv
    <3> QED
      BY <1>4, <2>1, <3>4, <3>5
  <2>4. ASSUME NEW i \in 1 .. m - 1, NEW j \in 1 .. m - 1, i # j
        PROVE  pool'[i] # pool'[j]
    <3>1. i + 1 \in 1 .. m /\ j + 1 \in 1 .. m /\ i + 1 # j + 1
      BY <2>1, <2>4
    <3> QED
      BY <1>0, <2>1, <3>1 DEF PoolInv
  <2>5. ASSUME NEW x \in Searches, NEW v \in Workers, pc'[x] = "enqueue", v >= nextq'[x]
        PROVE  worker'[x][v].pc = "queued"
    <3>1. <<x, v>> # <<s, w>>
      <4> SUFFICES ASSUME x = s, v = w PROVE FALSE
        OBVIOUS
      <4>1. pool[1][1] = s /\ pool[1][2] = w
        BY <1>2
      <4>2. w < nextq[s]
        BY <1>0, <1>1, <1>4, <2>5, <4>1 DEF PoolInv
      <4>3. w \in Nat /\ nextq[s] \in Nat
        BY <1>0, <1>2 DEF Workers, PTypeOK
      <4> QED
        BY <1>4, <2>5, <4>2, <4>3
    <3> QED
      BY <1>0, <1>4, <2>2, <2>5, <3>1 DEF PoolInv
  <2> QED
    BY <2>1, <2>3, <2>4, <2>5 DEF PoolInv
<1> QED
  BY <1>2, <1>9, <1>10, <1>11 DEF PInv

----------------------------------------------------------------------------
(* The invariant holds.                                                     *)

LEMMA InitPInv == Init => PInv
<1> SUFFICES ASSUME Init PROVE PInv
  OBVIOUS
<1>0. /\ NumThreads \in Nat \ {0} /\ QueueSize \in Nat \ {0} /\ MaxLine \in Nat /\ 0 \in Points
      /\ QueriesOf \in [Searches -> SUBSET Queries] /\ 1 \in Workers
  BY ParallelAssumption DEF Workers
<1>1. query \in [Searches -> Queries]
  <2>1. query \in [Searches -> UNION Range(QueriesOf)] /\ \A s \in Searches : query[s] \in QueriesOf[s]
    BY DEF Init
  <2>2. \A s \in Searches : query[s] \in Queries
    BY <1>0, <2>1
  <2> QED
    BY <2>1, <2>2
<1>2. EmptyQueue \in QueueType /\ EmptyQueue.write_idx = 0 /\ EmptyQueue.read_idx = 0
  BY NullptrType DEF EmptyQueue, QueueType
<1> DEFINE wk == [pc |-> "queued", item |-> Nullptr]
<1>3. wk \in WorkerType /\ wk.pc = "queued" /\ wk.item.count = 0 /\ ~ Holds(wk)
  BY NullptrType DEF WorkerType, Holds
<1> HIDE DEF wk
<1>4. /\ \A s \in Searches : pc[s] = "enqueue" /\ nextq[s] = 1
      /\ \A s \in Searches, w \in Workers : queues[s][w] = EmptyQueue /\ worker[s][w] = wk
      /\ pool = <<>>
  BY DEF Init, wk
<1>5. PTypeOK
  <2>1. st \in [Searches -> SearchStates]
    BY <1>1, StartedType DEF Init
  <2>2. pc \in [Searches -> InHop \cup Leaving \cup {"enqueue", "hop"}]
    BY DEF Init
  <2>3. /\ ids \in [Searches -> [1 .. MaxLine -> Points]]
        /\ line_dists \in [Searches -> [1 .. MaxLine -> Nat]]
    BY <1>0 DEF Init
  <2>4. /\ count \in [Searches -> 0 .. MaxLine] /\ num_points \in [Searches -> Nat]
        /\ offset \in [Searches -> Nat] /\ nextq \in [Searches -> Workers]
    BY <1>0 DEF Init
  <2>5. queues \in [Searches -> [Workers -> QueueType]] /\ worker \in [Searches -> [Workers -> WorkerType]]
    BY <1>2, <1>3 DEF Init, wk
  <2>6. pool \in Seq(Searches \X Workers)
    BY <1>4
  <2> QED
    BY <1>1, <2>1, <2>2, <2>3, <2>4, <2>5, <2>6 DEF PTypeOK
<1>6. PoolInv
  BY <1>3, <1>4 DEF PoolInv
<1>7. ASSUME NEW s \in Searches PROVE SearchInv(s)
  <2>1. \A w \in Workers : First(queues[s][w], worker[s][w]) = 0
                           /\ Last(queues[s][w], pc[s], nextq[s], w) = -1
    BY <1>2, <1>3, <1>4 DEF First, Last
  <2>2. LanesInv(s)
    BY <1>0, <1>2, <1>3, <1>4, <2>1 DEF LanesInv, Lane
  <2>3. TasksOf(s) = {}
    <3> SUFFICES ASSUME NEW k \in TasksOf(s) PROVE FALSE
      OBVIOUS
    <3>1. /\ k[1] \in Workers /\ k[2] \in Int
          /\ Pending(queues[s][k[1]], worker[s][k[1]], pc[s], nextq[s], k[1], k[2], k[3])
      BY DEF TasksOf, Tasks
    <3> QED
      BY <1>3, <1>4, <2>1, <3>1 DEF Pending
  <2>4. SharesInv(s) /\ HopsInv(s) /\ CountingInv(s) /\ LeavingInv(s)
    BY <1>3, <1>4, <2>3 DEF SharesInv, HopsInv, CountingInv, LeavingInv, InHop, Leaving
  <2> QED
    BY <2>2, <2>4 DEF SearchInv
<1> QED
  BY <1>5, <1>6, <1>7 DEF PInv

LEMMA NextPInv == PInv /\ [Next]_vars => PInv'
<1> SUFFICES ASSUME PInv, [Next]_vars PROVE PInv'
  OBVIOUS
<1>1. CASE StartWorker
  BY <1>1, StartWorkerStep
<1>2. ASSUME NEW s \in Searches, NEW w \in Workers, Work(s, w) PROVE PInv'
  BY <1>2, PopSlotStep, PopIndexStep, WorkerQueryStep, WorkerCountStep DEF Work
<1>3. ASSUME NEW s \in Searches, Search(s) PROVE PInv'
  BY <1>3, EnqueueWorkerStep, NextHopStep, PushSlotStep, PushIndexStep, ComputeRestStep,
     MergeHopStep, EndHopsStep, JoinStep DEF Search
<1>4. CASE UNCHANGED vars
  <2>1. PTypeOK'
    BY <1>4 DEF PInv, PTypeOK, vars
  <2>2. PoolInv'
    BY <1>4, PoolFrame DEF PInv, vars
  <2>3. ASSUME NEW x \in Searches PROVE SearchInv(x)'
    <3>1. SearchInv(x)
      BY DEF PInv
    <3> QED
      BY <1>4, <3>1, Frame DEF vars
  <2> QED
    BY <2>1, <2>2, <2>3 DEF PInv
<1> QED
  BY <1>1, <1>2, <1>3, <1>4 DEF Next

(* Searches, queues and workers keep to the invariant.                       *)
THEOREM SharingInvariant == Spec => []PInv
<1> QED
  BY InitPInv, NextPInv, PTL DEF Spec

(* For every number of searches, workers and pool threads: a worker that holds *)
(* a task with points works for the hop under way, so WorkerQuery writes only  *)
(* positions its search still waits for.                                     *)
THEOREM TasksBelong == Spec => []TasksBelongToTheHop
<1>1. PInv => TasksBelongToTheHop
  <2> SUFFICES ASSUME PInv, NEW s \in Searches, NEW w \in Workers, worker[s][w].item.count > 0
               PROVE  /\ pc[s] \in {"push", "publish", "wait"}
                      /\ worker[s][w].item.from + worker[s][w].item.count <= count[s]
    BY DEF TasksBelongToTheHop
  <2>1. Holds(worker[s][w])
    <3>1. ~ Holds(worker[s][w]) => worker[s][w].item.count = 0
      BY AtWork DEF Lane
    <3> QED
      BY <3>1
  <2>2. pc[s] \in InHop
    <3>1. pc[s] \notin InHop => worker[s][w].item.count = 0
      BY <2>1, HeldCells
    <3> QED
      BY <3>1
  <2>3. worker[s][w].item.from + worker[s][w].item.count <= offset[s]
    BY <2>1, <2>2, HeldCells
  <2>4. offset[s] <= count[s]
    BY <2>2, AtWork DEF HopInv
  <2> QED
    BY <2>2, <2>3, <2>4, AtWork DEF InHop
<1> QED
  BY <1>1, SharingInvariant, PTL

----------------------------------------------------------------------------
(* The searches are those of BasicSearcher.                                  *)

(* The module of the abstract searches has its own copies of the operators of *)
(* module GraphSearch.                                                       *)
LEMMA SameStart ==
    ASSUME NEW q
    PROVE  Basic!Started(q) = Started(q)
BY Zenon DEF Basic!Started, Started, Basic!FloatMax, FloatMax, Basic!Cardinality, Cardinality

LEMMA SameFinish ==
    ASSUME NEW q, NEW v
    PROVE  Basic!Finished(q, v) = Finished(q, v)
BY Zenon DEF Basic!Finished, Finished, Basic!Nearest, Nearest, Basic!Cardinality, Cardinality

LEMMA SameHop ==
    ASSUME NEW q, NEW v
    PROVE  Basic!Hop(q, v) = Hop(q, v)
BY Zenon DEF Basic!Hop, Hop, Basic!Nearest, Nearest, Basic!Farthest, Farthest, Basic!Visit, Visit,
    Basic!Gathering, Gathering, Basic!Gather, Gather, Basic!Merge, Merge, Basic!Merging, Merging,
    Basic!Consider, Consider, Basic!Cardinality, Cardinality

(* What a hop does not touch cannot be seen.                                 *)
LEMMA ViewFrame ==
    ASSUME NEW s, query'[s] = query[s], st'[s] = st[s], ids'[s] = ids[s], count'[s] = count[s],
           pc[s] \in InHop <=> pc'[s] \in InHop
    PROVE  SerialView(s)' = SerialView(s)
<1>1. Filled(s, ids[s])' = Filled(s, ids[s])
  BY DEF Filled
<1> QED
  BY <1>1 DEF SerialView, InHop

(* The hop of a parallel search, seen once its points are gathered, is the hop *)
(* of one thread.                                                           *)
LEMMA NextHopView ==
    ASSUME PInv, NEW s \in Searches, NextHop(s)
    PROVE  /\ ~ Finished(query[s], SerialView(s))
           /\ SerialView(s)' = Hop(query[s], SerialView(s))
           /\ \A x \in Searches \ {s} : SerialView(x)' = SerialView(x)
           /\ \A x \in Searches : (pc'[x] = "done") = (pc[x] = "done")
<1> DEFINE q == query[s]
           v == st[s]
           b == Batch(q, v)
<1>0. PTypeOK /\ PTypeOK' /\ q \in Queries /\ v \in SearchStates
  BY NextHopStep DEF PInv, PTypeOK
<1>1. pc[s] = "hop" /\ pc'[s] = "push" /\ ~ Finished(q, v) /\ query' = query
  BY <1>0 DEF NextHop, PTypeOK
<1>2. SerialView(s) = v
  BY <1>1 DEF SerialView
<1>3. /\ st'[s] = Popped(q, v) /\ count'[s] = Len(b)
      /\ \A i \in 1 .. count'[s] : ids'[s][i] = b[i]
  BY NextHopStep
<1>4. b \in Seq(Points) /\ Hop(q, v) = Merge(q, Popped(q, v), b, DistsOf(q, b))
  BY <1>0, <1>1, HopParts
<1> HIDE DEF b
<1>5. Filled(s, ids[s])' = b
  <2>1. Filled(s, ids[s])' = [i \in 1 .. count'[s] |-> ids'[s][i]]
    BY DEF Filled
  <2>2. b = [i \in 1 .. Len(b) |-> b[i]]
    BY <1>4
  <2> QED
    BY <1>3, <2>1, <2>2
<1>6. [i \in 1 .. count'[s] |-> q.dist[ids'[s][i]]] = DistsOf(q, b)
  BY <1>3 DEF DistsOf
<1>7. SerialView(s)' = Merge(q, st'[s], Filled(s, ids[s])', [i \in 1 .. count'[s] |-> q.dist[ids'[s][i]]])
  BY <1>1 DEF SerialView
<1>8. SerialView(s)' = Hop(q, v)
  BY <1>3, <1>4, <1>5, <1>6, <1>7
<1>9. ASSUME NEW x \in Searches \ {s} PROVE SerialView(x)' = SerialView(x) /\ pc'[x] = pc[x]
  <2>1. query'[x] = query[x] /\ st'[x] = st[x] /\ ids'[x] = ids[x] /\ count'[x] = count[x]
        /\ pc'[x] = pc[x]
    BY <1>0 DEF NextHop, PTypeOK
  <2> QED
    BY <2>1, ViewFrame
<1> QED
  BY <1>1, <1>2, <1>8, <1>9

LEMMA BasicStutters ==
    ASSUME query' = query,
           \A s \in Searches : SerialView(s)' = SerialView(s),
           \A s \in Searches : (pc'[s] = "done") = (pc[s] = "done")
    PROVE  UNCHANGED Basic!vars
<1>1. [s \in Searches |-> SerialView(s)]' = [s \in Searches |-> SerialView(s)]
  OBVIOUS
<1>2. [s \in Searches |-> pc[s] = "done"]' = [s \in Searches |-> pc[s] = "done"]
  OBVIOUS
<1> QED
  BY <1>1, <1>2 DEF Basic!vars

(* A step that gathers nothing and merges nothing.                           *)
LEMMA SilentStep ==
    ASSUME UNCHANGED <<query, st, ids, count>>,
           \A s \in Searches : pc[s] \in InHop <=> pc'[s] \in InHop,
           \A s \in Searches : (pc'[s] = "done") = (pc[s] = "done")
    PROVE  UNCHANGED Basic!vars
<1>1. \A s \in Searches : SerialView(s)' = SerialView(s)
  BY ViewFrame
<1> QED
  BY <1>1, BasicStutters

LEMMA NextHopRefines ==
    ASSUME PInv, NEW s \in Searches, NextHop(s)
    PROVE  Basic!TakeHop(s)
<1> DEFINE view == [x \in Searches |-> SerialView(x)]
           done == [x \in Searches |-> pc[x] = "done"]
<1>1. /\ ~ Finished(query[s], SerialView(s))
      /\ SerialView(s)' = Hop(query[s], SerialView(s))
      /\ \A x \in Searches \ {s} : SerialView(x)' = SerialView(x)
      /\ \A x \in Searches : (pc'[x] = "done") = (pc[x] = "done")
  BY NextHopView
<1>2. pc[s] = "hop" /\ query' = query
  BY DEF NextHop
<1>3. view' = [view EXCEPT ![s] = Hop(query[s], view[s])]
  BY <1>1
<1>4. done' = done /\ done[s] = FALSE
  BY <1>1, <1>2
<1>5. ~ Basic!Finished(query[s], view[s])
  BY <1>1, SameFinish
<1>6. view' = [view EXCEPT ![s] = Basic!Hop(query[s], view[s])]
  BY <1>3, SameHop
<1> QED
  BY <1>2, <1>4, <1>5, <1>6 DEF Basic!TakeHop

LEMMA JoinRefines ==
    ASSUME PInv, NEW s \in Searches, Join(s)
    PROVE  Basic!Return(s)
<1> DEFINE view == [x \in Searches |-> SerialView(x)]
           done == [x \in Searches |-> pc[x] = "done"]
<1>0. PTypeOK /\ SearchInv(s)
  BY DEF PInv
<1>1. pc[s] = "join" /\ pc' = [pc EXCEPT ![s] = "done"] /\ UNCHANGED <<query, st, ids, count>>
  BY DEF Join
<1>2. /\ pc'[s] = "done" /\ \A x \in Searches \ {s} : pc'[x] = pc[x]
  BY <1>0, <1>1 DEF PTypeOK
<1>3. \A x \in Searches : SerialView(x)' = SerialView(x)
  <2>1. \A x \in Searches : pc[x] \in InHop <=> pc'[x] \in InHop
    BY <1>1, <1>2 DEF InHop
  <2> QED
    BY <1>1, <2>1, ViewFrame
<1>4. SerialView(s) = st[s] /\ Finished(query[s], st[s])
  BY <1>0, <1>1 DEF SerialView, SearchInv, LeavingInv, Leaving
<1>5. Basic!Finished(query[s], view[s])
  BY <1>4, SameFinish
<1>6. view' = view
  BY <1>3
<1>7. done' = [done EXCEPT ![s] = TRUE] /\ done[s] = FALSE
  BY <1>1, <1>2
<1> QED
  BY <1>1, <1>5, <1>6, <1>7 DEF Basic!Return

LEMMA InitRefines == Init => Basic!Init
<1> SUFFICES ASSUME Init PROVE Basic!Init
  OBVIOUS
<1>1. \A s \in Searches : SerialView(s) = Basic!Started(query[s]) /\ pc[s] = "enqueue"
  BY SameStart DEF Init, SerialView
<1>2. [s \in Searches |-> SerialView(s)] = [s \in Searches |-> Basic!Started(query[s])]
  BY <1>1
<1>3. [s \in Searches |-> pc[s] = "done"] = [s \in Searches |-> FALSE]
  BY <1>1
<1>4. query \in {q \in [Searches -> UNION Basic!Range(QueriesOf)] :
                     \A s \in Searches : q[s] \in QueriesOf[s]}
  BY Zenon DEF Init, Range, Basic!Range
<1> QED
  BY <1>2, <1>3, <1>4 DEF Basic!Init

LEMMA NextRefines == PInv /\ [Next]_vars => [Basic!Next]_(Basic!vars)
<1> SUFFICES ASSUME PInv, [Next]_vars PROVE Basic!Next \/ UNCHANGED Basic!vars
  OBVIOUS
<1>0. PTypeOK
  BY DEF PInv
<1>1. CASE StartWorker
  BY <1>1, SilentStep DEF StartWorker
<1>2. ASSUME NEW s \in Searches, NEW w \in Workers, Work(s, w) PROVE UNCHANGED Basic!vars
  <2>1. UNCHANGED <<query, st, ids, count, pc>>
    BY <1>2 DEF Work, PopSlot, PopIndex, WorkerQuery, WorkerCount
  <2> QED
    BY <2>1, SilentStep
<1>3. ASSUME NEW s \in Searches, Search(s) PROVE Basic!Next \/ UNCHANGED Basic!vars
  <2>1. CASE EnqueueWorker(s)
    <3>1. \A x \in Searches : (pc[x] \in InHop <=> pc'[x] \in InHop)
                              /\ (pc'[x] = "done") = (pc[x] = "done")
      BY <1>0, <2>1 DEF EnqueueWorker, PTypeOK, InHop
    <3> QED
      BY <2>1, <3>1, SilentStep DEF EnqueueWorker
  <2>2. CASE NextHop(s)
    BY <2>2, NextHopRefines DEF Basic!Next
  <2>3. CASE PushSlot(s) \/ PushIndex(s)
    <3>1. /\ pc[s] \in {"push", "stop", "publish", "publish_stop"}
          /\ \/ Pushed(s)
             \/ pc' = [pc EXCEPT ![s] = IF pc[s] = "push" THEN "publish" ELSE "publish_stop"]
                /\ pc[s] \in {"push", "stop"}
      BY <1>0, <2>3 DEF PushSlot, PushIndex, PTypeOK
    <3>2. \A x \in Searches : (pc[x] \in InHop <=> pc'[x] \in InHop)
                              /\ (pc'[x] = "done") = (pc[x] = "done")
      <4>1. CASE Pushed(s)
        BY <1>0, <3>1, <4>1, PushedStep DEF InHop
      <4>2. CASE pc' = [pc EXCEPT ![s] = IF pc[s] = "push" THEN "publish" ELSE "publish_stop"]
                 /\ pc[s] \in {"push", "stop"}
        BY <1>0, <4>2 DEF PTypeOK, InHop
      <4> QED
        BY <3>1, <4>1, <4>2
    <3>3. UNCHANGED <<query, st, ids, count>>
      BY <2>3 DEF PushSlot, PushIndex
    <3> QED
      BY <3>2, <3>3, SilentStep
  <2>4. CASE ComputeRest(s)
    BY <2>4, SilentStep DEF ComputeRest
  <2>5. CASE MergeHop(s)
    <3>1. st'[s] = SerialView(s) /\ pc[s] = "wait" /\ pc'[s] = "hop"
      BY <1>0, <2>5, MergeHopIs DEF MergeHop, PTypeOK
    <3>2. SerialView(s)' = SerialView(s)
      <4>1. SerialView(s)' = st'[s]
        BY <3>1 DEF SerialView
      <4> QED
        BY <3>1, <4>1
    <3>3. ASSUME NEW x \in Searches \ {s}
          PROVE  SerialView(x)' = SerialView(x) /\ pc'[x] = pc[x]
      <4>1. query'[x] = query[x] /\ st'[x] = st[x] /\ ids'[x] = ids[x] /\ count'[x] = count[x]
            /\ pc'[x] = pc[x]
        BY <1>0, <2>5 DEF MergeHop, PTypeOK
      <4> QED
        BY <4>1, ViewFrame
    <3>4. query' = query
      BY <2>5 DEF MergeHop
    <3> QED
      BY <3>1, <3>2, <3>3, <3>4, BasicStutters
  <2>6. CASE EndHops(s)
    <3>1. \A x \in Searches : (pc[x] \in InHop <=> pc'[x] \in InHop)
                              /\ (pc'[x] = "done") = (pc[x] = "done")
      BY <1>0, <2>6 DEF EndHops, PTypeOK, InHop
    <3> QED
      BY <2>6, <3>1, SilentStep DEF EndHops
  <2>7. CASE Join(s)
    BY <2>7, JoinRefines DEF Basic!Next
  <2> QED
    BY <1>3, <2>1, <2>2, <2>3, <2>4, <2>5, <2>6, <2>7 DEF Search
<1>4. CASE UNCHANGED vars
  BY <1>4, SilentStep DEF vars
<1> QED
  BY <1>1, <1>2, <1>3, <1>4 DEF Next

(* ParallelSearcher implements BasicSearcher: NextHop is the hop of one         *)
(* thread, Join the return, and every other step, of whichever thread, leaves  *)
(* the abstract searches alone.                                              *)
THEOREM ParallelImplementsBasic == Spec => ImplementsBasicSearchers
<1>1. Init => Basic!Init
  BY InitRefines
<1>2. PInv /\ [Next]_vars => [Basic!Next]_(Basic!vars)
  BY NextRefines
<1> QED
  BY <1>1, <1>2, SharingInvariant, PTL DEF Spec, ImplementsBasicSearchers, Basic!Spec

----------------------------------------------------------------------------
(* What a search on one thread finds.                                       *)

\* The entries of some points.
Pairs(q, S) == {<<q.dist[p], p>> : p \in S}

\* The points gathered up to the i-th.
UpTo(batch, i) == {batch[j] : j \in 1 .. i}

(* A look at a gathered point keeps the visited list and adds at most the point. *)
LEMMA ConsiderFacts ==
    ASSUME NEW q, NEW v \in SearchStates, NEW d, NEW id
    PROVE  /\ Consider(q, v, d, id).visited = v.visited
           /\ Consider(q, v, d, id).cand \subseteq v.cand \cup {<<d, id>>}
<1> DEFINE top == IF id \in q.allowed THEN v.top \cup {<<d, id>>} ELSE v.top
           kept == IF q.mode = "KNN_SEARCH" /\ Cardinality(top) > q.ef
                   THEN top \ {Farthest(top)} ELSE top
           b == IF kept = {} THEN v.bound ELSE Farthest(kept)[1]
           c == v.cand \cup {<<d, id>>}
<1>1. Consider(q, v, d, id) \in {[v EXCEPT !.cand = c, !.top = kept, !.bound = b], v}
  BY DEF Consider
<1> HIDE DEF kept, b
<1> QED
  BY <1>1 DEF SearchStates

LEMMA MergeFacts ==
    ASSUME NEW q \in Queries, NEW v \in SearchStates, NEW batch \in Seq(Points)
    PROVE  /\ Merge(q, v, batch, DistsOf(q, batch)).visited = v.visited
           /\ Merge(q, v, batch, DistsOf(q, batch)).cand
                 \subseteq v.cand \cup Pairs(q, UpTo(batch, Len(batch)))
<1> DEFINE n == Len(batch)
           D == DistsOf(q, batch)
           M == Merging(q, v, batch, D)
           T == {i \in 0 .. n : M[i].visited = v.visited
                                /\ M[i].cand \subseteq v.cand \cup Pairs(q, UpTo(batch, i))}
<1>0. n \in Nat /\ \A i \in 1 .. n : D[i] = q.dist[batch[i]]
  BY DEF DistsOf
<1>1. /\ \A i \in 0 .. n : M[i] \in SearchStates
      /\ M[0] = v
      /\ \A i \in 1 .. n : M[i] = Consider(q, M[i - 1], D[i], batch[i])
  <2>1. D \in DistLines(batch)
    BY DistsOfType
  <2> HIDE DEF D
  <2>2. M \in [0 .. n -> SearchStates]
        /\ M[0] = v
        /\ \A i \in 1 .. n : M[i] = Consider(q, M[i - 1], D[i], batch[i])
    BY <2>1, MergingIs
  <2> QED
    BY <2>2
<1> HIDE DEF D, M
<1>2. 0 \in T
  BY <1>0, <1>1
<1>3. ASSUME NEW i \in 0 .. n - 1, i \in T PROVE i + 1 \in T
  <2>1. i + 1 \in 1 .. n /\ (i + 1) - 1 = i /\ i \in 0 .. n /\ i + 1 \in 0 .. n
    BY <1>0
  <2>2. M[i + 1] = Consider(q, M[i], q.dist[batch[i + 1]], batch[i + 1]) /\ M[i] \in SearchStates
    BY <1>0, <1>1, <2>1
  <2>3. /\ M[i + 1].visited = M[i].visited
        /\ M[i + 1].cand \subseteq M[i].cand \cup {<<q.dist[batch[i + 1]], batch[i + 1]>>}
    <3> DEFINE a == M[i]
               d == q.dist[batch[i + 1]]
               id == batch[i + 1]
    <3>1. a \in SearchStates /\ M[i + 1] = Consider(q, a, d, id)
      BY <2>2
    <3> HIDE DEF a, d, id
    <3>2. M[i + 1].visited = a.visited /\ M[i + 1].cand \subseteq a.cand \cup {<<d, id>>}
      BY <3>1, ConsiderFacts
    <3> QED
      BY <3>2 DEF a, d, id
  <2>4. UpTo(batch, i) \subseteq UpTo(batch, i + 1) /\ batch[i + 1] \in UpTo(batch, i + 1)
    BY <2>1 DEF UpTo
  <2>5. Pairs(q, UpTo(batch, i)) \subseteq Pairs(q, UpTo(batch, i + 1))
        /\ <<q.dist[batch[i + 1]], batch[i + 1]>> \in Pairs(q, UpTo(batch, i + 1))
    BY <2>4 DEF Pairs
  <2> QED
    BY <1>3, <2>1, <2>3, <2>5
<1> HIDE DEF T
<1>4. n \in T
  <2>1. 0 .. n \subseteq T
    BY <1>0, <1>2, <1>3, Induct
  <2> QED
    BY <1>0, <2>1
<1> QED
  BY <1>4 DEF T, M, D, Merge

\* After n hops: n points have been taken off the candidates for good.
Taken(q, v, n) ==
    /\ v.cand \subseteq Pairs(q, v.visited)
    /\ \E X \in SUBSET v.visited :
          /\ IsFiniteSet(X) /\ Cardinality(X) = n
          /\ \A e \in v.cand : e[2] \notin X

LEMMA HopTakes ==
    ASSUME NEW q \in Queries, NEW v \in SearchStates, ~ Finished(q, v), NEW n \in Nat, Taken(q, v, n)
    PROVE  Taken(q, Hop(q, v), n + 1)
<1> DEFINE best == Nearest(v.cand)
           p == best[2]
           b == Batch(q, v)
           u == Popped(q, v)
           h == Hop(q, v)
           found == Visit(q, v, p)
<1>1. /\ best \in v.cand /\ best[2] \in Points /\ u \in SearchStates /\ b \in Seq(Points)
      /\ h = Merge(q, u, b, DistsOf(q, b))
  BY HopParts
<1>2. u.cand = v.cand \ {best} /\ u.visited = found.visited /\ b = found.batch
  BY DEF Popped, SearchStates, Batch
<1>a. p \in Points /\ p = best[2]
  BY <1>1
<1> HIDE DEF p
<1>3. /\ v.visited \subseteq found.visited
      /\ GatheredInv(q, v.visited, Neighbors[p], found, Len(Neighbors[p]))
  <2>1. GatheredInv(q, v.visited, Neighbors[p], found, Len(Neighbors[p]))
    BY <1>a, VisitFacts
  <2> QED
    BY <2>1 DEF GatheredInv
<1> HIDE DEF found, u, b, h, best
<1>4. \A j \in 1 .. Len(b) : b[j] \in u.visited \ v.visited
  BY <1>2, <1>3 DEF GatheredInv
<1>5. /\ h.visited = u.visited /\ h.cand \subseteq u.cand \cup Pairs(q, UpTo(b, Len(b)))
  BY <1>1, MergeFacts
<1>6. PICK X \in SUBSET v.visited :
          /\ IsFiniteSet(X) /\ Cardinality(X) = n
          /\ \A e \in v.cand : e[2] \notin X
  BY DEF Taken
<1>7. UpTo(b, Len(b)) \subseteq u.visited \ v.visited
  BY <1>4 DEF UpTo
<1>8. v.cand \subseteq Pairs(q, v.visited)
  BY DEF Taken
<1>9. \A e \in v.cand : e[2] \in v.visited /\ e = <<q.dist[e[2]], e[2]>>
  BY <1>8 DEF Pairs
<1>10. \A e \in Pairs(q, UpTo(b, Len(b))) : e[2] \in u.visited \ v.visited /\ e = <<q.dist[e[2]], e[2]>>
  BY <1>7 DEF Pairs
<1>11. h.cand \subseteq Pairs(q, h.visited)
  <2>1. v.visited \subseteq u.visited
    BY <1>2, <1>3
  <2>2. \A e \in h.cand : e[2] \in u.visited /\ e = <<q.dist[e[2]], e[2]>>
    BY <1>2, <1>5, <1>9, <1>10, <2>1
  <2> QED
    BY <1>5, <2>2 DEF Pairs
<1> DEFINE Y == X \cup {best[2]}
<1>12. IsFiniteSet(Y) /\ Cardinality(Y) = n + 1
  <2>1. best[2] \notin X
    BY <1>1, <1>6
  <2> QED
    BY <1>6, <2>1, FS_AddElement
<1>13. Y \in SUBSET h.visited
  BY <1>1, <1>2, <1>3, <1>5, <1>9
<1>14. ASSUME NEW e \in h.cand PROVE e[2] \notin Y
  <2>1. CASE e \in v.cand /\ e # best
    BY <1>1, <1>6, <1>9, <2>1
  <2>2. CASE e \in Pairs(q, UpTo(b, Len(b)))
    BY <1>1, <1>9, <1>10, <2>2
  <2> QED
    BY <1>2, <1>5, <2>1, <2>2
<1> HIDE DEF Y
<1> QED
  BY <1>11, <1>12, <1>13, <1>14 DEF Taken, h

(* The hops of BasicSearcher.                                               *)
LEMMA HopsAre ==
    ASSUME NEW q \in Queries
    PROVE  /\ Hops(q)[0] = Started(q)
           /\ \A n \in 1 .. Cardinality(Points) :
                 Hops(q)[n] = IF Finished(q, Hops(q)[n - 1]) THEN Hops(q)[n - 1]
                              ELSE Hop(q, Hops(q)[n - 1])
<1> DEFINE N == Cardinality(Points)
           S(v) == IF Finished(q, v) THEN v ELSE Hop(q, v)
           F == [n \in 1 .. N |-> [v \in SearchStates |-> S(v)]]
           H == Hops(q)
           v0 == Started(q)
<1>0. N \in Nat /\ v0 \in SearchStates
  BY PointsFacts, StartedType
<1>1. F \in [1 .. N -> [SearchStates -> SearchStates]]
  <2>1. \A v \in SearchStates : S(v) \in SearchStates
    BY HopParts
  <2> HIDE DEF S
  <2> QED
    BY <2>1
<1>2. \A n \in 1 .. N : \A v \in SearchStates : F[n][v] = S(v)
  BY Zenon
<1> HIDE DEF F, N, S, v0
<1>3. PICK f : Solution(N, SearchStates, v0, F, f)
  BY <1>0, <1>1, Recursion
<1>4. f = [n \in 0 .. N |-> IF n = 0 THEN v0 ELSE S(f[n - 1])]
  BY <1>0, <1>2, <1>3 DEF Solution
<1>5. H = [n \in 0 .. N |-> IF n = 0 THEN v0 ELSE S(H[n - 1])]
  BY <1>4, Zenon DEF Hops, N, S, v0
<1> HIDE DEF H
<1>6. \A n \in 0 .. N : H[n] = IF n = 0 THEN v0 ELSE S(H[n - 1])
  BY <1>5
<1>7. H[0] = v0 /\ \A n \in 1 .. N : H[n] = S(H[n - 1])
  BY <1>0, <1>6
<1> QED
  BY <1>7 DEF H, N, S, v0

(* Each is a state of a search, and before the end each took a point.        *)
LEMMA HopsGoOn ==
    ASSUME NEW q \in Queries
    PROVE  \A n \in 0 .. Cardinality(Points) :
              /\ Hops(q)[n] \in SearchStates
              /\ Finished(q, Hops(q)[n]) \/ Taken(q, Hops(q)[n], n)
<1> DEFINE N == Cardinality(Points)
           H == Hops(q)
           T == {n \in 0 .. N : H[n] \in SearchStates /\ (Finished(q, H[n]) \/ Taken(q, H[n], n))}
<1>0. N \in Nat
  BY PointsFacts
<1>1. H[0] = Started(q) /\ \A n \in 1 .. N : H[n] = IF Finished(q, H[n - 1]) THEN H[n - 1]
                                                   ELSE Hop(q, H[n - 1])
  BY HopsAre
<1> HIDE DEF H, N
<1>2. 0 \in T
  <2>1. Started(q) \in SearchStates
    BY StartedType
  <2>2. Started(q).cand = {<<q.dist[Ep], Ep>>} /\ Started(q).visited = {Ep}
    BY DEF Started
  <2>3. Taken(q, Started(q), 0)
    <3>1. {} \in SUBSET Started(q).visited /\ IsFiniteSet({}) /\ Cardinality({}) = 0
      BY FS_EmptySet
    <3>2. Started(q).cand \subseteq Pairs(q, Started(q).visited)
      BY <2>2 DEF Pairs
    <3> QED
      BY <3>1, <3>2 DEF Taken
  <2> QED
    BY <1>0, <1>1, <2>1, <2>3
<1>3. ASSUME NEW n \in 0 .. N - 1, n \in T PROVE n + 1 \in T
  <2>1. n + 1 \in 1 .. N /\ (n + 1) - 1 = n /\ n + 1 \in 0 .. N /\ n \in Nat
    BY <1>0
  <2>2. H[n + 1] = IF Finished(q, H[n]) THEN H[n] ELSE Hop(q, H[n])
    BY <1>1, <2>1
  <2>3. CASE Finished(q, H[n])
    BY <1>3, <2>1, <2>2, <2>3
  <2>4. CASE ~ Finished(q, H[n])
    <3>1. H[n] \in SearchStates /\ Taken(q, H[n], n) /\ H[n + 1] = Hop(q, H[n])
      BY <1>3, <2>2, <2>4
    <3>2. Taken(q, H[n + 1], n + 1)
      BY <2>1, <2>4, <3>1, HopTakes
    <3>3. H[n + 1] \in SearchStates
      BY <2>4, <3>1, HopParts
    <3> QED
      BY <2>1, <3>2, <3>3
  <2> QED
    BY <2>3, <2>4
<1> HIDE DEF T
<1>4. 0 .. N \subseteq T
  BY <1>0, <1>2, <1>3, Induct
<1> QED
  BY <1>4 DEF T, N, H

(* There are no more hops than points.                                      *)
LEMMA HopsEnd ==
    ASSUME NEW q \in Queries
    PROVE  Finished(q, Hops(q)[Cardinality(Points)])
<1> DEFINE N == Cardinality(Points)
           v == Hops(q)[N]
<1>1. N \in Nat /\ IsFiniteSet(Points)
  BY PointsFacts, SearchAssumption
<1>2. v \in SearchStates /\ (Finished(q, v) \/ Taken(q, v, N))
  BY <1>1, HopsGoOn
<1> HIDE DEF v
<1>3. ASSUME Taken(q, v, N) PROVE Finished(q, v)
  <2>1. PICK X \in SUBSET v.visited :
            /\ IsFiniteSet(X) /\ Cardinality(X) = N
            /\ \A e \in v.cand : e[2] \notin X
    BY <1>3 DEF Taken
  <2>2. X \in SUBSET Points
    BY <1>2, <2>1 DEF SearchStates
  <2>3. X = Points
    BY <1>1, <2>1, <2>2, FS_Subset
  <2>4. \A e \in v.cand : e[2] \in Points
    BY <1>2 DEF SearchStates, Entries
  <2>5. v.cand = {}
    BY <2>1, <2>3, <2>4
  <2> QED
    BY <2>5 DEF Finished
<1> QED
  BY <1>2, <1>3 DEF v

(* A state that is finished is the last.                                     *)
LEMMA HopsStay ==
    ASSUME NEW q \in Queries, NEW n \in 0 .. Cardinality(Points), Finished(q, Hops(q)[n])
    PROVE  Hops(q)[n] = Hops(q)[Cardinality(Points)]
<1> DEFINE N == Cardinality(Points)
           H == Hops(q)
           m == N - n
           T == {i \in 0 .. m : H[n + i] = H[n]}
<1>0. N \in Nat /\ n \in Nat /\ n <= N /\ m \in Nat /\ n + m = N
  BY PointsFacts
<1>1. \A i \in 1 .. N : H[i] = IF Finished(q, H[i - 1]) THEN H[i - 1] ELSE Hop(q, H[i - 1])
  BY HopsAre
<1>a. Finished(q, H[n])
  OBVIOUS
<1> HIDE DEF H, N, m
<1>2. 0 \in T
  BY <1>0
<1>3. ASSUME NEW i \in 0 .. m - 1, i \in T PROVE i + 1 \in T
  <2>1. n + (i + 1) \in 1 .. N /\ (n + (i + 1)) - 1 = n + i /\ i + 1 \in 0 .. m
    BY <1>0
  <2>2. H[n + (i + 1)] = IF Finished(q, H[n + i]) THEN H[n + i] ELSE Hop(q, H[n + i])
    BY <1>1, <2>1
  <2>3. H[n + i] = H[n]
    BY <1>3
  <2> QED
    BY <1>a, <2>1, <2>2, <2>3
<1> HIDE DEF T
<1>4. m \in T
  <2>1. 0 .. m \subseteq T
    BY <1>0, <1>2, <1>3, Induct
  <2> QED
    BY <1>0, <2>1
<1> QED
  BY <1>0, <1>4 DEF T, H, N

----------------------------------------------------------------------------
(* A search with room for every point and no filter.                        *)

Wide(q) == q.ef >= Cardinality(Points) /\ q.allowed = Points

LEMMA PairsFacts ==
    ASSUME NEW q \in Queries, NEW S \in SUBSET Points
    PROVE  /\ IsFiniteSet(Pairs(q, S))
           /\ Cardinality(Pairs(q, S)) <= Cardinality(S)
           /\ Cardinality(Pairs(q, S)) \in Nat /\ Cardinality(S) \in Nat /\ IsFiniteSet(S)
           /\ Cardinality(S) <= Cardinality(Points)
           /\ Cardinality(S) = Cardinality(Points) => S = Points
<1>1. IsFiniteSet(Points)
  BY SearchAssumption
<1>2. /\ IsFiniteSet(S) /\ Cardinality(S) <= Cardinality(Points)
      /\ Cardinality(S) = Cardinality(Points) => S = Points
  BY <1>1, FS_Subset
<1> DEFINE f == [p \in S |-> <<q.dist[p], p>>]
           T == Pairs(q, S)
<1>3. f \in Surjection(S, T)
  BY DEF Surjection, Pairs
<1> HIDE DEF f, T
<1>4. IsFiniteSet(T) /\ Cardinality(T) <= Cardinality(S)
  BY <1>2, <1>3, FS_Surjection
<1> QED
  BY <1>2, <1>4, FS_CardinalityType DEF T

\* An entry joins the candidates and the results.
Joins(v, w, e) == w.cand = v.cand \cup {e} /\ w.top = v.top \cup {e}

(* Whatever is considered is kept: the results never fill up before the points *)
(* do.                                                                      *)
LEMMA WideConsider ==
    ASSUME NEW q \in Queries, Wide(q), NEW v \in SearchStates, NEW id \in Points,
           v.top \subseteq Pairs(q, Points \ {id})
    PROVE  Joins(v, Consider(q, v, q.dist[id], id), <<q.dist[id], id>>)
<1> DEFINE N == Cardinality(Points)
           rest == Points \ {id}
           e == <<q.dist[id], id>>
           top == v.top \cup {e}
<1>0. N \in Nat /\ IsFiniteSet(Points) /\ q.ef \in Nat /\ q.ef >= N /\ id \in q.allowed
  BY PointsFacts, SearchAssumption DEF Queries, Wide
<1>1. Cardinality(rest) = N - 1
  BY <1>0, FS_RemoveElement
<1>2. IsFiniteSet(Pairs(q, rest)) /\ Cardinality(Pairs(q, rest)) <= Cardinality(rest)
      /\ Cardinality(Pairs(q, rest)) \in Nat
  <2>1. rest \in SUBSET Points
    OBVIOUS
  <2> HIDE DEF rest
  <2> QED
    BY <2>1, PairsFacts
<1>3. IsFiniteSet(v.top) /\ Cardinality(v.top) <= Cardinality(Pairs(q, rest)) /\ Cardinality(v.top) \in Nat
  <2>1. v.top \in SUBSET Pairs(q, rest)
    OBVIOUS
  <2> HIDE DEF rest
  <2>2. IsFiniteSet(v.top) /\ Cardinality(v.top) <= Cardinality(Pairs(q, rest))
    BY <1>2, <2>1, FS_Subset
  <2> QED
    BY <2>2, FS_CardinalityType
<1>4. Cardinality(v.top) < q.ef
  BY <1>0, <1>1, <1>2, <1>3
<1>5. ~ (Cardinality(top) > q.ef)
  <2>1. Cardinality(top) = IF e \in v.top THEN Cardinality(v.top) ELSE Cardinality(v.top) + 1
    BY <1>3, FS_AddElement
  <2>2. Cardinality(top) \in Nat /\ Cardinality(top) <= Cardinality(v.top) + 1
    BY <1>3, <2>1
  <2> HIDE DEF top
  <2> QED
    BY <1>0, <1>3, <1>4, <2>2
<1> DEFINE b == IF top = {} THEN v.bound ELSE Farthest(top)[1]
<1>6. Consider(q, v, q.dist[id], id) = [v EXCEPT !.cand = v.cand \cup {e}, !.top = top, !.bound = b]
  BY <1>0, <1>4, <1>5 DEF Consider
<1> HIDE DEF b, top
<1>7. /\ Consider(q, v, q.dist[id], id).cand = v.cand \cup {e}
      /\ Consider(q, v, q.dist[id], id).top = top
  BY <1>6 DEF SearchStates
<1> QED
  BY <1>7 DEF top, Joins

LEMMA WideMerge ==
    ASSUME NEW q \in Queries, Wide(q), NEW v \in SearchStates, NEW batch \in Seq(Points),
           NEW U \in SUBSET Points, v.top \subseteq Pairs(q, U),
           \A j \in 1 .. Len(batch) : batch[j] \notin U,
           \A j, k \in 1 .. Len(batch) : j # k => batch[j] # batch[k]
    PROVE  /\ Merge(q, v, batch, DistsOf(q, batch)).cand
                 = v.cand \cup Pairs(q, UpTo(batch, Len(batch)))
           /\ Merge(q, v, batch, DistsOf(q, batch)).top
                 = v.top \cup Pairs(q, UpTo(batch, Len(batch)))
<1> DEFINE n == Len(batch)
           D == DistsOf(q, batch)
           M == Merging(q, v, batch, D)
           P(i) == Pairs(q, UpTo(batch, i))
           T == {i \in 0 .. n : M[i].cand = v.cand \cup P(i) /\ M[i].top = v.top \cup P(i)}
<1>0. n \in Nat /\ (\A i \in 1 .. n : D[i] = q.dist[batch[i]]) /\ \A i \in 1 .. n : batch[i] \in Points
  BY DEF DistsOf
<1>1. /\ \A i \in 0 .. n : M[i] \in SearchStates
      /\ M[0] = v
      /\ \A i \in 1 .. n : M[i] = Consider(q, M[i - 1], D[i], batch[i])
  <2>1. D \in DistLines(batch)
    BY DistsOfType
  <2> HIDE DEF D
  <2>2. M \in [0 .. n -> SearchStates]
        /\ M[0] = v
        /\ \A i \in 1 .. n : M[i] = Consider(q, M[i - 1], D[i], batch[i])
    BY <2>1, MergingIs
  <2> QED
    BY <2>2
<1> HIDE DEF D, M
<1>2. 0 \in T
  <2>1. P(0) = {}
    BY DEF Pairs, UpTo
  <2> HIDE DEF P
  <2> QED
    BY <1>0, <1>1, <2>1
<1>3. ASSUME NEW i \in 0 .. n - 1, i \in T PROVE i + 1 \in T
  <2> DEFINE id == batch[i + 1]
             a == M[i]
             e == <<q.dist[id], id>>
  <2>1. i + 1 \in 1 .. n /\ (i + 1) - 1 = i /\ i \in 0 .. n /\ i + 1 \in 0 .. n
    BY <1>0
  <2>2. M[i + 1] = Consider(q, a, q.dist[id], id) /\ a \in SearchStates /\ id \in Points
    BY <1>0, <1>1, <2>1
  <2>3. \A j \in 1 .. i : j \in 1 .. n /\ j # i + 1
    BY <1>0, <2>1
  <2>4. id \notin U /\ id \notin UpTo(batch, i) /\ UpTo(batch, i) \subseteq Points
    BY <1>0, <2>1, <2>3 DEF UpTo
  <2>5. a.top = v.top \cup P(i) /\ a.cand = v.cand \cup P(i)
    BY <1>3
  <2>6. a.top \subseteq Pairs(q, Points \ {id})
    <3>1. \A x \in U \cup UpTo(batch, i) : x \in Points \ {id}
      BY <2>4
    <3> HIDE DEF id
    <3>2. Pairs(q, U) \cup P(i) \subseteq Pairs(q, Points \ {id})
      BY <3>1 DEF Pairs
    <3> QED
      BY <2>5, <3>2
  <2>7. UpTo(batch, i + 1) = UpTo(batch, i) \cup {id}
    BY <2>1 DEF UpTo
  <2>8. P(i + 1) = P(i) \cup {e}
    BY <2>7 DEF Pairs
  <2> HIDE DEF a, id, P
  <2>9. M[i + 1].cand = a.cand \cup {e} /\ M[i + 1].top = a.top \cup {e}
    <3>1. Joins(a, Consider(q, a, q.dist[id], id), e)
      BY <2>2, <2>6, WideConsider
    <3> QED
      BY <2>2, <3>1 DEF Joins
  <2> HIDE DEF e
  <2> QED
    BY <2>1, <2>5, <2>8, <2>9
<1> HIDE DEF T
<1>4. n \in T
  <2>1. 0 .. n \subseteq T
    BY <1>0, <1>2, <1>3, Induct
  <2> QED
    BY <1>0, <2>1
<1> QED
  BY <1>4 DEF T, M, D, Merge

\* What is visited was considered, kept and, unless it is a candidate, followed.
WideInv(q, v) ==
    /\ v.top \subseteq Pairs(q, v.visited)
    /\ \A e \in Pairs(q, v.visited) \ v.top : q.mode # "KNN_SEARCH" /\ e[1] > Radius
    /\ v.cand \subseteq Pairs(q, v.visited)
    /\ \A p \in v.visited :
          <<q.dist[p], p>> \in v.cand \/ Range(Neighbors[p]) \subseteq v.visited
    /\ Ep \in v.visited /\ v.visited \subseteq InReach

LEMMA NeighborsRange ==
    ASSUME NEW p \in Points
    PROVE  /\ Range(Neighbors[p]) = {Neighbors[p][j] : j \in 1 .. Len(Neighbors[p])}
           /\ Range(Neighbors[p]) \subseteq Points
<1>1. Neighbors[p] \in Seq(Points)
  BY SearchAssumption
<1> QED
  BY <1>1 DEF Range

(* What can be reached stays so.                                             *)
LEMMA ReachFacts ==
    /\ Ep \in InReach /\ InReach \subseteq Points
    /\ \A x \in InReach : Range(Neighbors[x]) \subseteq InReach
    /\ \A S \in SUBSET Points :
          Ep \in S /\ (\A x \in S : Range(Neighbors[x]) \subseteq S) => InReach \subseteq S
<1>1. Ep \in InReach /\ InReach \subseteq Points
  BY PointsFacts DEF InReach
<1>2. ASSUME NEW x \in InReach, NEW y \in Range(Neighbors[x]) PROVE y \in InReach
  <2>1. y \in Points
    BY <1>1, <1>2, NeighborsRange
  <2>2. ASSUME NEW S \in SUBSET Points, Ep \in S, \A z \in S : Range(Neighbors[z]) \subseteq S
        PROVE  y \in S
    <3>1. x \in S
      BY <2>2 DEF InReach
    <3> QED
      BY <1>2, <2>2, <3>1
  <2> QED
    BY <2>1, <2>2 DEF InReach
<1>3. ASSUME NEW S \in SUBSET Points, Ep \in S, \A x \in S : Range(Neighbors[x]) \subseteq S
      PROVE  InReach \subseteq S
  BY <1>3 DEF InReach
<1> QED
  BY <1>1, <1>2, <1>3

LEMMA WideStart ==
    ASSUME NEW q \in Queries, Wide(q)
    PROVE  WideInv(q, Started(q))
<1> DEFINE e == <<q.dist[Ep], Ep>>
           v == Started(q)
<1>1. /\ v.visited = {Ep} /\ v.cand = {e}
      /\ v.top = IF q.mode = "RANGE_SEARCH" /\ q.dist[Ep] > Radius THEN {} ELSE {e}
  BY PointsFacts DEF Started, Wide
<1> HIDE DEF v
<1>2. Pairs(q, v.visited) = {e} /\ e[1] = q.dist[Ep]
  BY <1>1 DEF Pairs
<1>3. v.visited \subseteq InReach
  BY <1>1, ReachFacts
<1>4. v.top \subseteq {e} /\ (e \notin v.top => q.mode # "KNN_SEARCH" /\ e[1] > Radius)
  BY <1>1, <1>2
<1> QED
  BY <1>1, <1>2, <1>3, <1>4 DEF WideInv, v

LEMMA WideHop ==
    ASSUME NEW q \in Queries, Wide(q), NEW v \in SearchStates, ~ Finished(q, v), WideInv(q, v)
    PROVE  WideInv(q, Hop(q, v))
<1> DEFINE best == Nearest(v.cand)
           p == best[2]
           b == Batch(q, v)
           u == Popped(q, v)
           h == Hop(q, v)
           found == Visit(q, v, p)
           new == UpTo(b, Len(b))
<1>1. /\ best \in v.cand /\ best[2] \in Points /\ u \in SearchStates /\ b \in Seq(Points)
      /\ h = Merge(q, u, b, DistsOf(q, b))
  BY HopParts
<1>2. /\ u.cand = v.cand \ {best} /\ u.visited = found.visited /\ u.top = v.top /\ b = found.batch
  BY DEF Popped, SearchStates, Batch
<1>a. p \in Points /\ p = best[2] /\ v.visited \in SUBSET Points
  BY <1>1 DEF SearchStates
<1> HIDE DEF p
<1>3. GatheredInv(q, v.visited, Neighbors[p], found, Len(Neighbors[p]))
  BY <1>a, VisitFacts
<1> HIDE DEF found, u, b, h, best
<1>4. found.visited = v.visited \cup Range(Neighbors[p])
  <2>1. found.visited = v.visited \cup {Neighbors[p][j] : j \in 1 .. Len(Neighbors[p])}
    BY <1>3 DEF GatheredInv
  <2> QED
    BY <1>a, <2>1, NeighborsRange
<1>5. /\ \A j \in 1 .. Len(b) : b[j] \in found.visited \ v.visited
      /\ \A j, k \in 1 .. Len(b) : j # k => b[j] # b[k]
      /\ \A x \in found.visited \ v.visited : \E j \in 1 .. Len(b) : b[j] = x
  BY <1>2, <1>3 DEF GatheredInv, Wide
<1>6. new = found.visited \ v.visited
  BY <1>5 DEF UpTo
<1>b. v.top \subseteq Pairs(q, v.visited) /\ v.cand \subseteq Pairs(q, v.visited)
  BY DEF WideInv
<1>7. h.cand = u.cand \cup Pairs(q, new) /\ h.top = u.top \cup Pairs(q, new)
  <2>1. u.top \subseteq Pairs(q, v.visited) /\ \A j \in 1 .. Len(b) : b[j] \notin v.visited
    BY <1>2, <1>5, <1>b
  <2> QED
    BY <1>1, <1>5, <1>a, <2>1, WideMerge
<1>8. h.visited = found.visited
  BY <1>1, <1>2, MergeFacts
<1> HIDE DEF new
<1>9. Pairs(q, h.visited) = Pairs(q, v.visited) \cup Pairs(q, new)
  <2>1. h.visited = v.visited \cup new
    BY <1>4, <1>6, <1>8
  <2> QED
    BY <2>1 DEF Pairs
<1>10. h.top \subseteq Pairs(q, h.visited) /\ h.cand \subseteq Pairs(q, h.visited)
  BY <1>2, <1>7, <1>9, <1>b
<1>11. \A e \in Pairs(q, h.visited) \ h.top : q.mode # "KNN_SEARCH" /\ e[1] > Radius
  <2>1. \A e \in Pairs(q, h.visited) \ h.top : e \in Pairs(q, v.visited) \ v.top
    BY <1>2, <1>7, <1>9
  <2> QED
    BY <2>1 DEF WideInv
<1>12. ASSUME NEW x \in h.visited
       PROVE  <<q.dist[x], x>> \in h.cand \/ Range(Neighbors[x]) \subseteq h.visited
  <2>1. CASE x \in new
    <3>1. <<q.dist[x], x>> \in Pairs(q, new)
      BY <2>1 DEF Pairs
    <3> QED
      BY <1>7, <3>1
  <2>2. CASE x \in v.visited /\ x = p
    BY <1>4, <1>8, <2>2
  <2>3. CASE x \in v.visited /\ x # p
    <3>1. <<q.dist[x], x>> # best
      BY <1>a, <2>3
    <3>2. <<q.dist[x], x>> \in v.cand \/ Range(Neighbors[x]) \subseteq v.visited
      BY <2>3 DEF WideInv
    <3>3. CASE <<q.dist[x], x>> \in v.cand
      BY <1>2, <1>7, <3>1, <3>3
    <3>4. CASE Range(Neighbors[x]) \subseteq v.visited
      BY <1>4, <1>8, <3>4
    <3> QED
      BY <3>2, <3>3, <3>4
  <2> QED
    BY <1>6, <1>8, <2>1, <2>2, <2>3
<1>13. Ep \in h.visited /\ h.visited \subseteq InReach
  <2>1. v.visited \subseteq InReach /\ Ep \in v.visited
    BY DEF WideInv
  <2>2. p \in v.visited
    <3>1. best \in Pairs(q, v.visited)
      BY <1>1, <1>b
    <3> QED
      BY <1>a, <3>1 DEF Pairs
  <2>3. Range(Neighbors[p]) \subseteq InReach
    BY <2>1, <2>2, ReachFacts
  <2> QED
    BY <1>4, <1>8, <2>1, <2>3
<1> QED
  BY <1>10, <1>11, <1>12, <1>13 DEF WideInv, h

(* When such a search ends, it has seen all that can be reached.              *)
LEMMA WideAnswer ==
    ASSUME NEW q \in Queries, Wide(q), NEW v \in SearchStates, Finished(q, v), WideInv(q, v)
    PROVE  Result(q, v) = ExactAnswer(q)
<1>0. v.visited \in SUBSET Points /\ v.visited \subseteq InReach
  BY DEF SearchStates, WideInv
<1>1. v.visited = InReach
  <2>1. CASE v.cand = {}
    <3>1. \A x \in v.visited : Range(Neighbors[x]) \subseteq v.visited
      BY <2>1 DEF WideInv
    <3>2. Ep \in v.visited
      BY DEF WideInv
    <3>3. InReach \subseteq v.visited
      BY <1>0, <3>1, <3>2, ReachFacts
    <3> QED
      BY <1>0, <3>3
  <2>2. CASE v.cand # {}
    <3> DEFINE S == v.visited
               P == Pairs(q, S)
               N == Cardinality(Points)
    <3>1. Cardinality(v.top) = q.ef /\ q.ef \in Nat /\ q.ef >= N /\ N \in Nat
      BY <2>2, PointsFacts DEF Finished, Wide, Queries
    <3>2. /\ IsFiniteSet(P) /\ Cardinality(P) <= Cardinality(S) /\ Cardinality(S) <= N
          /\ Cardinality(P) \in Nat /\ Cardinality(S) \in Nat
          /\ Cardinality(S) = N => S = Points
      <4>1. S \in SUBSET Points
        BY <1>0
      <4> HIDE DEF S
      <4> QED
        BY <4>1, PairsFacts
    <3>3. Cardinality(v.top) <= Cardinality(P)
      <4>1. v.top \in SUBSET P
        BY DEF WideInv
      <4> HIDE DEF P
      <4> QED
        BY <3>2, <4>1, FS_Subset
    <3>4. S = Points
      <4> HIDE DEF S, P, N
      <4> QED
        BY <3>1, <3>2, <3>3
    <3> QED
      BY <1>0, <3>4, ReachFacts
  <2> QED
    BY <2>1, <2>2
<1> DEFINE all == Pairs(q, InReach)
<1>2. /\ v.top \subseteq all
      /\ \A e \in all \ v.top : q.mode # "KNN_SEARCH" /\ e[1] > Radius
  BY <1>1 DEF WideInv
<1>3. \A e \in all : e[1] \in Nat
  <2>1. q.dist \in [Points -> 1 .. Cardinality(Points)]
    BY DEF Queries
  <2>2. \A x \in Points : q.dist[x] \in Nat
    BY <2>1, PointsFacts
  <2> QED
    BY <2>2, ReachFacts DEF Pairs
<1>4. ExactAnswer(q) = IF q.mode = "KNN_SEARCH"
                       THEN {e \in all : Cardinality({f \in all : f[1] < e[1]}) < TopK}
                       ELSE {e \in all : e[1] <= Radius}
  BY DEF ExactAnswer, Pairs
<1> HIDE DEF all
<1>5. CASE q.mode = "KNN_SEARCH"
  <2>1. v.top = all
    BY <1>2, <1>5
  <2> QED
    BY <1>4, <1>5, <2>1 DEF Result
<1>6. CASE q.mode # "KNN_SEARCH"
  <2>1. Radius \in Nat
    BY SearchAssumption
  <2>2. {e \in v.top : e[1] <= Radius} = {e \in all : e[1] <= Radius}
    BY <1>2, <1>3, <2>1
  <2> QED
    BY <1>4, <1>6, <2>2 DEF Result
<1> QED
  BY <1>5, <1>6

----------------------------------------------------------------------------
(* What a parallel search returns.                                          *)

LEMMA ViewType ==
    ASSUME PInv, NEW s \in Searches
    PROVE  query[s] \in Queries /\ SerialView(s) \in SearchStates
<1>1. PTypeOK /\ query[s] \in Queries /\ st[s] \in SearchStates
  BY DEF PInv, PTypeOK
<1> DEFINE b == Filled(s, ids[s])
<1>2. b \in Seq(Points) /\ DistsOf(query[s], b) = [i \in 1 .. count[s] |-> query[s].dist[ids[s][i]]]
  BY <1>1, FilledFacts
<1>3. Merge(query[s], st[s], b, DistsOf(query[s], b)) \in SearchStates
  BY <1>1, <1>2, MergeType
<1> QED
  BY <1>1, <1>2, <1>3 DEF SerialView

(* A step leaves what one thread would have, or is its hop.                   *)
LEMMA ViewStep ==
    ASSUME PInv, [Next]_vars, NEW s \in Searches
    PROVE  /\ query'[s] = query[s]
           /\ \/ SerialView(s)' = SerialView(s)
              \/ /\ ~ Finished(query[s], SerialView(s))
                 /\ SerialView(s)' = Hop(query[s], SerialView(s))
<1> DEFINE view == [x \in Searches |-> SerialView(x)]
<1>1. [Basic!Next]_(Basic!vars)
  BY NextRefines
<1>2. view[s] = SerialView(s) /\ view'[s] = SerialView(s)'
  OBVIOUS
<1>3. CASE UNCHANGED Basic!vars
  <2>1. query' = query /\ view' = view
    BY <1>3 DEF Basic!vars
  <2> HIDE DEF view
  <2> QED
    BY <1>2, <2>1
<1>4. ASSUME NEW x \in Searches, Basic!TakeHop(x)
      PROVE  /\ query' = query
             /\ \/ view'[s] = view[s]
                \/ ~ Finished(query[s], view[s]) /\ view'[s] = Hop(query[s], view[s])
  <2>1. /\ query' = query /\ ~ Basic!Finished(query[x], view[x])
        /\ view' = [view EXCEPT ![x] = Basic!Hop(query[x], view[x])]
    BY <1>4 DEF Basic!TakeHop
  <2>2. ~ Finished(query[x], view[x]) /\ view' = [view EXCEPT ![x] = Hop(query[x], view[x])]
    BY <2>1, SameFinish, SameHop
  <2>3. DOMAIN view = Searches
    OBVIOUS
  <2> HIDE DEF view
  <2> QED
    BY <2>1, <2>2, <2>3
<1>5. ASSUME NEW x \in Searches, Basic!Return(x) PROVE query' = query /\ view' = view
  BY <1>5 DEF Basic!Return
<1> HIDE DEF view
<1> QED
  BY <1>1, <1>2, <1>3, <1>4, <1>5 DEF Basic!Next

\* Every search is where one thread would be after some number of hops.
AnswerInv ==
    \A s \in Searches :
        /\ \E n \in 0 .. Cardinality(Points) : SerialView(s) = Hops(query[s])[n]
        /\ Wide(query[s]) => WideInv(query[s], SerialView(s))

LEMMA InitAnswer == Init => AnswerInv
<1> SUFFICES ASSUME Init, NEW s \in Searches
             PROVE  /\ \E n \in 0 .. Cardinality(Points) : SerialView(s) = Hops(query[s])[n]
                    /\ Wide(query[s]) => WideInv(query[s], SerialView(s))
  BY DEF AnswerInv
<1>1. query[s] \in Queries
  BY InitPInv DEF PInv, PTypeOK
<1>2. SerialView(s) = Started(query[s])
  BY DEF Init, SerialView
<1>3. 0 \in 0 .. Cardinality(Points) /\ Hops(query[s])[0] = Started(query[s])
  BY <1>1, PointsFacts, HopsAre
<1> QED
  BY <1>1, <1>2, <1>3, WideStart

LEMMA NextAnswer == PInv /\ AnswerInv /\ [Next]_vars => AnswerInv'
<1> SUFFICES ASSUME PInv, AnswerInv, [Next]_vars, NEW s \in Searches
             PROVE  /\ \E n \in 0 .. Cardinality(Points) : SerialView(s)' = Hops(query'[s])[n]
                    /\ Wide(query'[s]) => WideInv(query'[s], SerialView(s)')
  BY DEF AnswerInv
<1> DEFINE q == query[s]
           v == SerialView(s)
           N == Cardinality(Points)
<1>0. q \in Queries /\ v \in SearchStates /\ query'[s] = q /\ N \in Nat
  BY ViewType, ViewStep, PointsFacts
<1>1. PICK n \in 0 .. N : v = Hops(q)[n]
  BY DEF AnswerInv
<1>2. Wide(q) => WideInv(q, v)
  BY DEF AnswerInv
<1>3. CASE SerialView(s)' = v
  BY <1>0, <1>1, <1>2, <1>3
<1>4. CASE ~ Finished(q, v) /\ SerialView(s)' = Hop(q, v)
  <2> HIDE DEF q, v, N
  <2>1. n # N
    BY <1>0, <1>1, <1>4, HopsEnd DEF N
  <2>2. n + 1 \in 1 .. N /\ n + 1 \in 0 .. N /\ (n + 1) - 1 = n
    BY <1>0, <1>1, <2>1
  <2>3. Hops(q)[n + 1] = IF Finished(q, Hops(q)[n]) THEN Hops(q)[n] ELSE Hop(q, Hops(q)[n])
    BY <1>0, <2>2, HopsAre DEF N
  <2>4. SerialView(s)' = Hops(q)[n + 1]
    BY <1>1, <1>4, <2>3
  <2>5. Wide(q) => WideInv(q, Hop(q, v))
    BY <1>0, <1>2, <1>4, WideHop
  <2> QED
    BY <1>0, <1>4, <2>2, <2>4, <2>5 DEF N
<1> QED
  BY <1>3, <1>4, ViewStep

(* What a search has when it returns.                                        *)
LEMMA DoneFacts ==
    ASSUME PInv, NEW s \in Searches, pc[s] = "done"
    PROVE  /\ query[s] \in Queries /\ st[s] \in SearchStates
           /\ SerialView(s) = st[s] /\ Finished(query[s], st[s])
<1>1. SerialView(s) = st[s]
  BY DEF SerialView
<1>2. SearchInv(s)
  BY DEF PInv
<1> QED
  BY <1>1, <1>2, ViewType DEF SearchInv, LeavingInv, Leaving

LEMMA AnswersAreRight == PInv /\ AnswerInv => ParallelismChangesNothing /\ WideSearchIsExact
<1> SUFFICES ASSUME PInv, AnswerInv, NEW s \in Searches, pc[s] = "done"
             PROVE  /\ Result(query[s], st[s]) = BasicSearch(query[s])
                    /\ query[s].ef >= Cardinality(Points) /\ query[s].allowed = Points
                          => Result(query[s], st[s]) = ExactAnswer(query[s])
  BY DEF ParallelismChangesNothing, WideSearchIsExact
<1> DEFINE q == query[s]
           v == st[s]
<1>1. q \in Queries /\ v \in SearchStates /\ SerialView(s) = v /\ Finished(q, v)
  BY DoneFacts
<1>2. PICK n \in 0 .. Cardinality(Points) : v = Hops(q)[n]
  BY <1>1 DEF AnswerInv
<1>3. Wide(q) => WideInv(q, v)
  BY <1>1 DEF AnswerInv
<1> HIDE DEF q, v
<1>4. Result(q, v) = BasicSearch(q)
  BY <1>1, <1>2, HopsStay DEF BasicSearch
<1>5. Wide(q) => Result(q, v) = ExactAnswer(q)
  BY <1>1, <1>3, WideAnswer
<1> QED
  BY <1>4, <1>5 DEF Wide, q, v

LEMMA Answers == Spec => [](PInv /\ AnswerInv)
<1>1. Init => PInv /\ AnswerInv
  BY InitPInv, InitAnswer
<1>2. PInv /\ AnswerInv /\ [Next]_vars => PInv' /\ AnswerInv'
  BY NextPInv, NextAnswer
<1> QED
  BY <1>1, <1>2, PTL DEF Spec

(* Whatever the graph, the query, the number of workers and the size of the    *)
(* pool and of the queues, and in whatever order the workers do their tasks, a  *)
(* parallel search that returns has the result of the search on one thread.     *)
THEOREM ParallelSearchIsSerial == Spec => []ParallelismChangesNothing
<1> QED
  BY Answers, AnswersAreRight, PTL

(* A parallel search without a filter whose ef is no less than the number of    *)
(* points returns exactly the nearest, or those within the radius, of the       *)
(* points its graph leads to.                                                *)
THEOREM WideSearchExact == Spec => []WideSearchIsExact
<1> QED
  BY Answers, AnswersAreRight, PTL
=============================================================================
