--------------------------- MODULE ParallelSearch ---------------------------
(***************************************************************************)
(* ParallelSearcher (impl/searcher/parallel_searcher.cpp), several searches *)
(* at a time over one thread pool.  A search enqueues NumThreads workers,   *)
(* and in each hop splits the gathered points among them and itself: a task *)
(* goes to each worker's own queue (utils/spsc_queue.h), possibly of no     *)
(* points; the searching thread computes the rest and spins until num_points*)
(* says that all distances are there.  Tasks without points are not waited  *)
(* for and may be taken hops later.  A worker spins until it is sent        *)
(* nullptr, so it keeps its pool thread for the whole search.               *)
(*                                                                         *)
(* Push and Pop are taken apart where the other side can look: a slot is    *)
(* written, then write_idx moves; a slot is read, then read_idx moves.      *)
(* The model is of a build whose loads and stores are seen in order (x86):  *)
(* num_points is read with memory_order_relaxed.                            *)
(***************************************************************************)
EXTENDS GraphSearch

CONSTANTS
    Searches,       \* the threads that search
    NumThreads,     \* parallel_search_thread_count - 1
    PoolSize,       \* the threads of the pool
    QueueSize,      \* the N of SPSCQueue (1024)
    MaxLine,        \* graph->MaximumDegree(), the length of the vectors of a hop
    QueriesOf       \* the queries each search of this instance may be given

ASSUME ParallelAssumption ==
    /\ NumThreads \in Nat \ {0} /\ PoolSize \in Nat \ {0} /\ QueueSize \in Nat \ {0}
    /\ MaxLine \in Nat /\ \A p \in Points : Len(Neighbors[p]) <= MaxLine
    /\ 0 \in Points
    /\ QueriesOf \in [Searches -> SUBSET Queries]

VARIABLES
    query,          \* what each search looks for
    st,             \* visited list, heaps and bound of each search
    pc,             \* where each search is
    ids,            \* to_be_visited_id, with what earlier hops left behind
    count,          \* count_no_visited
    line_dists,     \* line_dists: written by the workers and the search
    num_points,     \* num_points
    offset,         \* offset: how many points were given away
    nextq,          \* the worker whose queue is pushed to next
    queues,         \* queues: buffer and the two indices of each
    pool,           \* the tasks of the pool that wait for a thread, in order
    worker          \* what each worker does and the item it holds

vars == <<query, st, pc, ids, count, line_dists, num_points, offset, nextq, queues,
          pool, worker>>

Workers == 1 .. NumThreads

Task(from, size) == [from |-> from, count |-> size, nullptr |-> FALSE]

Nullptr == [from |-> 0, count |-> 0, nullptr |-> TRUE]

EmptyQueue == [buffer |-> [i \in 0 .. QueueSize - 1 |-> Nullptr],
               write_idx |-> 0, read_idx |-> 0]

Init ==
    /\ query \in {q \in [Searches -> UNION Range(QueriesOf)] :
                     \A s \in Searches : q[s] \in QueriesOf[s]}
    /\ st = [s \in Searches |-> Started(query[s])]
    /\ pc = [s \in Searches |-> "enqueue"]
    /\ ids = [s \in Searches |-> [i \in 1 .. MaxLine |-> 0]]
    /\ count = [s \in Searches |-> 0]
    /\ line_dists = [s \in Searches |-> [i \in 1 .. MaxLine |-> 0]]
    /\ num_points = [s \in Searches |-> 0]
    /\ offset = [s \in Searches |-> 0]
    /\ nextq = [s \in Searches |-> 1]
    /\ queues = [s \in Searches |-> [w \in Workers |-> EmptyQueue]]
    /\ pool = <<>>
    /\ worker = [s \in Searches |-> [w \in Workers |-> [pc |-> "queued", item |-> Nullptr]]]

----------------------------------------------------------------------------
(* SPSCQueue.                                                               *)

Full(q) == q.write_idx + 1 - q.read_idx >= QueueSize

WriteSlot(q, item) == [q EXCEPT !.buffer[q.write_idx % QueueSize] = item]

Publish(q) == [q EXCEPT !.write_idx = @ + 1]

Empty(q) == q.read_idx = q.write_idx

ReadSlot(q) == q.buffer[q.read_idx % QueueSize]

Release(q) == [q EXCEPT !.read_idx = @ + 1]

----------------------------------------------------------------------------
(* The searching thread.                                                    *)

\* GeneralEnqueue of one worker after the other; searches interleave here.
EnqueueWorker(s) ==
    /\ pc[s] = "enqueue"
    /\ pool' = Append(pool, <<s, nextq[s]>>)
    /\ IF nextq[s] = NumThreads
       THEN /\ pc' = [pc EXCEPT ![s] = "hop"]
            /\ nextq' = [nextq EXCEPT ![s] = 1]
       ELSE /\ nextq' = [nextq EXCEPT ![s] = @ + 1]
            /\ UNCHANGED pc
    /\ UNCHANGED <<query, st, ids, count, line_dists, num_points, offset, queues, worker>>

\* A hop that starts from the count of the last one.
NextHopKeepsCount(s) ==
    LET best  == Nearest(st[s].cand)
        found == Visit(query[s], st[s], best[2])
    IN
    /\ pc[s] = "hop"
    /\ ~ Finished(query[s], st[s])
    /\ st' = [st EXCEPT ![s].cand = @ \ {best}, ![s].visited = found.visited]
    /\ ids' = [ids EXCEPT ![s] = [i \in 1 .. MaxLine |->
                 IF i <= Len(found.batch) THEN found.batch[i] ELSE @[i]]]
    /\ count' = [count EXCEPT ![s] = Len(found.batch)]
    /\ offset' = [offset EXCEPT ![s] = 0]
    /\ pc' = [pc EXCEPT ![s] = "push"]
    /\ UNCHANGED <<query, line_dists, num_points, nextq, queues, pool, worker>>

\* The next candidate is taken and its neighbours are gathered.
NextHop(s) ==
    LET best  == Nearest(st[s].cand)
        found == Visit(query[s], st[s], best[2])
    IN
    /\ pc[s] = "hop"
    /\ ~ Finished(query[s], st[s])
    /\ st' = [st EXCEPT ![s].cand = @ \ {best}, ![s].visited = found.visited]
    /\ ids' = [ids EXCEPT ![s] = [i \in 1 .. MaxLine |->
                 IF i <= Len(found.batch) THEN found.batch[i] ELSE @[i]]]
    /\ count' = [count EXCEPT ![s] = Len(found.batch)]
    /\ num_points' = [num_points EXCEPT ![s] = 0]
    /\ offset' = [offset EXCEPT ![s] = 0]
    /\ pc' = [pc EXCEPT ![s] = "push"]
    /\ UNCHANGED <<query, line_dists, nextq, queues, pool, worker>>

\* A split that rounds every share up.
ShareRoundedUp(s, w) ==
    (count[s] + NumThreads) \div (NumThreads + 1)

\* How many points the w-th worker gets; the searching thread takes the rest.
Share(s, w) ==
    count[s] \div (NumThreads + 1)
        + (IF w <= count[s] % (NumThreads + 1) THEN 1 ELSE 0)

\* The push to one queue is over, the next queue is next.
Pushed(s) ==
    LET stopping == pc[s] \in {"stop", "publish_stop"} IN
    /\ nextq' = [nextq EXCEPT ![s] = IF @ < NumThreads THEN @ + 1 ELSE 1]
    /\ pc' = [pc EXCEPT ![s] =
                 IF nextq[s] < NumThreads THEN IF stopping THEN "stop" ELSE "push"
                 ELSE IF stopping THEN "join" ELSE "wait"]

\* Push of a task, or of nullptr at the end: the slot is written.  On a full
\* queue Push returns false and nobody looks, so the item is lost.
PushSlot(s) ==
    LET w    == nextq[s]
        item == IF pc[s] = "push" THEN Task(offset[s], Share(s, w)) ELSE Nullptr
    IN
    /\ pc[s] \in {"push", "stop"}
    /\ offset' = [offset EXCEPT ![s] = @ + item.count]
    /\ IF Full(queues[s][w])
       THEN Pushed(s) /\ UNCHANGED queues
       ELSE /\ queues' = [queues EXCEPT ![s][w] = WriteSlot(@, item)]
            /\ pc' = [pc EXCEPT ![s] = IF @ = "push" THEN "publish" ELSE "publish_stop"]
            /\ UNCHANGED nextq
    /\ UNCHANGED <<query, st, ids, count, line_dists, num_points, pool, worker>>

PushIndex(s) ==
    /\ pc[s] \in {"publish", "publish_stop"}
    /\ queues' = [queues EXCEPT ![s][nextq[s]] = Publish(@)]
    /\ Pushed(s)
    /\ UNCHANGED <<query, st, ids, count, line_dists, num_points, offset, pool, worker>>

\* Query: the distances of `size` gathered points, from a position on.
Queried(s, from, size) ==
    [i \in 1 .. MaxLine |-> IF i \in from + 1 .. from + size
                            THEN query[s].dist[ids[s][i]] ELSE line_dists[s][i]]

\* The searching thread computes what it gave to nobody.
ComputeRest(s) ==
    LET rest == count[s] - offset[s] IN
    /\ pc[s] = "wait"
    /\ num_points[s] < count[s]
    /\ offset[s] < count[s]
    /\ line_dists' = [line_dists EXCEPT ![s] = Queried(s, offset[s], rest)]
    /\ num_points' = [num_points EXCEPT ![s] = @ + rest]
    /\ offset' = [offset EXCEPT ![s] = @ + rest]
    /\ UNCHANGED <<query, st, pc, ids, count, nextq, queues, pool, worker>>

\* What the hop filled of one of its vectors.
Filled(s, line) == [i \in 1 .. count[s] |-> line[i]]

\* The wait is over: the loop over the points of the hop.
MergeHop(s) ==
    /\ pc[s] = "wait"
    /\ num_points[s] >= count[s]
    /\ st' = [st EXCEPT ![s] = Merge(query[s], @, Filled(s, ids[s]), Filled(s, line_dists[s]))]
    /\ pc' = [pc EXCEPT ![s] = "hop"]
    /\ UNCHANGED <<query, ids, count, line_dists, num_points, offset, nextq, queues, pool, worker>>

\* A search that waits for its workers without telling them to stop.
EndHopsSilently(s) ==
    /\ pc[s] = "hop"
    /\ Finished(query[s], st[s])
    /\ pc' = [pc EXCEPT ![s] = "join"]
    /\ UNCHANGED <<query, st, ids, count, line_dists, num_points, offset, nextq, queues, pool, worker>>

EndHops(s) ==
    /\ pc[s] = "hop"
    /\ Finished(query[s], st[s])
    /\ pc' = [pc EXCEPT ![s] = "stop"]
    /\ UNCHANGED <<query, st, ids, count, line_dists, num_points, offset, nextq, queues, pool, worker>>

\* future.get() of every worker.
Join(s) ==
    /\ pc[s] = "join"
    /\ \A w \in Workers : worker[s][w].pc = "done"
    /\ pc' = [pc EXCEPT ![s] = "done"]
    /\ UNCHANGED <<query, st, ids, count, line_dists, num_points, offset, nextq, queues, pool, worker>>

----------------------------------------------------------------------------
(* The thread pool and the workers.                                         *)

Running == {r \in Searches \X Workers : worker[r[1]][r[2]].pc \notin {"queued", "done"}}

\* A free thread of the pool takes the first task that waits.
StartWorker ==
    /\ pool # <<>>
    /\ Cardinality(Running) < PoolSize
    /\ worker' = [worker EXCEPT ![Head(pool)[1]][Head(pool)[2]].pc = "pop"]
    /\ pool' = Tail(pool)
    /\ UNCHANGED <<query, st, pc, ids, count, line_dists, num_points, offset, nextq, queues>>

\* Pop of a queue that is not empty: the slot is read, then released.
PopSlot(s, w) ==
    /\ worker[s][w].pc = "pop"
    /\ ~ Empty(queues[s][w])
    /\ worker' = [worker EXCEPT ![s][w] = [pc |-> "release", item |-> ReadSlot(queues[s][w])]]
    /\ UNCHANGED <<query, st, pc, ids, count, line_dists, num_points, offset, nextq, queues, pool>>

PopIndex(s, w) ==
    /\ worker[s][w].pc = "release"
    /\ queues' = [queues EXCEPT ![s][w] = Release(@)]
    /\ worker' = [worker EXCEPT ![s][w].pc =
                     IF worker[s][w].item.nullptr THEN "done" ELSE "query"]
    /\ UNCHANGED <<query, st, pc, ids, count, line_dists, num_points, offset, nextq, pool>>

WorkerQuery(s, w) ==
    /\ worker[s][w].pc = "query"
    /\ line_dists' = [line_dists EXCEPT
          ![s] = Queried(s, worker[s][w].item.from, worker[s][w].item.count)]
    /\ worker' = [worker EXCEPT ![s][w].pc = "count"]
    /\ UNCHANGED <<query, st, pc, ids, count, num_points, offset, nextq, queues, pool>>

WorkerCount(s, w) ==
    /\ worker[s][w].pc = "count"
    /\ num_points' = [num_points EXCEPT ![s] = @ + worker[s][w].item.count]
    /\ worker' = [worker EXCEPT ![s][w] = [pc |-> "pop", item |-> Nullptr]]
    /\ UNCHANGED <<query, st, pc, ids, count, line_dists, offset, nextq, queues, pool>>

Search(s) ==
    EnqueueWorker(s) \/ NextHop(s) \/ PushSlot(s) \/ PushIndex(s) \/ ComputeRest(s)
        \/ MergeHop(s) \/ EndHops(s) \/ Join(s)

Work(s, w) == PopSlot(s, w) \/ PopIndex(s, w) \/ WorkerQuery(s, w) \/ WorkerCount(s, w)

AllDone == \A s \in Searches : pc[s] = "done"

Next ==
    \/ StartWorker
    \/ \E s \in Searches, w \in Workers : Work(s, w)
    \/ \E s \in Searches : Search(s)
    \/ AllDone /\ UNCHANGED vars

\* As long as some thread can go on, one does: the operating system schedules
\* the searching threads and those of the pool and preempts the spinning ones.
\* (A step of a thread that spins changes nothing and is no action.)
Spec == Init /\ [][Next]_vars /\ WF_vars(Next)

----------------------------------------------------------------------------
(* Properties.                                                              *)

\* What the search on one thread would have: a hop takes effect as soon as its
\* points are gathered, with the distances they really have.
SerialView(s) ==
    IF pc[s] \in {"push", "publish", "wait"}
    THEN Merge(query[s], st[s], Filled(s, ids[s]),
               [i \in 1 .. count[s] |-> query[s].dist[ids[s][i]]])
    ELSE st[s]

Basic == INSTANCE BasicSearcher WITH
            st <- [s \in Searches |-> SerialView(s)],
            done <- [s \in Searches |-> pc[s] = "done"]

\* Hop by hop, parallel searches do what BasicSearchers do: no step of a worker
\* or of another search can be told from outside, whichever workers computed
\* the distances of a hop and in whatever order they came.
ImplementsBasicSearchers == Basic!Spec

\* However the points of a hop were split, whenever the workers took their
\* tasks, and however late a task without points is taken, a parallel search
\* returns what the search on one thread returns.
ParallelismChangesNothing ==
    \A s \in Searches : pc[s] = "done" =>
        Result(query[s], st[s]) = BasicSearch(query[s])

\* When ef has room for every point and nothing is filtered, the answer is
\* exact over the points that can be reached.
WideSearchIsExact ==
    \A s \in Searches :
        pc[s] = "done" /\ query[s].ef >= Cardinality(Points) /\ query[s].allowed = Points
            => Result(query[s], st[s]) = ExactAnswer(query[s])

\* The positions of line_dists a worker writes belong to the hop under way:
\* while it holds a task with points the search waits (or still hands tasks
\* out), so the ids it reads and the count it adds to are not the next hop's.
TasksBelongToTheHop ==
    \A s \in Searches, w \in Workers :
        worker[s][w].item.count > 0 =>
            /\ pc[s] \in {"push", "publish", "wait"}
            /\ worker[s][w].item.from + worker[s][w].item.count <= count[s]

\* Every search returns: no hop waits for a distance nobody computes and no
\* worker waits for a nullptr that was never sent.
EverySearchReturns == \A s \in Searches : <>(pc[s] = "done")
=============================================================================
