--------------------------- MODULE BasicSearcher ---------------------------
(***************************************************************************)
(* BasicSearcher (impl/searcher/basic_searcher.cpp): several searches, each  *)
(* on a thread of its own, that share nothing but the graph.  A hop is one   *)
(* step, since nobody else sees its visited list or its heaps.              *)
(***************************************************************************)
EXTENDS GraphSearch

CONSTANTS
    Searches,       \* the threads that search
    QueriesOf       \* the queries each search may be given

VARIABLES
    query,          \* what each search looks for
    st,             \* visited list, heaps and bound of each search
    done            \* whether it has returned

vars == <<query, st, done>>

Init ==
    /\ query \in {q \in [Searches -> UNION Range(QueriesOf)] :
                     \A s \in Searches : q[s] \in QueriesOf[s]}
    /\ st = [s \in Searches |-> Started(query[s])]
    /\ done = [s \in Searches |-> FALSE]

\* One round of the loop.
TakeHop(s) ==
    /\ ~ done[s]
    /\ ~ Finished(query[s], st[s])
    /\ st' = [st EXCEPT ![s] = Hop(query[s], @)]
    /\ UNCHANGED <<query, done>>

Return(s) ==
    /\ ~ done[s]
    /\ Finished(query[s], st[s])
    /\ done' = [done EXCEPT ![s] = TRUE]
    /\ UNCHANGED <<query, st>>

Next == \E s \in Searches : TakeHop(s) \/ Return(s)

Spec == Init /\ [][Next]_vars
=============================================================================
