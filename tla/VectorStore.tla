---------------------------- MODULE VectorStore ----------------------------
(***************************************************************************)
(* What an index promises to its users, apart from how good its search is:  *)
(* a store that maps each label to at most one vector.  Add puts a label    *)
(* that is absent, Remove takes one away, Rename gives a vector a label     *)
(* that is absent, Update gives a label that is present another vector.     *)
(***************************************************************************)
CONSTANTS Labels, Vectors, NoVector

VARIABLE live

Init == live = [l \in Labels |-> NoVector]

Add(l, v) ==
    /\ live[l] = NoVector
    /\ live' = [live EXCEPT ![l] = v]

Remove(l) == live' = [live EXCEPT ![l] = NoVector]

Rename(l, m) ==
    /\ live[m] = NoVector
    /\ live' = [live EXCEPT ![m] = live[l], ![l] = NoVector]

Update(l, v) ==
    /\ live[l] # NoVector
    /\ live' = [live EXCEPT ![l] = v]

Edit ==
    \/ \E l \in Labels, v \in Vectors : Add(l, v)
    \/ \E l \in Labels : Remove(l)
    \/ \E l, m \in Labels : Rename(l, m)

Next == Edit \/ \E l \in Labels, v \in Vectors : Update(l, v)

Spec == Init /\ [][Next]_live
============================================================================
