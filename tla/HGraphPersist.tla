--------------------------- MODULE HGraphPersist ----------------------------
(***************************************************************************)
(* HGraph with its persistence (algorithm/hgraph/hgraph_serialize.cpp): the *)
(* calls of HGraph, and Clone, which serializes the index and reads the     *)
(* bytes into a new one (inner_index_interface.cpp).  Saving to a stream or *)
(* a BinarySet and loading it in another process write and read the same    *)
(* bytes, so Clone stands for a restart from a save as well: what follows   *)
(* is a call on the index that was read.                                    *)
(*                                                                         *)
(* One piece of state is added, because only a load reads it: the number    *)
(* of vectors the cell of codes has counted.  The formats before v0.15,     *)
(* which the code still reads, and support_duplicate_ are left out.         *)
(***************************************************************************)
EXTENDS HGraph

VARIABLE codes_count    \* basic_flatten_codes_->total_count_

pvars == <<vars, codes_count>>

PersistInit == Init /\ codes_count = 0

\* InsertVector raises the count to the id it writes; nothing lowers it.
CountCodes(id) == codes_count' = IF id + 1 > codes_count THEN id + 1 ELSE codes_count

----------------------------------------------------------------------------
(* What a serialized index reads back as.                                   *)

\* A ReadLabels that fills the vector of labels and not the map.
ReadLabelsAlone == [EmptyTable EXCEPT !.table = lt.table, !.size = lt.size]

\* The label vector and the map are written; deleted_ids_ is not.
ReadLabels == [EmptyTable EXCEPT !.table = lt.table, !.size = lt.size, !.remap = lt.remap]

NoReverseEdges == [i \in Ids |-> {}]

\* GraphDataCell: the lists and the count, without the reverse edges.
ReadDense(g) == [g EXCEPT !.rev = NoReverseEdges]

\* SparseGraphDataCell: likewise, and the count is the number of lists read.
\* (With support_remove off neither cell writes versions of its points.)
ReadSparse(g) == [g EXCEPT !.rev = NoReverseEdges, !.any = g.has # {}]

\* The number of points is what the cell of codes says it is.
ReadTotal == codes_count

Clone ==
    /\ lt' = ReadLabels
    /\ total_count' = ReadTotal
    /\ delete_count' = 0
    /\ bottom' = ReadDense(bottom)
    /\ routes' = [j \in DOMAIN routes |-> ReadSparse(routes[j])]
    /\ UNCHANGED <<max_capacity, codes, entry, codes_count>>

Edit ==
    \/ \E label \in Labels, v \in Vectors, level \in -1 .. MaxLevel :
          Add(label, v, level) /\ CountCodes(total_count)
    \/ \E label \in Labels : RemoveMark(label) /\ UNCHANGED codes_count
    \/ \E old, new \in Labels : UpdateId(old, new) /\ UNCHANGED codes_count
    \/ \E label \in Labels, v \in Vectors :
          UpdateVector(label, v) /\ UNCHANGED codes_count

Shrink == \E label \in Labels : RemoveForce(label) /\ UNCHANGED codes_count

PersistNext == Edit \/ Shrink \/ Clone

PersistSpec == PersistInit /\ [][PersistNext]_pvars

\* The last point is the one its label is mapped to.  Move gives that label its
\* new id whatever it was mapped to: another point with the same label, added
\* after this one was marked as removed, would lose it.
LastIsMapped ==
    total_count > 0 => IdOf(lt, lt.table[total_count - 1]) = total_count - 1

\* The calls whose effects the code keeps apart: FORCE_REMOVE while the last
\* point is mapped and the reverse edges are complete, and Clone while nothing
\* is removed.  The run hg_clone shows what Clone does otherwise.
ApartNext ==
    \/ Edit
    \/ LastIsMapped /\ ReverseEdgesMirror /\ Shrink
    \/ lt.deleted = {} /\ codes_count = total_count /\ Clone

ApartSpec == PersistInit /\ [][ApartNext]_pvars

----------------------------------------------------------------------------
(* Properties.                                                              *)

\* The ids whose lists FORCE_REMOVE of a point would repair.
Repaired == [i \in Ids |-> Incoming(bottom, i)]

\* A clone is a copy: a search finds the same labels in it, it has the same
\* number of elements, and a later FORCE_REMOVE finds the same lists to repair.
CloneIsACopy ==
    [][Clone => /\ {lt.table[i] : i \in Searchable}' = {lt.table[i] : i \in Searchable}
                /\ GetNumElements' = GetNumElements
                /\ Repaired' = Repaired]_pvars
=============================================================================
