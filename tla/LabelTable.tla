----------------------------- MODULE LabelTable -----------------------------
(***************************************************************************)
(* LabelTable (impl/label_table.h, impl/label_table.cpp): the two-way map   *)
(* between the labels a user chooses and the inner ids the index allocates. *)
(* An index owns one and changes it under its label_lookup_mutex_, so each  *)
(* method is an operator from a table to the table it leaves behind.        *)
(*                                                                         *)
(* A table is a record                                                     *)
(*   table    label_table_, the label of each id                           *)
(*   size     label_table_.size()                                          *)
(*   remap    label_remap_, the id of each label (INVALID_ID: no entry)     *)
(*   deleted  deleted_ids_, the ids that are marked as removed             *)
(*                                                                         *)
(* The index creates it with use_reverse_map = true, support_tombstone =   *)
(* false (inner_index_interface.cpp).  Two fields are left out: hole_list_, *)
(* which is always empty because nothing calls PushHole, and total_count_,  *)
(* which no decision of the modelled code reads.                            *)
(***************************************************************************)
EXTENDS InnerIds, FiniteSets

CONSTANTS
    Labels,     \* the labels users give to their vectors
    Blank       \* the value resize() fills new slots with (label 0)

AnyLabel == Labels \cup {Blank}

Table == [table : [Ids -> AnyLabel], size : 0 .. MaxId,
          remap : [AnyLabel -> Ids \cup {INVALID_ID}], deleted : SUBSET Ids]

EmptyTable ==
    [table |-> [i \in Ids |-> Blank], size |-> 0,
     remap |-> [l \in AnyLabel |-> INVALID_ID], deleted |-> {}]

----------------------------------------------------------------------------
(* Lookups.                                                                 *)

IsRemoved(lt, id) == id \in lt.deleted

\* TryGetIdByLabel(label, true): the id of a label, also when it is removed.
IdOf(lt, label) == lt.remap[label]

Found(lt, label) == IdOf(lt, label) # INVALID_ID

CheckLabel(lt, label) == Found(lt, label) /\ ~ IsRemoved(lt, IdOf(lt, label))

----------------------------------------------------------------------------
(* Updates.                                                                 *)

\* An Insert that takes the id out of deleted_ids_.
InsertRecovers(lt, id, label) ==
    [lt EXCEPT !.remap[label] = id,
               !.table[id] = label,
               !.size = IF id + 1 > @ THEN id + 1 ELSE @,
               !.deleted = @ \ {id}]

Insert(lt, id, label) ==
    [lt EXCEPT !.remap[label] = id,
               !.table[id] = label,
               !.size = IF id + 1 > @ THEN id + 1 ELSE @]

\* A MarkRemove that also drops the label from the map.
MarkRemoveErases(lt, label) ==
    IF Found(lt, label)
    THEN [lt EXCEPT !.remap[label] = INVALID_ID]
    ELSE lt

\* MarkRemove of one label; how many ids it added to deleted_ids_.
MarkRemove(lt, label) ==
    IF Found(lt, label)
    THEN [lt EXCEPT !.deleted = @ \cup {IdOf(lt, label)}]
    ELSE lt

\* A MarkRemove that counts the labels it finds, removed before or not.
MarkRemoveCountFound(lt, label) == IF Found(lt, label) THEN 1 ELSE 0

MarkRemoveCount(lt, label) ==
    Cardinality(MarkRemove(lt, label).deleted) - Cardinality(lt.deleted)

ForceRemove(lt, label, id) ==
    [lt EXCEPT !.remap[label] = INVALID_ID, !.deleted = @ \ {id}]

\* A Move that leaves the map entry of the moved label at its old id.
MoveKeepsRemap(lt, from, to) ==
    [lt EXCEPT !.deleted =
                   (@ \ {from, to}) \cup (IF from \in @ THEN {to} ELSE {}),
               !.remap = [@ EXCEPT ![lt.table[to]] = INVALID_ID],
               !.table[to] = lt.table[from]]

\* The point `from` takes over the id `to`.
Move(lt, from, to) ==
    [lt EXCEPT !.deleted =
                   (@ \ {from, to}) \cup (IF from \in @ THEN {to} ELSE {}),
               !.remap = [[@ EXCEPT ![lt.table[to]] = INVALID_ID]
                             EXCEPT ![lt.table[from]] = to],
               !.table[to] = lt.table[from]]

\* Resize: the ids up to the new size get a slot with the blank label.  It is
\* only called with a size above the number of labels.
Resize(lt, size) == [lt EXCEPT !.size = size]

ShrinkToFit(lt, capacity) ==
    [lt EXCEPT !.table = [i \in Ids |-> IF i < capacity THEN @[i] ELSE Blank],
               !.size = capacity]

\* UpdateLabel: every occurrence of the old label is renamed.  When there is
\* one but the map has no entry the table stays renamed and the call throws.
CanUpdateLabel(lt, old, new) ==
    /\ ~ CheckLabel(lt, new)
    /\ \E i \in Ids : i < lt.size /\ lt.table[i] = old

UpdateLabel(lt, old, new) ==
    LET renamed == [i \in Ids |-> IF i < lt.size /\ lt.table[i] = old
                                  THEN new ELSE lt.table[i]]
    IN  [lt EXCEPT !.table = renamed,
                   !.remap = IF Found(lt, old)
                             THEN [@ EXCEPT ![old] = INVALID_ID,
                                            ![new] = lt.remap[old]]
                             ELSE @]
=============================================================================
