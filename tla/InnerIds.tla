------------------------------ MODULE InnerIds ------------------------------
(* The inner ids an index allocates for its points: 0, 1, 2, ... (typing.h). *)
EXTENDS Integers

CONSTANT MaxId      \* bound: how many inner ids an instance may allocate

ASSUME MaxIdAssumption == MaxId \in Nat

Ids == 0 .. MaxId - 1

\* numeric_limits<InnerIdType>::max(): an id that no point ever has.
INVALID_ID == -1
=============================================================================
