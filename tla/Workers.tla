------------------------------ MODULE Workers ------------------------------
(***************************************************************************)
(* How FastHNSW shares nodes out among goroutines (internal/core/          *)
(* parallel.go): contiguous intervals whose bounds are integer quotients.   *)
(***************************************************************************)
EXTENDS Integers

\* Never more workers than nodes, and at least one.
EffectiveWorkerCount(workers, count) ==
    IF workers <= 1 \/ count <= 1 THEN 1
    ELSE IF workers > count THEN count ELSE workers

\* A share whose size is rounded down loses the last nodes.
ShareRoundedDown(w, count, workerCount) ==
    w * (count \div workerCount) .. (w + 1) * (count \div workerCount) - 1

\* The nodes of worker w, one of 0 .. workerCount - 1.
NodesOf(w, count, workerCount) ==
    (w * count) \div workerCount .. ((w + 1) * count) \div workerCount - 1
=============================================================================
