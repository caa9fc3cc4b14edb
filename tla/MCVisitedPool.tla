--------------------------- MODULE MCVisitedPool ---------------------------
(* VisitedPool with two searches, two sub-pools and a tag that wraps after  *)
(* two resets, so that stale entries meet every later tag.                  *)
EXTENDS VisitedPool, TLC

CONSTANTS t1, t2, o1, o2, o3, o4

MCThreads == {t1, t2}
MCObjects == {o1, o2, o3, o4}
MCSymmetry == Permutations(MCThreads) \cup Permutations(MCObjects)
============================================================================
