----------------------------- MODULE MCJobQueue -----------------------------
(* Small instances of the job queue for TLC.                               *)
EXTENDS JobQueue, TLC

CONSTANTS r1, t1, t2, a, b

OneRun == {r1}
TwoThreads == {t1, t2}
TwoNodes == {a, b}
NoTypes == {}
Decompose == {"research", "decompose"}

ThreadSymmetry == Permutations(TwoThreads)
=============================================================================
