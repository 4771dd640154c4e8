------------------------- MODULE MCSubtaskScheduler -------------------------
(* Small task graphs for TLC.                                              *)
EXTENDS SubtaskScheduler

CONSTANTS r1, r2, a, b, c

OneRun == {r1}
TwoRuns == {r1, r2}
TwoNodes == {1, 2}
ThreeNodes == {1, 2, 3}
TwoAgents == {a, b}
ThreeAgents == {a, b, c}

\* All nodes in one run, or the last one in a run of its own.
SameRun == [n \in Nodes |-> r1]
LastAlone == [n \in Nodes |-> IF n = 3 THEN r2 ELSE r1]

Apart == [n \in Nodes |-> {}]
Pair == [n \in Nodes |-> IF n = 2 THEN {1} ELSE {}]
\* 3 joins 1 and 2.
Join == [n \in Nodes |-> IF n = 3 THEN {1, 2} ELSE {}]

NoPins == [n \in Nodes |-> NoAgent]
\* 2 and 3 share an agent.
SharedPins == [n \in Nodes |-> IF n = 1 THEN b ELSE a]
=============================================================================
