---------------------------- MODULE MCWorkerCalls ----------------------------
(* Two subtasks of one run call the worker at once; see MCWorkerCalls.cfg.  *)
EXTENDS WorkerCalls

CONSTANTS a, b

TwoCalls == {a, b}
SameName == [c \in TwoCalls |-> c]
TwoEach == [c \in TwoCalls |-> 2]
=============================================================================
