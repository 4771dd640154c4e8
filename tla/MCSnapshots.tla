---------------------------- MODULE MCSnapshots ----------------------------
(* One run and its target, and two clients: the first brings the run        *)
(* forward, the second gets in its way.  See MCSnapshots.cfg for the bounds. *)
EXTENDS Snapshots

CONSTANTS c1, c2

TwoClients == {c1, c2}

MCRequests ==
  [c \in TwoClients |->
     IF c = c1 THEN {"create", "approve", "resume", "restore"}
     ELSE {"cancel", "rollback", "save", "delete", "cleanup", "orphans"}]
=============================================================================
