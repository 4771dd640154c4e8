--------------------------- MODULE MCRunLifecycle ---------------------------
(* Small instances of the life of a run for TLC.                           *)
EXTENDS RunLifecycle

CONSTANTS c1, c2

OneClient == {c1}
TwoClients == {c1, c2}
=============================================================================
