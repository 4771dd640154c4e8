------------------------------- MODULE Mirror -------------------------------
(***************************************************************************)
(* What a page that shows a run owes its reader: it never makes a state    *)
(* up, and never goes back to one older than it has shown.                 *)
(***************************************************************************)
EXTENDS Naturals

VARIABLES
  row,   \* how often the run has changed
  shown  \* the change the page shows

vars == <<row, shown>>

Init == row = 0 /\ shown = 0

\* The run goes on.
Change == row' = row + 1 /\ UNCHANGED shown

\* The page looks again.
Look == shown' \in shown..row /\ UNCHANGED row

Next == Change \/ Look

Spec == Init /\ [][Next]_vars
=============================================================================
