------------------------------ MODULE RunStates ------------------------------
(***************************************************************************)
(* The status table of a run (backend/run_state.py) and the two groups of  *)
(* final statuses the orchestrator distinguishes.  Pure definitions: every *)
(* module that moves a run validates its move against this table.          *)
(***************************************************************************)

AllowedTransitions ==
  [ planning_provisional |-> {"waiting_for_ollama", "failed", "cancelled"},
    waiting_for_ollama   |-> {"researching", "implementing", "verifying",
                              "post_check", "failed", "cancelled"},
    decomposing          |-> {"researching", "awaiting_approval", "failed",
                              "cancelled"},
    researching          |-> {"plan_ready", "awaiting_approval",
                              "waiting_for_ollama", "failed", "cancelled"},
    plan_ready           |-> {"awaiting_approval", "failed", "cancelled"},
    awaiting_approval    |-> {"researching", "decomposing", "implementing",
                              "waiting_for_ollama", "cancelled"},
    implementing         |-> {"verifying", "waiting_for_ollama", "failed",
                              "cancelled"},
    verifying            |-> {"implementing", "decomposing",
                              "awaiting_approval", "applying",
                              "waiting_for_ollama", "failed", "cancelled"},
    applying             |-> {"post_check", "failed", "rolled_back"},
    post_check           |-> {"completed", "waiting_for_ollama", "failed",
                              "rolled_back"},
    failed               |-> {"researching", "implementing",
                              "waiting_for_ollama", "rolled_back",
                              "cancelled"},
    completed            |-> {"rolled_back"},
    cancelled            |-> {},
    rolled_back          |-> {"rolled_back"} ]

RunStatuses == DOMAIN AllowedTransitions

\* validate_transition: a move to the present status is always accepted.
ValidTransition(current, target) ==
  current = target \/ target \in AllowedTransitions[current]

TerminalRunStates == {"completed", "failed", "cancelled", "rolled_back"}

\* A failed run can be resumed, so its job tree is kept.
SweepableRunStates == TerminalRunStates \ {"failed"}

(***************************************************************************)
(* The job queue looks at a run's status only through these classes.       *)
(***************************************************************************)
RunClasses == {"active", "waiting", "applying", "failed", "cancelled",
               "finished"}

RunClass(s) ==
  CASE s = "waiting_for_ollama"            -> "waiting"
    [] s \in {"applying", "post_check"}    -> "applying"
    [] s = "failed"                        -> "failed"
    [] s = "cancelled"                     -> "cancelled"
    [] s \in {"completed", "rolled_back"}  -> "finished"
    [] OTHER                               -> "active"

\* The pairs of classes some move of the table connects.
ClassMoves ==
  { cd \in RunClasses \X RunClasses :
      \E s, t \in RunStatuses : /\ RunClass(s) = cd[1] /\ RunClass(t) = cd[2]
                                /\ ValidTransition(s, t) }

\* The classes no drainer requeues an expired job for.
TerminalClasses == {"failed", "cancelled", "finished"}
=============================================================================
