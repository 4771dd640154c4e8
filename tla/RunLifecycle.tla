---------------------------- MODULE RunLifecycle ----------------------------
(***************************************************************************)
(* The life of one run (backend/orchestrator.py): the row of the runs      *)
(* table, the job handlers that plan, implement, verify and apply it, the  *)
(* user's requests, the pause and release around an Ollama outage and a    *)
(* restart of the process.                                                 *)
(*                                                                         *)
(* A run has at most one active job of a kind and a job one executing      *)
(* thread (JobQueue proves both), so a handler is named by its kind; the   *)
(* kind "work" stands for all the subtask jobs of the task graph.          *)
(* update_run reads the status it validates and writes the row in two      *)
(* statements with nothing around them: every use of it is two steps, the  *)
(* second labelled with the name of the write.                             *)
(***************************************************************************)
EXTENDS Naturals, FiniteSets, RunStates

CONSTANTS
  Clients,       \* concurrent API requests
  Requests,      \* the kinds of requests an instance has
  Workers,       \* drainers, max(runner_concurrency, worker_pool_size)
  RepairCycles,  \* verification cycles of _verify_and_apply (3 in the code)
  Online,        \* whether Ollama answers when the run is created
  MaxPlans, MaxRequests, MaxEdits, MaxExpansions,
  MaxErrors, MaxOutages, MaxRestarts   \* bounds

Handlers == {"provisional", "research", "decompose", "implementation", "work",
             "merge"}

ASSUME LifecycleAssumption ==
  /\ Clients \cap (Handlers \cup {"monitor"}) = {}
  /\ Requests \subseteq {"approve", "edit", "redo", "cancel", "resume", "rollback"}
  /\ Workers \in Nat \ {0} /\ RepairCycles \in Nat \ {0}
  /\ Online \in BOOLEAN
  /\ {MaxPlans, MaxRequests, MaxEdits, MaxExpansions, MaxErrors, MaxOutages,
      MaxRestarts} \subseteq Nat
  /\ MaxPlans > 0

Actors == Handlers \cup Clients \cup {"monitor"}
Appliers == {"implementation", "merge"}

VARIABLES
  run,        \* the row of the runs table
  graph,      \* the subtasks table: the plan they were made from, their state
  workspace,  \* the content of the target
  job,        \* the active job of each kind, "none" when there is none
  pc,         \* the next step of each actor
  mine,       \* what an actor has read: a plan, a content, a status
  cycle,      \* verification cycle of an applier
  made,       \* plans written so far
  count       \* requests, edits, expansions, errors, outages, restarts so far

vars == <<run, graph, workspace, job, pc, mine, cycle, made, count>>

\* A content is a revision the user wrote and how much of the run's change it
\* holds.  No snapshot is NoContent; no plan is 0.
NoContent == [rev |-> 0, change |-> "absent"]
Clean == [rev |-> 0, change |-> "none"]
Nothing == [plan |-> 0, content |-> NoContent, status |-> "failed"]

Init ==
  /\ run = [status   |-> IF Online THEN "researching" ELSE "planning_provisional",
            state    |-> "none", draft |-> 0, hash |-> 0, approved |-> 0,
            baseline |-> Clean, snapshot |-> NoContent,
            error    |-> "none", resume |-> "researching"]
  /\ graph = [of |-> 0, state |-> "none"]
  /\ workspace = Clean
  /\ job = [k \in Handlers |->
              IF k = (IF Online THEN "research" ELSE "provisional")
                THEN "pending" ELSE "none"]
  /\ pc = [a \in Actors |-> "idle"]
  /\ mine = [a \in Actors |-> Nothing]
  /\ cycle = [k \in Appliers |-> 1]
  /\ made = 0
  /\ count = [requests |-> 0, edits |-> 0, expansions |-> 0, errors |-> 0,
              outages |-> 0, restarts |-> 0]

-----------------------------------------------------------------------------
Go(a, label) == pc' = [pc EXCEPT ![a] = label]
Count(what, max) == /\ count[what] < max
                    /\ count' = [count EXCEPT ![what] = @ + 1]
Enqueue(k) == job' = [job EXCEPT ![k] = IF @ = "none" THEN "pending" ELSE @]

\* The status every write of the row moves the run to.
Target ==
  [ saved |-> "waiting_for_ollama", researching |-> "researching",
    ready |-> "awaiting_approval", verifying |-> "verifying",
    expand |-> "decomposing", repair |-> "implementing",
    applying |-> "applying", post_check |-> "post_check",
    completed |-> "completed", restored |-> "rolled_back", failing |-> "failed",
    waiting |-> "waiting_for_ollama",
    stale |-> "researching", edit |-> "decomposing", redo |-> "researching",
    cancel |-> "cancelled", resume |-> "implementing", restart |-> "researching",
    renew |-> "researching", rollback |-> "rolled_back" ]

\* The read half of update_run: validate_transition raises, or the write is next.
Validate(a, write, raises) ==
  Go(a, IF ValidTransition(run.status, Target[write]) THEN write ELSE raises)

-----------------------------------------------------------------------------
(* The queue, as far as one run sees it.                                   *)

Executing == { k \in Handlers : pc[k] # "idle" }

Claim(k) ==
  /\ job[k] = "pending" /\ pc[k] = "idle"
  /\ Cardinality(Executing) < Workers
  /\ job' = [job EXCEPT ![k] = "running"]
  /\ Go(k, "start")
  /\ UNCHANGED <<run, graph, workspace, mine, cycle, made, count>>

\* The drainer writes the final status of the job.
Finalize(k) ==
  /\ pc[k] = "ended"
  /\ job' = [job EXCEPT ![k] = "none"]
  /\ Go(k, "idle")
  /\ mine' = [mine EXCEPT ![k] = Nothing]
  /\ UNCHANGED <<run, graph, workspace, cycle, made, count>>

-----------------------------------------------------------------------------
(* How every handler may end: the run is over, a call raises, the outer     *)
(* except block.                                                            *)

Quits(k) == IF k \in {"work", "merge"} THEN {"cancelled", "failed"} ELSE {"cancelled"}

RunIsOver(k) ==
  /\ pc[k] = "start" /\ run.status \in Quits(k)
  /\ Go(k, "ended")
  /\ UNCHANGED <<run, graph, workspace, job, mine, cycle, made, count>>

Starts(k) == pc[k] = "start" /\ run.status \notin Quits(k)

\* A brain or worker call, a check or a copy raises; decompose_plan forgets
\* the hash on its way out.
CallRaises(k) ==
  /\ pc[k] \in {"brain", "decompose", "worker", "solo", "verifiers", "verdict",
                "gate", "repairing", "copying", "copied", "checking"}
  /\ Count("errors", MaxErrors)
  /\ run' = IF pc[k] = "decompose" THEN [run EXCEPT !.hash = 0] ELSE run
  /\ Go(k, "except")
  /\ UNCHANGED <<graph, workspace, job, mine, cycle, made>>

\* An applier caught in an apply restores the snapshot; any other handler fails
\* the run, and gives up if the run may not fail (it was cancelled).
Except(k) ==
  /\ pc[k] = "except"
  /\ IF /\ k \in Appliers /\ run.status \in {"applying", "post_check"}
        /\ run.snapshot # NoContent
       THEN workspace' = run.snapshot /\ Validate(k, "restored", "ended")
       ELSE Validate(k, "failing", "ended") /\ UNCHANGED workspace
  /\ UNCHANGED <<run, graph, job, mine, cycle, made, count>>

Fail(k) ==
  /\ pc[k] = "failing"
  /\ run' = [run EXCEPT !.status = "failed", !.error = "other"]
  /\ Go(k, "ended")
  /\ UNCHANGED <<graph, workspace, job, mine, cycle, made, count>>

-----------------------------------------------------------------------------
(* Planning: provisional_plan_run, research_run, regenerate_graph.         *)

NewPlan == made < MaxPlans /\ made' = made + 1

StartProvisional ==
  /\ Starts("provisional")
  /\ Go("provisional", "brain")
  /\ UNCHANGED <<run, graph, workspace, job, mine, cycle, made, count>>

\* A provisional plan's research stages the workspace afresh.
StartResearch ==
  /\ Starts("research")
  /\ run' = IF run.state = "provisional" THEN [run EXCEPT !.baseline = workspace]
            ELSE run
  /\ Validate("research", "researching", "except")
  /\ UNCHANGED <<graph, workspace, job, mine, cycle, made, count>>

Research ==
  /\ pc["research"] = "researching"
  /\ run' = [run EXCEPT !.status = "researching"]
  /\ Go("research", "worker")
  /\ UNCHANGED <<graph, workspace, job, mine, cycle, made, count>>

Researched ==
  /\ pc["research"] = "worker"
  /\ Go("research", IF run.status = "cancelled" THEN "ended" ELSE "brain")
  /\ UNCHANGED <<run, graph, workspace, job, mine, cycle, made, count>>

\* The Brain answers with a plan.
Planned(k) ==
  /\ k \in {"provisional", "research"} /\ pc[k] = "brain"
  /\ NewPlan
  /\ mine' = [mine EXCEPT ![k].plan = made + 1]
  /\ IF k = "provisional" THEN Validate(k, "saved", "except")
     ELSE Go(k, IF run.status = "cancelled" THEN "ended" ELSE "decompose")
  /\ UNCHANGED <<run, graph, workspace, job, cycle, count>>

\* Mutant: the run is to go back to the status it had, as a paused one is.
SaveRemembersPrior ==
  /\ pc["provisional"] = "saved"
  /\ run' = [run EXCEPT !.status = "waiting_for_ollama", !.state = "provisional",
                        !.draft = mine["provisional"].plan,
                        !.resume = run.status]
  /\ Go("provisional", "park")
  /\ UNCHANGED <<graph, workspace, job, mine, cycle, made, count>>

Save ==
  /\ pc["provisional"] = "saved"
  /\ run' = [run EXCEPT !.status = "waiting_for_ollama", !.state = "provisional",
                        !.draft = mine["provisional"].plan,
                        !.resume = "researching"]
  /\ Go("provisional", "park")
  /\ UNCHANGED <<graph, workspace, job, mine, cycle, made, count>>

\* enqueue_waiting_job of the research.
Park ==
  /\ pc["provisional"] = "park"
  /\ job' = [job EXCEPT !["research"] = IF @ = "none" THEN "waiting" ELSE @]
  /\ Go("provisional", "ended")
  /\ UNCHANGED <<run, graph, workspace, mine, cycle, made, count>>

StartDecompose ==
  /\ Starts("decompose")
  /\ mine' = [mine EXCEPT !["decompose"].plan = run.draft]
  /\ Go("decompose", "decompose")
  /\ UNCHANGED <<run, graph, workspace, job, cycle, made, count>>

\* Mutant: a graph that is there is kept.
DecomposeOnce(k) ==
  /\ pc[k] = "decompose"
  /\ graph' = IF graph.state = "none" THEN [of |-> mine[k].plan, state |-> "open"]
              ELSE graph
  /\ Go(k, "hash")
  /\ UNCHANGED <<run, workspace, job, mine, cycle, made, count>>

\* decompose_plan: the subtasks table is replaced ...
Decompose(k) ==
  /\ pc[k] = "decompose"
  /\ graph' = [of |-> mine[k].plan, state |-> "open"]
  /\ Go(k, "hash")
  /\ UNCHANGED <<run, workspace, job, mine, cycle, made, count>>

\* ... and then the plan it belongs to recorded.
RecordHash(k) ==
  /\ pc[k] = "hash"
  /\ run' = [run EXCEPT !.hash = mine[k].plan]
  /\ Validate(k, "ready", "except")
  /\ UNCHANGED <<graph, workspace, job, mine, cycle, made, count>>

Ready(k) ==
  /\ pc[k] = "ready"
  /\ run' = IF k = "research"
              THEN [run EXCEPT !.status = "awaiting_approval", !.state = "refined",
                               !.draft = mine[k].plan, !.resume = "researching"]
              ELSE [run EXCEPT !.status = "awaiting_approval", !.state = "refined",
                               !.error = "none"]
  /\ Go(k, "ended")
  /\ UNCHANGED <<graph, workspace, job, mine, cycle, made, count>>

-----------------------------------------------------------------------------
(* Implementing: implement_run, the subtask jobs, _merge_and_verify.       *)

StartImplementation ==
  /\ Starts("implementation")
  /\ Go("implementation", IF graph.state = "none" THEN "solo" ELSE "dispatch")
  /\ UNCHANGED <<run, graph, workspace, job, mine, cycle, made, count>>

RunLocked == \E c \in Clients : pc[c] \in {"stale", "snapshot", "reuse", "fresh",
                                           "redo", "redone"}

\* Mutant: the merge is not queued.
DispatchWithoutMerge(k) ==
  /\ pc[k] = "dispatch" /\ ~ RunLocked
  /\ IF graph.state = "closed"
       THEN Validate(k, "failing", "ended") /\ UNCHANGED job
       ELSE /\ IF graph.state = "open" THEN Enqueue("work") ELSE UNCHANGED job
            /\ Go(k, "ended")
  /\ UNCHANGED <<run, graph, workspace, mine, cycle, made, count>>

\* _enqueue_ready_subtasks.
Dispatch(k) ==
  /\ pc[k] = "dispatch" /\ ~ RunLocked
  /\ IF graph.state = "closed"
       THEN Validate(k, "failing", "ended") /\ UNCHANGED job
       ELSE /\ CASE graph.state = "open" -> Enqueue("work")
                 [] graph.state = "done" -> Enqueue("merge")
                 [] OTHER -> UNCHANGED job
            /\ Go(k, "ended")
  /\ UNCHANGED <<run, graph, workspace, mine, cycle, made, count>>

StartWork ==
  /\ Starts("work")
  /\ Go("work", "working")
  /\ UNCHANGED <<run, graph, workspace, job, mine, cycle, made, count>>

\* The subtasks are all done, or some failed and blocked the rest.
Work ==
  /\ pc["work"] = "working"
  /\ IF graph.state = "open"
       THEN \E s \in {"done", "closed"} : graph' = [graph EXCEPT !.state = s]
       ELSE UNCHANGED graph
  /\ Go("work", "dispatch")
  /\ UNCHANGED <<run, workspace, job, mine, cycle, made, count>>

\* A graph with an unfinished task raises; a merge conflict fails the run.
StartMerge ==
  /\ Starts("merge")
  /\ IF graph.state # "done" THEN Go("merge", "except")
     ELSE Go("merge", "verify") \/ Validate("merge", "failing", "ended")
  /\ UNCHANGED <<run, graph, workspace, job, mine, cycle, made, count>>

Solo ==
  /\ pc["implementation"] = "solo"
  /\ Go("implementation", IF run.status = "cancelled" THEN "ended" ELSE "verify")
  /\ UNCHANGED <<run, graph, workspace, job, mine, cycle, made, count>>

-----------------------------------------------------------------------------
(* _verify_and_apply.                                                      *)

Verify(k) ==
  /\ pc[k] = "verify"
  /\ cycle' = [cycle EXCEPT ![k] = 1]
  /\ Validate(k, "verifying", "except")
  /\ UNCHANGED <<run, graph, workspace, job, mine, made, count>>

Verifying(k) ==
  /\ pc[k] = "verifying"
  /\ run' = [run EXCEPT !.status = "verifying"]
  /\ Go(k, "verifiers")
  /\ UNCHANGED <<graph, workspace, job, mine, cycle, made, count>>

VerifiersReport(k) ==
  /\ pc[k] = "verifiers"
  /\ Go(k, IF run.status = "cancelled" THEN "ended" ELSE "verdict")
  /\ UNCHANGED <<run, graph, workspace, job, mine, cycle, made, count>>

\* brain_verdict: passed, the scope must grow, or repair until the last cycle.
VerdictPasses(k) ==
  /\ pc[k] = "verdict"
  /\ Go(k, IF run.status = "cancelled" THEN "ended" ELSE "gate")
  /\ UNCHANGED <<run, graph, workspace, job, mine, cycle, made, count>>

VerdictExpands(k) ==
  /\ pc[k] = "verdict"
  /\ Count("expansions", MaxExpansions)
  /\ Validate(k, "expand", "except")
  /\ UNCHANGED <<run, graph, workspace, job, mine, cycle, made>>

\* Mutant: one repair cycle too many.
VerdictFailsOneMore(k) ==
  /\ pc[k] = "verdict"
  /\ Validate(k, IF cycle[k] <= RepairCycles THEN "repair" ELSE "failing", "except")
  /\ UNCHANGED <<run, graph, workspace, job, mine, cycle, made, count>>

VerdictFails(k) ==
  /\ pc[k] = "verdict"
  /\ Validate(k, IF cycle[k] < RepairCycles THEN "repair" ELSE "failing", "except")
  /\ UNCHANGED <<run, graph, workspace, job, mine, cycle, made, count>>

Expand(k) ==
  /\ pc[k] = "expand"
  /\ NewPlan
  /\ run' = [run EXCEPT !.status = "decomposing", !.draft = made + 1, !.hash = 0,
                        !.state = "editing", !.error = "other"]
  /\ Go(k, "edited")
  /\ UNCHANGED <<graph, workspace, job, mine, cycle, count>>

Repair(k) ==
  /\ pc[k] = "repair"
  /\ run' = [run EXCEPT !.status = "implementing"]
  /\ Go(k, "repairing")
  /\ UNCHANGED <<graph, workspace, job, mine, cycle, made, count>>

\* Mutant: the repair cycle is not counted.
RepairedUncounted(k) ==
  /\ pc[k] = "repairing"
  /\ Validate(k, "verifying", "except")
  /\ UNCHANGED <<run, graph, workspace, job, mine, cycle, made, count>>

Repaired(k) ==
  /\ pc[k] = "repairing"
  /\ cycle' = [cycle EXCEPT ![k] = @ + 1]
  /\ Validate(k, "verifying", "except")
  /\ UNCHANGED <<run, graph, workspace, job, mine, made, count>>

\* The evidence gate blocks, or the workspace is still what the plan was made
\* for and the apply begins.
Gate(k) ==
  /\ pc[k] = "gate"
  /\ \/ Validate(k, "failing", "except")
     \/ IF workspace = run.baseline THEN Validate(k, "applying", "except")
        ELSE Go(k, "except")
  /\ UNCHANGED <<run, graph, workspace, job, mine, cycle, made, count>>

Apply(k) ==
  /\ pc[k] = "applying"
  /\ run' = [run EXCEPT !.status = "applying"]
  /\ Go(k, "copying")
  /\ UNCHANGED <<graph, workspace, job, mine, cycle, made, count>>

\* apply_stage replaces one file after the other.
CopySome(k) ==
  /\ pc[k] = "copying"
  /\ workspace' = [workspace EXCEPT !.change = "part"]
  /\ Go(k, "copied")
  /\ UNCHANGED <<run, graph, job, mine, cycle, made, count>>

CopyRest(k) ==
  /\ pc[k] = "copied"
  /\ workspace' = [rev |-> run.baseline.rev, change |-> "full"]
  /\ Validate(k, "post_check", "except")
  /\ UNCHANGED <<run, graph, job, mine, cycle, made, count>>

PostCheck(k) ==
  /\ pc[k] = "post_check"
  /\ run' = [run EXCEPT !.status = "post_check"]
  /\ Go(k, "checking")
  /\ UNCHANGED <<graph, workspace, job, mine, cycle, made, count>>

CheckPasses(k) ==
  /\ pc[k] = "checking"
  /\ Validate(k, "completed", "except")
  /\ UNCHANGED <<run, graph, workspace, job, mine, cycle, made, count>>

\* Mutant: a failed post-check does not restore the snapshot.
CheckFailsKeepsChange(k) ==
  /\ pc[k] = "checking" /\ run.snapshot # NoContent
  /\ Validate(k, "restored", "except")
  /\ UNCHANGED <<run, graph, workspace, job, mine, cycle, made, count>>

CheckFails(k) ==
  /\ pc[k] = "checking" /\ run.snapshot # NoContent
  /\ workspace' = run.snapshot
  /\ Validate(k, "restored", "except")
  /\ UNCHANGED <<run, graph, job, mine, cycle, made, count>>

Complete(k) ==
  /\ pc[k] = "completed"
  /\ run' = [run EXCEPT !.status = "completed"]
  /\ Go(k, "ended")
  /\ UNCHANGED <<graph, workspace, job, mine, cycle, made, count>>

Restored(k) ==
  /\ pc[k] = "restored"
  /\ run' = [run EXCEPT !.status = "rolled_back", !.error = "other"]
  /\ Go(k, "ended")
  /\ UNCHANGED <<graph, workspace, job, mine, cycle, made, count>>

-----------------------------------------------------------------------------
(* Ollama goes away and comes back.                                        *)

\* A call to a worker, or a research that fails for any reason while Ollama is
\* gone.
CallsOllama(k) ==
  \/ Starts(k) /\ k \in {"research", "implementation"}
  \/ pc[k] \in {"worker", "working", "solo", "verifiers", "repairing", "checking"}
  \/ pc[k] = "except" /\ k = "research"

Pausable == Handlers \ {"provisional", "decompose"}

\* _pause_job_for_ollama: a post-check in progress is undone, the job and the
\* pending jobs of the run are parked; a run that waits already is left alone.
Pause(k) ==
  LET undo == run.status = "post_check" /\ run.snapshot # NoContent
  IN
  /\ CallsOllama(k)
  /\ Count("outages", MaxOutages)
  /\ workspace' = IF undo THEN run.snapshot ELSE workspace
  /\ mine' = [mine EXCEPT ![k].status = IF undo THEN "verifying" ELSE run.status]
  /\ job' = [j \in Handlers |->
       IF j = k \/ (job[j] = "pending" /\ j \in Pausable) THEN "waiting" ELSE job[j]]
  /\ Go(k, IF run.status = "waiting_for_ollama" THEN "idle" ELSE "pausing")
  /\ UNCHANGED <<run, graph, cycle, made>>

\* A run that may not wait any more raises, which ends the drainer.
PauseRun(k) ==
  /\ pc[k] = "pausing"
  /\ Validate(k, "waiting", "idle")
  /\ UNCHANGED <<run, graph, workspace, job, mine, cycle, made, count>>

Wait(k) ==
  /\ pc[k] = "waiting"
  /\ run' = [run EXCEPT !.status = "waiting_for_ollama", !.resume = mine[k].status]
  /\ Go(k, "idle")
  /\ UNCHANGED <<graph, workspace, job, mine, cycle, made, count>>

\* recover_waiting_ollama: a run that may not resume raises, which ends the
\* monitor thread.
Recover ==
  /\ pc["monitor"] = "idle" /\ \E k \in Handlers : job[k] = "waiting"
  /\ mine' = [mine EXCEPT !["monitor"].status = run.resume]
  /\ Go("monitor", IF ValidTransition(run.status, run.resume) THEN "resuming"
                   ELSE "dead")
  /\ UNCHANGED <<run, graph, workspace, job, cycle, made, count>>

ResumeWaiting ==
  /\ pc["monitor"] = "resuming"
  /\ run' = [run EXCEPT !.status = mine["monitor"].status, !.resume = "researching",
                        !.error = "none"]
  /\ Go("monitor", "releasing")
  /\ UNCHANGED <<graph, workspace, job, mine, cycle, made, count>>

Release ==
  /\ pc["monitor"] = "releasing"
  /\ job' = [k \in Handlers |-> IF job[k] = "waiting" THEN "pending" ELSE job[k]]
  /\ Go("monitor", "idle")
  /\ mine' = [mine EXCEPT !["monitor"] = Nothing]
  /\ UNCHANGED <<run, graph, workspace, cycle, made, count>>

-----------------------------------------------------------------------------
(* Requests.  approve_run and redo_plan hold _run_lock throughout.         *)

Request(c, kind) ==
  /\ kind \in Requests /\ pc[c] = "idle"
  /\ kind \in {"approve", "redo"} => ~ RunLocked
  /\ Count("requests", MaxRequests)

\* The text of the request must hash to the plan the graph was made from.
Approve(c) ==
  /\ Request(c, "approve")
  /\ run.status = "awaiting_approval" /\ run.state = "refined"
  /\ run.hash # 0 /\ graph.state # "none"
  /\ mine' = [mine EXCEPT ![c].plan = run.hash]
  /\ IF workspace # run.baseline THEN Validate(c, "stale", "idle")
     ELSE Go(c, IF run.snapshot # NoContent THEN "reuse" ELSE "snapshot")
  /\ UNCHANGED <<run, graph, workspace, job, cycle, made>>

\* The workspace changed: research starts over.
Stale(c) ==
  /\ pc[c] = "stale"
  /\ run' = [run EXCEPT !.status = "researching", !.baseline = workspace,
                        !.error = "other"]
  /\ Go(c, "queue_research")
  /\ UNCHANGED <<graph, workspace, job, mine, cycle, made, count>>

Snapshot(c) ==
  /\ pc[c] = "snapshot"
  /\ mine' = [mine EXCEPT ![c].content = workspace]
  /\ Go(c, "fresh")
  /\ UNCHANGED <<run, graph, workspace, job, cycle, made, count>>

\* The approving transaction writes the row without validating the status; the
\* unique index on active jobs can refuse it.
Approved(c) ==
  /\ pc[c] \in {"reuse", "fresh"}
  /\ IF job["implementation"] # "none" THEN UNCHANGED <<run, job>>
     ELSE /\ job' = [job EXCEPT !["implementation"] = "pending"]
          /\ run' = IF pc[c] = "fresh"
               THEN [run EXCEPT !.status = "implementing", !.approved = mine[c].plan,
                                !.snapshot = mine[c].content]
               ELSE [run EXCEPT !.status = "implementing", !.approved = mine[c].plan,
                                !.error = "none"]
  /\ Go(c, "idle")
  /\ mine' = [mine EXCEPT ![c] = Nothing]
  /\ UNCHANGED <<graph, workspace, cycle, made, count>>

EditPlan(c) ==
  /\ Request(c, "edit")
  /\ run.status = "awaiting_approval"
  /\ Validate(c, "edit", "idle")
  /\ UNCHANGED <<run, graph, workspace, job, mine, cycle, made>>

\* An edit of a provisional plan that waits for Ollama only replaces the text.
EditProvisional(c) ==
  /\ Request(c, "edit")
  /\ run.status = "waiting_for_ollama" /\ run.state = "provisional"
  /\ NewPlan
  /\ run' = [run EXCEPT !.draft = made + 1, !.error = "none"]
  /\ UNCHANGED <<graph, workspace, job, pc, mine, cycle>>

Edit(c) ==
  /\ pc[c] = "edit"
  /\ NewPlan
  /\ run' = [run EXCEPT !.status = "decomposing", !.draft = made + 1, !.hash = 0,
                        !.state = "editing", !.error = "none"]
  /\ Go(c, "edited")
  /\ UNCHANGED <<graph, workspace, job, mine, cycle, count>>

\* After an edited or expanded plan: the old graph goes, a new one is queued.
Edited(a) ==
  /\ pc[a] = "edited"
  /\ graph' = [of |-> 0, state |-> "none"]
  /\ Enqueue("decompose")
  /\ Go(a, IF a \in Handlers THEN "ended" ELSE "idle")
  /\ UNCHANGED <<run, workspace, mine, cycle, made, count>>

RedoPlan(c) ==
  /\ Request(c, "redo")
  /\ run.status \in {"awaiting_approval", "decomposing"}
  /\ Validate(c, "redo", "idle")
  /\ UNCHANGED <<run, graph, workspace, job, mine, cycle, made>>

Redo(c) ==
  /\ pc[c] = "redo"
  /\ run' = [run EXCEPT !.status = "researching", !.baseline = workspace,
                        !.draft = 0, !.hash = 0, !.state = "none", !.error = "none"]
  /\ Go(c, "redone")
  /\ UNCHANGED <<graph, workspace, job, mine, cycle, made, count>>

\* A regeneration that has not started is superseded; one that runs goes on.
Redone(c) ==
  /\ pc[c] = "redone"
  /\ graph' = [of |-> 0, state |-> "none"]
  /\ job' = [job EXCEPT !["decompose"] = IF @ \in {"pending", "waiting"} THEN "none" ELSE @,
                        !["research"] = IF @ = "none" THEN "pending" ELSE @]
  /\ Go(c, "idle")
  /\ UNCHANGED <<run, workspace, mine, cycle, made, count>>

CancelRun(c) ==
  /\ Request(c, "cancel")
  /\ run.status \notin {"completed", "rolled_back", "applying", "post_check"}
  /\ Validate(c, "cancel", "idle")
  /\ UNCHANGED <<run, graph, workspace, job, mine, cycle, made>>

Cancel(c) ==
  /\ pc[c] = "cancel"
  /\ run' = [run EXCEPT !.status = "cancelled"]
  /\ Go(c, "cancelled")
  /\ UNCHANGED <<graph, workspace, job, mine, cycle, made, count>>

CancelJobs(c) ==
  /\ pc[c] = "cancelled"
  /\ job' = [k \in Handlers |-> IF job[k] = "pending" THEN "none" ELSE job[k]]
  /\ Go(c, "idle")
  /\ UNCHANGED <<run, graph, workspace, mine, cycle, made, count>>

\* Mutant: any finished run resumes, whatever run_state allows.
ResumeAnyRun(c) ==
  /\ Request(c, "resume")
  /\ run.status \in TerminalRunStates
  /\ Go(c, IF workspace # run.baseline THEN "renew"
           ELSE IF run.approved # 0 THEN "resume" ELSE "restart")
  /\ UNCHANGED <<run, graph, workspace, job, mine, cycle, made>>

ResumeRun(c) ==
  /\ Request(c, "resume")
  /\ run.status = "failed"
  /\ Validate(c, IF workspace # run.baseline THEN "renew"
                 ELSE IF run.approved # 0 THEN "resume" ELSE "restart", "idle")
  /\ UNCHANGED <<run, graph, workspace, job, mine, cycle, made>>

\* Mutant: the snapshot of the older content is kept.
ResumeKeepsSnapshot(c) ==
  /\ pc[c] \in {"renew", "resume", "restart"}
  /\ run' = IF pc[c] = "resume"
              THEN [run EXCEPT !.status = "implementing", !.error = "none"]
              ELSE [run EXCEPT !.status = "researching", !.baseline = workspace,
                               !.error = "none"]
  /\ Go(c, IF pc[c] = "resume" THEN "queue_implementation" ELSE "queue_research")
  /\ UNCHANGED <<graph, workspace, job, mine, cycle, made, count>>

Resume(c) ==
  /\ pc[c] \in {"renew", "resume", "restart"}
  /\ run' = CASE pc[c] = "renew" ->
                   [run EXCEPT !.status = "researching", !.baseline = workspace,
                               !.draft = 0, !.approved = 0, !.snapshot = NoContent,
                               !.error = "other"]
              [] pc[c] = "resume" ->
                   [run EXCEPT !.status = "implementing", !.error = "none"]
              [] OTHER ->
                   [run EXCEPT !.status = "researching", !.baseline = workspace,
                               !.error = "none"]
  /\ Go(c, IF pc[c] = "resume" THEN "queue_implementation" ELSE "queue_research")
  /\ UNCHANGED <<graph, workspace, job, mine, cycle, made, count>>

QueueJob(c) ==
  /\ pc[c] \in {"queue_research", "queue_implementation"}
  /\ Enqueue(IF pc[c] = "queue_research" THEN "research" ELSE "implementation")
  /\ Go(c, "idle")
  /\ UNCHANGED <<run, graph, workspace, mine, cycle, made, count>>

RollbackRun(c) ==
  /\ Request(c, "rollback")
  /\ run.snapshot # NoContent
  /\ run.status \in {"completed", "failed", "rolled_back"}
  /\ workspace' = run.snapshot
  /\ Go(c, "rolling")
  /\ UNCHANGED <<run, graph, job, mine, cycle, made>>

RollbackDone(c) ==
  /\ pc[c] = "rolling"
  /\ Validate(c, "rollback", "idle")
  /\ UNCHANGED <<run, graph, workspace, job, mine, cycle, made, count>>

Rollback(c) ==
  /\ pc[c] = "rollback"
  /\ run' = [run EXCEPT !.status = "rolled_back"]
  /\ Go(c, "idle")
  /\ UNCHANGED <<graph, workspace, job, mine, cycle, made, count>>

-----------------------------------------------------------------------------
(* The world: the user's own edits of the target, and restarts.            *)

\* Nobody else writes the target while the run applies its change.
UserEdits ==
  /\ run.status \notin {"applying", "post_check"}
  /\ Count("edits", MaxEdits)
  /\ workspace' = [workspace EXCEPT !.rev = count.edits + 1]
  /\ UNCHANGED <<run, graph, job, pc, mine, cycle, made>>

\* Mutant: an interrupted apply is not recognised.
InterruptedUnseen(status, error) == FALSE

\* A failed run with the error of an interruption ...
Interrupted(status, error) == status = "failed" /\ error = "interrupted"

\* Mutant: ... is left as it is.
NeverRestores(status, error) == FALSE

\* ... is restored if it has a snapshot.

Restores(status, error) == Interrupted(status, error) /\ run.snapshot # NoContent

\* init_db and the lifespan handler.
Restart ==
  LET hit    == run.status \in {"applying", "post_check"}
      status == IF hit THEN "failed" ELSE run.status
      error  == IF hit /\ run.error = "none" THEN "interrupted" ELSE run.error
      undo   == Restores(status, error)
      requeued(k) == IF job[k] = "running" THEN "pending" ELSE job[k]
  IN
  /\ Count("restarts", MaxRestarts)
  /\ run' = [run EXCEPT !.status = IF undo THEN "rolled_back" ELSE status,
                        !.error  = IF undo THEN "other" ELSE error]
  /\ workspace' = IF undo THEN run.snapshot ELSE workspace
  /\ job' = [k \in Handlers |->
       IF requeued(k) = "pending" /\ Interrupted(status, error)
         THEN "none" ELSE requeued(k)]
  /\ pc' = [a \in Actors |-> "idle"]
  /\ mine' = [a \in Actors |-> Nothing]
  /\ cycle' = [k \in Appliers |-> 1]
  /\ UNCHANGED <<graph, made>>

-----------------------------------------------------------------------------
Planning(k) == \/ k = "provisional" /\ (StartProvisional \/ Save \/ Park)
               \/ k = "research" /\ (StartResearch \/ Research \/ Researched)
               \/ k = "decompose" /\ StartDecompose
               \/ Planned(k) \/ Decompose(k) \/ RecordHash(k) \/ Ready(k)

Implementing(k) == \/ k = "implementation" /\ (StartImplementation \/ Solo)
                   \/ k = "work" /\ (StartWork \/ Work)
                   \/ k = "merge" /\ StartMerge
                   \/ Dispatch(k)

Verdict(k) == VerdictPasses(k) \/ VerdictExpands(k) \/ VerdictFails(k)

Applying(k) ==
  /\ k \in Appliers
  /\ \/ Verify(k) \/ Verifying(k) \/ VerifiersReport(k) \/ Verdict(k)
     \/ Expand(k) \/ Repair(k) \/ Repaired(k) \/ Gate(k) \/ Apply(k)
     \/ CopySome(k) \/ CopyRest(k) \/ PostCheck(k) \/ CheckPasses(k)
     \/ CheckFails(k) \/ Complete(k) \/ Restored(k)

\* A thread's own steps, the ones the scheduler owes it.
Handler(k) == \/ RunIsOver(k) \/ Planning(k) \/ Implementing(k) \/ Applying(k)
              \/ Edited(k) \/ Except(k) \/ Fail(k) \/ PauseRun(k) \/ Wait(k)
              \/ Finalize(k)

Monitor == Recover \/ ResumeWaiting \/ Release

NewRequest(c) == \/ Approve(c) \/ EditPlan(c) \/ EditProvisional(c) \/ RedoPlan(c)
                 \/ CancelRun(c) \/ ResumeRun(c) \/ RollbackRun(c)

Client(c) == \/ Stale(c) \/ Snapshot(c) \/ Approved(c) \/ Edit(c) \/ Edited(c)
             \/ Redo(c) \/ Redone(c) \/ Cancel(c) \/ CancelJobs(c) \/ Resume(c)
             \/ QueueJob(c) \/ RollbackDone(c) \/ Rollback(c)

Next == \/ \E k \in Handlers : Claim(k) \/ Handler(k) \/ CallRaises(k) \/ Pause(k)
        \/ \E c \in Clients : NewRequest(c) \/ Client(c)
        \/ Monitor \/ UserEdits \/ Restart

Spec == Init /\ [][Next]_vars

\* Threads run, pending jobs are claimed (JobQueue's PendingIsServed), requests
\* in progress end, and Ollama comes back.
Fairness ==
  /\ \A k \in Handlers : WF_vars(Claim(k)) /\ WF_vars(Handler(k))
  /\ \A c \in Clients : WF_vars(Client(c))
  /\ WF_vars(Monitor)

FairSpec == Spec /\ Fairness

-----------------------------------------------------------------------------
(* Properties.                                                             *)

Plans == 0..MaxPlans
Revisions == 0..MaxEdits
Contents == [rev : Revisions, change : {"none", "part", "full"}]
             \cup {NoContent}
Labels == {"idle", "start", "ended", "except", "dead", "park", "brain", "worker",
           "decompose", "hash", "edited", "dispatch", "working", "solo", "verify",
           "verifiers", "verdict", "gate", "repairing", "copying", "copied",
           "checking", "pausing", "resuming", "releasing", "snapshot", "reuse",
           "fresh", "redone", "cancelled", "queue_research",
           "queue_implementation", "rolling"} \cup DOMAIN Target

\* The variables keep their types.
TypeOK ==
  /\ run \in [status : RunStatuses,
             state : {"none", "provisional", "refined", "editing"},
             draft : Plans, hash : Plans, approved : Plans,
             baseline : Contents, snapshot : Contents,
             error : {"none", "interrupted", "other"}, resume : RunStatuses]
  /\ graph \in [of : Plans, state : {"none", "open", "done", "closed"}]
  /\ workspace \in Contents
  /\ job \in [Handlers -> {"none", "pending", "running", "waiting"}]
  /\ pc \in [Actors -> Labels]
  /\ mine \in [Actors -> [plan : Plans, content : Contents, status : RunStatuses]]
  /\ cycle \in [Appliers -> 1..RepairCycles]
  /\ made \in Plans

\* Nobody is in the middle of anything.
AtRest == \A a \in Actors : pc[a] \in {"idle", "dead"}
Active == RunStatuses \ (TerminalRunStates \cup {"awaiting_approval"})

\* While the run applies its change, the snapshot it would go back to is the
\* content the verified stage was made from: the restore after a failed
\* post-check, an error or a restart gives the user that content back.  (An
\* approval after a scope expansion reuses the first snapshot.)
SnapshotIsBaseline ==
  \A k \in Appliers :
    pc[k] \in {"copying", "copied", "post_check", "checking"} /\ count.expansions = 0
      => run.snapshot = run.baseline

\* Once every thread is through, the target never holds half of a change: an
\* error, an outage or a restart in the middle of apply_stage has been undone.
NoHalfApplied == AtRest => workspace.change # "part"

\* A run that has come to rest says what became of its change: it is there when
\* the run is completed and gone when it is rolled back.
OutcomeMatchesWorkspace ==
  AtRest => /\ run.status = "completed" => workspace.change = "full"
            /\ run.status = "rolled_back" => workspace.change = "none"

\* The task graph that is implemented, verified and applied is the one made from
\* the plan the user approved, whatever edits, redone plans and scope
\* expansions happened before the approval.  (An error after the graph of an
\* expanded plan is written, and a resume, executes it unapproved.)
ExecutedIsApproved ==
  run.status \in {"implementing", "verifying", "applying", "post_check"}
    => \/ graph.state = "none" \/ graph.of = run.approved
       \/ count.expansions > 0 /\ count.errors > 0

\* A run in an active status has a job in the queue, or somebody who is about to
\* give it one: it never waits for a job that was never queued.
NoStranded == run.status \in Active => ~ AtRest \/ \E k \in Handlers : job[k] # "none"

\* An active run ends or comes back to the user.
RunSettles == (run.status \in Active) ~> (run.status \notin Active)

\* A run paused for Ollama goes on when Ollama is back.
PausedWorkResumes ==
  (run.status = "waiting_for_ollama") ~> (run.status # "waiting_for_ollama")

\* A completed run can only be rolled back, and a rolled back run stays so, unless
\* a cancellation that was validated earlier is still to be written.
OutcomeIsFinal ==
  [][(\A c \in Clients : pc[c] # "cancel") =>
     /\ run.status = "completed" => run'.status \in {"completed", "rolled_back"}
     /\ run.status = "rolled_back" => run'.status = "rolled_back"]_vars

\* A job interrupted during an apply is not picked up again by itself.
InterruptedApplyNotRerun ==
  [][\A k \in Appliers :
       count'.restarts > count.restarts /\ run.status \in {"applying", "post_check"}
         => job'[k] = "none"]_vars
=============================================================================
