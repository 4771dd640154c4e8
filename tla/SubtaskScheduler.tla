-------------------------- MODULE SubtaskScheduler --------------------------
(***************************************************************************)
(* The subtask scheduler (backend/orchestrator.py): _enqueue_ready_subtasks *)
(* gives the ready nodes of a task graph an agent and a job, and           *)
(* _run_durable_subtask executes a node and dispatches what became ready.  *)
(*                                                                         *)
(* A node's job is named by the node and a run's implementation job by the *)
(* run: JobQueue proves that there is one active job of each and that one  *)
(* thread executes it.  A node is a number because the code takes nodes in *)
(* the order of their ids.  What becomes of a merge is RunLifecycle's.     *)
(***************************************************************************)
EXTENDS Naturals, FiniteSets, RunStates

CONSTANTS
  Runs, Nodes, Agents, NoAgent, Nobody,
  RunOf,        \* the run of a node
  Deps,         \* depends_on of a node
  Pinned,       \* assigned_agent_id of a node, or NoAgent
  Workers,      \* drainers
  PoolSize,     \* worker_pool_size
  MaxAttempts,  \* subtask_max_attempts
  MaxCancels, MaxResumes, MaxToggles, MaxErrors, MaxOutages, MaxRestarts  \* bounds

ASSUME SchedulerAssumption ==
  /\ Nodes \subseteq Nat /\ Nodes \cap Runs = {}
  /\ IsFiniteSet(Nodes) /\ IsFiniteSet(Runs)
  /\ RunOf \in [Nodes -> Runs] /\ Deps \in [Nodes -> SUBSET Nodes]
  /\ \A n \in Nodes : \A d \in Deps[n] : RunOf[d] = RunOf[n]
  /\ \A S \in SUBSET Nodes : S # {} => \E n \in S : Deps[n] \cap S = {}  \* validate_graph
  /\ NoAgent \notin Agents /\ Pinned \in [Nodes -> Agents \cup {NoAgent}]
  /\ Nobody \notin Nodes \cup Runs
  /\ {Workers, PoolSize, MaxAttempts} \subseteq Nat \ {0}
  /\ {MaxCancels, MaxResumes, MaxToggles, MaxErrors, MaxOutages, MaxRestarts} \subseteq Nat

Tasks == Nodes \cup Runs
NodesOf(r) == { n \in Nodes : RunOf[n] = r }
RunOfTask(x) == IF x \in Nodes THEN RunOf[x] ELSE x

\* _transitive_deps, on the acyclic graphs validate_graph accepts.
TransitiveDeps[n \in Nodes] ==
  Deps[n] \cup UNION { TransitiveDeps[d] : d \in Deps[n] }

VARIABLES
  run,      \* status and resume_status of the runs
  node,     \* the subtasks table: status, agent_id, attempts
  job,      \* the active job of a task
  merge,    \* the runs with a merge job
  enabled,  \* the enabled agents
  pc,       \* the next step of the thread that executes a task's job
  mine,     \* what that thread has read of its node; the agent it uses
  lock,     \* _run_lock: its holder, and the dispatch it is making
  count     \* cancels, resumes, toggles, errors, outages, restarts

vars == <<run, node, job, merge, enabled, pc, mine, lock, count>>

Unread == [agent |-> NoAgent, attempts |-> 0]
Free == [holder |-> Nobody, phase |-> "block", view |-> {}, reserved |-> {},
         slots |-> 0]

Init ==
  /\ run = [r \in Runs |-> [status |-> "implementing", resume |-> "researching"]]
  /\ node = [n \in Nodes |-> [status |-> "pending", agent |-> NoAgent,
                              attempts |-> 0]]
  /\ job = [x \in Tasks |-> IF x \in Runs THEN "pending" ELSE "none"]
  /\ merge = {}
  /\ enabled = Agents
  /\ pc = [x \in Tasks |-> "idle"]
  /\ mine = [n \in Nodes |-> Unread]
  /\ lock = Free
  /\ count = [cancels |-> 0, resumes |-> 0, toggles |-> 0, errors |-> 0, outages |-> 0,
              restarts |-> 0]

-----------------------------------------------------------------------------
Go(x, label) == pc' = [pc EXCEPT ![x] = label]
Count(what, max) == /\ count[what] < max
                    /\ count' = [count EXCEPT ![what] = @ + 1]
Enqueue(x) == job' = [job EXCEPT ![x] = IF @ = "none" THEN "pending" ELSE @]
Write(n, status) == node' = [node EXCEPT ![n].status = status]
StatusOf(r) == run[r].status
Live == {"pending", "running", "waiting_ollama"}

-----------------------------------------------------------------------------
(* The queue, as far as the scheduler sees it.                             *)

Executing == { x \in Tasks : pc[x] # "idle" }
RunningOf(r) == { n \in NodesOf(r) : job[n] = "running" }

Claim(x) ==
  /\ job[x] = "pending" /\ pc[x] = "idle"
  /\ Cardinality(Executing) < Workers
  /\ x \in Nodes => Cardinality(RunningOf(RunOf[x])) < PoolSize
  /\ job' = [job EXCEPT ![x] = "running"]
  /\ Go(x, "start")
  /\ UNCHANGED <<run, node, merge, enabled, mine, lock, count>>

Finalize(x) ==
  /\ pc[x] = "ended"
  /\ job' = [job EXCEPT ![x] = "none"]
  /\ Go(x, "idle")
  /\ mine' = [n \in Nodes |-> IF n = x THEN Unread ELSE mine[n]]
  /\ UNCHANGED <<run, node, merge, enabled, lock, count>>

-----------------------------------------------------------------------------
(* _enqueue_ready_subtasks: x is the task whose thread runs it, r its run.  *)

\* Mutant: a node is blocked while a dependency is unfinished.
UnfinishedToo(r) == { n \in NodesOf(r) : node[n].status # "done" }

Failed(r) == { n \in NodesOf(r) : node[n].status \in {"failed", "blocked"} }
Closed == {"done", "failed", "blocked"}

\* The lock is taken, or held already by the recursive call, and the pending
\* nodes behind a failed one are blocked.
Block(x) ==
  LET r == RunOfTask(x)
      hopeless(n) == /\ RunOf[n] = r /\ node[n].status = "pending"
                     /\ TransitiveDeps[n] \cap Failed(r) # {}
  IN
  /\ pc[x] \in {"chain", "dispatch"}
  /\ lock.holder \in {Nobody, x} /\ lock.phase = "block"
  /\ node' = [n \in Nodes |-> IF hopeless(n)
                                THEN [node[n] EXCEPT !.status = "blocked"]
                                ELSE node[n]]
  /\ lock' = [Free EXCEPT !.holder = x, !.phase = "look"]
  /\ UNCHANGED <<run, job, merge, enabled, pc, mine, count>>

Looks(x) == lock.holder = x /\ lock.phase = "look"

\* Mutant: a graph that is closed is merged.
MergeClosed(x) ==
  LET r == RunOfTask(x) IN
  /\ Looks(x) /\ \A n \in NodesOf(r) : node[n].status \in Closed
  /\ merge' = merge \cup {r}
  /\ lock' = Free /\ Go(x, "ended")
  /\ UNCHANGED <<run, node, job, enabled, mine, count>>

\* A finished graph is merged ...
QueueMerge(x) ==
  LET r == RunOfTask(x) IN
  /\ Looks(x) /\ \A n \in NodesOf(r) : node[n].status = "done"
  /\ merge' = merge \cup {r}
  /\ lock' = Free /\ Go(x, "ended")
  /\ UNCHANGED <<run, node, job, enabled, mine, count>>

\* ... one with a failure fails the run; update_run raises if the run was
\* cancelled, which after a successful node is taken for the node's failure.
FailClosed(x) ==
  LET r == RunOfTask(x) IN
  /\ Looks(x) /\ Failed(r) # {}
  /\ \A n \in NodesOf(r) : node[n].status \in Closed
  /\ IF ValidTransition(StatusOf(r), "failed")
       THEN run' = [run EXCEPT ![r].status = "failed"] /\ Go(x, "ended")
       ELSE /\ Go(x, IF pc[x] = "chain" THEN "raised" ELSE "ended")
            /\ UNCHANGED run
  /\ lock' = Free
  /\ UNCHANGED <<node, job, merge, enabled, mine, count>>

\* Mutant: one finished dependency is enough.
ReadyAfterOne(r) ==
  { n \in NodesOf(r) : /\ node[n].status = "pending"
                       /\ Deps[n] # {} => \E d \in Deps[n] : node[d].status = "done" }

Ready(r) ==
  { n \in NodesOf(r) : /\ node[n].status = "pending"
                       /\ \A d \in Deps[n] : node[d].status = "done" }

\* Mutant: only agents at work are reserved.
ReservedAtWork(r) ==
  { node[n].agent : n \in { m \in Nodes : node[m].status = "running" } } \ {NoAgent}

\* The agents of the run's own live nodes, and of any run's with a job.
Reserved(r) ==
  { node[n].agent : n \in { m \in Nodes : /\ node[m].status \in Live
                                          /\ RunOf[m] = r \/ job[m] # "none" } }
    \ {NoAgent}

\* What the loop over the nodes works on is read here once.
Look(x) ==
  LET r == RunOfTask(x)
      active == { n \in NodesOf(r) : node[n].status \in {"running", "waiting_ollama"} }
  IN
  /\ Looks(x) /\ \E n \in NodesOf(r) : node[n].status \notin Closed
  /\ lock' = [lock EXCEPT !.phase = "assign", !.view = Ready(r),
                          !.reserved = Reserved(r),
                          !.slots = IF Cardinality(active) < PoolSize
                                      THEN PoolSize - Cardinality(active) ELSE 0]
  /\ UNCHANGED <<run, node, job, merge, enabled, pc, mine, count>>

\* The node of the loop's next turn.
Turn(x, n) == /\ lock.holder = x /\ lock.phase = "assign" /\ lock.slots > 0
              /\ n \in lock.view /\ \A m \in lock.view : n <= m

PinReserved(n) == Pinned[n] # NoAgent /\ Pinned[n] \in lock.reserved
Unserved(n) == IF Pinned[n] = NoAgent THEN enabled = {} ELSE Pinned[n] \notin enabled
Choices(n) == IF Pinned[n] = NoAgent THEN enabled \ lock.reserved
              ELSE { a \in enabled \ lock.reserved : a = Pinned[n] }

\* Its agents are all busy: the node is passed over.
PassOver(x, n) ==
  /\ Turn(x, n)
  /\ PinReserved(n) \/ (~ Unserved(n) /\ enabled \ lock.reserved = {})
  /\ lock' = [lock EXCEPT !.view = @ \ {n}]
  /\ UNCHANGED <<run, node, job, merge, enabled, pc, mine, count>>

\* No agent will ever do: the node fails and the dispatch starts again.
FailUnserved(x, n) ==
  /\ Turn(x, n) /\ ~ PinReserved(n) /\ Unserved(n)
  /\ Write(n, "failed")
  /\ lock' = [lock EXCEPT !.phase = "block"]
  /\ UNCHANGED <<run, job, merge, enabled, pc, mine, count>>

\* choose_subtask_agent; which of the free agents scores best is left open.
Assign(x, n) ==
  /\ Turn(x, n) /\ ~ PinReserved(n) /\ ~ Unserved(n)
  /\ \E a \in Choices(n) :
       /\ node' = [node EXCEPT ![n].agent = a]
       /\ lock' = [lock EXCEPT !.phase = "enqueue", !.reserved = @ \cup {a},
                               !.slots = @ - 1]
  /\ UNCHANGED <<run, job, merge, enabled, pc, mine, count>>

EnqueueNode(x, n) ==
  /\ lock.holder = x /\ lock.phase = "enqueue"
  /\ n \in lock.view /\ \A m \in lock.view : n <= m
  /\ Enqueue(n)
  /\ lock' = [lock EXCEPT !.phase = "assign", !.view = @ \ {n}]
  /\ UNCHANGED <<run, node, merge, enabled, pc, mine, count>>

Dispatched(x) ==
  /\ lock.holder = x /\ lock.phase = "assign"
  /\ lock.view = {} \/ lock.slots = 0
  /\ lock' = Free /\ Go(x, "ended")
  /\ UNCHANGED <<run, node, job, merge, enabled, mine, count>>

Dispatch(x) ==
  \/ Block(x) \/ QueueMerge(x) \/ FailClosed(x) \/ Look(x) \/ Dispatched(x)
  \/ \E n \in Nodes : PassOver(x, n) \/ FailUnserved(x, n) \/ Assign(x, n)
                      \/ EnqueueNode(x, n)

-----------------------------------------------------------------------------
(* _run_durable_subtask and _run_subtask.                                  *)

\* implement_run, when there is a graph.
StartRun(r) ==
  /\ r \in Runs /\ pc[r] = "start"
  /\ Go(r, IF StatusOf(r) = "cancelled" THEN "ended" ELSE "dispatch")
  /\ UNCHANGED <<run, node, job, merge, enabled, mine, lock, count>>

StartNode(n) ==
  /\ n \in Nodes /\ pc[n] = "start"
  /\ IF StatusOf(RunOf[n]) \in {"cancelled", "failed"}
       THEN Go(n, "ended") /\ UNCHANGED mine
     ELSE IF node[n].status = "done" THEN Go(n, "dispatch") /\ UNCHANGED mine
     ELSE /\ mine' = [mine EXCEPT ![n] = [agent    |-> node[n].agent,
                                          attempts |-> node[n].attempts]]
          /\ Go(n, "stage")
  /\ UNCHANGED <<run, node, job, merge, enabled, lock, count>>

\* The agent read before the staging, or if it was disabled the pinned or any
\* other one, busy or not.
Usable(n) ==
  IF mine[n].agent \in enabled THEN {mine[n].agent}
  ELSE { a \in enabled : Pinned[n] \in {NoAgent, a} }

Stage(n) ==
  /\ n \in Nodes /\ pc[n] = "stage"
  /\ \/ /\ StatusOf(RunOf[n]) = "cancelled" \/ Usable(n) = {}
        /\ Go(n, "raised") /\ UNCHANGED <<node, mine>>
     \/ /\ StatusOf(RunOf[n]) # "cancelled"
        /\ \E a \in Usable(n) :
             /\ node' = [node EXCEPT ![n] = [status |-> "running", agent |-> a,
                                             attempts |-> mine[n].attempts + 1]]
             /\ mine' = [mine EXCEPT ![n].agent = a]
        /\ Go(n, "working")
  /\ UNCHANGED <<run, job, merge, enabled, lock, count>>

\* Mutant: nothing is dispatched after a success.
FinishSilently(n) ==
  /\ n \in Nodes /\ pc[n] = "working"
  /\ Write(n, "done") /\ Go(n, "ended")
  /\ UNCHANGED <<run, job, merge, enabled, mine, lock, count>>

\* The worker and the Brain accept the work ...
Finish(n) ==
  /\ n \in Nodes /\ pc[n] = "working"
  /\ Write(n, "done") /\ Go(n, "chain")
  /\ UNCHANGED <<run, job, merge, enabled, mine, lock, count>>

\* ... or not, which the node shows before the handler has decided on a retry.
Reject(n) ==
  /\ n \in Nodes /\ pc[n] = "working"
  /\ Write(n, "failed") /\ Go(n, "raised")
  /\ UNCHANGED <<run, job, merge, enabled, mine, lock, count>>

\* The staging or a call raises.
CallRaises(n) ==
  /\ n \in Nodes /\ pc[n] \in {"stage", "working"}
  /\ Count("errors", MaxErrors)
  /\ Go(n, "raised")
  /\ UNCHANGED <<run, node, job, merge, enabled, mine, lock>>

TriesLeft(n) == mine[n].attempts + 1 < MaxAttempts

Retry(n) ==
  /\ n \in Nodes /\ pc[n] = "raised" /\ TriesLeft(n)
  /\ Write(n, "pending") /\ Go(n, "insert")
  /\ UNCHANGED <<run, job, merge, enabled, mine, lock, count>>

\* Mutant: nothing is dispatched after a failure.
GiveUpSilently(n) ==
  /\ n \in Nodes /\ pc[n] = "raised" /\ ~ TriesLeft(n)
  /\ Write(n, "failed") /\ Go(n, "ended")
  /\ UNCHANGED <<run, job, merge, enabled, mine, lock, count>>

GiveUp(n) ==
  /\ n \in Nodes /\ pc[n] = "raised" /\ ~ TriesLeft(n)
  /\ Write(n, "failed") /\ Go(n, "dispatch")
  /\ UNCHANGED <<run, job, merge, enabled, mine, lock, count>>

\* The retry's job is inserted; idx_jobs_one_active_node refuses it while the
\* node has an active job, and the handler raises.
InsertRetry(n) ==
  /\ n \in Nodes /\ pc[n] = "insert"
  /\ Enqueue(n) /\ Go(n, "ended")
  /\ UNCHANGED <<run, node, merge, enabled, mine, lock, count>>

Run(n) == \/ StartNode(n) \/ Stage(n) \/ Finish(n) \/ Reject(n) \/ Retry(n)
          \/ GiveUp(n) \/ InsertRetry(n)

-----------------------------------------------------------------------------
(* An Ollama outage: the statements of _pause_job_for_ollama and of         *)
(* recover_waiting_ollama are one step each here.                          *)

Pause(x) ==
  LET r == RunOfTask(x)
      parked(y) == y = x \/ (RunOfTask(y) = r /\ job[y] = "pending")
  IN
  /\ pc[x] = "working" \/ (x \in Runs /\ pc[x] = "start" /\ StatusOf(x) # "cancelled")
  /\ Count("outages", MaxOutages)
  /\ job' = [y \in Tasks |-> IF parked(y) THEN "waiting" ELSE job[y]]
  /\ node' = [n \in Nodes |->
       IF n = x THEN [node[n] EXCEPT !.status = "waiting_ollama",
                                     !.attempts = IF @ = 0 THEN 0 ELSE @ - 1]
       ELSE IF RunOf[n] = r /\ node[n].status = "pending" /\ job'[n] = "waiting"
         THEN [node[n] EXCEPT !.status = "waiting_ollama"]
       ELSE node[n]]
  /\ run' = IF \/ StatusOf(r) = "waiting_for_ollama"
               \/ ~ ValidTransition(StatusOf(r), "waiting_for_ollama")
              THEN run
              ELSE [run EXCEPT ![r] = [status |-> "waiting_for_ollama",
                                       resume |-> StatusOf(r)]]
  /\ Go(x, "idle")
  /\ mine' = [n \in Nodes |-> IF n = x THEN Unread ELSE mine[n]]
  /\ UNCHANGED <<merge, enabled, lock>>

Paused == { RunOfTask(x) : x \in { y \in Tasks : job[y] = "waiting" } }

\* A run that may not resume makes the recovery raise.
Recover ==
  /\ Paused # {}
  /\ \A r \in Paused : ValidTransition(StatusOf(r), run[r].resume)
  /\ run' = [r \in Runs |->
       IF r \in Paused THEN [status |-> run[r].resume, resume |-> "researching"]
       ELSE run[r]]
  /\ job' = [x \in Tasks |-> IF job[x] = "waiting" THEN "pending" ELSE job[x]]
  /\ node' = [n \in Nodes |-> IF node[n].status = "waiting_ollama"
                                THEN [node[n] EXCEPT !.status = "pending"]
                                ELSE node[n]]
  /\ UNCHANGED <<merge, enabled, pc, mine, lock, count>>

-----------------------------------------------------------------------------
(* Merges, requests, the user's agents, and restarts.                      *)

Merge(r) ==
  /\ r \in merge
  /\ merge' = merge \ {r}
  /\ \E s \in {"completed", "failed"} :
       run' = IF ValidTransition(StatusOf(r), "verifying")
                THEN [run EXCEPT ![r].status = s] ELSE run
  /\ UNCHANGED <<node, job, enabled, pc, mine, lock, count>>

\* Mutant: a cancellation also closes the jobs that threads execute.
CancelRunningToo(r) ==
  /\ ValidTransition(StatusOf(r), "cancelled")
  /\ Count("cancels", MaxCancels)
  /\ run' = [run EXCEPT ![r].status = "cancelled"]
  /\ job' = [x \in Tasks |-> IF RunOfTask(x) = r THEN "none" ELSE job[x]]
  /\ merge' = merge \ {r}
  /\ UNCHANGED <<node, enabled, pc, mine, lock>>

CancelRun(r) ==
  /\ ValidTransition(StatusOf(r), "cancelled")
  /\ Count("cancels", MaxCancels)
  /\ run' = [run EXCEPT ![r].status = "cancelled"]
  /\ job' = [x \in Tasks |-> IF RunOfTask(x) = r /\ job[x] = "pending" THEN "none"
                             ELSE job[x]]
  /\ merge' = merge \ {r}
  /\ UNCHANGED <<node, enabled, pc, mine, lock>>

ResumeRun(r) ==
  /\ StatusOf(r) = "failed"
  /\ Count("resumes", MaxResumes)
  /\ run' = [run EXCEPT ![r].status = "implementing"]
  /\ Enqueue(r)
  /\ UNCHANGED <<node, merge, enabled, pc, mine, lock>>

ToggleAgent(a) ==
  /\ Count("toggles", MaxToggles)
  /\ enabled' = (enabled \ {a}) \cup ({a} \ enabled)
  /\ UNCHANGED <<run, node, job, merge, pc, mine, lock>>

Restart ==
  /\ Count("restarts", MaxRestarts)
  /\ job' = [x \in Tasks |-> IF job[x] = "running" THEN "pending" ELSE job[x]]
  /\ node' = [n \in Nodes |-> IF node[n].status = "running"
                                THEN [node[n] EXCEPT !.status = "pending"]
                                ELSE node[n]]
  /\ pc' = [x \in Tasks |-> "idle"]
  /\ mine' = [n \in Nodes |-> Unread]
  /\ lock' = Free
  /\ UNCHANGED <<run, merge, enabled>>

-----------------------------------------------------------------------------
Thread(x) == StartRun(x) \/ Run(x) \/ Dispatch(x) \/ Finalize(x)

World == \/ \E n \in Nodes : CallRaises(n)
         \/ \E x \in Tasks : Pause(x)
         \/ \E r \in Runs : CancelRun(r) \/ ResumeRun(r)
         \/ \E a \in Agents : ToggleAgent(a)
         \/ Restart

Next == \/ \E x \in Tasks : Claim(x) \/ Thread(x)
        \/ \E r \in Runs : Merge(r)
        \/ Recover \/ World

Spec == Init /\ [][Next]_vars

\* Pending jobs are claimed (JobQueue), threads run, Ollama comes back.
Fairness == /\ \A x \in Tasks : WF_vars(Claim(x)) /\ WF_vars(Thread(x))
            /\ \A r \in Runs : WF_vars(Merge(r))
            /\ WF_vars(Recover)

FairSpec == Spec /\ Fairness

-----------------------------------------------------------------------------
(* Properties.                                                             *)

\* Every variable stays in its range, no more nodes are assigned than the pool
\* has slots, the lock is held by a thread that is dispatching, and the jobs
\* marked running are those threads execute, whoever cancels or parks a run.
TypeOK ==
  /\ run \in [Runs -> [status : RunStatuses, resume : RunStatuses]]
  /\ node \in [Nodes -> [status : Live \cup Closed, agent : Agents \cup {NoAgent},
                         attempts : Nat]]
  /\ job \in [Tasks -> {"none", "pending", "running", "waiting"}]
  /\ merge \subseteq Runs
  /\ enabled \subseteq Agents
  /\ pc \in [Tasks -> {"idle", "start", "stage", "working", "raised", "insert",
                       "chain", "dispatch", "ended"}]
  /\ mine \in [Nodes -> [agent : Agents \cup {NoAgent}, attempts : Nat]]
  /\ lock \in [holder : Tasks \cup {Nobody}, phase : {"block", "look", "assign", "enqueue"},
              view : SUBSET Nodes, reserved : SUBSET Agents, slots : 0 .. PoolSize]
  /\ lock.holder # Nobody => pc[lock.holder] \in {"chain", "dispatch"}
  /\ \A x \in Tasks : job[x] = "running" <=> pc[x] # "idle"

\* A node is worked on only when all its dependencies are done, in whatever
\* order threads finish, fail, dispatch, pause and restart: the worktree it is
\* staged from holds its ancestors' final work.  (The handler of a cancelled run
\* may undo a done node: the failure of the run it cannot write is taken for the
\* node's.)
DependenciesFirst ==
  \A n \in Nodes : pc[n] = "working" /\ StatusOf(RunOf[n]) # "cancelled" =>
    \A d \in Deps[n] : node[d].status = "done"

\* No agent works on two nodes at once, of one run or of two
\* (the "per-agent exclusivity" _enqueue_ready_subtasks_locked promises).
AgentExclusive ==
  \A m, n \in Nodes :
    pc[m] = "working" /\ pc[n] = "working" /\ m # n => mine[m].agent # mine[n].agent

\* Only a graph whose nodes are all done is queued for its merge, and no
\* later event undoes one of them before the merge, unless the run is cancelled.
MergedWhole ==
  \A r \in merge : StatusOf(r) # "cancelled" =>
    \A n \in NodesOf(r) : node[n].status = "done"

AtRest == \A x \in Tasks : pc[x] = "idle"

\* A run that is being implemented, when every thread is through, has a job
\* that somebody will claim or release: its graph is never left half done with
\* nothing to move it on.
NoDeadGraph ==
  AtRest => \A r \in Runs :
    StatusOf(r) = "implementing"
      => r \in merge \/ \E x \in NodesOf(r) \cup {r} : job[x] # "none"

\* A node is blocked only behind a node that has failed for good.
BlockedByFailure ==
  \A n \in Nodes : node[n].status = "blocked" =>
    \E d \in TransitiveDeps[n] : node[d].status = "failed"

\* The graph of a run comes to a merge, or the run fails or waits.
GraphSettles ==
  \A r \in Runs : (StatusOf(r) = "implementing")
                    ~> (r \in merge \/ StatusOf(r) # "implementing")

\* A node with attempts left after a failure has a job to try it again.
RetryIsQueued ==
  AtRest => \A n \in Nodes :
    /\ StatusOf(RunOf[n]) = "implementing" /\ node[n].status = "pending"
    /\ node[n].attempts \in 1 .. (MaxAttempts - 1)
    => job[n] # "none"
=============================================================================
