------------------------------ MODULE JobQueue ------------------------------
(***************************************************************************)
(* The durable job queue of backend/orchestrator.py: the rows of the jobs  *)
(* table, the drainer tasks of the thread pool that claim and execute them *)
(* under a lease, the callers that insert jobs and wake the drainers, the  *)
(* pause of a run whose Ollama host is gone and the release of its jobs,   *)
(* cancellation, lost leases and a restart of the process.                 *)
(* What a handler does to the run is abstracted to the class of the run's  *)
(* status (RunStates); the handlers themselves are other modules' subject. *)
(***************************************************************************)
EXTENDS Naturals, FiniteSets, RunStates

CONSTANTS
  Runs,        \* runs of the installation
  Nodes,       \* task-graph nodes; a node names its subtask job
  PlainTypes,  \* the job types without a node that an instance uses
  Threads,     \* threads of the executor, _queue_workers of them
  PoolSize,    \* worker_pool_size
  NoRun, NoThread,
  MaxJobs,     \* bound: rows ever inserted
  MaxCalls,    \* bound: start_job_queue calls outstanding at once
  MaxOutages,  \* bound: times a handler meets an offline Ollama
  MaxFaults,   \* bound: lost leases and failed finalizations
  MaxRestarts  \* bound: restarts of the process

ASSUME QueueAssumption ==
  /\ IsFiniteSet(Threads) /\ Threads # {}
  /\ PoolSize \in Nat \ {0}
  /\ {MaxJobs, MaxCalls, MaxOutages, MaxFaults, MaxRestarts} \subseteq Nat
  /\ NoRun \notin Runs /\ NoThread \notin Threads
  /\ PlainTypes \subseteq {"provisional", "decompose", "research",
                           "implementation", "merge"}
  /\ PlainTypes \cap Nodes = {}

Kinds == PlainTypes \cup Nodes
JobIds == 1 .. MaxJobs
ActiveStatus == {"pending", "running", "waiting_ollama"}
FinalStatus == {"done", "failed", "cancelled"}

\* Kinds of pending jobs a pause parks with the job that met the outage.
Pausable == Kinds \ {"provisional", "decompose"}

VARIABLES
  jobs,        \* the jobs table; a row not yet inserted is "absent"
  last,        \* highest id inserted
  run,         \* class of every run's status
  cancelling,  \* runs cancel_run has marked, their jobs not yet updated
  pc,          \* where each executor thread is
  cur,         \* the job a thread executes, 0 for none
  verdict,     \* the final status a thread has read and will write
  active,      \* _active_drainers
  queued,      \* drainer tasks submitted and not yet started
  calls,       \* callers that changed rows and have yet to call start_job_queue
  outages, faults, restarts

volatile == <<pc, cur, verdict, active, queued, calls>>
bounds == <<outages, faults, restarts>>
vars == <<jobs, last, run, cancelling, volatile, bounds>>

NoRow == [run |-> NoRun, kind |-> NoRun, status |-> "absent",
          owner |-> NoThread, lapsed |-> FALSE, cancel |-> FALSE]

NewRow(r, k, s) == [run |-> r, kind |-> k, status |-> s,
                    owner |-> NoThread, lapsed |-> FALSE, cancel |-> FALSE]

Init ==
  /\ jobs = [i \in JobIds |-> NoRow]
  /\ last = 0
  /\ run = [r \in Runs |-> "active"]
  /\ cancelling = {}
  /\ pc = [t \in Threads |-> "free"]
  /\ cur = [t \in Threads |-> 0]
  /\ verdict = [t \in Threads |-> "done"]
  /\ active = 0 /\ queued = 0
  /\ calls = 1               \* the lifespan handler starts the queue
  /\ outages = 0 /\ faults = 0 /\ restarts = 0

-----------------------------------------------------------------------------
(* Rows.                                                                   *)

\* The rows the partial unique indexes idx_jobs_one_active_type and
\* idx_jobs_one_active_node compare.
ActiveRows(table, r, k) ==
  { i \in JobIds : /\ table[i].run = r /\ table[i].kind = k
                   /\ table[i].status \in ActiveStatus }

\* The indexes refuse a statement that would leave two of them.
IndexAllows(table) ==
  \A i, j \in JobIds :
    /\ table[i].status \in ActiveStatus
    /\ table[j].status \in ActiveStatus
    /\ table[i].run = table[j].run
    /\ table[i].kind = table[j].kind
    => i = j

Park(row) == [row EXCEPT !.status = "waiting_ollama", !.owner = NoThread,
                         !.lapsed = FALSE]
Requeue(row) == [row EXCEPT !.status = "pending", !.owner = NoThread,
                            !.lapsed = FALSE]
Lease(row, t) == [row EXCEPT !.status = "running", !.owner = t]
Close(row, s) == [row EXCEPT !.status = s, !.owner = NoThread, !.lapsed = FALSE]
SetLapsed(row, b) == [row EXCEPT !.lapsed = b]
RequestCancel(row) ==
  [row EXCEPT !.status = IF row.status = "pending" THEN "cancelled"
                         ELSE row.status,
              !.cancel = TRUE]

-----------------------------------------------------------------------------
(* Callers: the API handlers and the job handlers.                         *)

\* Mutant: the duplicate check looks at pending jobs only.
EnqueueJobPendingOnly(r, k) ==
  /\ calls < MaxCalls
  /\ ~ \E i \in ActiveRows(jobs, r, k) : jobs[i].status = "pending"
  /\ last < MaxJobs
  /\ calls' = calls + 1
  /\ last' = last + 1
  /\ jobs' = [jobs EXCEPT ![last + 1] = NewRow(r, k, "pending")]
  /\ UNCHANGED <<run, cancelling, pc, cur, verdict, active, queued, bounds>>

\* enqueue_job up to its call of start_job_queue: one transaction that
\* inserts a row unless the run has an active job of that kind.
EnqueueJob(r, k) ==
  /\ calls < MaxCalls
  /\ calls' = calls + 1
  /\ IF ActiveRows(jobs, r, k) # {}
       THEN UNCHANGED <<jobs, last>>
       ELSE /\ last < MaxJobs
            /\ last' = last + 1
            /\ jobs' = [jobs EXCEPT ![last + 1] = NewRow(r, k, "pending")]
  /\ UNCHANGED <<run, cancelling, pc, cur, verdict, active, queued, bounds>>

\* enqueue_waiting_job: insert or ignore, for the research after a
\* provisional plan.
EnqueueWaitingJob(r) ==
  /\ "research" \in PlainTypes
  /\ ActiveRows(jobs, r, "research") = {}
  /\ last < MaxJobs
  /\ last' = last + 1
  /\ jobs' = [jobs EXCEPT ![last + 1] = NewRow(r, "research", "waiting_ollama")]
  /\ UNCHANGED <<run, cancelling, volatile, bounds>>

\* Mutant: the drainers are submitted and not counted.
TopUpUncounted ==
  /\ queued' = queued + (Cardinality(Threads) - active)
  /\ UNCHANGED active

\* start_job_queue: top the drainers up to one per executor thread.
TopUp ==
  /\ queued' = queued + (Cardinality(Threads) - active)
  /\ active' = Cardinality(Threads)

StartJobQueue ==
  /\ calls > 0
  /\ calls' = calls - 1
  /\ TopUp
  /\ UNCHANGED <<jobs, last, run, cancelling, pc, cur, verdict,
                 bounds>>

\* redo_plan cancels the graph regeneration it supersedes.
SupersedeDecompose(r) ==
  LET old == { i \in JobIds : /\ jobs[i].run = r /\ jobs[i].kind = "decompose"
                              /\ jobs[i].status \in {"pending", "waiting_ollama"} }
  IN /\ old # {}
     /\ jobs' = [i \in JobIds |->
                   IF i \in old THEN Close(jobs[i], "cancelled")
                                ELSE jobs[i]]
     /\ UNCHANGED <<last, run, cancelling, volatile, bounds>>

\* Any other move of a run: a handler's or a user's update_run.
RunMoves(r, c) ==
  /\ <<run[r], c>> \in ClassMoves
  /\ c # "cancelled" /\ c # run[r]
  /\ run' = [run EXCEPT ![r] = c]
  /\ UNCHANGED <<jobs, last, cancelling, volatile, bounds>>

\* cancel_run, first statement: the run.
CancelRun(r) ==
  /\ run[r] \notin {"applying", "finished"}
  /\ r \notin cancelling
  /\ run' = [run EXCEPT ![r] = "cancelled"]
  /\ cancelling' = cancelling \cup {r}
  /\ UNCHANGED <<jobs, last, volatile, bounds>>

\* Mutant: the statement lost its filter on the job's status.
CancelJobsAnyStatus(r) ==
  /\ r \in cancelling
  /\ cancelling' = cancelling \ {r}
  /\ jobs' = [i \in JobIds |->
       IF jobs[i].run = r THEN RequestCancel(jobs[i]) ELSE jobs[i]]
  /\ UNCHANGED <<last, run, volatile, bounds>>

\* cancel_run, second statement: its pending and running jobs.
CancelJobs(r) ==
  /\ r \in cancelling
  /\ cancelling' = cancelling \ {r}
  /\ jobs' = [i \in JobIds |->
       IF jobs[i].run = r /\ jobs[i].status \in {"pending", "running"}
         THEN RequestCancel(jobs[i]) ELSE jobs[i]]
  /\ UNCHANGED <<last, run, volatile, bounds>>

-----------------------------------------------------------------------------
(* Drainers.                                                               *)

\* A free executor thread starts a submitted drainer task.
StartDrainer(t) ==
  /\ pc[t] = "free" /\ queued > 0
  /\ queued' = queued - 1
  /\ pc' = [pc EXCEPT ![t] = "claim"]
  /\ UNCHANGED <<jobs, last, run, cancelling, cur, verdict, active, calls, bounds>>

\* Mutant: the lease's expiry is not compared with the clock.
ExpiredAnyLease(i) == /\ jobs[i].status = "running"
                      /\ run[jobs[i].run] \notin TerminalClasses

\* Running jobs with an expired lease go back to pending, unless their run
\* is over.
Expired(i) == /\ jobs[i].status = "running" /\ jobs[i].lapsed
              /\ run[jobs[i].run] \notin TerminalClasses

AfterExpiry ==
  [i \in JobIds |-> IF Expired(i) THEN Requeue(jobs[i]) ELSE jobs[i]]

RunningSubtasks(table, r) ==
  { i \in JobIds : /\ table[i].run = r /\ table[i].kind \in Nodes
                   /\ table[i].status = "running" }

\* Mutant: one subtask more than the pool size.
ClaimableOneMore(table) ==
  { i \in JobIds :
      /\ table[i].status = "pending"
      /\ \/ table[i].kind \notin Nodes
         \/ Cardinality(RunningSubtasks(table, table[i].run)) <= PoolSize }

Claimable(table) ==
  { i \in JobIds :
      /\ table[i].status = "pending"
      /\ \/ table[i].kind \notin Nodes
         \/ Cardinality(RunningSubtasks(table, table[i].run)) < PoolSize }

\* The claim transaction takes the oldest claimable job ...
Claim(t) ==
  /\ pc[t] = "claim" /\ Claimable(AfterExpiry) # {}
  /\ \E i \in Claimable(AfterExpiry) :
       /\ \A j \in Claimable(AfterExpiry) : i <= j
       /\ jobs' = [AfterExpiry EXCEPT ![i] = Lease(AfterExpiry[i], t)]
       /\ cur' = [cur EXCEPT ![t] = i]
  /\ pc' = [pc EXCEPT ![t] = "run"]
  /\ UNCHANGED <<last, run, cancelling, verdict, active, queued, calls, bounds>>

\* ... or finds none, which ends the drainer's loop.
ClaimNothing(t) ==
  /\ pc[t] = "claim" /\ Claimable(AfterExpiry) = {}
  /\ jobs' = AfterExpiry
  /\ pc' = [pc EXCEPT ![t] = "leave"]
  /\ UNCHANGED <<last, run, cancelling, cur, verdict, active, queued, calls, bounds>>

\* The handler returned: the final status is read from the job and its run.
HandlerReturns(t) ==
  /\ pc[t] = "run"
  /\ LET row == jobs[cur[t]] IN
       verdict' = [verdict EXCEPT ![t] =
         IF row.cancel \/ run[row.run] = "cancelled" THEN "cancelled"
         ELSE IF run[row.run] = "failed" THEN "failed" ELSE "done"]
  /\ pc' = [pc EXCEPT ![t] = "final"]
  /\ UNCHANGED <<jobs, last, run, cancelling, cur, active, queued, calls, bounds>>

HandlerRaises(t) ==
  /\ pc[t] = "run"
  /\ verdict' = [verdict EXCEPT ![t] =
                   IF jobs[cur[t]].cancel THEN "cancelled" ELSE "failed"]
  /\ pc' = [pc EXCEPT ![t] = "final"]
  /\ UNCHANGED <<jobs, last, run, cancelling, cur, active, queued, calls, bounds>>

\* The final status is written by id alone; the lease owner is not compared.
Finalize(t) ==
  /\ pc[t] = "final"
  /\ jobs' = [jobs EXCEPT ![cur[t]] = Close(jobs[cur[t]], verdict[t])]
  /\ pc' = [pc EXCEPT ![t] = "claim"]
  /\ cur' = [cur EXCEPT ![t] = 0]
  /\ verdict' = [verdict EXCEPT ![t] = "done"]
  /\ UNCHANGED <<last, run, cancelling, active, queued, calls,
                 bounds>>

\* The database refuses the final write: the exception ends the drainer and
\* the row stays running.
FinalizeFails(t) ==
  /\ pc[t] = "final" /\ faults < MaxFaults
  /\ faults' = faults + 1
  /\ pc' = [pc EXCEPT ![t] = "leave"]
  /\ cur' = [cur EXCEPT ![t] = 0]
  /\ verdict' = [verdict EXCEPT ![t] = "done"]
  /\ UNCHANGED <<jobs, last, run, cancelling, active, queued, calls, outages, restarts>>

\* _pause_job_for_ollama, up to the run: it reads the run's status, parks the
\* job itself, by id alone, and the pending jobs of its run.  A run it found
\* waiting is left alone.  An index that refuses the first statement ends the
\* drainer.
Parked(i) ==
  [j \in JobIds |->
     IF j = i \/ (/\ jobs[j].run = jobs[i].run /\ jobs[j].status = "pending"
                  /\ jobs[j].kind \in Pausable)
       THEN Park(jobs[j]) ELSE jobs[j]]

HandlerPauses(t) ==
  LET i == cur[t]
      next == IF ~ IndexAllows([jobs EXCEPT ![i] = Park(jobs[i])]) THEN "leave"
              ELSE IF run[jobs[i].run] = "waiting" THEN "claim" ELSE "pause"
  IN
  /\ pc[t] = "run" /\ outages < MaxOutages
  /\ outages' = outages + 1
  /\ jobs' = IF next = "leave" THEN jobs ELSE Parked(i)
  /\ pc' = [pc EXCEPT ![t] = next]
  /\ cur' = [cur EXCEPT ![t] = IF next = "pause" THEN i ELSE 0]
  /\ UNCHANGED <<last, run, cancelling, verdict, active, queued, calls, faults, restarts>>

\* _pause_job_for_ollama, the run: the move to waiting_for_ollama raises for a
\* run that has meanwhile been cancelled or finished, and that ends the drainer.
PauseRun(t) ==
  /\ pc[t] = "pause"
  /\ LET r == jobs[cur[t]].run IN
       IF <<run[r], "waiting">> \in ClassMoves
         THEN /\ run' = [run EXCEPT ![r] = "waiting"]
              /\ pc' = [pc EXCEPT ![t] = "claim"]
         ELSE /\ pc' = [pc EXCEPT ![t] = "leave"]
              /\ UNCHANGED run
  /\ cur' = [cur EXCEPT ![t] = 0]
  /\ UNCHANGED <<jobs, last, cancelling, verdict, active, queued, calls, bounds>>

\* Mutant: the slot is not given back.
LeaveLoopKeepsSlot(t) ==
  /\ pc[t] = "leave"
  /\ pc' = [pc EXCEPT ![t] = "check"]
  /\ UNCHANGED <<jobs, last, run, cancelling, cur, verdict, active, queued,
                 calls, bounds>>

\* The outer finally block: give the slot back under the lock ...
LeaveLoop(t) ==
  /\ pc[t] = "leave"
  /\ active' = active - 1
  /\ pc' = [pc EXCEPT ![t] = "check"]
  /\ UNCHANGED <<jobs, last, run, cancelling, cur, verdict, queued, calls, bounds>>

PendingJobs == { i \in JobIds : jobs[i].status = "pending" }

\* Mutant: the thread does not look again.
LastLookSkipped(t) ==
  /\ pc[t] = "check"
  /\ pc' = [pc EXCEPT ![t] = "free"]
  /\ UNCHANGED <<jobs, last, run, cancelling, cur, verdict, active, queued,
                 calls, bounds>>

\* Mutant: the slot is given back a second time.
LastLookTwice(t) ==
  /\ pc[t] = "check"
  /\ IF PendingJobs # {} THEN TopUp
     ELSE active' = active - 1 /\ UNCHANGED queued
  /\ pc' = [pc EXCEPT ![t] = "free"]
  /\ UNCHANGED <<jobs, last, run, cancelling, cur, verdict, calls, bounds>>

\* ... and look once more for pending jobs before the thread is free.
LastLook(t) ==
  /\ pc[t] = "check"
  /\ IF PendingJobs # {} THEN TopUp ELSE UNCHANGED <<active, queued>>
  /\ pc' = [pc EXCEPT ![t] = "free"]
  /\ UNCHANGED <<jobs, last, run, cancelling, cur, verdict, calls, bounds>>

-----------------------------------------------------------------------------
(* Leases.                                                                 *)

\* Twenty minutes without a heartbeat: its thread died on a database error,
\* or the host slept.
LeaseLapses(i) ==
  /\ faults < MaxFaults
  /\ jobs[i].status = "running" /\ ~ jobs[i].lapsed
  /\ faults' = faults + 1
  /\ jobs' = [jobs EXCEPT ![i] = SetLapsed(jobs[i], TRUE)]
  /\ UNCHANGED <<last, run, cancelling, volatile, outages, restarts>>

\* _lease_heartbeat of a thread that still runs renews its own lease.
Heartbeat(t) ==
  /\ pc[t] \in {"run", "pause", "final"}
  /\ LET row == jobs[cur[t]] IN
       row.status = "running" /\ row.owner = t /\ row.lapsed
  /\ jobs' = [jobs EXCEPT ![cur[t]] = SetLapsed(jobs[cur[t]], FALSE)]
  /\ UNCHANGED <<last, run, cancelling, volatile, bounds>>

-----------------------------------------------------------------------------
(* recover_waiting_ollama, once a probe has found Ollama reachable: the runs  *)
(* with waiting jobs move back to the status the pause saved, then every      *)
(* waiting job is pending again.  A run that may not move back raises before  *)
(* any job is released; the runs moved before it are RunMoves steps.          *)

WaitingJobs == { i \in JobIds : jobs[i].status = "waiting_ollama" }
WaitingRuns == { jobs[i].run : i \in WaitingJobs }

\* The classes of the statuses a pause saves.
ResumeClasses == {"active", "applying", "failed"}

ReleaseWaiting ==
  /\ WaitingJobs # {}
  /\ \E resume \in [WaitingRuns -> ResumeClasses] :
       /\ \A r \in WaitingRuns : <<run[r], resume[r]>> \in ClassMoves
       /\ run' = [r \in Runs |-> IF r \in WaitingRuns THEN resume[r] ELSE run[r]]
  /\ jobs' = [i \in JobIds |-> IF i \in WaitingJobs THEN Requeue(jobs[i])
                                                    ELSE jobs[i]]
  /\ calls' = calls + 1
  /\ UNCHANGED <<last, cancelling, pc, cur, verdict, active, queued, bounds>>

-----------------------------------------------------------------------------
(* A restart: the process is gone with everything volatile; init_db and the *)
(* lifespan handler repair the tables before the queue is started again.    *)

\* What becomes of a run caught in applying or post_check: it fails, its
\* requeued jobs fail with it, and its snapshot is restored if it has one; a
\* run that already carried an error keeps it and is left alone after it fails.
Repair == { "restored", "failed", "kept" }

Restart ==
  /\ restarts < MaxRestarts
  /\ restarts' = restarts + 1
  /\ \E fix \in [Runs -> Repair] :
       LET hit(r) == run[r] = "applying"
           closed(r) == hit(r) /\ fix[r] # "kept"
       IN
       /\ \A r \in Runs : ~ hit(r) => fix[r] = "kept"
       /\ run' = [r \in Runs |->
            IF ~ hit(r) THEN run[r]
            ELSE IF fix[r] = "restored" THEN "finished" ELSE "failed"]
       /\ jobs' = [i \in JobIds |->
            LET row == IF jobs[i].status = "running" THEN Requeue(jobs[i])
                       ELSE jobs[i]
            IN IF row.status = "pending" /\ closed(row.run)
                 THEN Close(row, "failed") ELSE row]
  /\ pc' = [t \in Threads |-> "free"]
  /\ cur' = [t \in Threads |-> 0]
  /\ verdict' = [t \in Threads |-> "done"]
  /\ active' = 0 /\ queued' = 0 /\ calls' = 1
  /\ cancelling' = {}
  /\ UNCHANGED <<last, outages, faults>>

-----------------------------------------------------------------------------
Callers == \/ \E r \in Runs, k \in Kinds : EnqueueJob(r, k)
           \/ \E r \in Runs : EnqueueWaitingJob(r)
           \/ \E r \in Runs : SupersedeDecompose(r)
           \/ \E r \in Runs, c \in RunClasses : RunMoves(r, c)
           \/ \E r \in Runs : CancelRun(r) \/ CancelJobs(r)

Handler(t) == HandlerReturns(t) \/ HandlerRaises(t) \/ HandlerPauses(t)

Drainer(t) == \/ StartDrainer(t) \/ Claim(t) \/ ClaimNothing(t)
              \/ Handler(t) \/ Finalize(t) \/ FinalizeFails(t) \/ PauseRun(t)
              \/ LeaveLoop(t) \/ LastLook(t)

Leases == \/ \E i \in JobIds : LeaseLapses(i)
          \/ \E t \in Threads : Heartbeat(t)

Next == \/ Callers \/ StartJobQueue \/ (\E t \in Threads : Drainer(t))
        \/ Leases \/ ReleaseWaiting \/ Restart

Spec == Init /\ [][Next]_vars

\* Executor threads, callers on their way to start_job_queue are
\* scheduled, and a handler ends (its calls have timeouts).  Users, Ollama,
\* faults and restarts owe nothing.
Fairness ==
  /\ WF_vars(StartJobQueue)
  /\ \A t \in Threads : WF_vars(Drainer(t))
  /\ \A r \in Runs : WF_vars(CancelJobs(r))

FairSpec == Spec /\ Fairness

-----------------------------------------------------------------------------
(* Properties.                                                             *)

Row == [run : Runs \cup {NoRun}, kind : Kinds \cup {NoRun},
        status : {"absent"} \cup ActiveStatus \cup FinalStatus,
        owner : Threads \cup {NoThread}, lapsed : BOOLEAN, cancel : BOOLEAN]

\* The table is filled in order; an executing thread has a job.
WellFormed ==
  /\ \A i \in JobIds : (jobs[i].status = "absent") <=> (i > last)
  /\ \A i \in JobIds : jobs[i].status # "absent" =>
       jobs[i].run \in Runs /\ jobs[i].kind \in Kinds
  /\ \A t \in Threads : (cur[t] # 0) <=> (pc[t] \in {"run", "pause", "final"})
  /\ \A t \in Threads : cur[t] <= last

\* Every variable of the queue stays in its range, the table is filled in
\* order, and exactly the executing threads have a job.
TypeOK ==
  /\ jobs \in [JobIds -> Row]
  /\ last \in 0 .. MaxJobs
  /\ run \in [Runs -> RunClasses]
  /\ cancelling \subseteq Runs
  /\ pc \in [Threads -> {"free", "claim", "run", "pause", "final", "leave",
                         "check"}]
  /\ cur \in [Threads -> 0 .. MaxJobs]
  /\ verdict \in [Threads -> FinalStatus]
  /\ active \in Nat /\ queued \in Nat /\ calls \in Nat
  /\ outages \in 0 .. MaxOutages
  /\ faults \in 0 .. MaxFaults
  /\ restarts \in 0 .. MaxRestarts
  /\ WellFormed

\* A run never has two active jobs of one type or for one node, through
\* enqueues, pauses, releases, expired leases and restarts
\* (enqueue_job's check in its transaction, and the two partial indexes).
OneActiveJob == IndexAllows(jobs)

InLoop == { t \in Threads : pc[t] \in {"claim", "run", "pause", "final", "leave"} }

\* _active_drainers counts exactly the drainer tasks that are submitted or in
\* their loop, so start_job_queue never over- or under-fills the executor.
DrainersCounted ==
  /\ active = queued + Cardinality(InLoop)
  /\ active <= Cardinality(Threads)

\* No lost wakeup: while a job is pending, some drainer will still look at the
\* table: one is submitted, in its loop or at its last look, or a caller of
\* start_job_queue is on its way.
NoLostWakeup ==
  PendingJobs # {} =>
    \/ queued > 0 \/ calls > 0
    \/ \E t \in Threads : pc[t] \in {"claim", "run", "pause", "final", "leave",
                                     "check"}

\* Without a lost lease or a failed write, a job is running exactly while one
\* thread executes it, and that thread owns its lease: no job is executed twice
\* at once, and no row stays running with nobody behind it.
SoleExecutor ==
  faults = 0 =>
    /\ \A t \in Threads : pc[t] \in {"run", "final"} =>
         jobs[cur[t]].status = "running" /\ jobs[cur[t]].owner = t
    /\ \A i \in JobIds : jobs[i].status = "running" =>
         \E t \in Threads : pc[t] \in {"run", "final"} /\ cur[t] = i

\* Without a lost lease, the threads at work on one run's subtasks never exceed
\* worker_pool_size, however many drainers there are.
PoolRespected ==
  faults = 0 =>
    \A r \in Runs :
      Cardinality({ t \in Threads : /\ pc[t] \in {"run", "final"}
                                    /\ jobs[cur[t]].run = r
                                    /\ jobs[cur[t]].kind \in Nodes }) <= PoolSize

\* Without a lost lease, the record of a finished job never changes again: no
\* late write, pause, release, cancellation or restart revives it.
FinishedIsFinal ==
  [][ faults' = 0 =>
        \A i \in JobIds : jobs[i].status \in FinalStatus => jobs'[i] = jobs[i] ]_vars

\* Every pending job is eventually claimed, parked or cancelled.
PendingIsServed ==
  \A i \in JobIds : jobs[i].status = "pending" ~> jobs[i].status # "pending"
=============================================================================
