--------------------------- MODULE JobQueueProofs ---------------------------
(***************************************************************************)
(* Theorems about the job queue, for every set of runs, nodes and threads  *)
(* and every bound.                                                        *)
(***************************************************************************)
EXTENDS JobQueue, FiniteSetTheorems, TLAPS

\* What each statement makes of a row is a row of the same run and kind, with
\* the status the statement writes.
SameJob(new, old) == new \in Row /\ new.run = old.run /\ new.kind = old.kind

LEMMA ParkFields ==
  \A row \in Row : /\ SameJob(Park(row), row)
                   /\ Park(row).status = "waiting_ollama"
                   /\ Park(row).lapsed = FALSE
  BY DEF SameJob, Park, Row, ActiveStatus, FinalStatus

LEMMA RequeueFields ==
  \A row \in Row : /\ SameJob(Requeue(row), row)
                   /\ Requeue(row).status = "pending"
                   /\ Requeue(row).lapsed = FALSE
  BY DEF SameJob, Requeue, Row, ActiveStatus, FinalStatus

LEMMA LeaseFields ==
  \A row \in Row, t \in Threads :
    /\ SameJob(Lease(row, t), row)
    /\ Lease(row, t).status = "running" /\ Lease(row, t).owner = t
    /\ Lease(row, t).lapsed = row.lapsed
  BY DEF SameJob, Lease, Row, ActiveStatus, FinalStatus

LEMMA CloseFields ==
  \A row \in Row, s \in FinalStatus :
    /\ SameJob(Close(row, s), row)
    /\ Close(row, s).status = s /\ Close(row, s).lapsed = FALSE
  BY DEF SameJob, Close, Row, ActiveStatus, FinalStatus

LEMMA SetLapsedFields ==
  \A row \in Row, b \in BOOLEAN :
    /\ SameJob(SetLapsed(row, b), row)
    /\ SetLapsed(row, b).status = row.status
    /\ SetLapsed(row, b).owner = row.owner /\ SetLapsed(row, b).lapsed = b
  BY DEF SameJob, SetLapsed, Row, ActiveStatus, FinalStatus

LEMMA RequestCancelFields ==
  \A row \in Row :
    /\ SameJob(RequestCancel(row), row)
    /\ row.status = "pending" => RequestCancel(row).status = "cancelled"
    /\ row.status # "pending" => RequestCancel(row).status = row.status
    /\ RequestCancel(row).owner = row.owner
    /\ RequestCancel(row).lapsed = row.lapsed
<1>1. SUFFICES ASSUME NEW row \in Row
               PROVE  /\ SameJob(RequestCancel(row), row)
                      /\ row.status = "pending" => RequestCancel(row).status = "cancelled"
                      /\ row.status # "pending" => RequestCancel(row).status = row.status
                      /\ RequestCancel(row).owner = row.owner
                      /\ RequestCancel(row).lapsed = row.lapsed
  OBVIOUS
<1>2. CASE row.status = "pending"
  <2>1. RequestCancel(row) = [row EXCEPT !.status = "cancelled", !.cancel = TRUE]
    BY <1>2 DEF RequestCancel
  <2>2. QED
    BY <1>2, <2>1 DEF SameJob, Row, FinalStatus
<1>3. CASE row.status # "pending"
  <2>1. RequestCancel(row) = [row EXCEPT !.status = row.status, !.cancel = TRUE]
    BY <1>3 DEF RequestCancel
  <2>2. QED
    BY <1>3, <2>1 DEF SameJob, Row
<1>4. QED
  BY <1>2, <1>3

\* The same of a new row.
LEMMA NewRowFields ==
  \A r \in Runs, k \in Kinds, s \in ActiveStatus :
    /\ NewRow(r, k, s) \in Row
    /\ NewRow(r, k, s).run = r /\ NewRow(r, k, s).kind = k
    /\ NewRow(r, k, s).status = s /\ NewRow(r, k, s).lapsed = FALSE
    /\ NewRow(r, k, s).status # "absent"
  BY DEF NewRow, Row, ActiveStatus

\* The thread count of the executor is a positive number.
LEMMA ThreadCount == Cardinality(Threads) \in Nat \ {0}
  BY QueueAssumption, FS_CardinalityType, FS_EmptySet

-----------------------------------------------------------------------------
(* Type correctness.  A statement that rewrites rows keeps the run and the *)
(* kind of every row and neither inserts nor removes one; that is what     *)
(* SameRows says and what most actions need.                               *)

SameRows ==
  /\ jobs' \in [JobIds -> Row]
  /\ \A i \in JobIds :
       /\ SameJob(jobs'[i], jobs[i])
       /\ jobs'[i].status = "absent" <=> jobs[i].status = "absent"

LEMMA OneRowRewritten ==
  ASSUME jobs \in [JobIds -> Row], NEW i \in JobIds, NEW row, SameJob(row, jobs[i]),
         row.status = "absent" <=> jobs[i].status = "absent",
         jobs' = [jobs EXCEPT ![i] = row]
  PROVE  SameRows
  BY DEF SameRows, SameJob

\* An inserted row extends the table by one.
LEMMA InsertedRow ==
  ASSUME TypeOK, NEW r \in Runs, NEW k \in Kinds, NEW s \in ActiveStatus,
         last < MaxJobs, last' = last + 1, cur' = cur, pc' = pc,
         jobs' = [jobs EXCEPT ![last + 1] = NewRow(r, k, s)]
  PROVE  jobs' \in [JobIds -> Row] /\ last' \in 0 .. MaxJobs /\ WellFormed'
<1>1. last + 1 \in JobIds
  BY QueueAssumption DEF TypeOK, JobIds
<1>2. NewRow(r, k, s) \in Row /\ NewRow(r, k, s).run = r
      /\ NewRow(r, k, s).kind = k /\ NewRow(r, k, s).status # "absent"
  BY NewRowFields
<1>3. jobs' \in [JobIds -> Row]
  BY <1>1, <1>2 DEF TypeOK
<1>4. \A i \in JobIds : jobs'[i] = IF i = last + 1 THEN NewRow(r, k, s) ELSE jobs[i]
  BY DEF TypeOK
<1>5. \A i \in JobIds : (jobs'[i].status = "absent") <=> (i > last')
  BY <1>1, <1>2, <1>4, QueueAssumption DEF TypeOK, WellFormed, JobIds
<1>6. \A i \in JobIds : jobs'[i].status # "absent" =>
        jobs'[i].run \in Runs /\ jobs'[i].kind \in Kinds
  BY <1>2, <1>4 DEF TypeOK, WellFormed
<1>7. QED
  BY <1>1, <1>3, <1>5, <1>6, QueueAssumption DEF TypeOK, WellFormed, JobIds

\* The part of the step that touches rows keeps them well formed.
LEMMA SameRowsWellFormed ==
  ASSUME TypeOK, SameRows, last' = last,
         \A t \in Threads : (cur'[t] # 0) <=> (pc'[t] \in {"run", "pause", "final"}),
         \A t \in Threads : cur'[t] <= last
  PROVE  WellFormed'
  BY DEF TypeOK, WellFormed, SameRows, SameJob

\* An executing thread's job is an inserted row.
LEMMA Executing ==
  ASSUME TypeOK, NEW t \in Threads, pc[t] \in {"run", "pause", "final"}
  PROVE  /\ cur[t] \in JobIds /\ jobs[cur[t]] \in Row
         /\ jobs[cur[t]].status # "absent" /\ jobs[cur[t]].run \in Runs
<1>1. cur[t] \in 0 .. MaxJobs /\ cur[t] # 0 /\ cur[t] <= last
  BY DEF TypeOK, WellFormed
<1>2. cur[t] \in JobIds
  BY <1>1, QueueAssumption DEF JobIds
<1>3. ~ (cur[t] > last)
  BY <1>1, QueueAssumption DEF TypeOK
<1>4. QED
  BY <1>2, <1>3 DEF TypeOK, WellFormed

\* What the claim transaction does to expired leases.
LEMMA ExpiryRows ==
  ASSUME TypeOK
  PROVE  /\ AfterExpiry \in [JobIds -> Row]
         /\ \A i \in JobIds :
              /\ SameJob(AfterExpiry[i], jobs[i])
              /\ AfterExpiry[i].status = "absent" <=> jobs[i].status = "absent"
<1>1. ASSUME NEW i \in JobIds
      PROVE  /\ AfterExpiry[i] \in Row
             /\ SameJob(AfterExpiry[i], jobs[i])
             /\ AfterExpiry[i].status = "absent" <=> jobs[i].status = "absent"
  <2>1. jobs[i] \in Row
    BY DEF TypeOK
  <2>2. CASE Expired(i)
    BY <2>1, <2>2, RequeueFields DEF AfterExpiry, Expired, SameJob
  <2>3. CASE ~ Expired(i)
    BY <2>1, <2>3 DEF AfterExpiry, SameJob
  <2>4. QED
    BY <2>2, <2>3
<1>2. QED
  BY <1>1 DEF AfterExpiry

\* The initial state is well typed.
LEMMA InitialType == Init => TypeOK
<1> SUFFICES ASSUME Init PROVE TypeOK
  OBVIOUS
<1>1. NoRow \in Row /\ NoRow.status = "absent"
  BY DEF NoRow, Row
<1>2. WellFormed
  BY <1>1, QueueAssumption DEF Init, WellFormed, JobIds
<1>3. QED
  BY <1>1, <1>2, QueueAssumption
     DEF Init, TypeOK, JobIds, RunClasses, FinalStatus

\* Every step of a caller of the queue keeps the state well typed.
LEMMA CallersType == TypeOK /\ Callers => TypeOK'
<1> SUFFICES ASSUME TypeOK, Callers PROVE TypeOK'
  OBVIOUS
<1> USE QueueAssumption
<1>1. ASSUME NEW r \in Runs, NEW k \in Kinds, EnqueueJob(r, k) PROVE TypeOK'
  <2>1. CASE ActiveRows(jobs, r, k) # {}
    BY <1>1, <2>1 DEF EnqueueJob, bounds, TypeOK, WellFormed
  <2>2. CASE ActiveRows(jobs, r, k) = {}
    <3>1. /\ last < MaxJobs /\ last' = last + 1
          /\ jobs' = [jobs EXCEPT ![last + 1] = NewRow(r, k, "pending")]
          /\ cur' = cur /\ pc' = pc
      BY <1>1, <2>2 DEF EnqueueJob
    <3>2. jobs' \in [JobIds -> Row] /\ last' \in 0 .. MaxJobs /\ WellFormed'
      BY <3>1, InsertedRow DEF ActiveStatus
    <3>3. QED
      BY <1>1, <3>2 DEF EnqueueJob, bounds, TypeOK
  <2>3. QED
    BY <2>1, <2>2
<1>2. ASSUME NEW r \in Runs, EnqueueWaitingJob(r) PROVE TypeOK'
  <2>1. /\ last < MaxJobs /\ last' = last + 1
        /\ jobs' = [jobs EXCEPT ![last + 1] =
                                   NewRow(r, "research", "waiting_ollama")]
        /\ cur' = cur /\ pc' = pc
    BY <1>2 DEF EnqueueWaitingJob, volatile
  <2>2. "research" \in Kinds
    BY <1>2 DEF EnqueueWaitingJob, Kinds
  <2>3. jobs' \in [JobIds -> Row] /\ last' \in 0 .. MaxJobs /\ WellFormed'
    BY <2>1, <2>2, InsertedRow DEF ActiveStatus
  <2>4. QED
    BY <1>2, <2>3 DEF EnqueueWaitingJob, volatile, bounds, TypeOK
<1>3. ASSUME NEW r \in Runs, SupersedeDecompose(r) PROVE TypeOK'
  <2>1. SameRows
    BY <1>3, CloseFields
       DEF SupersedeDecompose, SameRows, SameJob, TypeOK, FinalStatus
  <2>2. WellFormed'
    BY <1>3, <2>1, SameRowsWellFormed
       DEF SupersedeDecompose, volatile, TypeOK, WellFormed
  <2>3. QED
    BY <1>3, <2>1, <2>2
       DEF SupersedeDecompose, volatile, bounds, TypeOK, SameRows
<1>4. ASSUME NEW r \in Runs, NEW c \in RunClasses, RunMoves(r, c) PROVE TypeOK'
  BY <1>4 DEF RunMoves, volatile, bounds, TypeOK, WellFormed
<1>5. ASSUME NEW r \in Runs, CancelRun(r) PROVE TypeOK'
  BY <1>5 DEF CancelRun, volatile, bounds, TypeOK, WellFormed, RunClasses
<1>6. ASSUME NEW r \in Runs, CancelJobs(r) PROVE TypeOK'
  <2>1. SameRows
    BY <1>6, RequestCancelFields DEF CancelJobs, SameRows, SameJob, TypeOK
  <2>2. WellFormed'
    BY <1>6, <2>1, SameRowsWellFormed
       DEF CancelJobs, volatile, TypeOK, WellFormed
  <2>3. QED
    BY <1>6, <2>1, <2>2 DEF CancelJobs, volatile, bounds, TypeOK, SameRows
<1>7. QED
  BY <1>1, <1>2, <1>3, <1>4, <1>5, <1>6 DEF Callers

-----------------------------------------------------------------------------
(* The drainer count.  InLoop is finite, so entering and leaving the loop  *)
(* change its cardinality by one; every other step leaves it alone.        *)

LEMMA InLoopFinite ==
  ASSUME TypeOK
  PROVE  /\ IsFiniteSet(InLoop) /\ Cardinality(InLoop) \in Nat
         /\ Cardinality(InLoop) <= Cardinality(Threads)
<1>1. InLoop \subseteq Threads
  BY DEF InLoop
<1>2. QED
  BY <1>1, QueueAssumption, FS_Subset, FS_CardinalityType

\* A thread in its loop has a slot that start_job_queue counted.
LEMMA SlotCounted ==
  ASSUME TypeOK, DrainersCounted, NEW t \in InLoop
  PROVE  active > 0
<1>1. Cardinality(InLoop) # 0
  BY InLoopFinite, FS_EmptySet
<1>2. QED
  BY <1>1, InLoopFinite DEF DrainersCounted, TypeOK

\* Filling the executor up never needs a negative number of drainers.
LEMMA TopUpType ==
  ASSUME TypeOK, DrainersCounted, TopUp
  PROVE  queued' \in Nat /\ active' \in Nat
  BY ThreadCount DEF TopUp, TypeOK, DrainersCounted

LEMMA DrainerType ==
  ASSUME TypeOK, DrainersCounted, NEW t \in Threads, Drainer(t)
  PROVE  TypeOK'
<1> USE QueueAssumption
<1>1. CASE StartDrainer(t)
  BY <1>1 DEF StartDrainer, bounds, TypeOK, WellFormed
<1>2. CASE Claim(t)
  <2>1. PICK i \in Claimable(AfterExpiry) :
          /\ jobs' = [AfterExpiry EXCEPT ![i] = Lease(AfterExpiry[i], t)]
          /\ cur' = [cur EXCEPT ![t] = i]
    BY <1>2 DEF Claim
  <2>2. i \in JobIds /\ AfterExpiry[i].status = "pending"
    BY DEF Claimable
  <2>3. SameRows
    BY <2>1, <2>2, ExpiryRows, LeaseFields DEF SameRows, SameJob
  <2>4. i <= last /\ i # 0 /\ i \in 0 .. MaxJobs
    BY <2>2, ExpiryRows DEF TypeOK, WellFormed, JobIds
  <2>5. pc' = [pc EXCEPT ![t] = "run"] /\ last' = last
    BY <1>2 DEF Claim
  <2>6. WellFormed'
    BY <2>1, <2>3, <2>4, <2>5, SameRowsWellFormed DEF TypeOK, WellFormed
  <2>7. QED
    BY <1>2, <2>1, <2>3, <2>4, <2>6 DEF Claim, bounds, TypeOK, SameRows
<1>3. CASE ClaimNothing(t)
  <2>1. SameRows
    BY <1>3, ExpiryRows DEF ClaimNothing, SameRows
  <2>2. WellFormed'
    BY <1>3, <2>1, SameRowsWellFormed DEF ClaimNothing, TypeOK, WellFormed
  <2>3. QED
    BY <1>3, <2>1, <2>2 DEF ClaimNothing, bounds, TypeOK, SameRows
<1>4. CASE HandlerReturns(t)
  BY <1>4 DEF HandlerReturns, bounds, TypeOK, WellFormed, FinalStatus
<1>5. CASE HandlerRaises(t)
  BY <1>5 DEF HandlerRaises, bounds, TypeOK, WellFormed, FinalStatus
<1>6. CASE Finalize(t)
  <2>1. cur[t] \in JobIds /\ jobs[cur[t]] \in Row /\ jobs[cur[t]].status # "absent"
    BY <1>6, Executing DEF Finalize
  <2>2. verdict[t] \in FinalStatus
    BY DEF TypeOK
  <2>3. SameRows
    BY <1>6, <2>1, <2>2, CloseFields, OneRowRewritten
       DEF Finalize, FinalStatus, TypeOK
  <2>4. WellFormed'
    BY <1>6, <2>3, SameRowsWellFormed DEF Finalize, TypeOK, WellFormed
  <2>5. QED
    BY <1>6, <2>3, <2>4 DEF Finalize, bounds, TypeOK, SameRows, FinalStatus
<1>7. CASE FinalizeFails(t)
  BY <1>7 DEF FinalizeFails, TypeOK, WellFormed, FinalStatus
<1>8. CASE HandlerPauses(t)
  <2>1. cur[t] \in JobIds /\ jobs[cur[t]].status # "absent"
    BY <1>8, Executing DEF HandlerPauses
  <2>2. outages' \in 0 .. MaxOutages
    BY <1>8 DEF HandlerPauses, TypeOK
  <2>3. PICK next \in {"leave", "claim", "pause"} :
          /\ pc' = [pc EXCEPT ![t] = next]
          /\ cur' = [cur EXCEPT ![t] = IF next = "pause" THEN cur[t] ELSE 0]
          /\ jobs' = jobs \/ jobs' = Parked(cur[t])
    BY <1>8 DEF HandlerPauses
  <2>4. SameRows
    BY <2>1, <2>3, ParkFields DEF Parked, SameRows, SameJob, TypeOK
  <2>5. WellFormed'
    <3>1. \A s \in Threads :
            (cur'[s] # 0) <=> (pc'[s] \in {"run", "pause", "final"})
      BY <2>1, <2>3, QueueAssumption DEF TypeOK, WellFormed, JobIds
    <3>2. \A s \in Threads : cur'[s] <= last
      BY <2>3, QueueAssumption DEF TypeOK, WellFormed
    <3>3. last' = last
      BY <1>8 DEF HandlerPauses
    <3>4. QED
      BY <2>4, <3>1, <3>2, <3>3, SameRowsWellFormed
  <2>6. /\ pc' \in [Threads -> {"free", "claim", "run", "pause", "final",
                               "leave", "check"}]
        /\ cur' \in [Threads -> 0 .. MaxJobs]
    BY <2>3 DEF TypeOK
  <2>7. QED
    BY <1>8, <2>2, <2>4, <2>5, <2>6 DEF HandlerPauses, TypeOK, SameRows
<1>9. CASE PauseRun(t)
  <2>1. run' \in [Runs -> RunClasses]
    BY <1>9, Executing DEF PauseRun, TypeOK, RunClasses
  <2>2. QED
    BY <1>9, <2>1 DEF PauseRun, bounds, TypeOK, WellFormed
<1>10. CASE LeaveLoop(t)
  <2>1. active > 0
    BY <1>10, SlotCounted DEF LeaveLoop, InLoop
  <2>2. QED
    BY <1>10, <2>1 DEF LeaveLoop, bounds, TypeOK, WellFormed
<1>11. CASE LastLook(t)
  <2>1. queued' \in Nat /\ active' \in Nat
    BY <1>11, TopUpType DEF LastLook, TypeOK
  <2>2. QED
    BY <1>11, <2>1 DEF LastLook, bounds, TypeOK, WellFormed
<1>12. QED
  BY <1>1, <1>2, <1>3, <1>4, <1>5, <1>6, <1>7, <1>8, <1>9, <1>10, <1>11
     DEF Drainer, Handler

LEMMA StepType == TypeOK /\ DrainersCounted /\ [Next]_vars => TypeOK'
<1> SUFFICES ASSUME TypeOK, DrainersCounted, [Next]_vars PROVE TypeOK'
  OBVIOUS
<1> USE QueueAssumption
<1>1. CASE Callers
  BY <1>1, CallersType
<1>2. CASE StartJobQueue
  <2>1. queued' \in Nat /\ active' \in Nat
    BY <1>2, TopUpType DEF StartJobQueue
  <2>2. QED
    BY <1>2, <2>1 DEF StartJobQueue, bounds, TypeOK, WellFormed
<1>3. ASSUME NEW t \in Threads, Drainer(t) PROVE TypeOK'
  BY <1>3, DrainerType
<1>4. ASSUME NEW i \in JobIds, LeaseLapses(i) PROVE TypeOK'
  <2>1. SameRows
    BY <1>4, SetLapsedFields, OneRowRewritten DEF LeaseLapses, TypeOK
  <2>2. WellFormed'
    BY <1>4, <2>1, SameRowsWellFormed DEF LeaseLapses, volatile, TypeOK, WellFormed
  <2>3. faults' \in 0 .. MaxFaults
    BY <1>4 DEF LeaseLapses, TypeOK
  <2>4. QED
    BY <1>4, <2>1, <2>2, <2>3 DEF LeaseLapses, volatile, TypeOK, SameRows
<1>5. ASSUME NEW t \in Threads, Heartbeat(t) PROVE TypeOK'
  <2>1. cur[t] \in JobIds /\ jobs[cur[t]] \in Row
    BY <1>5, Executing DEF Heartbeat
  <2>2. SameRows
    BY <1>5, <2>1, SetLapsedFields, OneRowRewritten DEF Heartbeat, TypeOK
  <2>3. WellFormed'
    BY <1>5, <2>2, SameRowsWellFormed DEF Heartbeat, volatile, TypeOK, WellFormed
  <2>4. QED
    BY <1>5, <2>2, <2>3 DEF Heartbeat, volatile, bounds, TypeOK, SameRows
<1>6. CASE ReleaseWaiting
  <2>1. SameRows
    BY <1>6, RequeueFields
       DEF ReleaseWaiting, WaitingJobs, SameRows, SameJob, TypeOK
  <2>2. WellFormed'
    BY <1>6, <2>1, SameRowsWellFormed DEF ReleaseWaiting, TypeOK, WellFormed
  <2>3. run' \in [Runs -> RunClasses]
    <3>1. PICK resume \in [WaitingRuns -> ResumeClasses] :
            run' = [r \in Runs |-> IF r \in WaitingRuns THEN resume[r] ELSE run[r]]
      BY <1>6 DEF ReleaseWaiting
    <3>2. \A r \in WaitingRuns : resume[r] \in RunClasses
      BY DEF ResumeClasses, RunClasses
    <3>3. QED
      BY <3>1, <3>2 DEF TypeOK
  <2>4. QED
    BY <1>6, <2>1, <2>2, <2>3 DEF ReleaseWaiting, bounds, TypeOK, SameRows
<1>7. CASE Restart
  <2>1. SameRows
    BY <1>7, RequeueFields, CloseFields
       DEF Restart, SameRows, SameJob, TypeOK, FinalStatus
  <2>2. WellFormed'
    BY <1>7, <2>1, SameRowsWellFormed DEF Restart, TypeOK
  <2>3. run' \in [Runs -> RunClasses]
    BY <1>7 DEF Restart, TypeOK, RunClasses
  <2>4. QED
    BY <1>7, <2>1, <2>2, <2>3 DEF Restart, TypeOK, SameRows, FinalStatus, JobIds
<1>8. CASE UNCHANGED vars
  BY <1>8 DEF vars, volatile, bounds, TypeOK, WellFormed
<1>9. QED
  BY <1>1, <1>2, <1>3, <1>4, <1>5, <1>6, <1>7, <1>8 DEF Next, Leases

\* A step that neither enters nor leaves the loop keeps the count.
LEMMA CountKept ==
  ASSUME DrainersCounted, InLoop' = InLoop, active' = active, queued' = queued
  PROVE  DrainersCounted'
  BY DEF DrainersCounted

\* start_job_queue submits exactly what it counts.
LEMMA CountToppedUp ==
  ASSUME TypeOK, DrainersCounted, InLoop' = InLoop, TopUp
  PROVE  DrainersCounted'
  BY ThreadCount, InLoopFinite DEF DrainersCounted, TopUp, TypeOK

LEMMA StepCount == TypeOK /\ DrainersCounted /\ [Next]_vars => DrainersCounted'
<1> SUFFICES ASSUME TypeOK, DrainersCounted, [Next]_vars PROVE DrainersCounted'
  OBVIOUS
<1>1. CASE Callers
  <2>1. pc' = pc /\ active' = active /\ queued' = queued
    BY <1>1 DEF Callers, EnqueueJob, EnqueueWaitingJob, SupersedeDecompose,
                RunMoves, CancelRun, CancelJobs, volatile
  <2>2. QED
    BY <2>1, CountKept DEF InLoop
<1>2. CASE StartJobQueue
  BY <1>2, CountToppedUp DEF StartJobQueue, InLoop
<1>3. ASSUME NEW t \in Threads, StartDrainer(t) PROVE DrainersCounted'
  <2>1. InLoop' = InLoop \cup {t} /\ t \notin InLoop
    BY <1>3 DEF StartDrainer, InLoop, TypeOK
  <2>2. Cardinality(InLoop') = Cardinality(InLoop) + 1
    BY <2>1, InLoopFinite, FS_AddElement
  <2>3. QED
    BY <1>3, <2>2, InLoopFinite, ThreadCount
       DEF StartDrainer, DrainersCounted, TypeOK
<1>4. ASSUME NEW t \in Threads, Claim(t) \/ ClaimNothing(t) \/ Handler(t)
                  \/ Finalize(t) \/ FinalizeFails(t) \/ PauseRun(t)
      PROVE  DrainersCounted'
  <2>1. /\ \A s \in Threads \ {t} : pc'[s] = pc[s]
        /\ pc[t] \in {"claim", "run", "pause", "final"}
        /\ pc'[t] \in {"claim", "run", "pause", "final", "leave"}
        /\ active' = active /\ queued' = queued
    BY <1>4 DEF Claim, ClaimNothing, Handler, HandlerReturns, HandlerRaises,
                HandlerPauses, Finalize, FinalizeFails, PauseRun, TypeOK
  <2>2. QED
    BY <2>1, CountKept DEF InLoop
<1>5. ASSUME NEW t \in Threads, LeaveLoop(t) PROVE DrainersCounted'
  <2>1. InLoop' = InLoop \ {t} /\ t \in InLoop
    BY <1>5 DEF LeaveLoop, InLoop, TypeOK
  <2>2. Cardinality(InLoop') = Cardinality(InLoop) - 1
    BY <2>1, InLoopFinite, FS_RemoveElement
  <2>3. active > 0
    BY <2>1, SlotCounted
  <2>4. QED
    BY <1>5, <2>2, <2>3, InLoopFinite, ThreadCount
       DEF LeaveLoop, DrainersCounted, TypeOK
<1>6. ASSUME NEW t \in Threads, LastLook(t) PROVE DrainersCounted'
  <2>1. InLoop' = InLoop
    BY <1>6 DEF LastLook, InLoop, TypeOK
  <2>2. QED
    BY <1>6, <2>1, CountKept, CountToppedUp DEF LastLook
<1>7. CASE Leases \/ ReleaseWaiting
  <2>1. pc' = pc /\ active' = active /\ queued' = queued
    BY <1>7 DEF Leases, LeaseLapses, Heartbeat, ReleaseWaiting, volatile
  <2>2. QED
    BY <2>1, CountKept DEF InLoop
<1>8. CASE Restart
  <2>1. InLoop' = {} /\ active' = 0 /\ queued' = 0
    BY <1>8 DEF Restart, InLoop
  <2>2. QED
    BY <2>1, FS_EmptySet, ThreadCount DEF DrainersCounted
<1>9. CASE UNCHANGED vars
  BY <1>9, CountKept DEF vars, volatile, InLoop
<1>10. QED
  BY <1>1, <1>2, <1>3, <1>4, <1>5, <1>6, <1>7, <1>8, <1>9 DEF Next, Drainer

LEMMA InitialCount == Init => DrainersCounted
<1> SUFFICES ASSUME Init PROVE DrainersCounted
  OBVIOUS
<1>1. InLoop = {}
  BY DEF Init, InLoop
<1>2. QED
  BY <1>1, FS_EmptySet, ThreadCount DEF Init, DrainersCounted

\* The state stays well typed.  Types alone are not inductive: giving a slot
\* back keeps the count a natural number only because the count is exact.
THEOREM TypeCorrect == Spec => []TypeOK
<1>1. TypeOK /\ DrainersCounted /\ [Next]_vars => TypeOK' /\ DrainersCounted'
  BY StepType, StepCount
<1>2. QED
  BY <1>1, InitialType, InitialCount, PTL DEF Spec

\* _active_drainers is exactly the number of drainer tasks submitted or in
\* their loop, and never exceeds the executor's threads.
THEOREM DrainersAreCounted == Spec => []DrainersCounted
<1>1. TypeOK /\ DrainersCounted /\ [Next]_vars => TypeOK' /\ DrainersCounted'
  BY StepType, StepCount
<1>2. QED
  BY <1>1, InitialType, InitialCount, PTL DEF Spec

-----------------------------------------------------------------------------
(* No lost wakeup.  The only step after which nobody may be looking is the  *)
(* last look of a thread, and it looks after it has given its slot back; a  *)
(* start_job_queue that submits nothing leaves a drainer in its loop,       *)
(* because the count is exact.                                              *)

Looking == \E t \in Threads : pc[t] \in {"claim", "run", "pause", "final",
                                         "leave", "check"}

LEMMA TopUpWakes ==
  ASSUME TypeOK, DrainersCounted, TopUp, queued' = 0
  PROVE  InLoop # {}
<1> DEFINE size == Cardinality(Threads)
<1>0. /\ size \in Nat /\ size # 0 /\ active \in Nat /\ queued \in Nat
      /\ active <= size /\ queued + (size - active) = 0
  BY ThreadCount DEF TopUp, TypeOK, DrainersCounted
<1>1. active = size /\ queued = 0
  <2> HIDE DEF size
  <2> QED BY <1>0
<1>2. Cardinality(InLoop) # 0
  BY <1>0, <1>1, InLoopFinite DEF DrainersCounted
<1>3. QED
  BY <1>2, FS_EmptySet

LEMMA InLoopLooks == ASSUME InLoop # {} PROVE Looking
  BY DEF InLoop, Looking

LEMMA StepWakeup ==
  TypeOK /\ DrainersCounted /\ NoLostWakeup /\ [Next]_vars => NoLostWakeup'
<1> SUFFICES ASSUME TypeOK, DrainersCounted, NoLostWakeup, [Next]_vars,
                    PendingJobs' # {}
             PROVE  queued' > 0 \/ calls' > 0 \/ Looking'
  BY DEF NoLostWakeup, Looking
<1>1. ASSUME NEW r \in Runs, NEW k \in Kinds, EnqueueJob(r, k)
      PROVE  calls' > 0
  BY <1>1 DEF EnqueueJob, TypeOK
<1>2. ASSUME PendingJobs # {}, queued' = queued, calls' = calls, pc' = pc
      PROVE  queued' > 0 \/ calls' > 0 \/ Looking'
  BY <1>2 DEF NoLostWakeup, Looking
<1>3. ASSUME NEW r \in Runs, EnqueueWaitingJob(r) PROVE PendingJobs # {}
  <2>1. last + 1 \in JobIds
    BY <1>3, QueueAssumption DEF EnqueueWaitingJob, TypeOK, JobIds
  <2>2. "research" \in Kinds
    BY <1>3 DEF EnqueueWaitingJob, Kinds
  <2>3. NewRow(r, "research", "waiting_ollama").status = "waiting_ollama"
    BY <2>2, NewRowFields DEF ActiveStatus
  <2>4. QED
    BY <1>3, <2>1, <2>3 DEF EnqueueWaitingJob, PendingJobs, TypeOK
<1>4. ASSUME NEW r \in Runs, SupersedeDecompose(r) PROVE PendingJobs # {}
  BY <1>4, CloseFields DEF SupersedeDecompose, PendingJobs, TypeOK, FinalStatus
<1>5. ASSUME NEW r \in Runs, CancelJobs(r) PROVE PendingJobs # {}
  BY <1>5, RequestCancelFields DEF CancelJobs, PendingJobs, TypeOK
<1>6. CASE Callers
  <2>1. ASSUME NEW r \in Runs,
               EnqueueWaitingJob(r) \/ SupersedeDecompose(r) \/ CancelRun(r)
               \/ CancelJobs(r) \/ (\E c \in RunClasses : RunMoves(r, c))
        PROVE  /\ PendingJobs # {}
               /\ queued' = queued /\ calls' = calls /\ pc' = pc
    <3>1. PendingJobs # {}
      BY <1>3, <1>4, <1>5, <2>1 DEF CancelRun, RunMoves, PendingJobs
    <3>2. QED
      BY <2>1, <3>1 DEF EnqueueWaitingJob, SupersedeDecompose, CancelRun,
                        CancelJobs, RunMoves, volatile
  <2>2. QED
    BY <1>1, <1>2, <1>6, <2>1 DEF Callers
<1>7. CASE StartJobQueue
  <2>1. queued' \in Nat /\ pc' = pc
    BY <1>7, TopUpType DEF StartJobQueue
  <2>2. CASE queued' = 0
    BY <1>7, <2>1, <2>2, TopUpWakes, InLoopLooks DEF StartJobQueue, Looking
  <2>3. QED
    BY <2>1, <2>2
<1>8. ASSUME NEW t \in Threads, Drainer(t), ~ LastLook(t) PROVE Looking'
  BY <1>8 DEF Drainer, StartDrainer, Claim, ClaimNothing, Handler,
              HandlerReturns, HandlerRaises, HandlerPauses, Finalize,
              FinalizeFails, PauseRun, LeaveLoop, TypeOK, Looking
<1>9. ASSUME NEW t \in Threads, LastLook(t) PROVE queued' > 0 \/ Looking'
  <2>1. TopUp /\ pc' = [pc EXCEPT ![t] = "free"] /\ pc[t] = "check"
    BY <1>9 DEF LastLook, PendingJobs
  <2>2. queued' \in Nat
    BY <2>1, TopUpType
  <2>3. CASE queued' = 0
    <3>1. PICK s \in Threads : pc[s] \in {"claim", "run", "pause", "final", "leave"}
      BY <2>1, <2>3, TopUpWakes DEF InLoop
    <3>2. pc'[s] = pc[s]
      BY <2>1, <3>1 DEF TypeOK
    <3>3. QED
      BY <3>1, <3>2 DEF Looking
  <2>4. QED
    BY <2>2, <2>3
<1>10. ASSUME Leases
       PROVE  PendingJobs # {} /\ queued' = queued /\ calls' = calls /\ pc' = pc
  <2>1. ASSUME NEW i \in JobIds, LeaseLapses(i) PROVE PendingJobs # {}
    BY <2>1, SetLapsedFields DEF LeaseLapses, PendingJobs, TypeOK
  <2>2. ASSUME NEW t \in Threads, Heartbeat(t) PROVE PendingJobs # {}
    <3>1. cur[t] \in JobIds
      BY <2>2, Executing DEF Heartbeat
    <3>2. QED
      BY <2>2, <3>1, SetLapsedFields DEF Heartbeat, PendingJobs, TypeOK
  <2>3. QED
    BY <1>10, <2>1, <2>2 DEF Leases, LeaseLapses, Heartbeat, volatile
<1>11. CASE ReleaseWaiting \/ Restart
  BY <1>11 DEF ReleaseWaiting, Restart, TypeOK
<1>12. CASE UNCHANGED vars
  BY <1>2, <1>12 DEF vars, volatile, PendingJobs
<1>13. QED
  BY <1>2, <1>6, <1>7, <1>8, <1>9, <1>10, <1>11, <1>12 DEF Next

\* While a job is pending, somebody will still look at the table.
THEOREM NoWakeupLost == Spec => []NoLostWakeup
<1>1. Init => NoLostWakeup
  BY DEF Init, NoLostWakeup
<1>2. TypeOK /\ DrainersCounted /\ [Next]_vars => TypeOK' /\ DrainersCounted'
  BY StepType, StepCount
<1>3. QED
  BY <1>1, <1>2, InitialType, InitialCount, StepWakeup, PTL DEF Spec

-----------------------------------------------------------------------------
(* One active job per run and kind.                                        *)

\* Rewriting rows without making an inactive one active keeps the property.
LEMMA ActivityKept ==
  ASSUME TypeOK, OneActiveJob, SameRows,
         \A i \in JobIds : jobs'[i].status \in ActiveStatus =>
                             jobs[i].status \in ActiveStatus
  PROVE  OneActiveJob'
  BY DEF OneActiveJob, IndexAllows, SameRows, SameJob, TypeOK

\* Inserting a row of a kind that has no active one keeps it.
LEMMA InsertKept ==
  ASSUME TypeOK, OneActiveJob, NEW r \in Runs, NEW k \in Kinds,
         NEW s \in ActiveStatus, ActiveRows(jobs, r, k) = {},
         last + 1 \in JobIds,
         jobs' = [jobs EXCEPT ![last + 1] = NewRow(r, k, s)]
  PROVE  OneActiveJob'
<1>1. \A i \in JobIds : jobs'[i] = IF i = last + 1 THEN NewRow(r, k, s) ELSE jobs[i]
  BY DEF TypeOK
<1>2. NewRow(r, k, s).run = r /\ NewRow(r, k, s).kind = k
  BY NewRowFields
<1>3. \A i \in JobIds : jobs[i].run = r /\ jobs[i].kind = k =>
                          jobs[i].status \notin ActiveStatus
  BY DEF ActiveRows
<1>4. QED
  BY <1>1, <1>2, <1>3 DEF OneActiveJob, IndexAllows

LEMMA StepOneActive == TypeOK /\ OneActiveJob /\ [Next]_vars => OneActiveJob'
<1> SUFFICES ASSUME TypeOK, OneActiveJob, [Next]_vars PROVE OneActiveJob'
  OBVIOUS
<1> USE QueueAssumption
<1>1. CASE jobs' = jobs
  BY <1>1 DEF OneActiveJob, IndexAllows
<1>2. ASSUME NEW r \in Runs, NEW k \in Kinds, EnqueueJob(r, k)
      PROVE  OneActiveJob'
  <2>1. CASE ActiveRows(jobs, r, k) = {}
    BY <1>2, <2>1, InsertKept DEF EnqueueJob, ActiveStatus, TypeOK, JobIds
  <2>2. QED
    BY <1>1, <1>2, <2>1 DEF EnqueueJob
<1>3. ASSUME NEW r \in Runs, EnqueueWaitingJob(r) PROVE OneActiveJob'
  <2>1. "research" \in Kinds
    BY <1>3 DEF EnqueueWaitingJob, Kinds
  <2>2. last + 1 \in JobIds
    BY <1>3 DEF EnqueueWaitingJob, TypeOK, JobIds
  <2>3. /\ ActiveRows(jobs, r, "research") = {}
        /\ jobs' = [jobs EXCEPT ![last + 1] =
                                   NewRow(r, "research", "waiting_ollama")]
    BY <1>3 DEF EnqueueWaitingJob
  <2>4. "waiting_ollama" \in ActiveStatus
    BY DEF ActiveStatus
  <2>5. QED
    BY <2>1, <2>2, <2>3, <2>4, InsertKept
<1>4. ASSUME NEW r \in Runs, SupersedeDecompose(r) PROVE OneActiveJob'
  <2>1. SameRows
    BY <1>4, CloseFields
       DEF SupersedeDecompose, SameRows, SameJob, TypeOK, FinalStatus
  <2>2. QED
    BY <1>4, <2>1, ActivityKept, CloseFields
       DEF SupersedeDecompose, ActiveStatus, TypeOK, FinalStatus
<1>5. ASSUME NEW r \in Runs, CancelJobs(r) PROVE OneActiveJob'
  <2>1. SameRows
    BY <1>5, RequestCancelFields DEF CancelJobs, SameRows, SameJob, TypeOK
  <2>2. QED
    BY <1>5, <2>1, ActivityKept, RequestCancelFields
       DEF CancelJobs, ActiveStatus, TypeOK
<1>6. ASSUME NEW t \in Threads, Claim(t) PROVE OneActiveJob'
  <2>1. PICK i \in Claimable(AfterExpiry) :
          jobs' = [AfterExpiry EXCEPT ![i] = Lease(AfterExpiry[i], t)]
    BY <1>6 DEF Claim
  <2>2. i \in JobIds /\ AfterExpiry[i].status = "pending"
    BY DEF Claimable
  <2>3. SameRows
    BY <2>1, <2>2, ExpiryRows, LeaseFields DEF SameRows, SameJob
  <2>4. \A j \in JobIds : AfterExpiry[j].status \in ActiveStatus =>
                            jobs[j].status \in ActiveStatus
    BY RequeueFields DEF AfterExpiry, Expired, ActiveStatus, TypeOK
  <2>5. QED
    BY <2>1, <2>2, <2>3, <2>4, ExpiryRows, LeaseFields, ActivityKept
       DEF ActiveStatus
<1>7. ASSUME NEW t \in Threads, ClaimNothing(t) PROVE OneActiveJob'
  <2>1. SameRows /\ jobs' = AfterExpiry
    BY <1>7, ExpiryRows DEF ClaimNothing, SameRows
  <2>2. QED
    BY <2>1, ActivityKept, RequeueFields
       DEF AfterExpiry, Expired, ActiveStatus, TypeOK
<1>8. ASSUME NEW t \in Threads, Finalize(t) PROVE OneActiveJob'
  <2>1. cur[t] \in JobIds /\ jobs[cur[t]] \in Row /\ jobs[cur[t]].status # "absent"
    BY <1>8, Executing DEF Finalize
  <2>2. verdict[t] \in FinalStatus
    BY DEF TypeOK
  <2>3. SameRows
    BY <1>8, <2>1, <2>2, CloseFields, OneRowRewritten
       DEF Finalize, FinalStatus, TypeOK
  <2>4. QED
    BY <1>8, <2>1, <2>2, <2>3, ActivityKept, CloseFields
       DEF Finalize, FinalStatus, ActiveStatus, TypeOK
<1>9. ASSUME NEW t \in Threads, HandlerPauses(t), jobs' # jobs
      PROVE  OneActiveJob'
  <2> DEFINE table == [jobs EXCEPT ![cur[t]] = Park(jobs[cur[t]])]
  <2>1. IndexAllows(table) /\ jobs' = Parked(cur[t])
    BY <1>9 DEF HandlerPauses
  <2>2. cur[t] \in JobIds
    BY <1>9, Executing DEF HandlerPauses
  <2>3. \A j \in JobIds :
          /\ jobs'[j].run = table[j].run /\ jobs'[j].kind = table[j].kind
          /\ jobs'[j].status \in ActiveStatus => table[j].status \in ActiveStatus
    BY <2>1, <2>2, ParkFields DEF Parked, SameJob, ActiveStatus, TypeOK
  <2>4. QED
    BY <2>1, <2>3 DEF OneActiveJob, IndexAllows
<1>10. ASSUME NEW i \in JobIds, LeaseLapses(i) PROVE OneActiveJob'
  <2>1. SameRows
    BY <1>10, SetLapsedFields, OneRowRewritten DEF LeaseLapses, TypeOK
  <2>2. QED
    BY <1>10, <2>1, ActivityKept, SetLapsedFields DEF LeaseLapses, TypeOK
<1>11. ASSUME NEW t \in Threads, Heartbeat(t) PROVE OneActiveJob'
  <2>1. cur[t] \in JobIds /\ jobs[cur[t]] \in Row
    BY <1>11, Executing DEF Heartbeat
  <2>2. SameRows
    BY <1>11, <2>1, SetLapsedFields, OneRowRewritten DEF Heartbeat, TypeOK
  <2>3. QED
    BY <1>11, <2>1, <2>2, ActivityKept, SetLapsedFields DEF Heartbeat, TypeOK
<1>12. CASE ReleaseWaiting
  <2>1. SameRows
    BY <1>12, RequeueFields
       DEF ReleaseWaiting, WaitingJobs, SameRows, SameJob, TypeOK
  <2>2. QED
    BY <1>12, <2>1, ActivityKept
       DEF ReleaseWaiting, WaitingJobs, ActiveStatus, TypeOK
<1>13. CASE Restart
  <2>1. SameRows
    BY <1>13, RequeueFields, CloseFields
       DEF Restart, SameRows, SameJob, TypeOK, FinalStatus
  <2>2. \A i \in JobIds : jobs'[i].status \in ActiveStatus =>
                            jobs[i].status \in ActiveStatus
    BY <1>13, RequeueFields, CloseFields
       DEF Restart, ActiveStatus, FinalStatus, TypeOK
  <2>3. QED
    BY <2>1, <2>2, ActivityKept
<1>14. ASSUME NEW t \in Threads, Drainer(t) PROVE OneActiveJob'
  <2>1. CASE StartDrainer(t) \/ HandlerReturns(t) \/ HandlerRaises(t)
             \/ FinalizeFails(t) \/ PauseRun(t) \/ LeaveLoop(t) \/ LastLook(t)
    BY <1>1, <2>1 DEF StartDrainer, HandlerReturns, HandlerRaises,
                      FinalizeFails, PauseRun, LeaveLoop, LastLook
  <2>2. QED
    BY <1>1, <1>6, <1>7, <1>8, <1>9, <1>14, <2>1 DEF Drainer, Handler
<1>15. CASE StartJobQueue \/ UNCHANGED vars
  BY <1>1, <1>15 DEF StartJobQueue, vars
<1>16. CASE Callers
  <2>1. ASSUME NEW r \in Runs, NEW c \in RunClasses,
               RunMoves(r, c) \/ CancelRun(r)
        PROVE  OneActiveJob'
    BY <1>1, <2>1 DEF RunMoves, CancelRun
  <2>2. ASSUME NEW r \in Runs, CancelRun(r) PROVE OneActiveJob'
    BY <1>1, <2>2 DEF CancelRun
  <2>3. QED
    BY <1>2, <1>3, <1>4, <1>5, <1>16, <2>1, <2>2 DEF Callers
<1>17. QED
  BY <1>10, <1>11, <1>12, <1>13, <1>14, <1>15, <1>16 DEF Next, Leases

\* A run never has two active jobs of one kind.
THEOREM ActiveJobUnique == Spec => []OneActiveJob
<1>1. Init => OneActiveJob
  BY DEF Init, OneActiveJob, IndexAllows, NoRow, ActiveStatus
<1>2. QED
  BY <1>1, TypeCorrect, StepOneActive, PTL DEF Spec
=============================================================================
