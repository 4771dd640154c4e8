------------------------ MODULE JobQueueLeaseProofs ------------------------
(***************************************************************************)
(* Who executes a job, for every set of runs, nodes and threads and every  *)
(* bound, as long as no lease is lost and no final write fails: a running  *)
(* row and the thread behind it belong together, the pool size holds, and  *)
(* a finished row is never touched again.                                  *)
(***************************************************************************)
EXTENDS JobQueueProofs

Executes(t) == pc[t] \in {"run", "final"}

\* The inductive form: SoleExecutor and no lapsed lease.
Owned ==
  /\ \A t \in Threads : Executes(t) =>
       jobs[cur[t]].status = "running" /\ jobs[cur[t]].owner = t
  /\ \A i \in JobIds : jobs[i].status = "running" =>
       \E t \in Threads : Executes(t) /\ cur[t] = i
  /\ \A i \in JobIds : ~ jobs[i].lapsed

Leased == faults = 0 => Owned

LEMMA LeasedIsSole == Leased => SoleExecutor
  BY DEF Leased, Owned, SoleExecutor, Executes

\* The bound of faults never comes back to zero.
LEMMA FaultsOnlyGrow ==
  ASSUME TypeOK, [Next]_vars, faults' = 0
  PROVE  faults = 0
<1>1. faults \in Nat
  BY QueueAssumption DEF TypeOK
<1>2. ASSUME faults' = faults + 1 PROVE FALSE
  BY <1>1, <1>2
<1>3. CASE Callers \/ StartJobQueue
  BY <1>3 DEF Callers, EnqueueJob, EnqueueWaitingJob, SupersedeDecompose,
              RunMoves, CancelRun, CancelJobs, StartJobQueue, bounds
<1>4. ASSUME NEW t \in Threads, Drainer(t) PROVE faults = 0
  BY <1>2, <1>4 DEF Drainer, StartDrainer, Claim, ClaimNothing, Handler,
                    HandlerReturns, HandlerRaises, HandlerPauses, Finalize,
                    FinalizeFails, PauseRun, LeaveLoop, LastLook, bounds
<1>5. CASE Leases
  BY <1>2, <1>5 DEF Leases, LeaseLapses, Heartbeat, bounds
<1>6. CASE ReleaseWaiting \/ Restart \/ UNCHANGED vars
  BY <1>6 DEF ReleaseWaiting, Restart, vars, bounds
<1>7. QED
  BY <1>3, <1>4, <1>5, <1>6 DEF Next

\* Without a lapsed lease the claim transaction expires nothing.
LEMMA NothingExpires ==
  ASSUME TypeOK, Owned
  PROVE  AfterExpiry = jobs
  BY DEF Owned, AfterExpiry, Expired, TypeOK

\* A statement that neither starts nor ends the execution of a row, and lets
\* no lease lapse.
LeaseKept(i) ==
  /\ jobs'[i].status = "running" <=> jobs[i].status = "running"
  /\ jobs[i].status = "running" => jobs'[i].owner = jobs[i].owner
  /\ ~ jobs'[i].lapsed

LEMMA OwnedKept ==
  ASSUME TypeOK, Owned, \A i \in JobIds : LeaseKept(i),
         \A t \in Threads : (Executes(t) <=> Executes(t)')
                            /\ (Executes(t) => cur'[t] = cur[t])
  PROVE  Owned'
<1>1. \A t \in Threads : Executes(t) => cur[t] \in JobIds
  BY Executing DEF Executes
<1>2. QED
  BY <1>1 DEF Owned, LeaseKept

LEMMA StepLeased == TypeOK /\ OneActiveJob /\ Leased /\ [Next]_vars => Leased'
<1> SUFFICES ASSUME TypeOK, OneActiveJob, Owned, [Next]_vars, faults = 0,
                    faults' = 0
             PROVE  Owned'
  BY FaultsOnlyGrow DEF Leased
<1> USE QueueAssumption
<1>0. \A t \in Threads : Executes(t) => cur[t] \in JobIds
  BY Executing DEF Executes
<1>1. ASSUME jobs' = jobs, 
             \A t \in Threads : (Executes(t) <=> Executes(t)')
                                /\ (Executes(t) => cur'[t] = cur[t])
      PROVE  Owned'
  BY <1>0, <1>1 DEF Owned
<1>2. ASSUME pc' = pc, cur' = cur, \A i \in JobIds : LeaseKept(i)
      PROVE  Owned'
  BY <1>2, OwnedKept DEF Executes
<1>3. ASSUME NEW r \in Runs, NEW k \in Kinds, NEW s \in ActiveStatus \ {"running"},
             last + 1 \in JobIds,
             jobs' = [jobs EXCEPT ![last + 1] = NewRow(r, k, s)]
      PROVE  \A i \in JobIds : LeaseKept(i)
  <2>1. jobs[last + 1].status = "absent"
    BY <1>3 DEF TypeOK, WellFormed
  <2>2. /\ NewRow(r, k, s).status = s /\ s # "running"
        /\ NewRow(r, k, s).lapsed = FALSE
    BY <1>3, NewRowFields
  <2>3. QED
    BY <1>3, <2>1, <2>2 DEF LeaseKept, Owned, TypeOK
<1>4. ASSUME NEW r \in Runs, NEW k \in Kinds, EnqueueJob(r, k) PROVE Owned'
  <2>1. CASE ActiveRows(jobs, r, k) = {}
    <3>1. /\ last + 1 \in JobIds /\ "pending" \in ActiveStatus \ {"running"}
          /\ jobs' = [jobs EXCEPT ![last + 1] = NewRow(r, k, "pending")]
      BY <1>4, <2>1 DEF EnqueueJob, TypeOK, JobIds, ActiveStatus
    <3>2. QED
      BY <1>2, <1>3, <1>4, <3>1 DEF EnqueueJob
  <2>2. CASE ActiveRows(jobs, r, k) # {}
    BY <1>1, <1>4, <2>2 DEF EnqueueJob, Executes
  <2>3. QED
    BY <2>1, <2>2
<1>5. ASSUME NEW r \in Runs, EnqueueWaitingJob(r) PROVE Owned'
  <2>1. last + 1 \in JobIds
    BY <1>5 DEF EnqueueWaitingJob, TypeOK, JobIds
  <2>2. "research" \in Kinds /\ "waiting_ollama" \in ActiveStatus \ {"running"}
    BY <1>5 DEF EnqueueWaitingJob, Kinds, ActiveStatus
  <2>3. jobs' = [jobs EXCEPT ![last + 1] =
                               NewRow(r, "research", "waiting_ollama")]
    BY <1>5 DEF EnqueueWaitingJob
  <2>4. pc' = pc /\ cur' = cur
    BY <1>5 DEF EnqueueWaitingJob, volatile
  <2>5. QED
    BY <1>2, <1>3, <2>1, <2>2, <2>3, <2>4
<1>6. ASSUME NEW r \in Runs, SupersedeDecompose(r) PROVE Owned'
  <2>1. \A i \in JobIds : LeaseKept(i)
    BY <1>6, CloseFields
       DEF SupersedeDecompose, LeaseKept, Owned, TypeOK, FinalStatus
  <2>2. QED
    BY <1>2, <1>6, <2>1 DEF SupersedeDecompose, volatile
<1>7. ASSUME NEW r \in Runs, CancelJobs(r) PROVE Owned'
  <2>1. \A i \in JobIds : LeaseKept(i)
    BY <1>7, RequestCancelFields DEF CancelJobs, LeaseKept, Owned, TypeOK
  <2>2. QED
    BY <1>2, <1>7, <2>1 DEF CancelJobs, volatile
<1>8. CASE Callers
  <2>1. ASSUME NEW r \in Runs, NEW c \in RunClasses, RunMoves(r, c) PROVE Owned'
    BY <1>1, <2>1 DEF RunMoves, volatile, Executes
  <2>2. ASSUME NEW r \in Runs, CancelRun(r) PROVE Owned'
    BY <1>1, <2>2 DEF CancelRun, volatile, Executes
  <2>3. QED
    BY <1>4, <1>5, <1>6, <1>7, <1>8, <2>1, <2>2 DEF Callers
<1>9. ASSUME NEW t \in Threads, Claim(t) PROVE Owned'
  <2>1. PICK i \in Claimable(jobs) :
          /\ jobs' = [jobs EXCEPT ![i] = Lease(jobs[i], t)]
          /\ cur' = [cur EXCEPT ![t] = i]
    BY <1>9, NothingExpires DEF Claim
  <2>2. i \in JobIds /\ jobs[i].status = "pending" /\ jobs[i] \in Row
    BY DEF Claimable, TypeOK
  <2>3. /\ jobs'[i].status = "running" /\ jobs'[i].owner = t /\ ~ jobs'[i].lapsed
        /\ \A j \in JobIds \ {i} : jobs'[j] = jobs[j]
    BY <2>1, <2>2, LeaseFields DEF TypeOK, Owned
  <2>4. /\ cur'[t] = i /\ Executes(t)' /\ ~ Executes(t)
        /\ \A s \in Threads \ {t} : cur'[s] = cur[s] /\ (Executes(s)' <=> Executes(s))
    BY <1>9, <2>1 DEF Claim, Executes, TypeOK
  <2>5. \A s \in Threads : Executes(s) => cur[s] \in JobIds /\ cur[s] # i
    BY <1>0, <2>2 DEF Owned
  <2>6. QED
    BY <2>2, <2>3, <2>4, <2>5 DEF Owned
<1>10. ASSUME NEW t \in Threads, ClaimNothing(t) PROVE Owned'
  BY <1>1, <1>10, NothingExpires DEF ClaimNothing, Executes, TypeOK
<1>11. ASSUME NEW t \in Threads, HandlerReturns(t) \/ HandlerRaises(t)
       PROVE  Owned'
  BY <1>1, <1>11 DEF HandlerReturns, HandlerRaises, Executes, TypeOK
\* The thread gives up a row that is then no longer running.
<1>12. ASSUME NEW t \in Threads, Executes(t), ~ Executes(t)',
              \A s \in Threads \ {t} : cur'[s] = cur[s] /\ (Executes(s)' <=> Executes(s)),
              jobs'[cur[t]].status # "running", ~ jobs'[cur[t]].lapsed,
              \A i \in JobIds \ {cur[t]} : LeaseKept(i)
       PROVE  Owned'
  <2>1. \A s \in Threads \ {t} : Executes(s) => cur[s] \in JobIds \ {cur[t]}
    BY <1>0, <1>12 DEF Owned
  <2>2. \A i \in JobIds \ {cur[t]} : jobs'[i].status = "running" =>
          \E s \in Threads \ {t} : Executes(s) /\ cur[s] = i
    BY <1>12 DEF Owned, LeaseKept
  <2>3. QED
    BY <1>12, <2>1, <2>2 DEF Owned, LeaseKept
<1>13. ASSUME NEW t \in Threads, Finalize(t) PROVE Owned'
  <2>1. cur[t] \in JobIds /\ jobs[cur[t]] \in Row /\ verdict[t] \in FinalStatus
    BY <1>13, Executing DEF Finalize, TypeOK
  <2>2. /\ jobs'[cur[t]].status # "running" /\ ~ jobs'[cur[t]].lapsed
        /\ \A i \in JobIds \ {cur[t]} : jobs'[i] = jobs[i]
    BY <1>13, <2>1, CloseFields DEF Finalize, TypeOK, FinalStatus
  <2>3. /\ Executes(t) /\ ~ Executes(t)'
        /\ \A s \in Threads \ {t} : cur'[s] = cur[s] /\ (Executes(s)' <=> Executes(s))
    BY <1>13 DEF Finalize, Executes, TypeOK
  <2>4. \A i \in JobIds \ {cur[t]} : LeaseKept(i)
    BY <2>2 DEF LeaseKept, Owned
  <2>5. QED
    BY <1>12, <2>2, <2>3, <2>4
\* The unique index cannot refuse the pause of a job that is running.
<1>14. ASSUME NEW t \in Threads, HandlerPauses(t) PROVE Owned'
  <2> DEFINE table == [jobs EXCEPT ![cur[t]] = Park(jobs[cur[t]])]
  <2>1. /\ cur[t] \in JobIds /\ jobs[cur[t]] \in Row
        /\ jobs[cur[t]].status = "running" /\ Executes(t)
    BY <1>0, <1>14 DEF HandlerPauses, Owned, Executes, TypeOK
  <2>2. IndexAllows(table)
    <3>1. \A i \in JobIds :
            /\ table[i].run = jobs[i].run /\ table[i].kind = jobs[i].kind
            /\ table[i].status \in ActiveStatus => jobs[i].status \in ActiveStatus
      BY <2>1, ParkFields DEF SameJob, ActiveStatus, TypeOK
    <3>2. QED
      BY <3>1 DEF OneActiveJob, IndexAllows
  <2>3. PICK next \in {"claim", "pause"} :
          /\ jobs' = Parked(cur[t])
          /\ pc' = [pc EXCEPT ![t] = next]
          /\ cur' = [cur EXCEPT ![t] = IF next = "pause" THEN cur[t] ELSE 0]
    BY <1>14, <2>2 DEF HandlerPauses
  <2>4. jobs'[cur[t]].status # "running" /\ ~ jobs'[cur[t]].lapsed
    BY <2>1, <2>3, ParkFields DEF Parked
  <2>5. \A i \in JobIds \ {cur[t]} : LeaseKept(i)
    BY <2>3, ParkFields DEF Parked, LeaseKept, Owned, TypeOK
  <2>6. /\ ~ Executes(t)'
        /\ \A s \in Threads \ {t} : cur'[s] = cur[s] /\ (Executes(s)' <=> Executes(s))
    BY <2>3 DEF Executes, TypeOK
  <2>7. QED
    BY <1>12, <2>1, <2>4, <2>5, <2>6
<1>15. ASSUME NEW t \in Threads,
              StartDrainer(t) \/ PauseRun(t) \/ LeaveLoop(t) \/ LastLook(t)
       PROVE  Owned'
  BY <1>1, <1>15 DEF StartDrainer, PauseRun, LeaveLoop, LastLook, Executes, TypeOK
<1>16. ASSUME NEW t \in Threads, FinalizeFails(t) PROVE FALSE
  BY <1>16 DEF FinalizeFails, TypeOK
<1>17. CASE Leases
  <2>1. ASSUME NEW i \in JobIds, LeaseLapses(i) PROVE FALSE
    BY <2>1 DEF LeaseLapses, TypeOK
  <2>2. ASSUME NEW t \in Threads, Heartbeat(t) PROVE FALSE
    <3>1. cur[t] \in JobIds /\ jobs[cur[t]].lapsed
      BY <2>2, Executing DEF Heartbeat
    <3>2. QED
      BY <3>1 DEF Owned
  <2>3. QED
    BY <1>17, <2>1, <2>2 DEF Leases
<1>18. CASE ReleaseWaiting
  <2>1. \A i \in JobIds : LeaseKept(i)
    BY <1>18, RequeueFields DEF ReleaseWaiting, WaitingJobs, LeaseKept, Owned, TypeOK
  <2>2. QED
    BY <1>2, <1>18, <2>1 DEF ReleaseWaiting
<1>19. CASE Restart
  <2>1. \A t \in Threads : ~ Executes(t)'
    BY <1>19 DEF Restart, Executes
  <2>2. ASSUME NEW i \in JobIds
        PROVE  jobs'[i].status # "running" /\ ~ jobs'[i].lapsed
    <3> DEFINE row == IF jobs[i].status = "running" THEN Requeue(jobs[i])
                      ELSE jobs[i]
    <3>1. row \in Row /\ row.status # "running" /\ row.lapsed = FALSE
      BY RequeueFields DEF SameJob, Owned, TypeOK
    <3>2. Close(row, "failed").status = "failed" /\ ~ Close(row, "failed").lapsed
      BY <3>1, CloseFields DEF FinalStatus
    <3>3. jobs'[i] \in {row, Close(row, "failed")}
      BY <1>19 DEF Restart
    <3>4. QED
      BY <3>1, <3>2, <3>3
  <2>3. QED
    BY <2>1, <2>2 DEF Owned
<1>20. CASE StartJobQueue \/ UNCHANGED vars
  BY <1>1, <1>20 DEF StartJobQueue, vars, volatile, Executes
<1>21. QED
  BY <1>8, <1>9, <1>10, <1>11, <1>13, <1>14, <1>15, <1>16, <1>17, <1>18, <1>19,
     <1>20 DEF Next, Drainer, Handler

LEMMA InitialLeased == Init => Leased
  BY DEF Init, Leased, Owned, Executes, NoRow

\* A running row has exactly one thread behind it, and that thread its lease.
THEOREM ExecutorIsSole == Spec => []SoleExecutor
<1>1. Spec => []Leased
  BY InitialLeased, StepLeased, TypeCorrect, ActiveJobUnique, PTL DEF Spec
<1>2. QED
  BY <1>1, LeasedIsSole, PTL

-----------------------------------------------------------------------------
(* Finished rows.                                                          *)

LEMMA StepFinal ==
  ASSUME TypeOK, Leased, [Next]_vars, faults' = 0,
         NEW i \in JobIds, jobs[i].status \in FinalStatus
  PROVE  jobs'[i] = jobs[i]
<1>1. Owned
  BY FaultsOnlyGrow DEF Leased
<1>2. jobs[i].status \notin ActiveStatus \cup {"absent"}
  BY DEF FinalStatus, ActiveStatus
<1>3. \A t \in Threads : Executes(t) => cur[t] \in JobIds /\ cur[t] # i
  BY <1>1, <1>2, Executing DEF Executes, Owned, ActiveStatus
<1>4. i <= last /\ last \in Nat
  BY <1>2, QueueAssumption DEF TypeOK, WellFormed, JobIds
<1>5. CASE Callers
  <2>1. ASSUME NEW r \in Runs, NEW k \in Kinds, EnqueueJob(r, k)
        PROVE  jobs'[i] = jobs[i]
    BY <1>4, <2>1 DEF EnqueueJob, TypeOK
  <2>2. ASSUME NEW r \in Runs, EnqueueWaitingJob(r) PROVE jobs'[i] = jobs[i]
    BY <1>4, <2>2 DEF EnqueueWaitingJob, TypeOK
  <2>3. ASSUME NEW r \in Runs, SupersedeDecompose(r) \/ CancelJobs(r)
        PROVE  jobs'[i] = jobs[i]
    BY <1>2, <2>3 DEF SupersedeDecompose, CancelJobs, ActiveStatus
  <2>4. QED
    BY <1>5, <2>1, <2>2, <2>3 DEF Callers, CancelRun, RunMoves
<1>6. ASSUME NEW t \in Threads, Drainer(t) PROVE jobs'[i] = jobs[i]
  <2>1. CASE Claim(t) \/ ClaimNothing(t)
    BY <1>1, <1>2, <2>1, NothingExpires
       DEF Claim, ClaimNothing, Claimable, ActiveStatus, TypeOK
  <2>2. CASE Finalize(t)
    BY <1>3, <2>2 DEF Finalize, Executes, TypeOK
  <2>3. CASE HandlerPauses(t)
    BY <1>2, <1>3, <2>3 DEF HandlerPauses, Parked, Executes, ActiveStatus
  <2>4. QED
    BY <1>6, <2>1, <2>2, <2>3
       DEF Drainer, Handler, StartDrainer, HandlerReturns, HandlerRaises,
           FinalizeFails, PauseRun, LeaveLoop, LastLook
<1>7. CASE Leases
  <2>1. ASSUME NEW j \in JobIds, LeaseLapses(j) PROVE jobs'[i] = jobs[i]
    BY <1>2, <2>1 DEF LeaseLapses, ActiveStatus, TypeOK
  <2>2. ASSUME NEW t \in Threads, Heartbeat(t) PROVE jobs'[i] = jobs[i]
    BY <1>2, <2>2 DEF Heartbeat, ActiveStatus, TypeOK
  <2>3. QED
    BY <1>7, <2>1, <2>2 DEF Leases
<1>8. CASE ReleaseWaiting \/ Restart
  BY <1>2, <1>8 DEF ReleaseWaiting, WaitingJobs, Restart, ActiveStatus
<1>9. CASE StartJobQueue \/ UNCHANGED vars
  BY <1>9 DEF StartJobQueue, vars
<1>10. QED
  BY <1>5, <1>6, <1>7, <1>8, <1>9 DEF Next

\* The row of a finished job never changes again.
THEOREM FinishedStaysFinal == Spec => FinishedIsFinal
<1>1. TypeOK /\ Leased /\ [Next]_vars =>
        [faults' = 0 => \A i \in JobIds :
           jobs[i].status \in FinalStatus => jobs'[i] = jobs[i]]_vars
  BY StepFinal
<1>2. Spec => []Leased
  BY InitialLeased, StepLeased, TypeCorrect, ActiveJobUnique, PTL DEF Spec
<1>3. QED
  BY <1>1, <1>2, TypeCorrect, PTL DEF Spec, FinishedIsFinal

-----------------------------------------------------------------------------
(* The worker pool.  The claim transaction keeps the running rows of a run  *)
(* within the pool size; without faults the threads at work are injected   *)
(* into those rows.                                                        *)

RowsBounded ==
  \A r \in Runs : Cardinality(RunningSubtasks(jobs, r)) <= PoolSize

LEMMA RunningFinite ==
  ASSUME NEW table, NEW r
  PROVE  /\ IsFiniteSet(RunningSubtasks(table, r))
         /\ Cardinality(RunningSubtasks(table, r)) \in Nat
<1>1. IsFiniteSet(JobIds)
  BY QueueAssumption, FS_Interval DEF JobIds
<1>2. QED
  BY <1>1, FS_Subset, FS_CardinalityType DEF RunningSubtasks

\* A step that starts no row keeps the bound.
LEMMA BoundKept ==
  ASSUME RowsBounded,
         \A i \in JobIds : jobs'[i].status = "running" =>
           /\ jobs[i].status = "running"
           /\ jobs'[i].run = jobs[i].run /\ jobs'[i].kind = jobs[i].kind
  PROVE  RowsBounded'
<1> SUFFICES ASSUME NEW r \in Runs
             PROVE  Cardinality(RunningSubtasks(jobs', r)) <= PoolSize
  BY DEF RowsBounded, RunningSubtasks
<1>1. RunningSubtasks(jobs', r) \subseteq RunningSubtasks(jobs, r)
  BY DEF RunningSubtasks
<1>2. Cardinality(RunningSubtasks(jobs', r)) <= Cardinality(RunningSubtasks(jobs, r))
  BY <1>1, RunningFinite, FS_Subset
<1> DEFINE old == Cardinality(RunningSubtasks(jobs, r))
           new == Cardinality(RunningSubtasks(jobs', r))
<1>3. old \in Nat /\ new \in Nat /\ old <= PoolSize /\ PoolSize \in Nat
  BY RunningFinite, QueueAssumption DEF RowsBounded
<1>4. new <= PoolSize
  <2> HIDE DEF old, new
  <2> QED BY <1>2, <1>3 DEF old, new
<1>5. QED
  BY <1>4

\* A lapsed or renewed lease leaves everything else of the rows alone.
LEMMA SetOne ==
  ASSUME TypeOK, NEW j \in JobIds, NEW b \in BOOLEAN,
         jobs' = [jobs EXCEPT ![j] = SetLapsed(jobs[j], b)], NEW i \in JobIds
  PROVE  /\ jobs'[i].status = jobs[i].status
         /\ jobs'[i].run = jobs[i].run /\ jobs'[i].kind = jobs[i].kind
<1>1. jobs[j] \in Row
  BY DEF TypeOK
<1>2. SameJob(SetLapsed(jobs[j], b), jobs[j])
      /\ SetLapsed(jobs[j], b).status = jobs[j].status
  BY <1>1, SetLapsedFields
<1>3. CASE i = j
  BY <1>2, <1>3 DEF SameJob, TypeOK
<1>4. CASE i # j
  BY <1>4 DEF TypeOK
<1>5. QED
  BY <1>3, <1>4

LEMMA StepBounded == TypeOK /\ RowsBounded /\ [Next]_vars => RowsBounded'
<1> SUFFICES ASSUME TypeOK, RowsBounded, [Next]_vars PROVE RowsBounded'
  OBVIOUS
<1> USE QueueAssumption
<1> DEFINE Kept(i) == jobs'[i].status = "running" =>
                        /\ jobs[i].status = "running"
                        /\ jobs'[i].run = jobs[i].run /\ jobs'[i].kind = jobs[i].kind
<1>1. ASSUME NEW t \in Threads, Claim(t) PROVE RowsBounded'
  <2>1. PICK i \in Claimable(AfterExpiry) :
          jobs' = [AfterExpiry EXCEPT ![i] = Lease(AfterExpiry[i], t)]
    BY <1>1 DEF Claim
  <2>2. /\ i \in JobIds /\ AfterExpiry[i] \in Row
        /\ AfterExpiry[i].status = "pending"
        /\ AfterExpiry[i].kind \in Nodes =>
             Cardinality(RunningSubtasks(AfterExpiry, AfterExpiry[i].run)) < PoolSize
    BY ExpiryRows DEF Claimable
  <2>3. /\ jobs'[i].run = AfterExpiry[i].run /\ jobs'[i].kind = AfterExpiry[i].kind
        /\ \A j \in JobIds \ {i} : jobs'[j] = AfterExpiry[j]
    BY <2>1, <2>2, LeaseFields, ExpiryRows DEF SameJob
  <2> SUFFICES ASSUME NEW r \in Runs
               PROVE  Cardinality(RunningSubtasks(jobs', r)) <= PoolSize
    BY DEF RowsBounded, RunningSubtasks
  <2> DEFINE now == Cardinality(RunningSubtasks(jobs, r))
             exp == Cardinality(RunningSubtasks(AfterExpiry, r))
             new == Cardinality(RunningSubtasks(jobs', r))
  <2>4. now \in Nat /\ exp \in Nat /\ new \in Nat /\ now <= PoolSize
    BY RunningFinite DEF RowsBounded
  <2>5. exp <= now
    <3>1. RunningSubtasks(AfterExpiry, r) \subseteq RunningSubtasks(jobs, r)
      BY RequeueFields DEF RunningSubtasks, AfterExpiry, TypeOK
    <3>2. QED
      BY <3>1, RunningFinite, FS_Subset
  <2>6. CASE AfterExpiry[i].run = r /\ AfterExpiry[i].kind \in Nodes
    <3>1. RunningSubtasks(jobs', r) \subseteq RunningSubtasks(AfterExpiry, r) \cup {i}
      BY <2>3 DEF RunningSubtasks
    <3>2. IsFiniteSet(RunningSubtasks(AfterExpiry, r) \cup {i})
          /\ Cardinality(RunningSubtasks(AfterExpiry, r) \cup {i}) <= exp + 1
      <4>1. i \notin RunningSubtasks(AfterExpiry, r)
        BY <2>2 DEF RunningSubtasks
      <4>2. /\ IsFiniteSet(RunningSubtasks(AfterExpiry, r) \cup {i})
            /\ Cardinality(RunningSubtasks(AfterExpiry, r) \cup {i}) = exp + 1
        BY <4>1, RunningFinite, FS_AddElement
      <4>3. exp + 1 <= exp + 1
        BY <2>4
      <4>4. QED
        BY <4>2, <4>3
    <3>3. new <= Cardinality(RunningSubtasks(AfterExpiry, r) \cup {i})
          /\ Cardinality(RunningSubtasks(AfterExpiry, r) \cup {i}) \in Nat
      BY <3>1, <3>2, FS_Subset, FS_CardinalityType
    <3>4. exp < PoolSize
      BY <2>2, <2>6
    <3> DEFINE more == Cardinality(RunningSubtasks(AfterExpiry, r) \cup {i})
    <3>5. new <= more /\ more <= exp + 1 /\ more \in Nat
      BY <3>2, <3>3
    <3>6. new <= PoolSize
      <4> HIDE DEF now, exp, new, more
      <4> QED BY <2>4, <3>4, <3>5
    <3>7. QED
      BY <3>6
  <2>7. CASE ~ (AfterExpiry[i].run = r /\ AfterExpiry[i].kind \in Nodes)
    <3>1. RunningSubtasks(jobs', r) \subseteq RunningSubtasks(AfterExpiry, r)
      BY <2>2, <2>3, <2>7 DEF RunningSubtasks
    <3>2. new <= exp
      BY <3>1, RunningFinite, FS_Subset
    <3>3. new <= PoolSize
      <4> HIDE DEF now, exp, new
      <4> QED BY <2>4, <2>5, <3>2
    <3>4. QED
      BY <3>3
  <2>8. QED
    BY <2>6, <2>7
<1>2. ASSUME NEW t \in Threads, ClaimNothing(t) PROVE \A i \in JobIds : Kept(i)
  BY <1>2, RequeueFields DEF ClaimNothing, AfterExpiry, TypeOK
<1>3. ASSUME NEW t \in Threads, Finalize(t) PROVE \A i \in JobIds : Kept(i)
  <2>1. cur[t] \in JobIds /\ jobs[cur[t]] \in Row /\ verdict[t] \in FinalStatus
    BY <1>3, Executing DEF Finalize, TypeOK
  <2>2. QED
    BY <1>3, <2>1, CloseFields DEF Finalize, TypeOK, FinalStatus
<1>4. ASSUME NEW t \in Threads, HandlerPauses(t) PROVE \A i \in JobIds : Kept(i)
  BY <1>4, ParkFields DEF HandlerPauses, Parked, TypeOK
<1>5. ASSUME NEW t \in Threads, Drainer(t), ~ Claim(t)
      PROVE  \A i \in JobIds : Kept(i)
  BY <1>2, <1>3, <1>4, <1>5
     DEF Drainer, Handler, StartDrainer, HandlerReturns, HandlerRaises,
         FinalizeFails, PauseRun, LeaveLoop, LastLook
<1>6. ASSUME NEW r \in Runs, NEW k \in Kinds, NEW s \in ActiveStatus \ {"running"},
             jobs' = [jobs EXCEPT ![last + 1] = NewRow(r, k, s)]
      PROVE  \A i \in JobIds : Kept(i)
  <2>1. NewRow(r, k, s).status = s /\ s # "running"
    BY NewRowFields
  <2>2. QED
    BY <1>6, <2>1 DEF TypeOK
<1>7. CASE Callers
  <2>1. ASSUME NEW r \in Runs, NEW k \in Kinds, EnqueueJob(r, k)
        PROVE  \A i \in JobIds : Kept(i)
    <3>1. "pending" \in ActiveStatus \ {"running"}
      BY DEF ActiveStatus
    <3>2. jobs' = jobs \/ jobs' = [jobs EXCEPT ![last + 1] = NewRow(r, k, "pending")]
      BY <2>1 DEF EnqueueJob
    <3>3. QED
      BY <1>6, <3>1, <3>2
  <2>2. ASSUME NEW r \in Runs, EnqueueWaitingJob(r) PROVE \A i \in JobIds : Kept(i)
    <3>1. "waiting_ollama" \in ActiveStatus \ {"running"} /\ "research" \in Kinds
      BY <2>2 DEF ActiveStatus, EnqueueWaitingJob, Kinds
    <3>2. jobs' = [jobs EXCEPT ![last + 1] =
                                 NewRow(r, "research", "waiting_ollama")]
      BY <2>2 DEF EnqueueWaitingJob
    <3>3. QED
      BY <1>6, <3>1, <3>2
  <2>3. ASSUME NEW r \in Runs, SupersedeDecompose(r) PROVE \A i \in JobIds : Kept(i)
    BY <2>3, CloseFields DEF SupersedeDecompose, FinalStatus, TypeOK
  <2>4. ASSUME NEW r \in Runs, CancelJobs(r) PROVE \A i \in JobIds : Kept(i)
    BY <2>4, RequestCancelFields DEF CancelJobs, SameJob, TypeOK
  <2>5. \A i \in JobIds : Kept(i)
    BY <1>7, <2>1, <2>2, <2>3, <2>4 DEF Callers, RunMoves, CancelRun
  <2>6. QED
    BY <2>5, BoundKept
<1>8. CASE Leases
  <2>1. ASSUME NEW j \in JobIds, LeaseLapses(j) PROVE \A i \in JobIds : Kept(i)
    BY <2>1, SetOne DEF LeaseLapses
  <2>2. ASSUME NEW t \in Threads, Heartbeat(t) PROVE \A i \in JobIds : Kept(i)
    <3>1. cur[t] \in JobIds
      BY <2>2, Executing DEF Heartbeat
    <3>2. QED
      BY <2>2, <3>1, SetOne DEF Heartbeat
  <2>3. QED
    BY <1>8, <2>1, <2>2, BoundKept DEF Leases
<1>9. CASE ReleaseWaiting
  <2>1. \A i \in JobIds : Kept(i)
    BY <1>9, RequeueFields DEF ReleaseWaiting, TypeOK
  <2>2. QED
    BY <2>1, BoundKept
<1>10. CASE Restart
  <2>1. ASSUME NEW i \in JobIds PROVE Kept(i)
    <3> DEFINE row == IF jobs[i].status = "running" THEN Requeue(jobs[i])
                      ELSE jobs[i]
    <3>1. row \in Row /\ row.status # "running"
      BY RequeueFields DEF SameJob, TypeOK
    <3>2. Close(row, "failed").status = "failed"
      BY <3>1, CloseFields DEF FinalStatus
    <3>3. jobs'[i] \in {row, Close(row, "failed")}
      BY <1>10 DEF Restart
    <3>4. QED
      BY <3>1, <3>2, <3>3
  <2>2. QED
    BY <2>1, BoundKept
<1>11. CASE StartJobQueue \/ UNCHANGED vars
  BY <1>11, BoundKept DEF StartJobQueue, vars
<1>12. QED
  BY <1>1, <1>5, <1>7, <1>8, <1>9, <1>10, <1>11, BoundKept DEF Next

LEMMA InitialBounded == Init => RowsBounded
<1> SUFFICES ASSUME Init, NEW r \in Runs
             PROVE  Cardinality(RunningSubtasks(jobs, r)) <= PoolSize
  BY DEF RowsBounded
<1>1. RunningSubtasks(jobs, r) = {}
  BY DEF Init, RunningSubtasks, NoRow
<1>2. QED
  BY <1>1, FS_EmptySet, QueueAssumption

\* A thread at work has a running row of its own.
LEMMA BoundedIsRespected == TypeOK /\ Leased /\ RowsBounded => PoolRespected
<1> SUFFICES ASSUME TypeOK, Owned, RowsBounded, NEW r \in Runs
             PROVE  Cardinality({ t \in Threads : /\ pc[t] \in {"run", "final"}
                                                  /\ jobs[cur[t]].run = r
                                                  /\ jobs[cur[t]].kind \in Nodes })
                      <= PoolSize
  BY DEF Leased, PoolRespected
<1> DEFINE busy == { t \in Threads : /\ pc[t] \in {"run", "final"}
                                      /\ jobs[cur[t]].run = r
                                      /\ jobs[cur[t]].kind \in Nodes }
           rows == RunningSubtasks(jobs, r)
           f == [t \in busy |-> cur[t]]
<1>1. \A t \in busy : /\ cur[t] \in rows /\ jobs[cur[t]].owner = t
  BY Executing DEF Owned, Executes, RunningSubtasks
<1>2. f \in Injection(busy, rows)
  <2>1. f \in [busy -> rows]
    BY <1>1
  <2>2. \A s, t \in busy : f[s] = f[t] => s = t
    BY <1>1
  <2>3. QED
    BY <2>1, <2>2 DEF Injection, IsInjective
<1>3. IsFiniteSet(busy) /\ Cardinality(busy) <= Cardinality(rows)
  BY <1>2, RunningFinite, FS_Injection
<1>4. /\ Cardinality(busy) \in Nat /\ Cardinality(rows) \in Nat
      /\ Cardinality(rows) <= PoolSize /\ PoolSize \in Nat
  BY <1>3, RunningFinite, FS_CardinalityType, QueueAssumption DEF RowsBounded
<1> DEFINE m == Cardinality(busy)
           n == Cardinality(rows)
<1>5. m <= PoolSize
  <2>1. m <= n /\ m \in Nat /\ n \in Nat /\ n <= PoolSize /\ PoolSize \in Nat
    BY <1>3, <1>4
  <2> HIDE DEF m, n
  <2> QED BY <2>1
<1>6. QED
  BY <1>5

\* The threads at work on one run's subtasks never exceed the pool size.
THEOREM PoolIsRespected == Spec => []PoolRespected
<1>1. Spec => []Leased
  BY InitialLeased, StepLeased, TypeCorrect, ActiveJobUnique, PTL DEF Spec
<1>2. Spec => []RowsBounded
  BY InitialBounded, StepBounded, TypeCorrect, PTL DEF Spec
<1>3. QED
  BY <1>1, <1>2, TypeCorrect, BoundedIsRespected, PTL
=============================================================================
