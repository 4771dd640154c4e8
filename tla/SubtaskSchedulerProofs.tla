----------------------- MODULE SubtaskSchedulerProofs -----------------------
(***************************************************************************)
(* Theorems about the subtask scheduler, for any graphs, agents, pool and  *)
(* number of drainers.  The first part holds for any number of restarts,   *)
(* outages, errors, cancellations, resumes and switched agents: a node     *)
(* that is worked on has its dependencies done, and a queued merge has a   *)
(* finished graph.  The second part ends at the first restart: agents work *)
(* on one node at a time, a node is blocked only behind one that failed,   *)
(* and a graph is always carried by somebody.                              *)
(*                                                                         *)
(* The first part says that a done node stays done as long as somebody     *)
(* relies on it.  A dispatch writes with what it read when it took the     *)
(* lock, so those who rely on a node are the nodes with a job and those    *)
(* the dispatch in progress is going to give one.                          *)
(***************************************************************************)
EXTENDS SubtaskScheduler, FiniteSetTheorems, TLAPS

Alive(r) == StatusOf(r) # "cancelled"

\* The statuses the scheduler's runs are ever in.
RunsReach ==
  \A r \in Runs :
    /\ run[r].status \in {"implementing", "waiting_for_ollama", "researching", "failed",
                          "completed", "cancelled"}
    /\ run[r].resume \in {"implementing", "researching", "failed"}

Dispatching == lock.phase \in {"assign", "enqueue"}
View == IF Dispatching THEN lock.view ELSE {}

\* The lock's holder dispatches for its own run; nobody's lock is as it was.
Locked ==
  /\ lock.holder = Nobody => lock.phase = "block"
  /\ \A n \in View : RunOf[n] = RunOfTask(lock.holder)

\* A node that has a job, or is about to be given one, has its dependencies done.
Relies(n) == job[n] # "none" \/ n \in View
Grounded ==
  \A n \in Nodes : Relies(n) /\ Alive(RunOf[n]) =>
    \A d \in Deps[n] : node[d].status = "done"

\* Nobody relies on a node of the dispatch in progress.
ViewIsLeaf ==
  \A n \in View : Alive(RunOf[n]) => \A m \in Nodes : Relies(m) => n \notin Deps[m]

\* A node in its handler's hands is not done, until the handler says so.
OpenAtWork ==
  \A n \in Nodes : pc[n] \in {"stage", "working", "raised", "insert"} /\ Alive(RunOf[n]) =>
    node[n].status # "done"

\* The graph of a queued merge is finished, and so is that of a completed run.
Merging(r) == Alive(r) /\ (r \in merge \/ StatusOf(r) = "completed")
Whole == \A r \in Runs : Merging(r) => \A n \in NodesOf(r) : node[n].status = "done"

\* A dispatch that still has nodes to look at is not that of such a run.
NoneInView == \A n \in View : ~Merging(RunOf[n])

SchedulerInv ==
  /\ TypeOK /\ RunsReach /\ Locked /\ Grounded /\ ViewIsLeaf /\ OpenAtWork /\ Whole
  /\ NoneInView

-----------------------------------------------------------------------------
(* The names of tasks, and the rows of the status table that matter here.  *)

LEMMA TaskNames ==
  /\ \A n \in Nodes : n \in Tasks /\ n \notin Runs /\ RunOfTask(n) = RunOf[n] /\ RunOf[n] \in Runs
  /\ \A r \in Runs : r \in Tasks /\ r \notin Nodes /\ RunOfTask(r) = r
  /\ \A x \in Tasks : RunOfTask(x) \in Runs /\ x # Nobody
  /\ \A n \in Nodes : \A d \in Deps[n] : d \in Nodes /\ RunOf[d] = RunOf[n]
  BY SchedulerAssumption DEF Tasks, RunOfTask

LEMMA StatusTable ==
  /\ {"implementing", "waiting_for_ollama", "researching", "failed", "completed",
      "cancelled"} \subseteq RunStatuses
  /\ \A t : ValidTransition("cancelled", t) => t = "cancelled"
  /\ \A t \in {"implementing", "researching", "failed", "waiting_for_ollama", "verifying"} :
       ~ValidTransition("completed", t)
  /\ \A s \in {"implementing", "waiting_for_ollama", "researching", "failed"} :
       ValidTransition(s, "failed")
  BY DEF ValidTransition, AllowedTransitions, RunStatuses

-----------------------------------------------------------------------------
(* Type correctness.                                                       *)

\* The records TypeOK speaks of.
NodeRow == [status : Live \cup Closed, agent : Agents \cup {NoAgent}, attempts : Nat]
Lock == [holder : Tasks \cup {Nobody}, phase : {"block", "look", "assign", "enqueue"},
         view : SUBSET Nodes, reserved : SUBSET Agents, slots : 0 .. PoolSize]

LEMMA TypeInit == Init => TypeOK
  BY SchedulerAssumption, TaskNames, StatusTable
  DEF Init, TypeOK, Live, Closed, Unread, Free, Tasks

LEMMA QueueTypes ==
  ASSUME TypeOK, NEW x \in Tasks, Claim(x) \/ Finalize(x)
  PROVE  TypeOK'
<1>1. CASE Claim(x)
  BY <1>1, TaskNames DEF TypeOK, Claim, Go
<1>2. CASE Finalize(x)
  BY <1>2, TaskNames DEF TypeOK, Finalize, Go, Unread
<1>3. QED
  BY <1>1, <1>2

LEMMA FreeLock ==
  /\ Free \in Lock /\ Free.holder = Nobody /\ Free.phase = "block"
  /\ \A x \in Tasks : [Free EXCEPT !.holder = x, !.phase = "look"] \in Lock
<1>1. 0 \in 0 .. PoolSize /\ \A x \in Tasks : x \in Tasks \cup {Nobody}
  BY SchedulerAssumption
<1>2. Free \in Lock
  BY <1>1 DEF Lock, Free
<1>3. ASSUME NEW x \in Tasks PROVE [Free EXCEPT !.holder = x, !.phase = "look"] \in Lock
  BY <1>1, <1>2 DEF Lock
<1>4. QED
  BY <1>2, <1>3 DEF Free

LEMMA NodeWrites ==
  ASSUME NEW row \in NodeRow
  PROVE  /\ \A s \in Live \cup Closed : [row EXCEPT !.status = s] \in NodeRow
         /\ \A a \in Agents : [row EXCEPT !.agent = a] \in NodeRow
         /\ [row EXCEPT !.status = "waiting_ollama",
                        !.attempts = IF @ = 0 THEN 0 ELSE @ - 1] \in NodeRow
<1>1. ASSUME NEW s \in Live \cup Closed PROVE [row EXCEPT !.status = s] \in NodeRow
  BY DEF NodeRow
<1>2. ASSUME NEW a \in Agents PROVE [row EXCEPT !.agent = a] \in NodeRow
  BY DEF NodeRow
<1>3. row.attempts \in Nat /\ "waiting_ollama" \in Live \cup Closed
  BY DEF NodeRow, Live
<1>4. (IF row.attempts = 0 THEN 0 ELSE row.attempts - 1) \in Nat
  BY <1>3
<1>5. [row EXCEPT !.status = "waiting_ollama",
                  !.attempts = IF @ = 0 THEN 0 ELSE @ - 1] \in NodeRow
  BY <1>3, <1>4 DEF NodeRow
<1>6. QED
  BY <1>1, <1>2, <1>5

\* A thread goes on.
LEMMA GoesOn ==
  ASSUME TypeOK, NEW x \in Tasks, pc[x] # "idle",
         NEW label \in {"start", "stage", "working", "raised", "insert", "chain", "dispatch",
                        "ended"},
         Go(x, label), job' = job
  PROVE  /\ pc' \in [Tasks -> {"idle", "start", "stage", "working", "raised", "insert",
                               "chain", "dispatch", "ended"}]
         /\ \A y \in Tasks : job'[y] = "running" <=> pc'[y] # "idle"
  BY DEF TypeOK, Go

\* A step of a dispatch keeps the lock with a thread that dispatches.
LEMMA DispatchTypes ==
  ASSUME TypeOK, NEW x \in Tasks, Dispatch(x)
  PROVE  TypeOK'
<1>0. /\ RunOfTask(x) \in Runs /\ PoolSize \in Nat \ {0} /\ x # Nobody
      /\ node \in [Nodes -> NodeRow]
  BY SchedulerAssumption, TaskNames DEF TypeOK, NodeRow
<1>1. CASE Block(x)
  <2>1. node' \in [Nodes -> NodeRow]
    <3>1. /\ \A n \in Nodes : [node[n] EXCEPT !.status = "blocked"] \in NodeRow
      BY <1>0, NodeWrites DEF Closed
    <3>2. QED
      BY <1>0, <1>1, <3>1 DEF Block
  <2>2. lock' \in Lock /\ lock'.holder = x
    BY <1>1, FreeLock DEF Block, Free, Lock
  <2>3. QED
    BY <1>1, <2>1, <2>2 DEF TypeOK, Block, Lock, NodeRow
<1>2. CASE QueueMerge(x)
  <2>1. /\ lock' = Free /\ Go(x, "ended") /\ pc[x] # "idle" /\ merge' \subseteq Runs
        /\ UNCHANGED <<run, node, job, enabled, mine>>
    BY <1>0, <1>2 DEF QueueMerge, Looks, TypeOK
  <2>2. QED
    BY <2>1, FreeLock, GoesOn DEF TypeOK, Lock
<1>3. CASE FailClosed(x)
  <2>1. run' \in [Runs -> [status : RunStatuses, resume : RunStatuses]]
    BY <1>0, <1>3, StatusTable DEF TypeOK, FailClosed
  <2>2. /\ lock' = Free /\ pc[x] # "idle"
        /\ Go(x, "raised") \/ Go(x, "ended")
        /\ UNCHANGED <<node, job, merge, enabled, mine>>
    BY <1>0, <1>3 DEF FailClosed, Looks, TypeOK
  <2>3. /\ pc' \in [Tasks -> {"idle", "start", "stage", "working", "raised", "insert",
                              "chain", "dispatch", "ended"}]
        /\ \A y \in Tasks : job'[y] = "running" <=> pc'[y] # "idle"
    BY <2>2, GoesOn
  <2>4. QED
    BY <2>1, <2>2, <2>3, FreeLock DEF TypeOK, Lock
<1>4. CASE Look(x)
  <2>1. Ready(RunOfTask(x)) \subseteq Nodes /\ Reserved(RunOfTask(x)) \subseteq Agents
    BY DEF Ready, Reserved, NodesOf, TypeOK
  <2>2. lock'.slots \in 0 .. PoolSize
    <3>1. NodesOf(RunOfTask(x)) \subseteq Nodes
      BY DEF NodesOf
    <3>2. \A S \in SUBSET Nodes : Cardinality(S) \in Nat
      BY SchedulerAssumption, FS_Subset, FS_CardinalityType
    <3>3. Cardinality({ n \in NodesOf(RunOfTask(x)) :
                          node[n].status \in {"running", "waiting_ollama"} }) \in Nat
      BY <3>1, <3>2
    <3>4. QED
      BY <1>0, <1>4, <3>3 DEF Look, TypeOK
  <2>3. lock' \in Lock /\ lock'.holder = lock.holder
    BY <1>4, <2>1, <2>2 DEF Look, TypeOK, Lock
  <2>4. QED
    BY <1>4, <2>3 DEF Look, TypeOK, Lock
<1>5. CASE Dispatched(x)
  <2>1. /\ lock' = Free /\ Go(x, "ended") /\ pc[x] # "idle"
        /\ UNCHANGED <<run, node, job, merge, enabled, mine>>
    BY <1>0, <1>5 DEF Dispatched, TypeOK
  <2>2. QED
    BY <2>1, FreeLock, GoesOn DEF TypeOK, Lock
<1>6. ASSUME NEW n \in Nodes, PassOver(x, n) PROVE TypeOK'
  BY <1>0, <1>6 DEF TypeOK, PassOver, Turn
<1>7. ASSUME NEW n \in Nodes, FailUnserved(x, n) PROVE TypeOK'
  <2>1. node' \in [Nodes -> NodeRow]
    <3>1. [node[n] EXCEPT !.status = "failed"] \in NodeRow
      BY <1>0, NodeWrites DEF Closed
    <3>2. QED
      BY <1>0, <1>7, <3>1 DEF FailUnserved, Write
  <2>2. lock' \in Lock /\ lock'.holder = lock.holder
    BY <1>7 DEF TypeOK, FailUnserved, Lock
  <2>3. QED
    BY <1>7, <2>1, <2>2 DEF TypeOK, FailUnserved, Lock, NodeRow
<1>8. ASSUME NEW n \in Nodes, Assign(x, n) PROVE TypeOK'
  <2>1. PICK a \in Choices(n) :
          /\ node' = [node EXCEPT ![n].agent = a]
          /\ lock' = [lock EXCEPT !.phase = "enqueue", !.reserved = @ \cup {a}, !.slots = @ - 1]
    BY <1>8 DEF Assign
  <2>2. a \in Agents
    BY DEF Choices, TypeOK
  <2>3. node' \in [Nodes -> NodeRow]
    BY <2>1, <2>2, NodeWrites DEF TypeOK, NodeRow
  <2>4. lock' \in Lock /\ lock'.holder = lock.holder
    <3>1. lock \in Lock /\ lock.slots > 0
      BY <1>8 DEF TypeOK, Assign, Turn, Lock
    <3>2. lock.slots - 1 \in 0 .. PoolSize /\ lock.reserved \cup {a} \in SUBSET Agents
      BY <1>0, <2>2, <3>1 DEF Lock
    <3>3. QED
      BY <2>1, <3>1, <3>2 DEF Lock
  <2>5. QED
    BY <1>8, <2>3, <2>4 DEF TypeOK, Assign, Lock, NodeRow
<1>9. ASSUME NEW n \in Nodes, EnqueueNode(x, n) PROVE TypeOK'
  <2>1. lock' \in Lock /\ lock'.holder = lock.holder
    BY <1>9 DEF TypeOK, EnqueueNode, Lock
  <2>2. /\ job' \in [Tasks -> {"none", "pending", "running", "waiting"}]
        /\ \A y \in Tasks : job'[y] = "running" <=> job[y] = "running"
    BY <1>9, TaskNames DEF TypeOK, EnqueueNode, Enqueue
  <2>3. QED
    BY <1>9, <2>1, <2>2 DEF TypeOK, EnqueueNode, Lock
<1>10. QED
  BY <1>1, <1>2, <1>3, <1>4, <1>5, <1>6, <1>7, <1>8, <1>9 DEF Dispatch

LEMMA RunTypes ==
  ASSUME TypeOK, NEW x \in Tasks, StartRun(x) \/ Run(x)
  PROVE  TypeOK'
<1>1. CASE StartRun(x)
  BY <1>1 DEF TypeOK, StartRun, Go
<1>2. CASE StartNode(x)
  BY <1>2 DEF TypeOK, StartNode, Go
<1>3. CASE Stage(x)
  <2>1. x \in Nodes /\ pc[x] = "stage"
    BY <1>3 DEF Stage
  <2>2. CASE Go(x, "raised") /\ UNCHANGED <<node, mine>>
    BY <1>3, <2>1, <2>2 DEF TypeOK, Stage, Go
  <2>3. ASSUME NEW a \in Usable(x),
               node' = [node EXCEPT ![x] = [status |-> "running", agent |-> a,
                                            attempts |-> mine[x].attempts + 1]],
               mine' = [mine EXCEPT ![x].agent = a], Go(x, "working")
        PROVE  TypeOK'
    <3>1. a \in Agents /\ mine[x].attempts \in Nat
      BY <2>1 DEF Usable, TypeOK
    <3>2. node' \in [Nodes -> NodeRow] /\ mine' \in [Nodes -> [agent : Agents \cup {NoAgent},
                                                               attempts : Nat]]
      BY <2>1, <2>3, <3>1 DEF TypeOK, NodeRow, Live
    <3>3. QED
      BY <1>3, <2>1, <2>3, <3>2 DEF TypeOK, Stage, Go, NodeRow
  <2>4. QED
    BY <1>3, <2>2, <2>3 DEF Stage
<1>4. CASE Finish(x) \/ Reject(x) \/ GiveUp(x) \/ Retry(x)
  <2>1. PICK s \in Live \cup Closed : Write(x, s) /\ x \in Nodes
    BY <1>4 DEF Finish, Reject, GiveUp, Retry, Live, Closed
  <2>2. node' \in [Nodes -> NodeRow]
    BY <2>1, NodeWrites DEF TypeOK, Write, NodeRow
  <2>3. PICK label \in {"chain", "raised", "dispatch", "insert"} : Go(x, label)
    BY <1>4 DEF Finish, Reject, GiveUp, Retry
  <2>4. /\ pc[x] \in {"working", "raised"}
        /\ UNCHANGED <<run, job, merge, enabled, mine, lock, count>>
    BY <1>4 DEF Finish, Reject, GiveUp, Retry
  <2>5. QED
    BY <2>2, <2>3, <2>4 DEF TypeOK, Go, NodeRow
<1>5. CASE InsertRetry(x)
  BY <1>5, TaskNames DEF TypeOK, InsertRetry, Go, Enqueue
<1>6. QED
  BY <1>1, <1>2, <1>3, <1>4, <1>5 DEF Run

LEMMA WorldTypes ==
  ASSUME TypeOK, \/ World \/ Recover \/ \E r \in Runs : Merge(r)
  PROVE  TypeOK'
<1>0. node \in [Nodes -> NodeRow]
  BY DEF TypeOK, NodeRow
<1>1. ASSUME NEW n \in Nodes, CallRaises(n) PROVE TypeOK'
  BY <1>1, TaskNames DEF TypeOK, CallRaises, Go
<1>2. ASSUME NEW x \in Tasks, Pause(x) PROVE TypeOK'
  <2>1. pc[x] \in {"working", "start"} /\ RunOfTask(x) \in Runs
    BY <1>2, TaskNames DEF Pause
  <2>2. node' \in [Nodes -> NodeRow]
    <3>1. \A n \in Nodes : node'[n] \in NodeRow
      BY <1>0, <1>2, NodeWrites DEF Pause, Live
    <3>2. node' = [n \in Nodes |-> node'[n]]
      BY <1>2 DEF Pause
    <3>3. QED
      BY <3>1, <3>2
  <2>3. run' \in [Runs -> [status : RunStatuses, resume : RunStatuses]]
    BY <1>2, <2>1, StatusTable DEF TypeOK, Pause, StatusOf
  <2>4. /\ pc' \in [Tasks -> {"idle", "start", "stage", "working", "raised", "insert",
                              "chain", "dispatch", "ended"}]
        /\ job' \in [Tasks -> {"none", "pending", "running", "waiting"}]
    BY <1>2 DEF TypeOK, Pause, Go
  <2>5. \A y \in Tasks : job'[y] = "running" <=> pc'[y] # "idle"
    <3>1. TAKE y \in Tasks
    <3>2. CASE y = x
      BY <1>2, <3>2 DEF TypeOK, Pause, Go
    <3>3. CASE y # x
      BY <1>2, <3>3 DEF TypeOK, Pause, Go
    <3>4. QED
      BY <3>2, <3>3
  <2>6. mine' \in [Nodes -> [agent : Agents \cup {NoAgent}, attempts : Nat]]
    BY <1>2 DEF TypeOK, Pause, Unread
  <2>7. lock.holder # Nobody => lock.holder # x /\ pc'[lock.holder] = pc[lock.holder]
    BY <1>2, <2>1 DEF TypeOK, Pause, Go
  <2>8. QED
    BY <1>2, <2>2, <2>3, <2>4, <2>5, <2>6, <2>7 DEF TypeOK, Pause, NodeRow
<1>3. ASSUME NEW r \in Runs, CancelRun(r) PROVE TypeOK'
  BY <1>3, StatusTable DEF TypeOK, CancelRun
<1>4. ASSUME NEW r \in Runs, ResumeRun(r) PROVE TypeOK'
  BY <1>4, StatusTable, TaskNames DEF TypeOK, ResumeRun, Enqueue
<1>5. ASSUME NEW a \in Agents, ToggleAgent(a) PROVE TypeOK'
  BY <1>5 DEF TypeOK, ToggleAgent
<1>6. CASE Restart
  <2>1. node' \in [Nodes -> NodeRow]
    <3>1. \A n \in Nodes : [node[n] EXCEPT !.status = "pending"] \in NodeRow
      BY <1>0, NodeWrites DEF Live
    <3>2. QED
      BY <1>0, <1>6, <3>1 DEF Restart
  <2>2. QED
    BY <1>6, <2>1, FreeLock DEF TypeOK, Restart, NodeRow, Lock, Unread
<1>7. CASE Recover
  <2>1. node' \in [Nodes -> NodeRow]
    <3>1. \A n \in Nodes : [node[n] EXCEPT !.status = "pending"] \in NodeRow
      BY <1>0, NodeWrites DEF Live
    <3>2. QED
      BY <1>0, <1>7, <3>1 DEF Recover
  <2>2. run' \in [Runs -> [status : RunStatuses, resume : RunStatuses]]
    BY <1>7, StatusTable DEF TypeOK, Recover
  <2>3. QED
    BY <1>7, <2>1, <2>2 DEF TypeOK, Recover, NodeRow
<1>8. ASSUME NEW r \in Runs, Merge(r) PROVE TypeOK'
  BY <1>8, StatusTable DEF TypeOK, Merge
<1>9. QED
  BY <1>1, <1>2, <1>3, <1>4, <1>5, <1>6, <1>7, <1>8 DEF World

\* Type correctness.
THEOREM SchedulerTypes == Spec => []TypeOK
<1>1. Init => TypeOK
  BY TypeInit
<1>2. TypeOK /\ [Next]_vars => TypeOK'
  <2>1. SUFFICES ASSUME TypeOK, [Next]_vars PROVE TypeOK'
    OBVIOUS
  <2>2. ASSUME NEW x \in Tasks, Claim(x) \/ Thread(x) PROVE TypeOK'
    BY <2>1, <2>2, QueueTypes, DispatchTypes, RunTypes DEF Thread
  <2>3. CASE UNCHANGED vars
    BY <2>1, <2>3 DEF vars, TypeOK
  <2>4. QED
    BY <2>1, <2>2, <2>3, WorldTypes DEF Next
<1>3. QED
  BY <1>1, <1>2, PTL DEF Spec

-----------------------------------------------------------------------------
(* The invariant.  A quiet step is one in which nobody new comes to rely on *)
(* a node, no graph is newly queued for its merge (but a finished one, when *)
(* no dispatch is left), and the only done nodes that are undone are nodes  *)
(* of the dispatch in progress.  All steps but Look are quiet.              *)

AllDone(r) == \A n \in NodesOf(r) : node[n].status = "done"

Quiet ==
  /\ \A r \in Runs : Alive(r)' => Alive(r)
  /\ \A n \in Nodes : Relies(n)' => Relies(n)
  /\ View' \subseteq View
  /\ View' # {} => lock'.holder = lock.holder
  /\ \A r \in Runs : Merging(r)' => Merging(r) \/ (View' = {} /\ AllDone(r)')
  /\ \A n \in Nodes : Alive(RunOf[n])' /\ node[n].status = "done"
                        => node'[n].status = "done" \/ n \in View

LEMMA QuietKeeps ==
  ASSUME SchedulerInv, Quiet
  PROVE  Grounded' /\ ViewIsLeaf' /\ Whole' /\ NoneInView'
<1> USE DEF SchedulerInv, Quiet
<1>0. View \subseteq Nodes
  BY DEF View, TypeOK
<1>1. Grounded'
  <2>1. SUFFICES ASSUME NEW n \in Nodes, Relies(n)', Alive(RunOf[n])', NEW d \in Deps[n]
                 PROVE  node'[d].status = "done"
    BY DEF Grounded
  <2>2. d \in Nodes /\ RunOf[d] = RunOf[n] /\ RunOf[n] \in Runs
    BY TaskNames
  <2>3. node[d].status = "done" /\ Relies(n) /\ Alive(RunOf[d])
    BY <2>1, <2>2 DEF Grounded
  <2>4. d \notin View
    BY <2>3 DEF ViewIsLeaf
  <2>5. QED
    BY <2>1, <2>2, <2>3, <2>4
<1>2. ViewIsLeaf'
  BY <1>0, TaskNames DEF ViewIsLeaf
<1>3. Whole'
  <2>1. SUFFICES ASSUME NEW r \in Runs, Merging(r)', NEW n \in NodesOf(r), ~AllDone(r)'
                 PROVE  node'[n].status = "done"
    BY DEF Whole, AllDone
  <2>2. Merging(r) /\ node[n].status = "done" /\ n \in Nodes /\ RunOf[n] = r
    BY <2>1 DEF Whole, NodesOf
  <2>3. n \notin View
    BY <2>2 DEF NoneInView
  <2>4. Alive(RunOf[n])'
    BY <2>1, <2>2 DEF Merging
  <2>5. QED
    BY <2>2, <2>3, <2>4
<1>4. NoneInView'
  BY <1>0, TaskNames DEF NoneInView
<1>5. QED
  BY <1>1, <1>2, <1>3, <1>4

\* Init.
LEMMA SchedulerInit == Init => SchedulerInv
<1> SUFFICES ASSUME Init PROVE SchedulerInv
  OBVIOUS
<1>1. TypeOK
  BY TypeInit
<1>2. RunsReach /\ Locked /\ View = {}
  BY DEF Init, RunsReach, Locked, View, Dispatching, Free
<1>3. \A n \in Nodes : ~Relies(n) /\ pc[n] = "idle"
  BY <1>2, TaskNames DEF Init, Relies
<1>4. \A r \in Runs : ~Merging(r)
  BY DEF Init, Merging, StatusOf
<1>5. QED
  BY <1>1, <1>2, <1>3, <1>4
  DEF SchedulerInv, Grounded, ViewIsLeaf, OpenAtWork, Whole, NoneInView

-----------------------------------------------------------------------------
(* The queue, and the steps of a dispatch.                                 *)

\* What a quiet step may leave alone altogether.
LEMMA UnchangedIsQuiet ==
  ASSUME UNCHANGED <<run, node, job, merge, lock>>
  PROVE  Quiet /\ RunsReach' = RunsReach /\ Locked' = Locked
  BY DEF Quiet, Alive, StatusOf, Relies, View, Dispatching, Merging, RunsReach, Locked

LEMMA QueueKeeps ==
  ASSUME SchedulerInv, NEW x \in Tasks, Claim(x) \/ Finalize(x)
  PROVE  SchedulerInv'
<1>1. TypeOK'
  BY QueueTypes DEF SchedulerInv
<1>2. UNCHANGED <<run, node, merge, lock>>
  BY DEF Claim, Finalize
<1>3. \A n \in Nodes : job'[n] # "none" => job[n] # "none"
  BY TaskNames DEF SchedulerInv, TypeOK, Claim, Finalize
<1>4. Quiet /\ RunsReach' /\ Locked'
  BY <1>2, <1>3
  DEF SchedulerInv, Quiet, Alive, StatusOf, Relies, View, Dispatching, Merging, RunsReach, Locked
<1>5. OpenAtWork'
  BY <1>2, TaskNames DEF SchedulerInv, TypeOK, OpenAtWork, Claim, Finalize, Go, Alive, StatusOf
<1>6. QED
  BY <1>1, <1>4, <1>5, QuietKeeps DEF SchedulerInv

LEMMA BlockKeeps ==
  ASSUME SchedulerInv, NEW x \in Tasks, Block(x)
  PROVE  SchedulerInv'
<1>1. TypeOK'
  BY DispatchTypes DEF SchedulerInv, Dispatch
<1>2. UNCHANGED <<run, job, merge, pc>> /\ lock'.phase = "look" /\ lock'.holder = x
  BY DEF Block, Free
<1>3. \A n \in Nodes : node'[n].status = "done" <=> node[n].status = "done"
  <2>1. TAKE n \in Nodes
  <2>2. node'[n] = node[n] \/ (node[n].status = "pending" /\ node'[n].status = "blocked")
    BY DEF Block, SchedulerInv, TypeOK
  <2>3. QED
    BY <2>2
<1>4. View' = {} /\ Locked'
  BY <1>2, TaskNames DEF View, Dispatching, Locked
<1>5. Quiet /\ RunsReach'
  BY <1>2, <1>3, <1>4 DEF SchedulerInv, Quiet, Alive, StatusOf, Relies, Merging, RunsReach
<1>6. OpenAtWork'
  BY <1>2, <1>3 DEF SchedulerInv, OpenAtWork, Alive, StatusOf
<1>7. QED
  BY <1>1, <1>4, <1>5, <1>6, QuietKeeps DEF SchedulerInv

LEMMA QueueMergeKeeps ==
  ASSUME SchedulerInv, NEW x \in Tasks, QueueMerge(x)
  PROVE  SchedulerInv'
<1>1. TypeOK'
  BY DispatchTypes DEF SchedulerInv, Dispatch
<1>2. /\ UNCHANGED <<run, node, job>> /\ lock' = Free /\ Go(x, "ended")
      /\ merge' = merge \cup {RunOfTask(x)} /\ AllDone(RunOfTask(x))
  BY DEF QueueMerge, AllDone
<1>3. View' = {} /\ Locked'
  BY <1>2 DEF View, Dispatching, Locked, Free
<1>4. Quiet /\ RunsReach'
  BY <1>2, <1>3
  DEF SchedulerInv, Quiet, Alive, StatusOf, Relies, Merging, RunsReach, AllDone
<1>5. OpenAtWork'
  BY <1>2, TaskNames DEF SchedulerInv, TypeOK, OpenAtWork, Go, Alive, StatusOf
<1>6. QED
  BY <1>1, <1>3, <1>4, <1>5, QuietKeeps DEF SchedulerInv

\* A run that is not failed here is cancelled: a completed one has no failed node.
LEMMA FailClosedKeeps ==
  ASSUME SchedulerInv, NEW x \in Tasks, FailClosed(x)
  PROVE  SchedulerInv'
<1> DEFINE r == RunOfTask(x)
<1>1. TypeOK'
  BY DispatchTypes DEF SchedulerInv, Dispatch
<1>2. /\ UNCHANGED <<node, job, merge>> /\ lock' = Free /\ r \in Runs /\ Failed(r) # {}
      /\ run' = run \/ run' = [run EXCEPT ![r].status = "failed"]
  BY TaskNames DEF FailClosed
<1>3. View' = {} /\ Locked'
  BY <1>2 DEF View, Dispatching, Locked, Free
<1>4. StatusOf(r) # "completed"
  <2>1. PICK n \in NodesOf(r) : node[n].status # "done"
    BY <1>2 DEF Failed
  <2>2. QED
    BY <1>2, <2>1 DEF SchedulerInv, Whole, Merging, Alive
<1>5. Alive(r) => ValidTransition(StatusOf(r), "failed")
  BY <1>2, <1>4, StatusTable DEF SchedulerInv, RunsReach, StatusOf, Alive
<1>6. ValidTransition(StatusOf(r), "failed") => Alive(r)
  BY StatusTable DEF Alive
<1>7. /\ \A q \in Runs : q # r => run'[q] = run[q]
      /\ run'[r].resume = run[r].resume
      /\ ~Alive(r) => run' = run
      /\ Alive(r) => run'[r].status = "failed" /\ Go(x, "ended")
  BY <1>2, <1>5, <1>6 DEF FailClosed, SchedulerInv, TypeOK
<1>8. \A q \in Runs : Alive(q)' <=> Alive(q)
  BY <1>2, <1>7 DEF Alive, StatusOf
<1>9. Quiet /\ RunsReach'
  <2>1. RunsReach'
    BY <1>2, <1>7 DEF SchedulerInv, RunsReach, Alive, StatusOf
  <2>2. \A q \in Runs : Merging(q)' => Merging(q)
    BY <1>2, <1>7, <1>8 DEF Merging, StatusOf
  <2>3. QED
    BY <1>2, <1>3, <1>8, <2>1, <2>2 DEF Quiet, Relies
<1>10. OpenAtWork'
  <2>1. SUFFICES ASSUME NEW n \in Nodes, pc'[n] \in {"stage", "working", "raised", "insert"},
                        Alive(RunOf[n])'
                 PROVE  pc[n] \in {"stage", "working", "raised", "insert"} /\ Alive(RunOf[n])
    BY <1>2 DEF SchedulerInv, OpenAtWork
  <2>2. Alive(RunOf[n])
    BY <1>8, <2>1, TaskNames
  <2>3. CASE n = x
    BY <1>7, <2>1, <2>2, <2>3, TaskNames DEF Go, SchedulerInv, TypeOK
  <2>4. CASE n # x
    BY <2>1, <2>2, <2>4, TaskNames DEF FailClosed, Go, SchedulerInv, TypeOK
  <2>5. QED
    BY <2>3, <2>4
<1>11. QED
  BY <1>1, <1>3, <1>9, <1>10, QuietKeeps DEF SchedulerInv

\* The nodes read as ready have no job behind them: theirs are not done.
LEMMA LookKeeps ==
  ASSUME SchedulerInv, NEW x \in Tasks, Look(x)
  PROVE  SchedulerInv'
<1> DEFINE r == RunOfTask(x)
<1>1. TypeOK'
  BY DispatchTypes DEF SchedulerInv, Dispatch
<1>2. /\ UNCHANGED <<run, node, job, merge, pc>> /\ View = {} /\ View' = Ready(r)
      /\ lock.holder = x /\ lock'.holder = x /\ lock'.phase = "assign"
      /\ r \in Runs
  BY TaskNames DEF Look, Looks, View, Dispatching, SchedulerInv, TypeOK
<1>3. \A n \in Ready(r) : /\ n \in Nodes /\ RunOf[n] = r /\ node[n].status = "pending"
                          /\ \A d \in Deps[n] : node[d].status = "done"
  BY DEF Ready, NodesOf
<1>4. Locked' /\ RunsReach' /\ OpenAtWork' /\ Whole'
  <2>1. Locked'
    BY <1>2, <1>3, TaskNames DEF Locked
  <2>2. RunsReach' /\ OpenAtWork'
    BY <1>2 DEF SchedulerInv, RunsReach, OpenAtWork, Alive, StatusOf
  <2>3. Whole'
    BY <1>2 DEF SchedulerInv, Whole, Merging, Alive, StatusOf, NodesOf
  <2>4. QED
    BY <2>1, <2>2, <2>3
<1>5. Grounded'
  BY <1>2, <1>3 DEF SchedulerInv, Grounded, Relies, Alive, StatusOf
<1>6. ViewIsLeaf'
  <2>1. SUFFICES ASSUME NEW n \in Ready(r), Alive(r), NEW m \in Nodes, Relies(m)', n \in Deps[m]
                 PROVE  FALSE
    BY <1>2, <1>3 DEF ViewIsLeaf, Alive, StatusOf
  <2>2. RunOf[m] = r /\ node[n].status = "pending"
    BY <1>3, <2>1, TaskNames
  <2>3. CASE m \in Ready(r)
    BY <1>3, <2>1, <2>2, <2>3
  <2>4. CASE m \notin Ready(r)
    BY <1>2, <2>1, <2>2, <2>4 DEF SchedulerInv, Grounded, Relies
  <2>5. QED
    BY <2>3, <2>4
<1>7. NoneInView'
  <2>1. PICK n \in NodesOf(r) : node[n].status # "done"
    BY DEF Look, Closed
  <2>2. ~Merging(r)
    BY <1>2, <2>1 DEF SchedulerInv, Whole
  <2>3. QED
    BY <1>2, <1>3, <2>2 DEF NoneInView, Merging, Alive, StatusOf
<1>8. QED
  BY <1>1, <1>4, <1>5, <1>6, <1>7 DEF SchedulerInv

\* The turns of the loop over the nodes, and its end.
LEMMA TurnKeeps ==
  ASSUME SchedulerInv, NEW x \in Tasks,
         \/ Dispatched(x)
         \/ \E n \in Nodes : PassOver(x, n) \/ FailUnserved(x, n) \/ Assign(x, n)
  PROVE  SchedulerInv'
<1>1. TypeOK'
  BY DispatchTypes DEF SchedulerInv, Dispatch
<1>2. UNCHANGED <<run, job, merge>>
  BY DEF Dispatched, PassOver, FailUnserved, Assign
<1>3. lock.phase = "assign" /\ View = lock.view /\ View \subseteq Nodes
  BY DEF Dispatched, PassOver, FailUnserved, Assign, Turn, View, Dispatching, SchedulerInv, TypeOK
<1>4. View' \subseteq View /\ (View' # {} => lock'.holder = lock.holder)
      /\ (lock'.holder = Nobody => lock'.phase = "block")
  <2>1. CASE Dispatched(x)
    BY <2>1 DEF Dispatched, View, Dispatching, Free
  <2>2. ASSUME NEW n \in Nodes, PassOver(x, n) \/ FailUnserved(x, n) \/ Assign(x, n)
        PROVE  /\ lock'.holder = lock.holder /\ lock.holder # Nobody
               /\ lock'.phase \in {"block", "assign", "enqueue"} /\ lock'.view \subseteq lock.view
    <3>1. lock.holder = x /\ x # Nobody /\ lock \in Lock
      BY <2>2, TaskNames DEF PassOver, FailUnserved, Assign, Turn, SchedulerInv, TypeOK, Lock
    <3>2. CASE PassOver(x, n)
      BY <1>3, <3>1, <3>2 DEF PassOver, Lock
    <3>3. CASE FailUnserved(x, n)
      BY <3>1, <3>3 DEF FailUnserved, Lock
    <3>4. CASE Assign(x, n)
      BY <3>1, <3>4 DEF Assign, Lock
    <3>5. QED
      BY <2>2, <3>2, <3>3, <3>4
  <2>3. QED
    BY <1>3, <2>1, <2>2 DEF View
<1>5. \A m \in Nodes : /\ node'[m].status = "done" => node[m].status = "done"
                       /\ node[m].status = "done" => node'[m].status = "done" \/ m \in View
  <2>1. CASE Dispatched(x)
    BY <2>1 DEF Dispatched
  <2>2. ASSUME NEW n \in Nodes, PassOver(x, n) \/ FailUnserved(x, n) \/ Assign(x, n)
        PROVE  \A m \in Nodes :
                 /\ node'[m].status = "done" => node[m].status = "done"
                 /\ node[m].status = "done" => node'[m].status = "done" \/ m \in View
    <3>1. n \in View
      BY <1>3, <2>2 DEF PassOver, FailUnserved, Assign, Turn
    <3>2. CASE PassOver(x, n)
      BY <3>2 DEF PassOver
    <3>3. CASE FailUnserved(x, n)
      BY <3>1, <3>3 DEF FailUnserved, Write, SchedulerInv, TypeOK
    <3>4. CASE Assign(x, n)
      <4>1. PICK a : node' = [node EXCEPT ![n].agent = a]
        BY <3>4 DEF Assign
      <4>2. QED
        BY <4>1 DEF SchedulerInv, TypeOK
    <3>5. QED
      BY <2>2, <3>2, <3>3, <3>4
  <2>3. QED
    BY <2>1, <2>2
<1>6. Quiet
  BY <1>2, <1>4, <1>5 DEF Quiet, Alive, StatusOf, Relies, Merging
<1>7. Locked' /\ RunsReach'
  BY <1>2, <1>4 DEF SchedulerInv, Locked, RunsReach
<1>8. OpenAtWork'
  <2>1. \A n \in Nodes : pc'[n] \in {"stage", "working", "raised", "insert"}
                           => pc[n] \in {"stage", "working", "raised", "insert"}
    <3>1. pc' = pc \/ Go(x, "ended")
      BY DEF Dispatched, PassOver, FailUnserved, Assign
    <3>2. QED
      BY <3>1, TaskNames DEF Go, SchedulerInv, TypeOK
  <2>2. QED
    BY <1>2, <1>5, <2>1 DEF SchedulerInv, OpenAtWork, Alive, StatusOf
<1>9. QED
  BY <1>1, <1>6, <1>7, <1>8, QuietKeeps DEF SchedulerInv

\* A node of the view gets its job.
LEMMA EnqueueNodeKeeps ==
  ASSUME SchedulerInv, NEW x \in Tasks, NEW n \in Nodes, EnqueueNode(x, n)
  PROVE  SchedulerInv'
<1>1. TypeOK'
  BY DispatchTypes DEF SchedulerInv, Dispatch
<1>2. /\ UNCHANGED <<run, node, merge, pc>> /\ n \in View /\ View' \subseteq View
      /\ lock'.holder = lock.holder /\ lock.holder # Nobody
  BY TaskNames DEF EnqueueNode, View, Dispatching, SchedulerInv, TypeOK
<1>3. \A m \in Nodes : Relies(m)' => Relies(m)
  BY <1>2 DEF Relies, EnqueueNode, Enqueue, SchedulerInv, TypeOK
<1>4. Quiet /\ Locked' /\ RunsReach'
  BY <1>2, <1>3
  DEF SchedulerInv, Quiet, Alive, StatusOf, Merging, Locked, RunsReach
<1>5. OpenAtWork'
  BY <1>2 DEF SchedulerInv, OpenAtWork, Alive, StatusOf
<1>6. QED
  BY <1>1, <1>4, <1>5, QuietKeeps DEF SchedulerInv

LEMMA DispatchKeeps ==
  ASSUME SchedulerInv, NEW x \in Tasks, Dispatch(x)
  PROVE  SchedulerInv'
  BY BlockKeeps, QueueMergeKeeps, FailClosedKeeps, LookKeeps, TurnKeeps, EnqueueNodeKeeps
  DEF Dispatch

-----------------------------------------------------------------------------
(* The handler of a node, and of a run.                                    *)

\* Its steps write no node but its own, which is not done while it works on it.
LEMMA RunKeeps ==
  ASSUME SchedulerInv, NEW x \in Tasks,
         StartRun(x) \/ Run(x) \/ (x \in Nodes /\ CallRaises(x))
  PROVE  SchedulerInv'
<1>1. TypeOK'
  BY RunTypes, WorldTypes DEF SchedulerInv, World
<1>2. UNCHANGED <<run, merge, lock>>
  BY DEF StartRun, Run, CallRaises, StartNode, Stage, Finish, Reject, Retry, GiveUp, InsertRetry
<1>3. \A n \in Nodes : job'[n] # "none" => job[n] # "none"
  <2>1. CASE InsertRetry(x)
    BY <2>1 DEF InsertRetry, Enqueue, SchedulerInv, TypeOK
  <2>2. CASE ~InsertRetry(x)
    BY <2>2 DEF StartRun, Run, CallRaises, StartNode, Stage, Finish, Reject, Retry, GiveUp
  <2>3. QED
    BY <2>1, <2>2
<1>4. \A n \in Nodes : n # x => node'[n] = node[n] /\ pc'[n] = pc[n]
  <2>1. \E label : Go(x, label)
    <3>1. CASE StartRun(x) \/ StartNode(x)
      BY <3>1 DEF StartRun, StartNode
    <3>2. CASE ~ (StartRun(x) \/ StartNode(x))
      BY <3>2 DEF Run, CallRaises, Stage, Finish, Reject, Retry, GiveUp, InsertRetry
    <3>3. QED
      BY <3>1, <3>2
  <2>2. node' = node \/ \E row : node' = [node EXCEPT ![x] = row]
    <3>1. CASE Stage(x)
      BY <3>1 DEF Stage
    <3>2. CASE Finish(x) \/ Reject(x) \/ Retry(x) \/ GiveUp(x)
      BY <3>2 DEF Finish, Reject, Retry, GiveUp, Write
    <3>3. CASE StartRun(x) \/ StartNode(x) \/ InsertRetry(x) \/ CallRaises(x)
      BY <3>3 DEF StartRun, StartNode, InsertRetry, CallRaises
    <3>4. QED
      BY <3>1, <3>2, <3>3 DEF Run
  <2>3. QED
    BY <2>1, <2>2 DEF Go, SchedulerInv, TypeOK
<1>5. ASSUME x \in Nodes, Alive(RunOf[x])
      PROVE  /\ node[x].status = "done" => node'[x].status = "done"
             /\ pc'[x] \in {"stage", "working", "raised", "insert"} => node'[x].status # "done"
  <2> USE DEF SchedulerInv, TypeOK, Go
  <2>1. x \notin Runs
    BY <1>5, TaskNames
  <2>2. pc[x] \in {"stage", "working", "raised", "insert"} => node[x].status # "done"
    BY <1>5 DEF OpenAtWork
  <2>3. CASE StartNode(x)
    BY <1>5, <2>2, <2>3 DEF StartNode
  <2>4. CASE Stage(x)
    BY <1>5, <2>2, <2>4 DEF Stage
  <2>5. CASE Finish(x)
    BY <1>5, <2>2, <2>5 DEF Finish, Write
  <2>6. CASE Reject(x) \/ Retry(x) \/ GiveUp(x)
    BY <1>5, <2>2, <2>6 DEF Reject, Retry, GiveUp, Write
  <2>7. CASE InsertRetry(x)
    BY <1>5, <2>2, <2>7 DEF InsertRetry
  <2>8. CASE CallRaises(x)
    BY <1>5, <2>2, <2>8 DEF CallRaises
  <2>9. QED
    BY <1>5, <2>1, <2>3, <2>4, <2>5, <2>6, <2>7, <2>8 DEF StartRun, Run
<1>6. Quiet /\ Locked' /\ RunsReach'
  BY <1>2, <1>3, <1>4, <1>5
  DEF SchedulerInv, Quiet, Alive, StatusOf, Relies, View, Dispatching, Merging, Locked, RunsReach
<1>7. OpenAtWork'
  BY <1>2, <1>4, <1>5 DEF SchedulerInv, OpenAtWork, Alive, StatusOf
<1>8. QED
  BY <1>1, <1>6, <1>7, QuietKeeps DEF SchedulerInv

-----------------------------------------------------------------------------
(* Outages, merges, requests and restarts.                                 *)

LEMMA PauseKeeps ==
  ASSUME SchedulerInv, NEW x \in Tasks, Pause(x)
  PROVE  SchedulerInv'
<1> USE DEF SchedulerInv
<1>1. TypeOK'
  BY WorldTypes DEF World
<1>2. UNCHANGED <<merge, lock>>
  BY DEF Pause
<1>3. \A y \in Tasks : job'[y] # "none" => job[y] # "none"
  BY DEF Pause, TypeOK
<1>4. \A r \in Runs : \/ run'[r] = run[r]
                      \/ /\ run[r].status \notin {"waiting_for_ollama", "completed", "cancelled"}
                         /\ run'[r].status = "waiting_for_ollama"
                         /\ run'[r].resume = run[r].status
  <2> DEFINE q == RunOfTask(x)
  <2>1. \/ run' = run
        \/ /\ StatusOf(q) # "waiting_for_ollama"
           /\ ValidTransition(StatusOf(q), "waiting_for_ollama")
           /\ run' = [run EXCEPT ![q] = [status |-> "waiting_for_ollama",
                                        resume |-> StatusOf(q)]]
    BY DEF Pause
  <2>2. QED
    BY <2>1, TaskNames, StatusTable DEF StatusOf, TypeOK
<1>5. RunsReach' /\ \A r \in Runs : Alive(r)' <=> Alive(r)
  BY <1>4 DEF RunsReach, Alive, StatusOf
<1>6. \A r \in Runs : Merging(r)' => Merging(r)
  BY <1>2, <1>4, <1>5 DEF Merging, StatusOf
<1>7. \A n \in Nodes : n # x => /\ node'[n].status = "done" <=> node[n].status = "done"
                                /\ pc'[n] = pc[n]
  <2>1. TAKE n \in Nodes
  <2>2. HAVE n # x
  <2>3. \/ node'[n] = node[n]
        \/ node[n].status = "pending" /\ node'[n].status = "waiting_ollama"
    <3>1. \/ node'[n] = node[n]
          \/ node[n].status = "pending"
             /\ node'[n] = [node[n] EXCEPT !.status = "waiting_ollama"]
      BY <2>2 DEF Pause
    <3>2. QED
      BY <3>1 DEF TypeOK
  <2>4. pc'[n] = pc[n]
    BY <2>2, TaskNames DEF Pause, Go, TypeOK
  <2>5. QED
    BY <2>3, <2>4
<1>8. x \in Nodes => /\ Alive(RunOf[x]) => node[x].status # "done"
                     /\ pc'[x] = "idle"
  <2>1. SUFFICES ASSUME x \in Nodes
                 PROVE  /\ Alive(RunOf[x]) => node[x].status # "done"
                        /\ pc'[x] = "idle"
    OBVIOUS
  <2>2. pc[x] = "working"
    BY <2>1, TaskNames DEF Pause
  <2>3. pc'[x] = "idle"
    BY DEF Pause, Go, TypeOK
  <2>4. QED
    BY <2>1, <2>2, <2>3 DEF OpenAtWork
<1>9. Quiet
  BY <1>2, <1>3, <1>5, <1>6, <1>7, <1>8, TaskNames DEF Quiet, Relies, View, Dispatching
<1>10. Locked'
  BY <1>2 DEF Locked, View, Dispatching
<1>11. OpenAtWork'
  BY <1>5, <1>7, <1>8, TaskNames DEF OpenAtWork
<1>12. QED
  BY <1>1, <1>5, <1>9, <1>10, <1>11, QuietKeeps

LEMMA RecoverKeeps ==
  ASSUME SchedulerInv, Recover
  PROVE  SchedulerInv'
<1> USE DEF SchedulerInv
<1>1. TypeOK'
  BY WorldTypes
<1>2. UNCHANGED <<merge, pc, lock>>
  BY DEF Recover
<1>3. \A y \in Tasks : job'[y] # "none" => job[y] # "none"
  BY DEF Recover, TypeOK
<1>4. \A r \in Runs : \/ run'[r] = run[r]
                      \/ /\ run[r].status \notin {"completed", "cancelled"}
                         /\ run'[r].status = run[r].resume /\ run'[r].resume = "researching"
  BY StatusTable DEF Recover, RunsReach, StatusOf
<1>5. RunsReach' /\ \A r \in Runs : (Alive(r)' <=> Alive(r)) /\ (Merging(r)' => Merging(r))
  BY <1>2, <1>4 DEF RunsReach, Alive, StatusOf, Merging
<1>6. \A n \in Nodes : node'[n].status = "done" <=> node[n].status = "done"
  BY DEF Recover, TypeOK
<1>7. Quiet /\ Locked'
  BY <1>2, <1>3, <1>5, <1>6, TaskNames DEF Quiet, Relies, View, Dispatching, Locked
<1>8. OpenAtWork'
  BY <1>2, <1>5, <1>6, TaskNames DEF OpenAtWork
<1>9. QED
  BY <1>1, <1>5, <1>7, <1>8, QuietKeeps

\* A merge completes a run only from implementing or a pause.
LEMMA RequestKeeps ==
  ASSUME SchedulerInv, NEW r \in Runs, Merge(r) \/ CancelRun(r) \/ ResumeRun(r)
  PROVE  SchedulerInv'
<1> USE DEF SchedulerInv
<1>1. TypeOK'
  BY WorldTypes DEF World
<1>2. UNCHANGED <<node, pc, lock>> /\ merge' \subseteq merge
  BY DEF Merge, CancelRun, ResumeRun
<1>3. \A n \in Nodes : job'[n] # "none" => job[n] # "none"
  BY TaskNames DEF Merge, CancelRun, ResumeRun, Enqueue, TypeOK
<1>4. /\ \A q \in Runs : q # r => run'[q] = run[q]
      /\ \/ run' = run
         \/ /\ run'[r].resume = run[r].resume
            /\ \/ run'[r].status = "cancelled"
               \/ /\ run'[r].status = "implementing" /\ Alive(r)
               \/ /\ run'[r].status \in {"completed", "failed"} /\ r \in merge /\ Alive(r)
  BY StatusTable DEF Merge, CancelRun, ResumeRun, TypeOK, StatusOf, Alive
<1>5. RunsReach'
  BY <1>4 DEF RunsReach
<1>6. \A q \in Runs : (Alive(q)' => Alive(q)) /\ (Merging(q)' => Merging(q))
  BY <1>2, <1>4 DEF Alive, StatusOf, Merging
<1>7. Quiet /\ Locked'
  BY <1>2, <1>3, <1>6 DEF Quiet, Relies, View, Dispatching, Locked
<1>8. OpenAtWork'
  BY <1>2, <1>6, TaskNames DEF OpenAtWork
<1>9. QED
  BY <1>1, <1>5, <1>7, <1>8, QuietKeeps

LEMMA RestartKeeps ==
  ASSUME SchedulerInv, Restart
  PROVE  SchedulerInv'
<1> USE DEF SchedulerInv
<1>1. TypeOK'
  BY WorldTypes DEF World
<1>2. UNCHANGED <<run, merge>> /\ View' = {} /\ Locked'
  BY DEF Restart, View, Dispatching, Free, Locked
<1>3. \A n \in Nodes : /\ job'[n] # "none" => job[n] # "none"
                       /\ node'[n].status = "done" <=> node[n].status = "done"
                       /\ pc'[n] = "idle"
  BY TaskNames DEF Restart, TypeOK
<1>4. Quiet /\ RunsReach'
  BY <1>2, <1>3 DEF Quiet, Alive, StatusOf, Relies, Merging, RunsReach
<1>5. OpenAtWork'
  BY <1>3 DEF OpenAtWork
<1>6. QED
  BY <1>1, <1>2, <1>4, <1>5, QuietKeeps

LEMMA ToggleKeeps ==
  ASSUME SchedulerInv, NEW a \in Agents, ToggleAgent(a)
  PROVE  SchedulerInv'
<1>1. TypeOK'
  BY WorldTypes DEF SchedulerInv, World
<1>2. UNCHANGED <<run, node, job, merge, pc, lock>>
  BY DEF ToggleAgent
<1>3. OpenAtWork'
  BY <1>2 DEF SchedulerInv, OpenAtWork, Alive, StatusOf
<1>4. QED
  BY <1>1, <1>2, <1>3, UnchangedIsQuiet, QuietKeeps DEF SchedulerInv

-----------------------------------------------------------------------------
(* The theorems.                                                           *)

\* SchedulerInv is inductive.
THEOREM SchedulerInvariant == Spec => []SchedulerInv
<1>1. Init => SchedulerInv
  BY SchedulerInit
<1>2. SchedulerInv /\ [Next]_vars => SchedulerInv'
  <2>1. SUFFICES ASSUME SchedulerInv, [Next]_vars PROVE SchedulerInv'
    OBVIOUS
  <2>2. ASSUME NEW x \in Tasks, Claim(x) \/ Thread(x) PROVE SchedulerInv'
    BY <2>1, <2>2, QueueKeeps, DispatchKeeps, RunKeeps DEF Thread
  <2>3. CASE World
    BY <2>1, <2>3, RunKeeps, PauseKeeps, RequestKeeps, ToggleKeeps, RestartKeeps, TaskNames
    DEF World
  <2>4. CASE UNCHANGED vars
    <3>1. UNCHANGED <<run, node, job, merge, pc, lock>>
      BY <2>4 DEF vars
    <3>2. TypeOK' /\ OpenAtWork'
      BY <2>1, <2>4 DEF vars, SchedulerInv, TypeOK, OpenAtWork, Alive, StatusOf
    <3>3. QED
      BY <2>1, <3>1, <3>2, UnchangedIsQuiet, QuietKeeps DEF SchedulerInv
  <2>5. QED
    BY <2>1, <2>2, <2>3, <2>4, RecoverKeeps, RequestKeeps DEF Next
<1>3. QED
  BY <1>1, <1>2, PTL DEF Spec

\* A node is worked on only when all its dependencies are done: it has a job
\* then, and whoever has one is grounded.
THEOREM DependenciesComeFirst == Spec => []DependenciesFirst
<1>1. SchedulerInv => DependenciesFirst
  <2>1. SUFFICES ASSUME SchedulerInv, NEW n \in Nodes, pc[n] = "working", Alive(RunOf[n])
                 PROVE  \A d \in Deps[n] : node[d].status = "done"
    BY DEF DependenciesFirst, Alive
  <2>2. job[n] = "running"
    BY <2>1, TaskNames DEF SchedulerInv, TypeOK
  <2>3. QED
    BY <2>1, <2>2 DEF SchedulerInv, Grounded, Relies
<1>2. QED
  BY <1>1, SchedulerInvariant, PTL

\* The graph of a queued merge is finished, and stays so until the merge.
THEOREM MergesAreWhole == Spec => []MergedWhole
<1>1. SchedulerInv => MergedWhole
  BY DEF SchedulerInv, TypeOK, Whole, Merging, Alive, MergedWhole
<1>2. QED
  BY <1>1, SchedulerInvariant, PTL

-----------------------------------------------------------------------------
(***************************************************************************)
(* The second part: which agent works on what, what a blocked node waits   *)
(* for, and who moves a graph on.  It is about the time up to the first    *)
(* restart.                                                                *)
(*                                                                         *)
(* What _transitive_deps computes.  Its equation has a solution, the       *)
(* closure of Deps from above, whatever the graph; on a graph without      *)
(* cycles the equation is enough to argue with, from a least               *)
(* counterexample.                                                         *)
(***************************************************************************)

\* The sets that hold the dependencies of their members, and those of n.
ClosedOver(n) ==
  { S \in SUBSET Nodes : Deps[n] \subseteq S /\ \A e \in S : Deps[e] \subseteq S }
Behind(n) == { d \in Nodes : \A S \in ClosedOver(n) : d \in S }

LEMMA BehindHoldsDeps ==
  ASSUME NEW n \in Nodes
  PROVE  Behind(n) = Deps[n] \cup UNION { Behind(d) : d \in Deps[n] }
<1> DEFINE T == Deps[n] \cup UNION { Behind(d) : d \in Deps[n] }
<1>1. Deps[n] \subseteq Nodes /\ \A e \in Nodes : Deps[e] \subseteq Nodes
  BY SchedulerAssumption
<1>2. \A e \in Nodes : Deps[e] \subseteq Behind(e) /\ Behind(e) \subseteq Nodes
  BY <1>1 DEF Behind, ClosedOver
<1>3. T \subseteq Behind(n)
  <2>1. SUFFICES ASSUME NEW d \in Deps[n], NEW e \in Behind(d), NEW S \in ClosedOver(n)
                 PROVE  e \in S
    BY <1>1, <1>2 DEF Behind
  <2>2. S \in ClosedOver(d)
    BY DEF ClosedOver
  <2>3. QED
    BY <2>2 DEF Behind
<1>4. Behind(n) \subseteq T
  <2>1. T \subseteq Nodes
    BY <1>1, <1>2
  <2>2. ASSUME NEW e \in T PROVE Deps[e] \subseteq T
    <3>1. CASE e \in Deps[n]
      BY <1>1, <1>2, <3>1
    <3>2. ASSUME NEW d \in Deps[n], e \in Behind(d) PROVE Deps[e] \subseteq Behind(d)
      BY <1>1, <3>2 DEF Behind, ClosedOver
    <3>3. QED
      BY <2>2, <3>1, <3>2
  <2>3. T \in ClosedOver(n)
    BY <2>1, <2>2 DEF ClosedOver
  <2>4. QED
    BY <2>3 DEF Behind
<1>5. QED
  BY <1>3, <1>4

LEMMA TransitiveDepsUnfold ==
  ASSUME NEW n \in Nodes
  PROVE  TransitiveDeps[n] = Deps[n] \cup UNION { TransitiveDeps[d] : d \in Deps[n] }
<1> DEFINE Equation(f) ==
      f = [m \in Nodes |-> Deps[m] \cup UNION { f[d] : d \in Deps[m] }]
<1>1. Equation([m \in Nodes |-> Behind(m)])
  <2> DEFINE f == [m \in Nodes |-> Behind(m)]
  <2>1. ASSUME NEW m \in Nodes
        PROVE  Behind(m) = Deps[m] \cup UNION { f[d] : d \in Deps[m] }
    <3>1. \A d \in Deps[m] : f[d] = Behind(d)
      BY TaskNames
    <3>2. QED
      BY <3>1, BehindHoldsDeps
  <2>2. QED
    BY <2>1
<1>2. \E f : Equation(f)
  BY <1>1
<1>3. TransitiveDeps = CHOOSE f : Equation(f)
  BY DEF TransitiveDeps
<1>4. Equation(TransitiveDeps)
  BY <1>2, <1>3
<1>5. QED
  BY <1>4

\* Induction along the dependencies.
LEMMA DepsInduction ==
  ASSUME NEW S \in SUBSET Nodes, \A n \in Nodes : Deps[n] \subseteq S => n \in S
  PROVE  S = Nodes
<1>1. SUFFICES ASSUME Nodes \ S # {} PROVE FALSE
  OBVIOUS
<1>2. PICK n \in Nodes \ S : Deps[n] \cap (Nodes \ S) = {}
  BY <1>1, SchedulerAssumption
<1>3. Deps[n] \subseteq S
  BY <1>2, TaskNames
<1>4. QED
  BY <1>2, <1>3

\* They stay within the run ...
LEMMA TransitiveDepsOfRun ==
  ASSUME NEW n \in Nodes
  PROVE  \A d \in TransitiveDeps[n] : d \in Nodes /\ RunOf[d] = RunOf[n]
<1> DEFINE S == { m \in Nodes : \A d \in TransitiveDeps[m] : d \in Nodes /\ RunOf[d] = RunOf[m] }
<1>1. ASSUME NEW m \in Nodes, Deps[m] \subseteq S PROVE m \in S
  BY <1>1, TransitiveDepsUnfold, TaskNames
<1>2. S = Nodes
  <2> HIDE DEF S
  <2>1. S \subseteq Nodes
    BY DEF S
  <2>2. QED
    BY <1>1, <2>1, DepsInduction
<1>3. QED
  BY <1>2

\* ... are transitive ...
LEMMA TransitiveDepsTransitive ==
  ASSUME NEW n \in Nodes, NEW d \in TransitiveDeps[n]
  PROVE  TransitiveDeps[d] \subseteq TransitiveDeps[n]
<1> DEFINE S == { m \in Nodes : \A e \in TransitiveDeps[m] :
                                  TransitiveDeps[e] \subseteq TransitiveDeps[m] }
<1>1. ASSUME NEW m \in Nodes, Deps[m] \subseteq S PROVE m \in S
  <2>1. SUFFICES ASSUME NEW e \in TransitiveDeps[m]
                 PROVE  TransitiveDeps[e] \subseteq TransitiveDeps[m]
    OBVIOUS
  <2>2. TransitiveDeps[m] = Deps[m] \cup UNION { TransitiveDeps[c] : c \in Deps[m] }
    BY TransitiveDepsUnfold
  <2>3. CASE e \in Deps[m]
    BY <2>2, <2>3
  <2>4. ASSUME NEW c \in Deps[m], e \in TransitiveDeps[c]
        PROVE  TransitiveDeps[e] \subseteq TransitiveDeps[m]
    BY <1>1, <2>2, <2>4
  <2>5. QED
    BY <2>1, <2>2, <2>3, <2>4
<1>2. S = Nodes
  <2> HIDE DEF S
  <2>1. S \subseteq Nodes
    BY DEF S
  <2>2. QED
    BY <1>1, <2>1, DepsInduction
<1>3. QED
  BY <1>2

\* ... and lie in every set that holds the dependencies of its members and of n.
LEMMA TransitiveDepsWithin ==
  ASSUME NEW D \in SUBSET Nodes, \A m \in D : Deps[m] \subseteq D,
         NEW n \in Nodes, Deps[n] \subseteq D
  PROVE  TransitiveDeps[n] \subseteq D
<1> DEFINE S == { m \in Nodes : m \in D => TransitiveDeps[m] \subseteq D }
<1>1. ASSUME NEW m \in Nodes, Deps[m] \subseteq S PROVE m \in S
  <2>1. SUFFICES ASSUME m \in D PROVE TransitiveDeps[m] \subseteq D
    OBVIOUS
  <2>2. \A c \in Deps[m] : TransitiveDeps[c] \subseteq D
    BY <1>1, <2>1
  <2>3. QED
    BY <2>1, <2>2, TransitiveDepsUnfold
<1>2. S = Nodes
  <2> HIDE DEF S
  <2>1. S \subseteq Nodes
    BY DEF S
  <2>2. QED
    BY <1>1, <2>1, DepsInduction
<1>3. \A c \in Deps[n] : TransitiveDeps[c] \subseteq D
  BY <1>2
<1>4. QED
  BY <1>3, TransitiveDepsUnfold

-----------------------------------------------------------------------------
(* What a step that is not one of a dispatch does to a node: its handler's  *)
(* steps and the queue's, an outage and its end, the end of its run.        *)

Rests(n) == job'[n] = job[n] /\ pc'[n] = pc[n] /\ mine'[n] = mine[n]

IsClaimed(n) ==
  /\ job[n] = "pending" /\ job'[n] = "running" /\ pc[n] = "idle" /\ pc'[n] = "start"
  /\ node'[n] = node[n] /\ mine'[n] = mine[n]

IsFinalized(n) ==
  /\ pc[n] = "ended" /\ job'[n] = "none" /\ pc'[n] = "idle"
  /\ node'[n] = node[n] /\ mine'[n] = Unread

Begins(n) ==
  /\ pc[n] = "start" /\ job'[n] = job[n] /\ node'[n] = node[n]
  /\ \/ /\ pc'[n] = "ended" /\ StatusOf(RunOf[n]) \in {"cancelled", "failed"}
        /\ mine'[n] = mine[n]
     \/ pc'[n] = "dispatch" /\ node[n].status = "done" /\ mine'[n] = mine[n]
     \/ pc'[n] = "stage" /\ mine'[n].agent = node[n].agent

IsStaged(n) ==
  /\ pc[n] = "stage" /\ pc'[n] = "working" /\ job'[n] = job[n] /\ Alive(RunOf[n])
  /\ node'[n].status = "running"
  /\ node'[n].agent \in Usable(n) /\ mine'[n].agent = node'[n].agent

Raises(n) ==
  /\ pc[n] \in {"stage", "working"} /\ pc'[n] = "raised"
  /\ job'[n] = job[n] /\ node'[n] = node[n] /\ mine'[n] = mine[n]

Writes(n) ==
  /\ job'[n] = job[n] /\ mine'[n] = mine[n] /\ node'[n].agent = node[n].agent
  /\ \/ pc[n] = "working" /\ pc'[n] = "chain" /\ node'[n].status = "done"
     \/ pc[n] = "working" /\ pc'[n] = "raised" /\ node'[n].status = "failed"
     \/ pc[n] = "raised" /\ pc'[n] = "insert" /\ node'[n].status = "pending" /\ TriesLeft(n)
     \/ pc[n] = "raised" /\ pc'[n] = "dispatch" /\ node'[n].status = "failed"

IsRefused(n) ==
  /\ pc[n] = "insert" /\ pc'[n] = "ended"
  /\ job'[n] = job[n] /\ node'[n] = node[n] /\ mine'[n] = mine[n]

IsParked(n) ==
  /\ job'[n] = "waiting" /\ node'[n].agent = node[n].agent
  /\ \/ /\ pc[n] = "working" /\ pc'[n] = "idle" /\ mine'[n] = Unread
        /\ node'[n].status = "waiting_ollama"
     \/ /\ job[n] \in {"pending", "waiting"} /\ pc'[n] = pc[n] /\ mine'[n] = mine[n]
        /\ \/ node[n].status = "pending" /\ node'[n].status = "waiting_ollama"
           \/ node[n].status # "pending" /\ node'[n].status = node[n].status

IsReleased(n) ==
  /\ job'[n] = IF job[n] = "waiting" THEN "pending" ELSE job[n]
  /\ node'[n].status = IF node[n].status = "waiting_ollama" THEN "pending" ELSE node[n].status
  /\ node'[n].agent = node[n].agent /\ pc'[n] = pc[n] /\ mine'[n] = mine[n]

IsDropped(n) ==
  /\ ~Alive(RunOf[n])' /\ node'[n] = node[n] /\ pc'[n] = pc[n] /\ mine'[n] = mine[n]
  /\ job'[n] = IF job[n] = "pending" THEN "none" ELSE job[n]

Moves(n) ==
  \/ Rests(n) /\ node'[n] = node[n]
  \/ IsClaimed(n) \/ IsFinalized(n) \/ Begins(n) \/ IsStaged(n) \/ Raises(n) \/ Writes(n)
  \/ IsRefused(n) \/ IsParked(n) \/ IsReleased(n) \/ IsDropped(n)

LEMMA QueueMoves ==
  ASSUME TypeOK, NEW x \in Tasks, Claim(x) \/ Finalize(x), NEW n \in Nodes
  PROVE  Moves(n)
<1>1. n \in Tasks
  BY TaskNames
<1>2. CASE Claim(x)
  BY <1>1, <1>2 DEF TypeOK, Claim, Go, Moves, Rests, IsClaimed
<1>3. CASE Finalize(x)
  BY <1>1, <1>3 DEF TypeOK, Finalize, Go, Moves, Rests, IsFinalized
<1>4. QED
  BY <1>2, <1>3

\* A handler's step moves its own node, as its action says.
LEMMA HandlerMoves ==
  ASSUME TypeOK, NEW x \in Tasks, StartRun(x) \/ Run(x) \/ (x \in Nodes /\ CallRaises(x)),
         NEW n \in Nodes
  PROVE  Moves(n)
<1> USE DEF TypeOK, Go
<1>1. n \in Tasks /\ n \notin Runs
  BY TaskNames
<1>2. CASE StartRun(x)
  BY <1>1, <1>2 DEF StartRun, Moves, Rests
<1>3. CASE StartNode(x)
  <2>1. CASE n # x
    BY <1>1, <1>3, <2>1 DEF StartNode, Moves, Rests
  <2>2. CASE n = x
    <3>1. Begins(n)
      BY <1>1, <1>3, <2>2 DEF StartNode, Begins
    <3>2. QED
      BY <3>1 DEF Moves
  <2>3. QED
    BY <2>1, <2>2
<1>4. CASE Stage(x)
  <2>1. CASE n # x
    BY <1>1, <1>4, <2>1 DEF Stage, Moves, Rests
  <2>2. CASE n = x
    <3>1. Raises(n) \/ IsStaged(n)
      BY <1>1, <1>4, <2>2 DEF Stage, Raises, IsStaged, Alive
    <3>2. QED
      BY <3>1 DEF Moves
  <2>3. QED
    BY <2>1, <2>2
<1>5. CASE Finish(x) \/ Reject(x) \/ GiveUp(x) \/ Retry(x)
  <2>1. CASE n # x
    BY <1>1, <1>5, <2>1 DEF Finish, Reject, GiveUp, Retry, Write, Moves, Rests
  <2>2. CASE n = x
    <3>1. Writes(n)
      BY <1>1, <1>5, <2>2 DEF Finish, Reject, GiveUp, Retry, Write, Writes
    <3>2. QED
      BY <3>1 DEF Moves
  <2>3. QED
    BY <2>1, <2>2
<1>6. CASE InsertRetry(x)
  BY <1>1, <1>6 DEF InsertRetry, Enqueue, Moves, Rests, IsRefused
<1>7. CASE x \in Nodes /\ CallRaises(x)
  BY <1>1, <1>7 DEF CallRaises, Moves, Rests, Raises
<1>8. QED
  BY <1>2, <1>3, <1>4, <1>5, <1>6, <1>7 DEF Run

LEMMA OutageMoves ==
  ASSUME TypeOK, Recover \/ \E x \in Tasks : Pause(x), NEW n \in Nodes
  PROVE  Moves(n)
<1>1. n \in Tasks /\ n \notin Runs
  BY TaskNames
<1>2. CASE Recover
  <2>1. IsReleased(n)
    BY <1>1, <1>2 DEF TypeOK, Recover, IsReleased
  <2>2. QED
    BY <2>1 DEF Moves
<1>3. ASSUME NEW x \in Tasks, Pause(x) PROVE Moves(n)
  <2>0. pc' = [pc EXCEPT ![x] = "idle"] /\ n \in DOMAIN pc
    <3>1. pc' = [pc EXCEPT ![x] = "idle"]
      BY <1>3 DEF Pause, Go
    <3>2. DOMAIN pc = Tasks
      BY DEF TypeOK
    <3>3. QED
      BY <1>1, <3>1, <3>2
  <2>1. CASE n = x
    <3>1. pc[n] = "working" /\ pc'[n] = "idle" /\ mine'[n] = Unread /\ job'[n] = "waiting"
      BY <1>1, <1>3, <2>0, <2>1 DEF Pause
    <3>2. node'[n] = [node[n] EXCEPT !.status = "waiting_ollama",
                                     !.attempts = IF @ = 0 THEN 0 ELSE @ - 1]
      BY <1>3, <2>1 DEF Pause
    <3>3. node'[n].status = "waiting_ollama" /\ node'[n].agent = node[n].agent
      BY <3>2 DEF TypeOK
    <3>4. QED
      BY <3>1, <3>3 DEF Moves, IsParked
  <2>2. CASE n # x
    <3>1. pc'[n] = pc[n] /\ mine'[n] = mine[n]
      BY <1>3, <2>0, <2>2 DEF Pause
    <3>2. \/ job'[n] = job[n]
          \/ job[n] = "pending" /\ job'[n] = "waiting"
      BY <1>1, <1>3, <2>2 DEF Pause
    <3>3. node'[n] = IF RunOf[n] = RunOfTask(x) /\ node[n].status = "pending" /\ job'[n] = "waiting"
                       THEN [node[n] EXCEPT !.status = "waiting_ollama"] ELSE node[n]
      BY <1>3, <2>2 DEF Pause
    <3>4. CASE node'[n] = node[n] /\ job'[n] = job[n]
      BY <3>1, <3>4 DEF Moves, Rests
    <3>5. CASE job'[n] = "waiting" /\ job[n] \in {"pending", "waiting"}
      <4>1. \/ node'[n] = node[n]
            \/ node[n].status = "pending" /\ node'[n] = [node[n] EXCEPT !.status = "waiting_ollama"]
        BY <3>3
      <4>2. job'[n] # job[n] => RunOf[n] = RunOfTask(x)
        BY <1>1, <1>3, <2>2, TaskNames DEF Pause
      <4>3. \/ node'[n] = node[n] /\ job'[n] = job[n]
            \/ node'[n] = node[n] /\ node[n].status # "pending"
            \/ node[n].status = "pending" /\ node'[n].status = "waiting_ollama"
               /\ node'[n].agent = node[n].agent
        BY <3>3, <3>5, <4>1, <4>2 DEF TypeOK
      <4>4. QED
        BY <3>1, <3>4, <3>5, <4>3 DEF Moves, IsParked
    <3>6. QED
      BY <3>2, <3>3, <3>4, <3>5
  <2>3. QED
    BY <2>1, <2>2
<1>4. QED
  BY <1>2, <1>3

-----------------------------------------------------------------------------
(* The counts go up; a run that is cancelled stays so.                     *)

Counts == [cancels : Nat, resumes : Nat, toggles : Nat, errors : Nat, outages : Nat,
           restarts : Nat]

\* What is said of a time before the first restart, resume or switch of an agent
\* was so at the step's start.
Ups ==
  /\ count'.restarts = 0 => count.restarts = 0 /\ ~Restart
  /\ count'.resumes = 0 => count.resumes = 0 /\ \A r \in Runs : ~ResumeRun(r)
  /\ count'.toggles = 0 => count.toggles = 0 /\ \A a \in Agents : ~ToggleAgent(a)

LEMMA CountsGoUp ==
  ASSUME count \in Counts, [Next]_vars
  PROVE  count' \in Counts /\ Ups
<1>1. CASE \/ UNCHANGED vars \/ Recover \/ \E x \in Tasks : Claim(x) \/ Thread(x)
           \/ \E r \in Runs : Merge(r)
  <2>1. UNCHANGED count
    <3>1. ASSUME NEW x \in Tasks, Claim(x) \/ Thread(x) PROVE UNCHANGED count
      <4>1. CASE Claim(x) \/ StartRun(x) \/ Finalize(x)
        BY <4>1 DEF Claim, StartRun, Finalize
      <4>2. CASE Run(x)
        BY <4>2 DEF Run, StartNode, Stage, Finish, Reject, Retry, GiveUp, InsertRetry
      <4>3. CASE Dispatch(x)
        BY <4>3 DEF Dispatch, Block, QueueMerge, FailClosed, Look, Dispatched, PassOver,
                    FailUnserved, Assign, EnqueueNode
      <4>4. QED
        BY <3>1, <4>1, <4>2, <4>3 DEF Thread
    <3>2. QED
      BY <1>1, <3>1 DEF vars, Recover, Merge
  <2>2. \A what \in {"restarts", "resumes", "toggles"} : \A max : ~Count(what, max)
    BY <2>1 DEF Count, Counts
  <2>3. QED
    BY <2>1, <2>2 DEF Ups, Restart, ResumeRun, ToggleAgent
<1>2. CASE World
  <2>1. \/ /\ \E n \in Nodes : CallRaises(n)
           /\ Count("errors", MaxErrors)
        \/ /\ \E x \in Tasks : Pause(x)
           /\ Count("outages", MaxOutages)
        \/ /\ \E r \in Runs : CancelRun(r)
           /\ Count("cancels", MaxCancels)
        \/ Count("resumes", MaxResumes)
        \/ Count("toggles", MaxToggles)
        \/ Count("restarts", MaxRestarts)
    BY <1>2 DEF World, CallRaises, Pause, CancelRun, ResumeRun, ToggleAgent, Restart
  <2>2. ASSUME NEW what \in {"cancels", "resumes", "toggles", "errors", "outages", "restarts"},
               count' = [count EXCEPT ![what] = @ + 1]
        PROVE  /\ count' \in Counts
               /\ \A other \in {"restarts", "resumes", "toggles"} :
                    IF other = what THEN count'[other] # 0 ELSE count'[other] = count[other]
    BY <2>2 DEF Counts
  <2>3. PICK what \in {"cancels", "resumes", "toggles", "errors", "outages", "restarts"} :
          count' = [count EXCEPT ![what] = @ + 1]
    BY <2>1 DEF Count
  <2>4. count' \in Counts
    BY <2>2, <2>3
  <2>5. \A other \in {"restarts", "resumes", "toggles"} :
          IF other = what THEN count'[other] # 0 ELSE count'[other] = count[other]
    BY <2>2, <2>3
  <2>6. ASSUME NEW other \in {"restarts", "resumes", "toggles"}, NEW max, Count(other, max)
        PROVE  count'[other] # 0
    BY <2>6 DEF Count, Counts
  <2>7. \A other \in {"restarts", "resumes", "toggles"} :
          count'[other] = 0 => count[other] = 0 /\ \A max : ~Count(other, max)
    BY <2>5, <2>6
  <2>8. QED
    BY <2>4, <2>7 DEF Ups, Restart, ResumeRun, ToggleAgent
<1>3. QED
  BY <1>1, <1>2 DEF Next

LEMMA CancelledStays ==
  ASSUME TypeOK, [Next]_vars, NEW r \in Runs, Alive(r)'
  PROVE  Alive(r)
<1>1. SUFFICES ASSUME run'[r].status # run[r].status PROVE run[r].status # "cancelled"
  BY DEF Alive, StatusOf
<1>2. ASSUME NEW x \in Tasks, Claim(x) \/ Thread(x), ~FailClosed(x) PROVE UNCHANGED run
  <2>1. CASE Claim(x) \/ StartRun(x) \/ Finalize(x)
    BY <2>1 DEF Claim, StartRun, Finalize
  <2>2. CASE Run(x)
    BY <2>2 DEF Run, StartNode, Stage, Finish, Reject, Retry, GiveUp, InsertRetry
  <2>3. CASE Dispatch(x)
    BY <1>2, <2>3 DEF Dispatch, Block, QueueMerge, Look, Dispatched, PassOver,
                      FailUnserved, Assign, EnqueueNode
  <2>4. QED
    BY <1>2, <2>1, <2>2, <2>3 DEF Thread
<1>3. ASSUME NEW x \in Tasks, FailClosed(x) PROVE run[r].status # "cancelled"
  <2>1. \/ run' = run
        \/ /\ ValidTransition(StatusOf(RunOfTask(x)), "failed")
           /\ run' = [run EXCEPT ![RunOfTask(x)].status = "failed"]
    BY <1>3 DEF FailClosed
  <2>2. r = RunOfTask(x) /\ ValidTransition(run[r].status, "failed")
    BY <1>1, <2>1 DEF StatusOf, TypeOK
  <2>3. QED
    BY <2>2, StatusTable
<1>4. CASE Recover
  BY <1>1, <1>4, StatusTable DEF Recover, StatusOf, Alive
<1>5. ASSUME NEW q \in Runs, Merge(q) \/ CancelRun(q) \/ ResumeRun(q)
      PROVE  run[r].status # "cancelled"
  <2>1. \/ run' = run
        \/ /\ ValidTransition(StatusOf(q), "verifying")
           /\ \E s \in {"completed", "failed"} : run' = [run EXCEPT ![q].status = s]
        \/ run' = [run EXCEPT ![q].status = "cancelled"]
        \/ StatusOf(q) = "failed" /\ run' = [run EXCEPT ![q].status = "implementing"]
    BY <1>5 DEF Merge, CancelRun, ResumeRun
  <2>2. r = q
    BY <1>1, <2>1 DEF TypeOK
  <2>3. \/ ValidTransition(run[r].status, "verifying")
        \/ run'[r].status = "cancelled"
        \/ run[r].status = "failed"
    BY <2>1, <2>2, <1>1 DEF StatusOf, TypeOK
  <2>4. QED
    BY <1>1, <2>3, StatusTable
<1>6. ASSUME NEW x \in Tasks, Pause(x) PROVE run[r].status # "cancelled"
  <2> DEFINE q == RunOfTask(x)
  <2>1. \/ run' = run
        \/ /\ ValidTransition(StatusOf(q), "waiting_for_ollama")
           /\ run' = [run EXCEPT ![q] = [status |-> "waiting_for_ollama",
                                        resume |-> StatusOf(q)]]
    BY <1>6 DEF Pause
  <2>2. r = q /\ ValidTransition(run[r].status, "waiting_for_ollama")
    BY <1>1, <2>1 DEF StatusOf, TypeOK
  <2>3. QED
    BY <2>2, StatusTable
<1>7. CASE UNCHANGED run
  BY <1>1, <1>7
<1>8. CASE World
  BY <1>5, <1>6, <1>7, <1>8 DEF World, CallRaises, ToggleAgent, Restart
<1>9. QED
  BY <1>2, <1>3, <1>4, <1>5, <1>7, <1>8 DEF Next, vars

\* The steps that are not a dispatch's.
Dispatches == \E x \in Tasks : Dispatch(x)

LEMMA OtherSteps ==
  ASSUME TypeOK, [Next]_vars, ~Restart, ~Dispatches
  PROVE  UNCHANGED lock /\ \A n \in Nodes : Moves(n)
<1>1. CASE UNCHANGED vars
  BY <1>1 DEF vars, Moves, Rests
<1>2. ASSUME NEW x \in Tasks, Claim(x) \/ Thread(x)
      PROVE  UNCHANGED lock /\ \A n \in Nodes : Moves(n)
  <2>1. CASE Claim(x) \/ Finalize(x)
    BY <2>1, QueueMoves DEF Claim, Finalize
  <2>2. CASE StartRun(x) \/ Run(x)
    <3>1. UNCHANGED lock
      BY <2>2 DEF StartRun, Run, StartNode, Stage, Finish, Reject, Retry, GiveUp, InsertRetry
    <3>2. QED
      BY <2>2, <3>1, HandlerMoves
  <2>3. QED
    BY <1>2, <2>1, <2>2 DEF Thread, Dispatches
<1>3. CASE Recover \/ \E x \in Tasks : Pause(x)
  BY <1>3, OutageMoves DEF Recover, Pause
<1>4. ASSUME NEW n \in Nodes, CallRaises(n) PROVE UNCHANGED lock /\ \A m \in Nodes : Moves(m)
  BY <1>4, HandlerMoves, TaskNames DEF CallRaises
<1>5. ASSUME NEW r \in Runs, Merge(r) \/ ResumeRun(r)
      PROVE  UNCHANGED lock /\ \A m \in Nodes : Moves(m)
  <2>1. UNCHANGED <<node, pc, mine, lock>> /\ \A n \in Nodes : job'[n] = job[n]
    BY <1>5, TaskNames DEF Merge, ResumeRun, Enqueue, TypeOK
  <2>2. QED
    BY <2>1 DEF Moves, Rests
<1>6. ASSUME NEW r \in Runs, CancelRun(r)
      PROVE  UNCHANGED lock /\ \A m \in Nodes : Moves(m)
  <2>1. UNCHANGED <<node, pc, mine, lock>> /\ ~Alive(r)'
    BY <1>6 DEF CancelRun, Alive, StatusOf, TypeOK
  <2>2. ASSUME NEW n \in Nodes PROVE Moves(n)
    <3>1. n \in Tasks /\ RunOfTask(n) = RunOf[n]
      BY TaskNames
    <3>2. CASE RunOf[n] = r
      BY <1>6, <2>1, <3>1, <3>2 DEF CancelRun, Moves, IsDropped
    <3>3. CASE RunOf[n] # r
      BY <1>6, <2>1, <3>1, <3>3 DEF CancelRun, Moves, Rests
    <3>4. QED
      BY <3>2, <3>3
  <2>3. QED
    BY <2>1, <2>2
<1>7. ASSUME NEW a \in Agents, ToggleAgent(a) PROVE UNCHANGED lock /\ \A n \in Nodes : Moves(n)
  BY <1>7 DEF ToggleAgent, Moves, Rests
<1>8. QED
  BY <1>1, <1>2, <1>3, <1>4, <1>5, <1>6, <1>7 DEF Next, World

-----------------------------------------------------------------------------
(***************************************************************************)
(* A node's status and its job go together, as long as no dispatch fails a *)
(* node that has work to come (Spares), which is the next section's        *)
(* business.  A dispatch may still be about to serve a node whose job has  *)
(* just ended, without a verdict on it (OpenView).                         *)
(***************************************************************************)

\* The node is worked on, or is going to be.
InUse(n) ==
  \/ pc[n] = "working"
  \/ Alive(RunOf[n]) /\ (job[n] \in {"pending", "waiting"} \/ pc[n] \in {"start", "stage"})

InStep ==
  \A n \in Nodes :
    /\ pc[n] = "working" => node[n].status = "running"
    /\ Alive(RunOf[n]) =>
         /\ job[n] = "pending" \/ pc[n] \in {"start", "stage"} => node[n].status = "pending"
         /\ job[n] = "waiting" => node[n].status = "waiting_ollama"

OpenView ==
  \A n \in View : Alive(RunOf[n]) /\ (job[n] = "none" \/ pc[n] \in {"insert", "ended"})
    => node[n].status = "pending"

\* What is done was done after its dependencies.
DoneBelow ==
  \A n \in Nodes : Alive(RunOf[n]) /\ node[n].status = "done" =>
    \A d \in Deps[n] : node[d].status = "done"

StepInv == SchedulerInv /\ InStep /\ OpenView /\ DoneBelow

Spares == \A n \in View :
  ~PinReserved(n) /\ Unserved(n) => ~InUse(n) /\ node[n].status # "done"

\* A node that is worked on, or will be, has everything behind it done.
LEMMA UsedIsClear ==
  ASSUME StepInv, NEW n \in Nodes, Alive(RunOf[n]), Relies(n)
  PROVE  \A d \in TransitiveDeps[n] : node[d].status = "done"
<1> DEFINE D == { m \in Nodes : RunOf[m] = RunOf[n] /\ node[m].status = "done" }
<1>1. \A m \in D : Deps[m] \subseteq D
  BY TaskNames DEF StepInv, DoneBelow
<1>2. Deps[n] \subseteq D
  BY TaskNames DEF StepInv, SchedulerInv, Grounded
<1>3. D \in SUBSET Nodes
  OBVIOUS
<1>4. TransitiveDeps[n] \subseteq D
  <2> HIDE DEF D
  <2>1. QED
    BY <1>1, <1>2, <1>3, TransitiveDepsWithin
<1>5. QED
  BY <1>4

LEMMA JobAndStep ==
  ASSUME TypeOK, NEW n \in Nodes
  PROVE  /\ n \in Tasks /\ RunOf[n] \in Runs
         /\ job[n] \in {"none", "pending", "running", "waiting"}
         /\ job[n] = "running" <=> pc[n] # "idle"
  BY TaskNames DEF TypeOK

\* A step that is not a dispatch's.
LEMMA OtherKeepsStep ==
  ASSUME StepInv, [Next]_vars, ~Restart, ~Dispatches
  PROVE  InStep' /\ OpenView' /\ DoneBelow'
<1> USE DEF StepInv
<1>0. TypeOK /\ UNCHANGED lock /\ (\A n \in Nodes : Moves(n)) /\ View' = View /\ View \subseteq Nodes
  BY OtherSteps DEF SchedulerInv, View, Dispatching, TypeOK
<1>1. \A r \in Runs : Alive(r)' => Alive(r)
  BY <1>0, CancelledStays
<1>2. InStep'
  <2>1. SUFFICES ASSUME NEW n \in Nodes
        PROVE /\ pc'[n] = "working" => node'[n].status = "running"
              /\ Alive(RunOf[n])' =>
                   /\ job'[n] = "pending" \/ pc'[n] \in {"start", "stage"}
                        => node'[n].status = "pending"
                   /\ job'[n] = "waiting" => node'[n].status = "waiting_ollama"
    BY DEF InStep
  <2>2. /\ Moves(n) /\ (Alive(RunOf[n])' => Alive(RunOf[n]))
        /\ job[n] = "running" <=> pc[n] # "idle"
        /\ pc[n] = "working" => node[n].status = "running"
        /\ Alive(RunOf[n]) =>
             /\ job[n] = "pending" \/ pc[n] \in {"start", "stage"} => node[n].status = "pending"
             /\ job[n] = "waiting" => node[n].status = "waiting_ollama"
    BY <1>0, <1>1, JobAndStep DEF InStep
  <2>3. CASE IsParked(n) \/ IsReleased(n)
    BY <2>2, <2>3 DEF IsParked, IsReleased
  <2>4. CASE ~(IsParked(n) \/ IsReleased(n))
    BY <2>2, <2>4 DEF Moves, Rests, IsClaimed, IsFinalized, Begins, IsStaged, Raises, Writes,
                      IsRefused, IsDropped
  <2>5. QED
    BY <2>3, <2>4
<1>3. OpenView'
  <2>1. SUFFICES ASSUME NEW n \in View, Alive(RunOf[n])',
                        job'[n] = "none" \/ pc'[n] \in {"insert", "ended"}
                 PROVE  node'[n].status = "pending"
    BY <1>0 DEF OpenView
  <2>2. /\ Moves(n) /\ Alive(RunOf[n]) /\ n \in Nodes
        /\ job[n] = "running" <=> pc[n] # "idle"
        /\ job[n] = "pending" \/ pc[n] \in {"start", "stage"} => node[n].status = "pending"
        /\ job[n] = "none" \/ pc[n] \in {"insert", "ended"} => node[n].status = "pending"
    BY <1>0, <1>1, <2>1, JobAndStep DEF InStep, OpenView
  <2>3. QED
    BY <2>1, <2>2 DEF Moves, Rests, IsClaimed, IsFinalized, Begins, IsStaged, Raises, Writes,
                      IsRefused, IsDropped, IsParked, IsReleased
<1>4. ASSUME NEW n \in Nodes, Alive(RunOf[n])', node[n].status = "done"
      PROVE  node'[n].status = "done"
  <2>1. /\ Moves(n) /\ Alive(RunOf[n])
        /\ pc[n] \in {"stage", "working", "raised", "insert"} => node[n].status # "done"
    BY <1>0, <1>1, <1>4, JobAndStep DEF SchedulerInv, OpenAtWork
  <2>2. QED
    BY <1>4, <2>1 DEF Moves, Rests, IsClaimed, IsFinalized, Begins, IsStaged, Raises, Writes,
                      IsRefused, IsDropped, IsParked, IsReleased
<1>5. ASSUME NEW n \in Nodes, Alive(RunOf[n])', node'[n].status = "done"
      PROVE  node[n].status = "done" \/ Relies(n)
  <2>1. Moves(n) /\ (job[n] = "running" <=> pc[n] # "idle")
    BY <1>0, JobAndStep
  <2>2. node[n].status = "done" \/ pc[n] = "working"
    BY <1>5, <2>1 DEF Moves, Rests, IsClaimed, IsFinalized, Begins, IsStaged, Raises, Writes,
                      IsRefused, IsDropped, IsParked, IsReleased
  <2>3. QED
    BY <2>1, <2>2 DEF Relies
<1>6. DoneBelow'
  <2>1. SUFFICES ASSUME NEW n \in Nodes, Alive(RunOf[n])', node'[n].status = "done",
                        NEW d \in Deps[n]
                 PROVE  node'[d].status = "done"
    BY DEF DoneBelow
  <2>2. d \in Nodes /\ RunOf[d] = RunOf[n] /\ RunOf[n] \in Runs
    BY TaskNames
  <2>3. node[d].status = "done"
    BY <1>1, <1>5, <2>1, <2>2 DEF DoneBelow, SchedulerInv, Grounded
  <2>4. QED
    BY <1>4, <2>1, <2>2, <2>3
<1>7. QED
  BY <1>2, <1>3, <1>6

\* Block hits no node that has work to come: those are clear.
LEMMA BlockSparesUsed ==
  ASSUME StepInv, NEW x \in Tasks, Block(x), NEW n \in Nodes, node'[n] # node[n]
  PROVE  /\ RunOf[n] = RunOfTask(x) /\ node[n].status = "pending"
         /\ TransitiveDeps[n] \cap Failed(RunOfTask(x)) # {}
         /\ node'[n] = [node[n] EXCEPT !.status = "blocked"] /\ node'[n].status = "blocked"
         /\ ~InUse(n)
<1>1. /\ RunOf[n] = RunOfTask(x) /\ node[n].status = "pending"
      /\ TransitiveDeps[n] \cap Failed(RunOfTask(x)) # {}
      /\ node'[n] = [node[n] EXCEPT !.status = "blocked"]
  BY DEF Block
<1>2. node'[n].status = "blocked"
  BY <1>1 DEF StepInv, SchedulerInv, TypeOK
<1>3. ASSUME InUse(n) PROVE FALSE
  <2>1. Alive(RunOf[n]) /\ Relies(n)
    BY <1>1, <1>3, JobAndStep DEF InUse, StepInv, SchedulerInv, InStep, Relies
  <2>2. \A d \in TransitiveDeps[n] : node[d].status = "done"
    BY <2>1, UsedIsClear
  <2>3. QED
    BY <1>1, <2>2 DEF Failed
<1>4. QED
  BY <1>1, <1>2, <1>3

\* The steps of a dispatch, as far as nodes are concerned.
LEMMA DispatchEffect ==
  ASSUME StepInv, NEW x \in Tasks, Dispatch(x), Spares
  PROVE  /\ mine' = mine
         /\ \A n \in Nodes :
              /\ job'[n] = job[n] \/ (n \in View /\ job[n] = "none" /\ job'[n] = "pending")
              /\ pc'[n] = pc[n] \/ (n = x /\ pc'[n] \in {"ended", "raised"})
              /\ pc[n] \in {"start", "stage", "working", "raised", "insert"} => pc'[n] = pc[n]
              /\ node'[n].status = node[n].status
                 \/ (~InUse(n) /\ node[n].status # "done" /\ node'[n].status \in {"blocked", "failed"})
              /\ n \in View' => \/ n \in View /\ node'[n].status = node[n].status
                                \/ node'[n].status = "pending"
<1> USE DEF StepInv, SchedulerInv, TypeOK
<1>1. x \in Tasks /\ pc[x] \in {"chain", "dispatch"}
  BY TaskNames DEF Dispatch, Block, QueueMerge, FailClosed, Look, Looks, Dispatched, PassOver,
                   FailUnserved, Assign, EnqueueNode, Turn
<1>2. mine' = mine
  BY DEF Dispatch, Block, QueueMerge, FailClosed, Look, Dispatched, PassOver, FailUnserved,
         Assign, EnqueueNode
<1>3. \/ pc' = pc
      \/ \E label \in {"ended", "raised"} : Go(x, label)
  BY DEF Dispatch, Block, QueueMerge, FailClosed, Look, Dispatched, PassOver, FailUnserved,
         Assign, EnqueueNode
<1>4. \A n \in Nodes : /\ pc'[n] = pc[n] \/ (n = x /\ pc'[n] \in {"ended", "raised"})
                       /\ pc[n] \in {"start", "stage", "working", "raised", "insert"}
                            => pc'[n] = pc[n]
  BY <1>1, <1>3, TaskNames DEF Go
<1>5. CASE Block(x)
  <2>1. UNCHANGED job /\ View' = {}
    BY <1>5 DEF Block, View, Dispatching, Free
  <2>2. \A n \in Nodes : \/ node'[n].status = node[n].status
                         \/ ~InUse(n) /\ node[n].status # "done" /\ node'[n].status = "blocked"
    BY <1>5, BlockSparesUsed
  <2>3. QED
    BY <1>2, <1>4, <2>1, <2>2
<1>6. CASE QueueMerge(x) \/ FailClosed(x) \/ Dispatched(x)
  <2>1. UNCHANGED <<job, node>> /\ View' = {}
    BY <1>6 DEF QueueMerge, FailClosed, Dispatched, View, Dispatching, Free
  <2>2. QED
    BY <1>2, <1>4, <2>1
<1>7. CASE Look(x)
  <2>1. UNCHANGED <<job, node>> /\ View' = Ready(RunOfTask(x))
    BY <1>7 DEF Look, View, Dispatching
  <2>2. QED
    BY <1>2, <1>4, <2>1 DEF Ready
<1>8. ASSUME NEW n \in Nodes, PassOver(x, n) \/ Assign(x, n) PROVE
        /\ UNCHANGED job /\ View' \subseteq View
        /\ \A m \in Nodes : node'[m].status = node[m].status
  <2>1. CASE PassOver(x, n)
    BY <2>1 DEF PassOver, Turn, View, Dispatching
  <2>2. CASE Assign(x, n)
    <3>1. PICK a : node' = [node EXCEPT ![n].agent = a]
      BY <2>2 DEF Assign
    <3>2. lock.phase = "assign" /\ lock'.view = lock.view /\ UNCHANGED job
      BY <2>2 DEF Assign, Turn
    <3>3. QED
      BY <3>1, <3>2 DEF View, Dispatching
  <2>3. QED
    BY <1>8, <2>1, <2>2
<1>9. ASSUME NEW n \in Nodes, FailUnserved(x, n) PROVE
        /\ UNCHANGED job /\ View' = {}
        /\ \A m \in Nodes : node'[m].status = node[m].status
             \/ (~InUse(m) /\ node[m].status # "done" /\ node'[m].status \in {"blocked", "failed"})
  <2>1. UNCHANGED job /\ lock'.phase = "block" /\ node' = [node EXCEPT ![n].status = "failed"]
    BY <1>9 DEF FailUnserved, Write
  <2>2. ~InUse(n) /\ node[n].status # "done"
    BY <1>9 DEF FailUnserved, Turn, Spares, View, Dispatching
  <2>3. QED
    BY <2>1, <2>2 DEF View, Dispatching
<1>10. ASSUME NEW n \in Nodes, EnqueueNode(x, n) PROVE
        /\ UNCHANGED node /\ View' \subseteq View /\ n \in View
        /\ \A m \in Nodes : job'[m] = IF m = n /\ job[m] = "none" THEN "pending" ELSE job[m]
  BY <1>10, TaskNames DEF EnqueueNode, Enqueue, View, Dispatching
<1>11. QED
  BY <1>2, <1>4, <1>5, <1>6, <1>7, <1>8, <1>9, <1>10 DEF Dispatch

LEMMA DispatchKeepsStep ==
  ASSUME StepInv, NEW x \in Tasks, Dispatch(x), Spares
  PROVE  InStep' /\ OpenView' /\ DoneBelow'
<1> USE DEF StepInv
<1>0. TypeOK /\ View' \subseteq Nodes /\ \A r \in Runs : Alive(r)' => Alive(r)
  <2>1. TypeOK /\ TypeOK'
    BY DispatchKeeps DEF SchedulerInv
  <2>2. Next
    BY DEF Next, Thread
  <2>3. QED
    BY <2>1, <2>2, CancelledStays DEF View, TypeOK
<1>1. ASSUME NEW n \in Nodes
      PROVE  /\ job'[n] = job[n] \/ (n \in View /\ job[n] = "none" /\ job'[n] = "pending")
             /\ pc'[n] = pc[n] \/ (n = x /\ pc'[n] \in {"ended", "raised"})
             /\ pc[n] \in {"start", "stage", "working", "raised", "insert"} => pc'[n] = pc[n]
             /\ node'[n].status = node[n].status
                \/ (~InUse(n) /\ node[n].status # "done" /\ node'[n].status \in {"blocked", "failed"})
             /\ n \in View' => \/ n \in View /\ node'[n].status = node[n].status
                               \/ node'[n].status = "pending"
             /\ Alive(RunOf[n])' => Alive(RunOf[n])
  BY <1>0, DispatchEffect, TaskNames
<1>2. InStep'
  <2>1. SUFFICES ASSUME NEW n \in Nodes
        PROVE /\ pc'[n] = "working" => node'[n].status = "running"
              /\ Alive(RunOf[n])' =>
                   /\ job'[n] = "pending" \/ pc'[n] \in {"start", "stage"}
                        => node'[n].status = "pending"
                   /\ job'[n] = "waiting" => node'[n].status = "waiting_ollama"
    BY DEF InStep
  <2>2. /\ pc[n] = "working" => node[n].status = "running"
        /\ Alive(RunOf[n]) =>
             /\ job[n] = "pending" \/ pc[n] \in {"start", "stage"} => node[n].status = "pending"
             /\ job[n] = "waiting" => node[n].status = "waiting_ollama"
             /\ n \in View /\ job[n] = "none" => node[n].status = "pending"
        /\ job[n] = "running" <=> pc[n] # "idle"
    BY <1>0, JobAndStep DEF InStep, OpenView
  <2>3. pc'[n] = "working" => node'[n].status = "running"
    BY <1>1, <2>2 DEF InUse
  <2>4. ASSUME Alive(RunOf[n])'
        PROVE  /\ job'[n] = "pending" \/ pc'[n] \in {"start", "stage"}
                    => node'[n].status = "pending"
               /\ job'[n] = "waiting" => node'[n].status = "waiting_ollama"
    <3>1. CASE job'[n] = job[n]
      BY <1>1, <2>2, <2>4, <3>1 DEF InUse
    <3>2. CASE n \in View /\ job[n] = "none" /\ job'[n] = "pending"
      <4>1. UNCHANGED node
        BY <3>2 DEF Dispatch, Block, QueueMerge, FailClosed, Look, Dispatched, PassOver,
                    FailUnserved, Assign, EnqueueNode
      <4>2. QED
        BY <1>1, <2>2, <2>4, <3>2, <4>1
    <3>3. QED
      BY <1>1, <3>1, <3>2
  <2>5. QED
    BY <2>3, <2>4
<1>3. OpenView'
  <2>1. SUFFICES ASSUME NEW n \in View', Alive(RunOf[n])',
                        job'[n] = "none" \/ pc'[n] \in {"insert", "ended"}
                 PROVE  node'[n].status = "pending"
    BY DEF OpenView
  <2>2. n \in Nodes
    BY <1>0
  <2>3. pc'[n] # pc[n] => View' = {}
    <3>1. CASE QueueMerge(x) \/ FailClosed(x) \/ Dispatched(x)
      BY <3>1 DEF QueueMerge, FailClosed, Dispatched, View, Dispatching, Free
    <3>2. CASE ~(QueueMerge(x) \/ FailClosed(x) \/ Dispatched(x))
      BY <3>2 DEF Dispatch, Block, Look, PassOver, FailUnserved, Assign, EnqueueNode
    <3>3. QED
      BY <3>1, <3>2
  <2>4. n \in View => (job[n] = "none" \/ pc[n] \in {"insert", "ended"})
    BY <1>1, <2>1, <2>2, <2>3
  <2>5. QED
    BY <1>1, <2>1, <2>2, <2>4 DEF OpenView
<1>4. DoneBelow'
  <2>1. SUFFICES ASSUME NEW n \in Nodes, Alive(RunOf[n])', node'[n].status = "done",
                        NEW d \in Deps[n]
                 PROVE  node'[d].status = "done"
    BY DEF DoneBelow
  <2>2. d \in Nodes /\ node[n].status = "done" /\ Alive(RunOf[n])
    BY <1>1, <2>1, TaskNames
  <2>3. node[d].status = "done"
    BY <2>2 DEF DoneBelow
  <2>4. QED
    BY <1>1, <2>2, <2>3
<1>5. QED
  BY <1>2, <1>3, <1>4

\* The layer is kept by every step but a restart.
LEMMA StepKeeps ==
  ASSUME StepInv, [Next]_vars, ~Restart, Spares, SchedulerInv'
  PROVE  StepInv'
  BY OtherKeepsStep, DispatchKeepsStep DEF StepInv, Dispatches

LEMMA StepInit == Init => StepInv
<1> SUFFICES ASSUME Init PROVE StepInv
  OBVIOUS
<1>1. /\ View = {}
      /\ \A n \in Nodes : job[n] = "none" /\ pc[n] = "idle" /\ node[n].status = "pending"
  BY TaskNames DEF Init, View, Dispatching, Free
<1>2. QED
  BY <1>1, SchedulerInit DEF StepInv, InStep, OpenView, DoneBelow

-----------------------------------------------------------------------------
(***************************************************************************)
(* Who works with which agent, when each node has an agent assigned to it. *)
(* No two nodes that are in use have the same one (UsedApart): a dispatch  *)
(* has the agents of the nodes in use among those it reserved, because it  *)
(* alone brings further nodes into use (UsedReserved), and a node it still *)
(* can serve has not been in anybody's hands since it was read (FreshTurn, *)
(* NextUp).                                                                *)
(***************************************************************************)

AllPinned == \A n \in Nodes : Pinned[n] # NoAgent

OwnAgent ==
  \A n \in Nodes :
    /\ node[n].agent \in {NoAgent, Pinned[n]} /\ mine[n].agent \in {NoAgent, Pinned[n]}
    /\ job[n] # "none" => node[n].agent = Pinned[n]
    /\ pc[n] = "working" => mine[n].agent = Pinned[n]

UsedApart ==
  \A m, n \in Nodes : InUse(m) /\ InUse(n) /\ m # n => Pinned[m] # Pinned[n]

UsedReserved == Dispatching => \A n \in Nodes : InUse(n) => Pinned[n] \in lock.reserved

FreshTurn ==
  \A n \in View : Pinned[n] \notin lock.reserved => job[n] = "none" /\ node[n].status = "pending"

\* The node that has its agent and not yet its job.
Assigned(n) == lock.phase = "enqueue" /\ n \in lock.view /\ \A m \in lock.view : n <= m

NextUp ==
  \A n \in Nodes : Assigned(n) =>
    /\ job[n] = "none" /\ node[n].status = "pending" /\ node[n].agent = Pinned[n]
    /\ Pinned[n] \in lock.reserved
    /\ \A m \in Nodes : InUse(m) => Pinned[m] # Pinned[n]

PinInv == StepInv /\ OwnAgent /\ UsedApart /\ UsedReserved /\ FreshTurn /\ NextUp

LEMMA PinsSpare ==
  ASSUME PinInv, AllPinned
  PROVE  Spares
<1>1. SUFFICES ASSUME NEW n \in View, ~PinReserved(n)
               PROVE  ~InUse(n) /\ node[n].status # "done"
  BY DEF Spares
<1>2. n \in Nodes /\ Dispatching /\ Pinned[n] \notin lock.reserved
  BY <1>1 DEF PinReserved, AllPinned, View, Dispatching, PinInv, StepInv, SchedulerInv, TypeOK
<1>3. QED
  BY <1>2 DEF PinInv, UsedReserved, FreshTurn

\* A node in use has a job, its agent and an open status.
LEMMA UsedHolds ==
  ASSUME PinInv, NEW n \in Nodes, InUse(n)
  PROVE  /\ job[n] # "none" /\ node[n].agent = Pinned[n] /\ node[n].status \in Live
<1>1. job[n] # "none" /\ node[n].status \in Live
  BY JobAndStep DEF PinInv, StepInv, SchedulerInv, InStep, InUse, Live
<1>2. QED
  BY <1>1 DEF PinInv, OwnAgent

LEMMA OtherKeepsPins ==
  ASSUME PinInv, AllPinned, [Next]_vars, ~Restart, ~Dispatches
  PROVE  OwnAgent' /\ UsedApart' /\ UsedReserved' /\ FreshTurn' /\ NextUp'
<1> USE DEF PinInv
<1>0. TypeOK /\ UNCHANGED lock /\ (\A n \in Nodes : Moves(n)) /\ View' = View /\ View \subseteq Nodes
  BY OtherSteps DEF StepInv, SchedulerInv, View, Dispatching, TypeOK
<1>1. \A r \in Runs : Alive(r)' => Alive(r)
  BY <1>0, CancelledStays
<1>2. OwnAgent'
  <2>1. SUFFICES ASSUME NEW n \in Nodes
        PROVE /\ node'[n].agent \in {NoAgent, Pinned[n]} /\ mine'[n].agent \in {NoAgent, Pinned[n]}
              /\ job'[n] # "none" => node'[n].agent = Pinned[n]
              /\ pc'[n] = "working" => mine'[n].agent = Pinned[n]
    BY DEF OwnAgent
  <2>2. /\ Moves(n) /\ (job[n] = "running" <=> pc[n] # "idle")
        /\ node[n].agent \in {NoAgent, Pinned[n]} /\ mine[n].agent \in {NoAgent, Pinned[n]}
        /\ job[n] # "none" => node[n].agent = Pinned[n]
        /\ pc[n] = "working" => mine[n].agent = Pinned[n]
    BY <1>0, JobAndStep DEF OwnAgent
  <2>3. Usable(n) \subseteq {Pinned[n]}
    <3>1. NoAgent \notin enabled /\ Pinned[n] # NoAgent
      BY <1>0, SchedulerAssumption DEF AllPinned, TypeOK
    <3>2. QED
      BY <2>2, <3>1 DEF Usable
  <2>4. QED
    BY <2>2, <2>3 DEF Moves, Rests, IsClaimed, IsFinalized, Begins, IsStaged, Raises, Writes,
                      IsRefused, IsDropped, IsParked, IsReleased, Unread
<1>3. ASSUME NEW n \in Nodes, InUse(n)' PROVE InUse(n)
  <2>1. /\ Moves(n) /\ (job[n] = "running" <=> pc[n] # "idle")
        /\ Alive(RunOf[n])' => Alive(RunOf[n])
    BY <1>0, <1>1, JobAndStep
  <2>2. QED
    BY <1>3, <2>1 DEF InUse, Moves, Rests, IsClaimed, IsFinalized, Begins, IsStaged, Raises, Writes,
                      IsRefused, IsDropped, IsParked, IsReleased
<1>4. ASSUME NEW n \in Nodes, job[n] = "none", node[n].status = "pending"
      PROVE  job'[n] = "none" /\ node'[n].status = "pending" /\ node'[n].agent = node[n].agent
  <2>1. Moves(n) /\ (job[n] = "running" <=> pc[n] # "idle")
    BY <1>0, JobAndStep
  <2>2. QED
    BY <1>4, <2>1 DEF Moves, Rests, IsClaimed, IsFinalized, Begins, IsStaged, Raises, Writes,
                      IsRefused, IsDropped, IsParked, IsReleased
<1>5. UsedApart' /\ UsedReserved' /\ FreshTurn'
  BY <1>0, <1>3, <1>4 DEF UsedApart, UsedReserved, FreshTurn, Dispatching
<1>6. NextUp'
  BY <1>0, <1>3, <1>4 DEF NextUp, Assigned
<1>7. QED
  BY <1>2, <1>5, <1>6

LEMMA DispatchKeepsPins ==
  ASSUME PinInv, AllPinned, NEW x \in Tasks, Dispatch(x)
  PROVE  OwnAgent' /\ UsedApart' /\ UsedReserved' /\ FreshTurn' /\ NextUp'
<1> USE DEF PinInv
<1>0. TypeOK /\ Spares /\ View \subseteq Nodes /\ \A r \in Runs : Alive(r)' => Alive(r)
  <2>1. TypeOK
    BY DEF StepInv, SchedulerInv
  <2>2. Next
    BY DEF Next, Thread
  <2>3. QED
    BY <2>1, <2>2, CancelledStays, PinsSpare DEF View, TypeOK
<1>1. /\ mine' = mine
      /\ \A n \in Nodes :
           /\ job'[n] = job[n] \/ (n \in View /\ job[n] = "none" /\ job'[n] = "pending")
           /\ pc'[n] = pc[n] \/ (n = x /\ pc'[n] \in {"ended", "raised"})
           /\ Alive(RunOf[n])' => Alive(RunOf[n])
  BY <1>0, DispatchEffect, TaskNames DEF PinInv
<1>2. CASE Block(x) \/ QueueMerge(x) \/ FailClosed(x) \/ Dispatched(x)
           \/ \E n \in Nodes : FailUnserved(x, n)
  <2>1. UNCHANGED job /\ ~Dispatching' /\ View' = {} /\ lock'.phase # "enqueue"
    <3>1. CASE Block(x) \/ QueueMerge(x) \/ FailClosed(x) \/ Dispatched(x)
      <4>1. UNCHANGED job /\ lock'.phase \in {"block", "look"}
        <5>1. CASE Block(x)
          BY <5>1 DEF Block, Free
        <5>2. CASE QueueMerge(x) \/ FailClosed(x) \/ Dispatched(x)
          BY <5>2 DEF QueueMerge, FailClosed, Dispatched, Free
        <5>3. QED
          BY <3>1, <5>1, <5>2
      <4>2. QED
        BY <4>1 DEF View, Dispatching
    <3>2. ASSUME NEW n \in Nodes, FailUnserved(x, n)
          PROVE  UNCHANGED job /\ lock'.phase = "block"
      BY <1>0, <3>2 DEF FailUnserved, TypeOK
    <3>3. QED
      BY <1>2, <3>1, <3>2 DEF View, Dispatching
  <2>2. \A n \in Nodes : node'[n].agent = node[n].agent
    <3>1. CASE Block(x)
      BY <1>0, <3>1 DEF Block, TypeOK
    <3>2. ASSUME NEW n \in Nodes, FailUnserved(x, n)
          PROVE  \A m \in Nodes : node'[m].agent = node[m].agent
      BY <1>0, <3>2 DEF FailUnserved, Write, TypeOK
    <3>3. CASE QueueMerge(x) \/ FailClosed(x) \/ Dispatched(x)
      BY <3>3 DEF QueueMerge, FailClosed, Dispatched
    <3>4. QED
      BY <1>2, <3>1, <3>2, <3>3
  <2>3. OwnAgent'
    BY <1>1, <2>1, <2>2 DEF OwnAgent
  <2>4. \A n \in Nodes : InUse(n)' => InUse(n)
    BY <1>1, <2>1 DEF InUse
  <2>5. QED
    BY <2>1, <2>3, <2>4 DEF UsedApart, UsedReserved, FreshTurn, NextUp, Assigned
<1>3. CASE Look(x)
  <2> DEFINE r == RunOfTask(x)
  <2>1. /\ UNCHANGED <<run, node, job, pc, mine>> /\ View' = Ready(r)
        /\ lock'.phase = "assign" /\ lock'.reserved = Reserved(r)
    BY <1>0, <1>3 DEF Look, View, Dispatching, TypeOK
  <2>2. \A n \in Nodes : InUse(n)' <=> InUse(n)
    BY <2>1 DEF InUse, Alive, StatusOf
  <2>3. OwnAgent' /\ UsedApart'
    BY <2>1, <2>2 DEF OwnAgent, UsedApart
  <2>4. \A n \in Nodes : node[n].status \in Live /\ job[n] # "none" => Pinned[n] \in Reserved(r)
    BY DEF Reserved, OwnAgent, AllPinned
  <2>5. UsedReserved'
    BY <2>1, <2>2, <2>4, UsedHolds DEF UsedReserved, PinInv
  <2>6. FreshTurn'
    BY <2>1, <2>4 DEF FreshTurn, Ready, NodesOf, Live
  <2>7. NextUp'
    BY <2>1 DEF NextUp, Assigned
  <2>8. QED
    BY <2>3, <2>5, <2>6, <2>7
<1>4. ASSUME NEW n \in Nodes, PassOver(x, n)
      PROVE  OwnAgent' /\ UsedApart' /\ UsedReserved' /\ FreshTurn' /\ NextUp'
  <2>1. /\ UNCHANGED <<run, node, job, pc, mine>> /\ View' \subseteq View
        /\ lock'.reserved = lock.reserved /\ lock'.phase = "assign" /\ lock.phase = "assign"
    BY <1>0, <1>4 DEF PassOver, Turn, View, Dispatching, TypeOK
  <2>2. \A m \in Nodes : InUse(m)' <=> InUse(m)
    BY <2>1 DEF InUse, Alive, StatusOf
  <2>3. OwnAgent' /\ UsedApart' /\ UsedReserved' /\ FreshTurn'
    BY <2>1, <2>2 DEF OwnAgent, UsedApart, UsedReserved, FreshTurn, Dispatching
  <2>4. NextUp'
    BY <2>1 DEF NextUp, Assigned
  <2>5. QED
    BY <2>3, <2>4
<1>5. ASSUME NEW n \in Nodes, Assign(x, n)
      PROVE  OwnAgent' /\ UsedApart' /\ UsedReserved' /\ FreshTurn' /\ NextUp'
  <2>1. /\ node' = [node EXCEPT ![n].agent = Pinned[n]]
        /\ lock'.phase = "enqueue" /\ lock'.reserved = lock.reserved \cup {Pinned[n]}
        /\ lock'.view = lock.view /\ UNCHANGED <<run, job, pc, mine>>
    <3>1. PICK a \in Choices(n) :
            /\ node' = [node EXCEPT ![n].agent = a]
            /\ lock' = [lock EXCEPT !.phase = "enqueue", !.reserved = @ \cup {a}, !.slots = @ - 1]
      BY <1>5 DEF Assign
    <3>2. a = Pinned[n]
      BY DEF Choices, AllPinned
    <3>3. UNCHANGED <<run, job, pc, mine>>
      BY <1>5 DEF Assign
    <3>4. QED
      BY <1>0, <3>1, <3>2, <3>3 DEF TypeOK
  <2>2. /\ lock.phase = "assign" /\ n \in lock.view /\ \A m \in lock.view : n <= m
        /\ Pinned[n] \notin lock.reserved
    BY <1>5 DEF Assign, Turn, PinReserved, AllPinned
  <2>3. /\ View = lock.view /\ View' = View /\ Dispatching
        /\ \A m \in Nodes : /\ InUse(m)' <=> InUse(m)
                            /\ node'[m].status = node[m].status
                            /\ node'[m].agent \in {node[m].agent, Pinned[m]}
                            /\ node[m].agent = Pinned[m] => node'[m].agent = Pinned[m]
    BY <1>0, <2>1, <2>2 DEF InUse, Alive, StatusOf, View, Dispatching, TypeOK
  <2>4. OwnAgent' /\ UsedApart' /\ UsedReserved' /\ FreshTurn'
    BY <2>1, <2>3 DEF OwnAgent, UsedApart, UsedReserved, FreshTurn, Dispatching
  <2>5. job[n] = "none" /\ node[n].status = "pending"
    BY <2>2, <2>3 DEF FreshTurn
  <2>6. \A m \in Nodes : InUse(m) => Pinned[m] # Pinned[n]
    BY <2>2, <2>3 DEF UsedReserved
  <2>7. \A m \in lock.view : (\A l \in lock.view : m <= l) => m = n
    <3>1. lock.view \subseteq Nat
      BY <1>0, SchedulerAssumption DEF TypeOK
    <3>2. QED
      BY <2>2, <3>1
  <2>8. node'[n].agent = Pinned[n] /\ node'[n].status = "pending"
    BY <1>0, <2>1, <2>5 DEF TypeOK
  <2>9. NextUp'
    BY <2>1, <2>3, <2>5, <2>6, <2>7, <2>8 DEF NextUp, Assigned
  <2>10. QED
    BY <2>4, <2>9
<1>6. ASSUME NEW n \in Nodes, EnqueueNode(x, n)
      PROVE  OwnAgent' /\ UsedApart' /\ UsedReserved' /\ FreshTurn' /\ NextUp'
  <2>1. /\ UNCHANGED <<run, node, pc, mine>> /\ Assigned(n)
        /\ lock'.phase = "assign" /\ lock'.view = lock.view \ {n}
        /\ lock'.reserved = lock.reserved
    BY <1>0, <1>6 DEF EnqueueNode, Assigned, TypeOK
  <2>2. \A m \in Nodes : /\ m # n => job'[m] = job[m]
                         /\ InUse(m)' => InUse(m) \/ m = n
    <3>1. \A m \in Nodes : m # n => job'[m] = job[m]
      BY <1>0, <1>6, TaskNames DEF EnqueueNode, Enqueue, TypeOK
    <3>2. QED
      BY <2>1, <3>1 DEF InUse, Alive, StatusOf
  <2>3. View = lock.view /\ View' = lock.view \ {n} /\ Dispatching
    BY <2>1 DEF View, Dispatching, Assigned
  <2>4. /\ job[n] = "none" /\ node[n].agent = Pinned[n] /\ Pinned[n] \in lock.reserved
        /\ \A m \in Nodes : InUse(m) => Pinned[m] # Pinned[n]
    BY <2>1 DEF NextUp
  <2>5. OwnAgent' /\ UsedApart'
    BY <2>1, <2>2, <2>4 DEF OwnAgent, UsedApart
  <2>6. UsedReserved' /\ FreshTurn'
    BY <1>0, <2>1, <2>2, <2>3, <2>4 DEF UsedReserved, FreshTurn
  <2>7. NextUp'
    BY <2>1 DEF NextUp, Assigned
  <2>8. QED
    BY <2>5, <2>6, <2>7
<1>7. QED
  BY <1>2, <1>3, <1>4, <1>5, <1>6 DEF Dispatch

LEMMA PinsKeep ==
  ASSUME PinInv, AllPinned, [Next]_vars, ~Restart, SchedulerInv'
  PROVE  PinInv'
<1>1. StepInv'
  BY StepKeeps, PinsSpare DEF PinInv
<1>2. QED
  BY <1>1, OtherKeepsPins, DispatchKeepsPins DEF PinInv, Dispatches

LEMMA PinInit == Init => PinInv
<1> SUFFICES ASSUME Init PROVE PinInv
  OBVIOUS
<1>1. /\ View = {} /\ ~Dispatching /\ lock.phase # "enqueue"
      /\ \A n \in Nodes : /\ job[n] = "none" /\ pc[n] = "idle"
                          /\ node[n].agent = NoAgent /\ mine[n].agent = NoAgent
  BY TaskNames DEF Init, View, Dispatching, Free, Unread
<1>2. \A n \in Nodes : ~InUse(n)
  BY <1>1 DEF InUse
<1>3. QED
  BY <1>1, <1>2, StepInit
  DEF PinInv, OwnAgent, UsedApart, UsedReserved, FreshTurn, NextUp, Assigned

\* PinInv holds up to the first restart.
PinsSoFar == count \in Counts /\ (count.restarts = 0 => PinInv)

LEMMA CountsInit == Init => count \in Counts
  BY DEF Init, Counts

LEMMA PinsStep ==
  ASSUME AllPinned, PinsSoFar, SchedulerInv', [Next]_vars
  PROVE  PinsSoFar'
<1>1. count' \in Counts /\ Ups
  BY CountsGoUp DEF PinsSoFar
<1>2. ASSUME count'.restarts = 0 PROVE PinInv'
  BY <1>1, <1>2, PinsKeep DEF PinsSoFar, Ups
<1>3. QED
  BY <1>1, <1>2 DEF PinsSoFar

THEOREM PinsInvariant == AllPinned => (Spec => []PinsSoFar)
<1> SUFFICES ASSUME AllPinned PROVE Spec => []PinsSoFar
  OBVIOUS
<1>1. Init => PinsSoFar
  BY PinInit, CountsInit DEF PinsSoFar
<1>2. PinsSoFar /\ SchedulerInv' /\ [Next]_vars => PinsSoFar'
  BY PinsStep
<1>3. QED
  BY <1>1, <1>2, SchedulerInvariant, PTL DEF Spec

\* When each node has an agent assigned to it, no agent works on two nodes at once,
\* of one run or of two, up to the first restart: whatever is retried, cancelled,
\* resumed, paused or switched off in the meantime.
THEOREM PinnedAgentsWorkApart ==
  AllPinned => (Spec => [](count.restarts = 0 => AgentExclusive))
<1> SUFFICES ASSUME AllPinned PROVE Spec => [](count.restarts = 0 => AgentExclusive)
  OBVIOUS
<1>1. PinsSoFar => (count.restarts = 0 => AgentExclusive)
  BY DEF PinsSoFar, PinInv, OwnAgent, UsedApart, InUse, AgentExclusive
<1>2. QED
  BY <1>1, PinsInvariant, PTL

-----------------------------------------------------------------------------
(***************************************************************************)
(* What a blocked node waits for.  A dispatch fails a node in use only if  *)
(* the node has no agent assigned to it and no agent is enabled; while     *)
(* this cannot be, and nobody is tried again, a failed node stays failed.  *)
(***************************************************************************)

\* No restart so far, and no agent switched off that anybody could need.
Undisturbed == count.restarts = 0 /\ (AllPinned \/ (Agents # {} /\ count.toggles = 0))

AgentsSoFar ==
  /\ count \in Counts
  /\ Agents # {} /\ count.restarts = 0 /\ count.toggles = 0 => StepInv /\ enabled = Agents

LEMMA AgentsSpare ==
  ASSUME SchedulerInv, Agents # {}, enabled = Agents
  PROVE  Spares
<1>1. ASSUME NEW n \in View PROVE ~Unserved(n)
  <2>1. n \in Nodes
    BY DEF View, SchedulerInv, TypeOK
  <2>2. QED
    BY <2>1, SchedulerAssumption DEF Unserved
<1>2. QED
  BY <1>1 DEF Spares

LEMMA OnlyTheUserSwitches ==
  ASSUME [Next]_vars, \A a \in Agents : ~ToggleAgent(a)
  PROVE  UNCHANGED enabled
<1>1. ASSUME NEW x \in Tasks, Claim(x) \/ Thread(x) PROVE UNCHANGED enabled
  <2>1. CASE Claim(x) \/ StartRun(x) \/ Finalize(x)
    BY <2>1 DEF Claim, StartRun, Finalize
  <2>2. CASE Run(x)
    BY <2>2 DEF Run, StartNode, Stage, Finish, Reject, Retry, GiveUp, InsertRetry
  <2>3. CASE Dispatch(x)
    BY <2>3 DEF Dispatch, Block, QueueMerge, FailClosed, Look, Dispatched, PassOver,
                FailUnserved, Assign, EnqueueNode
  <2>4. QED
    BY <1>1, <2>1, <2>2, <2>3 DEF Thread
<1>2. CASE World
  BY <1>2 DEF World, CallRaises, Pause, CancelRun, ResumeRun, Restart
<1>3. QED
  BY <1>1, <1>2 DEF Next, vars, Merge, Recover

LEMMA AgentsStep ==
  ASSUME AgentsSoFar, SchedulerInv', [Next]_vars
  PROVE  AgentsSoFar'
<1>1. count' \in Counts /\ Ups
  BY CountsGoUp DEF AgentsSoFar
<1>2. ASSUME Agents # {}, count'.restarts = 0, count'.toggles = 0
      PROVE  StepInv' /\ enabled' = Agents
  <2>1. StepInv /\ enabled = Agents /\ ~Restart /\ UNCHANGED enabled
    BY <1>1, <1>2, OnlyTheUserSwitches DEF AgentsSoFar, Ups
  <2>2. Spares
    BY <1>2, <2>1, AgentsSpare DEF StepInv
  <2>3. QED
    BY <2>1, <2>2, StepKeeps
<1>3. QED
  BY <1>1, <1>2 DEF AgentsSoFar

\* Up to then statuses and jobs go together, and dispatches spare the nodes in use.
THEOREM StepInvariant == Spec => [](count \in Counts /\ (Undisturbed => StepInv /\ Spares))
<1>1. CASE AllPinned
  <2>1. PinsSoFar => count \in Counts /\ (Undisturbed => StepInv /\ Spares)
    BY <1>1, PinsSpare DEF PinsSoFar, Undisturbed, PinInv
  <2>2. Spec => []PinsSoFar
    BY <1>1, PinsInvariant
  <2>3. QED
    BY <2>1, <2>2, PTL
<1>2. CASE ~AllPinned
  <2>1. Init => AgentsSoFar
    BY StepInit, CountsInit DEF AgentsSoFar, Init
  <2>2. AgentsSoFar /\ SchedulerInv' /\ [Next]_vars => AgentsSoFar'
    BY AgentsStep
  <2>3. AgentsSoFar => count \in Counts /\ (Undisturbed => StepInv /\ Spares)
    BY <1>2, AgentsSpare DEF AgentsSoFar, Undisturbed, StepInv
  <2>4. QED
    BY <2>1, <2>2, <2>3, SchedulerInvariant, PTL DEF Spec
<1>3. QED
  BY <1>1, <1>2

\* What a dispatch does to the status of a node.
LEMMA DispatchMarks ==
  ASSUME StepInv, NEW x \in Tasks, Dispatch(x), NEW n \in Nodes,
         node'[n].status # node[n].status
  PROVE  \/ node'[n].status = "failed"
         \/ /\ node[n].status = "pending" /\ node'[n].status = "blocked"
            /\ TransitiveDeps[n] \cap Failed(RunOf[n]) # {}
<1>1. TypeOK
  BY DEF StepInv, SchedulerInv
<1>2. CASE Block(x)
  BY <1>2, BlockSparesUsed
<1>3. ASSUME NEW m \in Nodes, FailUnserved(x, m) PROVE node'[n].status = "failed"
  BY <1>1, <1>3 DEF FailUnserved, Write, TypeOK
<1>4. ASSUME NEW m \in Nodes, Assign(x, m) PROVE FALSE
  <2>1. PICK a : node' = [node EXCEPT ![m].agent = a]
    BY <1>4 DEF Assign
  <2>2. QED
    BY <1>1, <2>1 DEF TypeOK
<1>5. CASE UNCHANGED node
  BY <1>5
<1>6. QED
  BY <1>2, <1>3, <1>4, <1>5 DEF Dispatch, QueueMerge, FailClosed, Look, Dispatched, PassOver,
                                EnqueueNode

\* Without second attempts, a failed node stays failed.
LEMMA FailedStays ==
  ASSUME StepInv, [Next]_vars, ~Restart, MaxAttempts = 1, NEW n \in Nodes
  PROVE  /\ node[n].status = "failed" => node'[n].status = "failed"
         /\ node'[n].status = "blocked" =>
              \/ node[n].status = "blocked"
              \/ TransitiveDeps[n] \cap Failed(RunOf[n]) # {}
<1>1. CASE Dispatches
  BY <1>1, DispatchMarks DEF Dispatches
<1>2. CASE ~Dispatches
  <2>1. TypeOK /\ Moves(n)
    BY <1>2, OtherSteps DEF StepInv, SchedulerInv
  <2>2. /\ pc[n] = "working" => node[n].status = "running"
        /\ Alive(RunOf[n]) /\ pc[n] \in {"start", "stage"} => node[n].status = "pending"
    BY DEF StepInv, InStep
  <2>3. ~TriesLeft(n)
    BY <2>1 DEF TriesLeft, TypeOK
  <2>4. QED
    BY <2>1, <2>2, <2>3 DEF Moves, Rests, IsClaimed, IsFinalized, Begins, IsStaged, Raises, Writes,
                      IsRefused, IsDropped, IsParked, IsReleased
<1>3. QED
  BY <1>1, <1>2

LEMMA BlockedKeeps ==
  ASSUME StepInv, [Next]_vars, ~Restart, MaxAttempts = 1, BlockedByFailure
  PROVE  BlockedByFailure'
<1>1. SUFFICES ASSUME NEW n \in Nodes, node'[n].status = "blocked"
               PROVE  \E e \in TransitiveDeps[n] : node'[e].status = "failed"
  BY DEF BlockedByFailure
<1>2. ASSUME NEW d \in Nodes, node[d].status = "blocked"
      PROVE  \E e \in TransitiveDeps[d] : node'[e].status = "failed"
  BY <1>2, FailedStays, TransitiveDepsOfRun DEF BlockedByFailure
<1>3. CASE node[n].status = "blocked"
  BY <1>2, <1>3
<1>4. CASE node[n].status # "blocked"
  <2>1. PICK d \in TransitiveDeps[n] : d \in Failed(RunOf[n])
    BY <1>1, <1>4, FailedStays
  <2>2. d \in Nodes /\ node[d].status \in {"failed", "blocked"}
    BY <2>1 DEF Failed, NodesOf
  <2>3. CASE node[d].status = "failed"
    BY <2>1, <2>2, <2>3, FailedStays
  <2>4. CASE node[d].status = "blocked"
    BY <1>2, <2>1, <2>2, <2>4, TransitiveDepsTransitive
  <2>5. QED
    BY <2>2, <2>3, <2>4
<1>5. QED
  BY <1>3, <1>4

\* Where a node is tried once, a node is blocked only behind one that has failed for
\* good, up to the first restart: whatever is cancelled, resumed or paused, and
\* whatever agents are switched off if each node has its own assigned to it.
THEOREM BlockedBehindFailed ==
  MaxAttempts = 1 => (Spec => [](Undisturbed => BlockedByFailure))
<1> SUFFICES ASSUME MaxAttempts = 1 PROVE Spec => [](Undisturbed => BlockedByFailure)
  OBVIOUS
<1> DEFINE J == Undisturbed => BlockedByFailure
           I == count \in Counts /\ (Undisturbed => StepInv /\ Spares)
<1>1. Init => J
  BY TaskNames DEF Init, BlockedByFailure
<1>2. J /\ I /\ [Next]_vars => J'
  <2> SUFFICES ASSUME J, I, [Next]_vars, Undisturbed' PROVE BlockedByFailure'
    OBVIOUS
  <2>1. Undisturbed /\ ~Restart
    BY CountsGoUp DEF Undisturbed, Ups
  <2>2. QED
    BY <2>1, BlockedKeeps
<1>3. Spec => []I
  BY StepInvariant
<1>4. QED
  BY <1>1, <1>2, <1>3, PTL DEF Spec

-----------------------------------------------------------------------------
(***************************************************************************)
(* Who moves a graph on.  A run that is being implemented has a merge      *)
(* queued or a task that carries it: one with a job that is not through    *)
(* (Carried).  A dispatch ends without a carrier but the dispatcher only   *)
(* if its loop had nothing to serve, and then there was another one when   *)
(* it looked (LoopServes): otherwise every open node is untouched, and the *)
(* least of them in the order of the dependencies is ready, because what   *)
(* stood behind a failure has just been blocked (NoneHopeless).  This      *)
(* needs that nobody is tried again, that no run is resumed, and that the  *)
(* runs do not wait for each other's agents.                               *)
(***************************************************************************)

AgentsOfRun ==
  \A m, n \in Nodes : RunOf[m] # RunOf[n] =>
    Pinned[m] # NoAgent /\ Pinned[n] # NoAgent /\ Pinned[m] # Pinned[n]

Carries(y) == job[y] # "none" /\ pc[y] # "ended"
Others(x) == { y \in Tasks : y # x /\ RunOfTask(y) = RunOfTask(x) /\ Carries(y) }

\* A node's thread gets to dispatch and to its end with a verdict on the node.
Through ==
  \A n \in Nodes :
    /\ pc[n] # "insert"
    /\ pc[n] \in {"chain", "dispatch", "ended"} /\ Alive(RunOf[n]) => node[n].status \in Closed

\* An open node that is not pending is with its thread, or waits for Ollama.
WithThread ==
  \A n \in Nodes : Alive(RunOf[n]) =>
    /\ node[n].status = "running" => pc[n] \in {"working", "raised"}
    /\ node[n].status = "waiting_ollama" => job[n] = "waiting"

\* A pending node without a job has never had one.
Untouched ==
  \A n \in Nodes : Alive(RunOf[n]) /\ node[n].status = "pending" /\ job[n] = "none"
    => node[n].agent = NoAgent \/ Assigned(n)

\* Nothing is left to do for a run that has failed.
FailedIsClosed ==
  \A r \in Runs : Alive(r) /\ "failed" \in {run[r].status, run[r].resume}
    => \A n \in NodesOf(r) : node[n].status \in Closed

FlowInv == StepInv /\ Through /\ WithThread /\ Untouched /\ FailedIsClosed

\* The steps that are neither a restart nor the resumption of a run.
Onward == [Next]_vars /\ ~Restart /\ \A r \in Runs : ~ResumeRun(r)

\* What becomes of a run.
RunMoves(r) ==
  \/ run'[r] = run[r]
  \/ /\ run'[r].status = "failed" /\ run'[r].resume = run[r].resume
     /\ \A n \in NodesOf(r) : node[n].status \in Closed
  \/ run'[r].status = "waiting_for_ollama" /\ run'[r].resume = run[r].status
  \/ /\ run'[r].status = run[r].resume /\ run'[r].resume = "researching"
     /\ r \in Paused /\ Recover
  \/ run'[r].status \in {"completed", "failed"} /\ run'[r].resume = run[r].resume
     /\ r \in merge /\ Alive(r)
  \/ run'[r].status = "cancelled"

LEMMA RunsMove ==
  ASSUME TypeOK, Onward, NEW r \in Runs
  PROVE  RunMoves(r)
<1> USE DEF TypeOK
<1>1. CASE UNCHANGED run
  BY <1>1 DEF RunMoves
<1>2. ASSUME NEW x \in Tasks, FailClosed(x) PROVE RunMoves(r)
  <2>1. \/ run' = run
        \/ run' = [run EXCEPT ![RunOfTask(x)].status = "failed"]
    BY <1>2 DEF FailClosed
  <2>2. \A n \in NodesOf(RunOfTask(x)) : node[n].status \in Closed
    BY <1>2 DEF FailClosed
  <2>3. CASE r = RunOfTask(x)
    BY <2>1, <2>2, <2>3 DEF RunMoves
  <2>4. CASE r # RunOfTask(x)
    BY <2>1, <2>4 DEF RunMoves
  <2>5. QED
    BY <2>3, <2>4
<1>3. ASSUME NEW x \in Tasks, Pause(x) PROVE RunMoves(r)
  <2> DEFINE q == RunOfTask(x)
  <2>1. \/ run' = run
        \/ run' = [run EXCEPT ![q] = [status |-> "waiting_for_ollama", resume |-> StatusOf(q)]]
    BY <1>3 DEF Pause
  <2>2. CASE r = q
    BY <2>1, <2>2 DEF RunMoves, StatusOf
  <2>3. CASE r # q
    BY <2>1, <2>3 DEF RunMoves
  <2>4. QED
    BY <2>2, <2>3
<1>4. CASE Recover
  <2>1. \/ run'[r] = run[r]
        \/ r \in Paused /\ run'[r] = [status |-> run[r].resume, resume |-> "researching"]
    BY <1>4 DEF Recover
  <2>2. QED
    BY <1>4, <2>1 DEF RunMoves
<1>5. ASSUME NEW q \in Runs, Merge(q) PROVE RunMoves(r)
  <2>1. PICK s \in {"completed", "failed"} :
          run' = IF ValidTransition(StatusOf(q), "verifying")
                   THEN [run EXCEPT ![q].status = s] ELSE run
    BY <1>5 DEF Merge
  <2>2. q \in merge
    BY <1>5 DEF Merge
  <2>3. ~ValidTransition("cancelled", "verifying")
    BY StatusTable
  <2>4. ValidTransition(StatusOf(q), "verifying") => Alive(q)
    BY <2>3 DEF Alive
  <2>5. CASE r = q /\ ValidTransition(StatusOf(q), "verifying")
    BY <2>1, <2>2, <2>4, <2>5 DEF RunMoves
  <2>6. CASE ~(r = q /\ ValidTransition(StatusOf(q), "verifying"))
    BY <2>1, <2>6 DEF RunMoves
  <2>7. QED
    BY <2>5, <2>6
<1>6. ASSUME NEW q \in Runs, CancelRun(q) PROVE RunMoves(r)
  BY <1>6 DEF CancelRun, RunMoves
<1>7. ASSUME NEW x \in Tasks, Claim(x) \/ Thread(x), ~FailClosed(x) PROVE UNCHANGED run
  <2>1. CASE Claim(x) \/ StartRun(x) \/ Finalize(x)
    BY <2>1 DEF Claim, StartRun, Finalize
  <2>2. CASE Run(x)
    BY <2>2 DEF Run, StartNode, Stage, Finish, Reject, Retry, GiveUp, InsertRetry
  <2>3. CASE Dispatch(x)
    BY <1>7, <2>3 DEF Dispatch, Block, QueueMerge, Look, Dispatched, PassOver,
                      FailUnserved, Assign, EnqueueNode
  <2>4. QED
    BY <1>7, <2>1, <2>2, <2>3 DEF Thread
<1>8. CASE World
  BY <1>1, <1>3, <1>6, <1>8 DEF World, CallRaises, ToggleAgent, Onward
<1>9. QED
  BY <1>1, <1>2, <1>4, <1>5, <1>7, <1>8 DEF Onward, Next, vars

\* A node's verdict stands.
LEMMA ClosedStays ==
  ASSUME FlowInv, Onward, Spares, MaxAttempts = 1, NEW n \in Nodes, Alive(RunOf[n])',
         node[n].status \in Closed
  PROVE  node'[n].status \in Closed
<1>1. TypeOK /\ RunOf[n] \in Runs
  BY TaskNames DEF FlowInv, StepInv, SchedulerInv
<1>2. CASE Dispatches
  BY <1>2, DispatchEffect DEF FlowInv, Dispatches, Closed
<1>3. CASE ~Dispatches
  <2>1. Moves(n) /\ Alive(RunOf[n])
    BY <1>1, <1>3, OtherSteps, CancelledStays DEF Onward
  <2>2. /\ pc[n] = "working" => node[n].status = "running"
        /\ Alive(RunOf[n]) /\ pc[n] \in {"start", "stage"} => node[n].status = "pending"
    BY DEF FlowInv, StepInv, InStep
  <2>3. ~TriesLeft(n)
    BY <1>1 DEF TriesLeft, TypeOK
  <2>4. QED
    BY <2>1, <2>2, <2>3 DEF Moves, Rests, IsClaimed, IsFinalized, Begins, IsStaged, Raises, Writes,
                      IsRefused, IsDropped, IsParked, IsReleased, Closed
<1>4. QED
  BY <1>2, <1>3

LEMMA FlowOther ==
  ASSUME FlowInv, Onward, Spares, MaxAttempts = 1, ~Dispatches
  PROVE  Through' /\ WithThread' /\ Untouched'
<1>0. TypeOK /\ UNCHANGED lock /\ (\A n \in Nodes : Moves(n)) /\ \A r \in Runs : Alive(r)' => Alive(r)
  BY OtherSteps, CancelledStays DEF FlowInv, StepInv, SchedulerInv, Onward
<1>1. ASSUME NEW n \in Nodes
      PROVE  /\ Moves(n) /\ ~TriesLeft(n) /\ pc[n] # "insert"
             /\ job[n] = "running" <=> pc[n] # "idle"
             /\ pc[n] = "working" => node[n].status = "running"
             /\ Alive(RunOf[n])' => Alive(RunOf[n])
             /\ Alive(RunOf[n]) =>
                  /\ pc[n] \in {"chain", "dispatch", "ended"} => node[n].status \in Closed
                  /\ StatusOf(RunOf[n]) = "failed" => node[n].status \in Closed
                  /\ node[n].status = "running" => pc[n] \in {"working", "raised"}
                  /\ node[n].status = "waiting_ollama" <=> job[n] = "waiting"
                  /\ job[n] = "pending" \/ pc[n] \in {"start", "stage"} => node[n].status = "pending"
  <2>1. Moves(n) /\ ~TriesLeft(n) /\ pc[n] # "insert" /\ (Alive(RunOf[n])' => Alive(RunOf[n]))
    BY <1>0, TaskNames DEF FlowInv, Through, TriesLeft, TypeOK
  <2>2. n \in NodesOf(RunOf[n]) /\ RunOf[n] \in Runs /\ (job[n] = "running" <=> pc[n] # "idle")
    BY <1>0, JobAndStep DEF NodesOf
  <2>3. StatusOf(RunOf[n]) = "failed" => node[n].status \in Closed
    BY <2>2 DEF FlowInv, FailedIsClosed, StatusOf, Alive
  <2>4. QED
    BY <2>1, <2>2, <2>3 DEF FlowInv, StepInv, InStep, Through, WithThread
<1>2. ASSUME NEW n \in Nodes
      PROVE  /\ pc'[n] # "insert"
             /\ Alive(RunOf[n])' =>
                  /\ pc'[n] \in {"chain", "dispatch", "ended"} => node'[n].status \in Closed
                  /\ node'[n].status = "running" => pc'[n] \in {"working", "raised"}
                  /\ node'[n].status = "waiting_ollama" => job'[n] = "waiting"
                  /\ node'[n].status = "pending" /\ job'[n] = "none"
                       => /\ node[n].status = "pending" /\ job[n] = "none"
                          /\ node'[n].agent = node[n].agent
  <2>1. CASE (Rests(n) /\ node'[n] = node[n]) \/ IsClaimed(n) \/ IsFinalized(n) \/ IsDropped(n)
    BY <1>1, <2>1 DEF Rests, IsClaimed, IsFinalized, IsDropped, Closed
  <2>2. CASE Begins(n) \/ IsStaged(n) \/ Raises(n)
    BY <1>1, <2>2 DEF Begins, IsStaged, Raises, Alive, Closed
  <2>3. CASE Writes(n) \/ IsRefused(n)
    BY <1>1, <2>3 DEF Writes, IsRefused, Closed
  <2>4. CASE IsParked(n) \/ IsReleased(n)
    BY <1>1, <2>4 DEF IsParked, IsReleased, Closed
  <2>5. QED
    BY <1>1, <2>1, <2>2, <2>3, <2>4 DEF Moves
<1>3. Through' /\ WithThread'
  BY <1>2 DEF Through, WithThread
<1>4. Untouched'
  BY <1>0, <1>1, <1>2 DEF FlowInv, Untouched, Assigned
<1>5. QED
  BY <1>3, <1>4

\* Only the node whose turn it is gets an agent, and then its job.
LEMMA TurnIsUnique ==
  ASSUME TypeOK, NEW m \in lock.view, NEW n \in lock.view,
         \A l \in lock.view : m <= l, \A l \in lock.view : n <= l
  PROVE  m = n
<1>1. m \in Nat /\ n \in Nat
  BY SchedulerAssumption DEF TypeOK
<1>2. m <= n /\ n <= m
  OBVIOUS
<1>3. QED
  BY <1>1, <1>2

LEMMA FlowDispatch ==
  ASSUME FlowInv, Onward, Spares, MaxAttempts = 1, NEW x \in Tasks, Dispatch(x)
  PROVE  Through' /\ WithThread' /\ Untouched'
<1>0. StepInv /\ TypeOK /\ \A r \in Runs : Alive(r)' => Alive(r)
  BY CancelledStays DEF FlowInv, StepInv, SchedulerInv, Onward
<1>1. pc[x] \in {"chain", "dispatch"}
  BY <1>0, TaskNames DEF Dispatch, Block, QueueMerge, FailClosed, Look, Looks, Dispatched,
              PassOver, FailUnserved, Assign, EnqueueNode, Turn, StepInv, SchedulerInv, TypeOK
<1>2. ASSUME NEW n \in Nodes
      PROVE  /\ job'[n] = job[n] \/ (n \in View /\ job[n] = "none" /\ job'[n] = "pending")
             /\ pc'[n] = pc[n] \/ (n = x /\ pc'[n] \in {"ended", "raised"})
             /\ pc[n] \in {"start", "stage", "working", "raised", "insert"} => pc'[n] = pc[n]
             /\ node'[n].status = node[n].status
                  \/ (~InUse(n) /\ node[n].status # "done" /\ node'[n].status \in {"blocked", "failed"})
             /\ Alive(RunOf[n])' => Alive(RunOf[n])
             /\ Alive(RunOf[n])' /\ node[n].status \in Closed => node'[n].status \in Closed
  BY <1>0, DispatchEffect, ClosedStays, TaskNames
<1>3. Through' /\ WithThread'
  <2>1. ASSUME NEW n \in Nodes
        PROVE  /\ pc'[n] # "insert"
               /\ Alive(RunOf[n])' =>
                    /\ pc'[n] \in {"chain", "dispatch", "ended"} => node'[n].status \in Closed
                    /\ node'[n].status = "running" => pc'[n] \in {"working", "raised"}
                    /\ node'[n].status = "waiting_ollama" => job'[n] = "waiting"
    <3>1. /\ pc[n] # "insert"
          /\ Alive(RunOf[n]) =>
               /\ pc[n] \in {"chain", "dispatch", "ended"} => node[n].status \in Closed
               /\ node[n].status = "running" => pc[n] \in {"working", "raised"}
               /\ node[n].status = "waiting_ollama" => job[n] = "waiting"
      BY DEF FlowInv, Through, WithThread
    <3>2. QED
      BY <1>1, <1>2, <3>1
  <2>2. QED
    BY <2>1 DEF Through, WithThread
<1>4. Untouched'
  <2>1. SUFFICES ASSUME NEW n \in Nodes, Alive(RunOf[n])', node'[n].status = "pending",
                        job'[n] = "none"
                 PROVE  node'[n].agent = NoAgent \/ Assigned(n)'
    BY DEF Untouched
  <2>2. node[n].agent = NoAgent \/ Assigned(n)
    BY <1>2, <2>1 DEF FlowInv, Untouched
  <2>3. CASE Block(x) \/ QueueMerge(x) \/ FailClosed(x) \/ Look(x) \/ Dispatched(x)
    <3>1. lock.phase # "enqueue" /\ node'[n].agent = node[n].agent
      BY <1>0, <2>3 DEF Block, QueueMerge, FailClosed, Look, Looks, Dispatched, TypeOK
    <3>2. QED
      BY <2>2, <3>1 DEF Assigned
  <2>4. ASSUME NEW m \in Nodes, PassOver(x, m) \/ FailUnserved(x, m)
        PROVE  node'[n].agent = NoAgent
    <3>1. lock.phase # "enqueue" /\ node'[n].agent = node[n].agent
      BY <1>0, <2>4 DEF PassOver, FailUnserved, Write, Turn, TypeOK
    <3>2. QED
      BY <2>2, <3>1 DEF Assigned
  <2>5. ASSUME NEW m \in Nodes, Assign(x, m) PROVE node'[n].agent = NoAgent \/ Assigned(n)'
    <3>1. PICK a \in Choices(m) :
            /\ node' = [node EXCEPT ![m].agent = a]
            /\ lock' = [lock EXCEPT !.phase = "enqueue", !.reserved = @ \cup {a}, !.slots = @ - 1]
      BY <2>5 DEF Assign
    <3>2. lock.phase = "assign" /\ m \in lock.view /\ \A l \in lock.view : m <= l
      BY <2>5 DEF Assign, Turn
    <3>3. lock'.phase = "enqueue" /\ lock'.view = lock.view
      BY <1>0, <3>1 DEF TypeOK
    <3>4. n # m => node'[n] = node[n]
      BY <1>0, <3>1 DEF TypeOK
    <3>5. QED
      BY <2>2, <3>2, <3>3, <3>4 DEF Assigned
  <2>6. ASSUME NEW m \in Nodes, EnqueueNode(x, m) PROVE node'[n].agent = NoAgent
    <3>1. UNCHANGED node /\ m \in lock.view /\ \A l \in lock.view : m <= l
      BY <2>6 DEF EnqueueNode
    <3>2. job'[m] # "none"
      BY <1>0, <2>6, TaskNames DEF EnqueueNode, Enqueue, TypeOK
    <3>3. n # m
      BY <2>1, <3>2
    <3>4. ~Assigned(n)
      BY <1>0, <3>1, <3>3, TurnIsUnique DEF Assigned
    <3>5. QED
      BY <2>2, <3>1, <3>4
  <2>7. QED
    BY <2>3, <2>4, <2>5, <2>6 DEF Dispatch
<1>5. QED
  BY <1>3, <1>4

LEMMA FlowKeeps ==
  ASSUME FlowInv, Onward, Spares, MaxAttempts = 1, SchedulerInv'
  PROVE  FlowInv'
<1>0. /\ StepInv /\ TypeOK /\ Whole /\ [Next]_vars /\ ~Restart
      /\ \A r \in Runs : Alive(r)' => Alive(r)
  BY CancelledStays DEF FlowInv, StepInv, SchedulerInv, Onward
<1>1. StepInv'
  BY <1>0, StepKeeps
<1>2. Through' /\ WithThread' /\ Untouched'
  BY FlowOther, FlowDispatch DEF Dispatches
<1>3. FailedIsClosed'
  <2>1. SUFFICES ASSUME NEW r \in Runs, Alive(r)', "failed" \in {run'[r].status, run'[r].resume},
                        NEW n \in NodesOf(r)
                 PROVE  node'[n].status \in Closed
    BY DEF FailedIsClosed
  <2>2. Alive(r) /\ n \in Nodes /\ RunOf[n] = r /\ RunMoves(r) /\ run'[r].status # "cancelled"
    BY <1>0, <2>1, RunsMove DEF NodesOf, Alive, StatusOf
  <2>3. "failed" \in {run[r].status, run[r].resume} => node[n].status \in Closed
    BY <2>1, <2>2 DEF FlowInv, FailedIsClosed
  <2>4. r \in merge => node[n].status \in Closed
    BY <1>0, <2>1, <2>2 DEF Whole, Merging, Closed
  <2>5. node[n].status \in Closed
    BY <2>1, <2>2, <2>3, <2>4 DEF RunMoves
  <2>6. QED
    BY <2>1, <2>2, <2>5, ClosedStays
<1>4. QED
  BY <1>1, <1>2, <1>3 DEF FlowInv

LEMMA FlowInit == Init => FlowInv
<1> SUFFICES ASSUME Init PROVE FlowInv
  OBVIOUS
<1>1. /\ \A n \in Nodes : /\ pc[n] = "idle" /\ node[n].status = "pending"
                          /\ node[n].agent = NoAgent
      /\ \A r \in Runs : run[r].status = "implementing" /\ run[r].resume = "researching"
  BY TaskNames DEF Init
<1>2. QED
  BY <1>1, StepInit DEF FlowInv, Through, WithThread, Untouched, FailedIsClosed

\* Who carries a graph goes on with it, until it dispatches.
LEMMA RunCarries ==
  ASSUME TypeOK, Onward, NEW r \in Runs, Carries(r), ~Dispatch(r), Alive(r)'
  PROVE  Carries(r)'
<1> USE DEF Carries, TypeOK
<1>0. r \in Tasks /\ r \notin Nodes /\ RunOfTask(r) = r /\ (job[r] = "running" <=> pc[r] # "idle")
  BY TaskNames
<1>1. CASE UNCHANGED <<job, pc>>
  BY <1>1
<1>2. ASSUME NEW x \in Tasks, Claim(x) \/ Finalize(x) PROVE Carries(r)'
  BY <1>0, <1>2 DEF Claim, Finalize, Go
<1>3. ASSUME NEW x \in Tasks, StartRun(x) PROVE Carries(r)'
  BY <1>0, <1>3 DEF StartRun, Go, Alive, StatusOf
<1>4. ASSUME NEW x \in Tasks, Run(x) \/ CallRaises(x) PROVE Carries(r)'
  <2>1. x \in Nodes /\ x # r
    BY <1>0, <1>4 DEF Run, StartNode, Stage, Finish, Reject, Retry, GiveUp, InsertRetry, CallRaises
  <2>2. pc'[r] = pc[r] /\ job'[r] = job[r]
    BY <1>0, <1>4, <2>1 DEF Run, StartNode, Stage, Finish, Reject, Retry, GiveUp, InsertRetry,
                            CallRaises, Go, Enqueue
  <2>3. QED
    BY <2>2
<1>5. ASSUME NEW x \in Tasks, Dispatch(x) PROVE Carries(r)'
  <2>1. x # r
    BY <1>5
  <2>2. pc'[r] = pc[r]
    BY <1>0, <1>5, <2>1 DEF Dispatch, Block, QueueMerge, FailClosed, Look, Dispatched, PassOver,
                            FailUnserved, Assign, EnqueueNode, Go
  <2>3. job' = job \/ \E n \in Nodes : Enqueue(n)
    BY <1>5 DEF Dispatch, Block, QueueMerge, FailClosed, Look, Dispatched, PassOver,
                FailUnserved, Assign, EnqueueNode
  <2>4. job'[r] = job[r]
    BY <1>0, <2>3 DEF Enqueue
  <2>5. QED
    BY <2>2, <2>4
<1>6. ASSUME NEW x \in Tasks, Pause(x) PROVE Carries(r)'
  BY <1>0, <1>6 DEF Pause, Go
<1>7. CASE Recover
  BY <1>0, <1>7 DEF Recover
<1>8. ASSUME NEW q \in Runs, CancelRun(q) PROVE Carries(r)'
  BY <1>0, <1>8 DEF CancelRun, Alive, StatusOf
<1>9. ASSUME NEW x \in Tasks, Claim(x) \/ Thread(x) PROVE Carries(r)'
  BY <1>2, <1>3, <1>4, <1>5, <1>9 DEF Thread
<1>10. CASE World
  BY <1>1, <1>4, <1>6, <1>8, <1>10, TaskNames DEF World, ToggleAgent, Onward
<1>11. QED
  BY <1>1, <1>7, <1>9, <1>10 DEF Onward, Next, vars, Merge

LEMMA NodeCarries ==
  ASSUME FlowInv, Onward, Spares, NEW y \in Nodes, Carries(y), ~Dispatch(y), Alive(RunOf[y])'
  PROVE  Carries(y)'
<1>0. /\ StepInv /\ TypeOK /\ y \in Tasks /\ Alive(RunOf[y]) /\ y \in NodesOf(RunOf[y])
      /\ RunOf[y] \in Runs
  BY CancelledStays, TaskNames DEF FlowInv, StepInv, SchedulerInv, Onward, NodesOf
<1>1. CASE Dispatches
  <2>1. PICK x \in Tasks : Dispatch(x) /\ x # y
    BY <1>1 DEF Dispatches
  <2>2. /\ job'[y] = job[y] \/ job'[y] = "pending"
        /\ pc'[y] = pc[y]
    BY <1>0, <2>1, DispatchEffect
  <2>3. QED
    BY <2>2 DEF Carries
<1>2. CASE ~Dispatches
  <2>1. Moves(y) /\ (job[y] = "running" <=> pc[y] # "idle")
    BY <1>0, <1>2, OtherSteps DEF Onward, TypeOK
  <2>2. pc[y] # "insert"
    BY DEF FlowInv, Through
  <2>3. pc[y] = "start" => StatusOf(RunOf[y]) \notin {"cancelled", "failed"}
    <3>1. pc[y] = "start" => node[y].status = "pending"
      BY <1>0 DEF StepInv, InStep
    <3>2. StatusOf(RunOf[y]) = "failed" => node[y].status \in Closed
      BY <1>0 DEF FlowInv, FailedIsClosed, StatusOf
    <3>3. QED
      BY <1>0, <3>1, <3>2 DEF Closed, Alive
  <2>4. QED
    BY <2>1, <2>2, <2>3 DEF Carries, Moves, Rests, IsClaimed, IsFinalized, Begins, IsStaged,
                            Raises, Writes, IsRefused, IsDropped, IsParked, IsReleased
<1>3. QED
  BY <1>1, <1>2

LEMMA CarrierStays ==
  ASSUME FlowInv, Onward, Spares, NEW y \in Tasks, Carries(y), ~Dispatch(y), Alive(RunOfTask(y))'
  PROVE  Carries(y)'
<1>1. TypeOK
  BY DEF FlowInv, StepInv, SchedulerInv
<1>2. CASE y \in Nodes
  BY <1>2, NodeCarries, TaskNames
<1>3. CASE y \in Runs
  BY <1>1, <1>3, RunCarries, TaskNames
<1>4. QED
  BY <1>2, <1>3 DEF Tasks

\* While somebody dispatches, nobody else does.
LEMMA OthersStay ==
  ASSUME FlowInv, Onward, Spares, NEW x \in Tasks, \A y \in Tasks : y # x => ~Dispatch(y),
         Others(x) # {}, Alive(RunOfTask(x))'
  PROVE  Others(x)' # {}
<1>1. PICK y \in Tasks : y # x /\ RunOfTask(y) = RunOfTask(x) /\ Carries(y)
  BY DEF Others
<1>2. Carries(y)'
  BY <1>1, CarrierStays
<1>3. QED
  BY <1>1, <1>2 DEF Others

\* A node nobody but the dispatcher could move rests.
LEMMA Still ==
  ASSUME FlowInv, Onward, ~Dispatches, NEW x \in Tasks, lock.holder = x, Others(x) = {},
         Alive(RunOfTask(x))', NEW n \in NodesOf(RunOfTask(x))
  PROVE  node'[n].status = node[n].status
<1>0. /\ StepInv /\ TypeOK /\ n \in Nodes /\ n \in Tasks /\ RunOf[n] = RunOfTask(x)
      /\ RunOfTask(n) = RunOfTask(x) /\ RunOf[n] \in Runs
  BY TaskNames DEF FlowInv, StepInv, SchedulerInv, NodesOf
<1>1. Moves(n) /\ Alive(RunOf[n])
  BY <1>0, OtherSteps, CancelledStays DEF Onward
<1>2. CASE n = x
  <2>1. pc[n] \in {"chain", "dispatch"} /\ job[n] = "running"
    BY <1>0, <1>2, TaskNames DEF TypeOK
  <2>2. node[n].status \in Closed
    BY <1>0, <1>1, <2>1 DEF FlowInv, Through
  <2>3. QED
    BY <1>0, <1>1, <2>1, <2>2 DEF Closed, Moves, Rests, IsClaimed, IsFinalized, Begins, IsStaged,
                            Raises, Writes, IsRefused, IsDropped, IsParked, IsReleased
<1>3. CASE n # x
  <2>1. ~Carries(n)
    BY <1>0, <1>3 DEF Others
  <2>2. (job[n] = "running" <=> pc[n] # "idle") /\ (node[n].status = "waiting_ollama" => job[n] = "waiting")
    BY <1>0, <1>1 DEF TypeOK, FlowInv, WithThread
  <2>3. QED
    BY <1>0, <1>1, <2>1, <2>2 DEF Carries, Moves, Rests, IsClaimed, IsFinalized, Begins, IsStaged,
                            Raises, Writes, IsRefused, IsDropped, IsParked, IsReleased
<1>4. QED
  BY <1>2, <1>3

Lively == lock.holder # Nobody /\ Alive(RunOfTask(lock.holder))

\* The dispatcher is not among the nodes it serves.
HolderOut == Lively => lock.holder \notin View

NoneHopeless ==
  Lively /\ lock.phase = "look" =>
    \/ Others(lock.holder) # {}
    \/ \A n \in NodesOf(RunOfTask(lock.holder)) : node[n].status = "pending" =>
         TransitiveDeps[n] \cap Failed(RunOfTask(lock.holder)) = {}

\* The loop has a node to serve: none of them is passed over.
CanServe ==
  /\ lock.view # {} /\ lock.slots > 0
  /\ \A n \in lock.view : ~PinReserved(n) /\ (Pinned[n] = NoAgent => lock.reserved = {})

LoopServes ==
  Lively /\ lock.phase = "assign" => Others(lock.holder) # {} \/ CanServe

Carried ==
  \A r \in Runs : StatusOf(r) = "implementing" =>
    r \in merge \/ \E y \in NodesOf(r) \cup {r} : Carries(y)

GraphInv == FlowInv /\ HolderOut /\ NoneHopeless /\ LoopServes /\ Carried

\* A dispatcher nobody else carries the graph with finds every open node untouched.
LEMMA LoneOpen ==
  ASSUME FlowInv, NEW x \in Tasks, Looks(x), Alive(RunOfTask(x)), Others(x) = {},
         NEW n \in NodesOf(RunOfTask(x)), node[n].status \notin Closed
  PROVE  node[n].status = "pending" /\ job[n] = "none" /\ node[n].agent = NoAgent
<1>0. /\ StepInv /\ TypeOK /\ n \in Nodes /\ n \in Tasks /\ RunOf[n] = RunOfTask(x)
      /\ RunOfTask(n) = RunOfTask(x)
  BY TaskNames DEF FlowInv, StepInv, SchedulerInv, NodesOf
<1>1. pc[n] \notin {"chain", "dispatch", "ended"}
  BY <1>0 DEF FlowInv, Through
<1>2. n # x
  BY <1>0, <1>1, TaskNames DEF Looks, TypeOK
<1>3. ~Carries(n)
  BY <1>0, <1>2 DEF Others
<1>4. job[n] = "none" /\ pc[n] = "idle"
  BY <1>0, <1>1, <1>3 DEF Carries, TypeOK
<1>5. node[n].status = "pending"
  BY <1>0, <1>4 DEF FlowInv, WithThread, TypeOK, Live
<1>6. ~Assigned(n)
  BY DEF Looks, Assigned
<1>7. QED
  BY <1>0, <1>4, <1>5, <1>6 DEF FlowInv, Untouched

\* Then the least of them is ready,
LEMMA LoneReady ==
  ASSUME FlowInv, NEW x \in Tasks, Looks(x), Alive(RunOfTask(x)), Others(x) = {}, NoneHopeless,
         NEW o \in NodesOf(RunOfTask(x)), node[o].status \notin Closed
  PROVE  Ready(RunOfTask(x)) # {}
<1> DEFINE r == RunOfTask(x)
           S == { n \in NodesOf(r) : node[n].status \notin Closed }
<1>1. S \in SUBSET Nodes /\ S # {}
  BY DEF NodesOf
<1>2. PICK n \in S : Deps[n] \cap S = {}
  BY <1>1, SchedulerAssumption
<1>3. n \in Nodes /\ RunOf[n] = r /\ node[n].status = "pending"
  BY <1>2, LoneOpen DEF NodesOf
<1>4. TransitiveDeps[n] \cap Failed(r) = {}
  BY <1>2, <1>3, TaskNames DEF NoneHopeless, Looks, Lively
<1>5. ASSUME NEW d \in Deps[n] PROVE node[d].status = "done"
  <2>1. d \in NodesOf(r) /\ d \in TransitiveDeps[n]
    BY <1>3, TaskNames, TransitiveDepsUnfold DEF NodesOf
  <2>2. node[d].status \in Closed
    BY <1>2, <2>1
  <2>3. d \notin Failed(r)
    BY <1>4, <2>1
  <2>4. QED
    BY <2>1, <2>2, <2>3 DEF Failed, Closed
<1>6. n \in Ready(r)
  BY <1>2, <1>3, <1>5 DEF Ready
<1>7. QED
  BY <1>6

\* and no agent it could want is reserved.
LEMMA LoneAgents ==
  ASSUME FlowInv, AllPinned => PinInv, AgentsOfRun, NEW x \in Tasks, Looks(x),
         Alive(RunOfTask(x)), Others(x) = {}, NEW n \in NodesOf(RunOfTask(x)),
         Pinned[n] = NoAgent \/ Pinned[n] \in Reserved(RunOfTask(x))
  PROVE  Pinned[n] = NoAgent /\ Reserved(RunOfTask(x)) = {}
<1> DEFINE r == RunOfTask(x)
<1>1. ASSUME NEW a \in Reserved(r)
      PROVE  \E m \in Nodes : RunOf[m] # r /\ node[m].agent = a /\ a # NoAgent
  <2>1. PICK m \in Nodes : /\ node[m].status \in Live /\ node[m].agent = a /\ a # NoAgent
                           /\ RunOf[m] = r \/ job[m] # "none"
    BY DEF Reserved
  <2>2. ASSUME RunOf[m] = r PROVE FALSE
    <3>1. m \in NodesOf(r) /\ node[m].status \notin Closed
      BY <2>1, <2>2 DEF NodesOf, Live, Closed
    <3>2. QED
      BY <2>1, <3>1, LoneOpen
  <2>3. QED
    BY <2>1, <2>2
<1>2. n \in Nodes /\ RunOf[n] = r
  BY DEF NodesOf
<1>3. ASSUME NEW m \in Nodes, RunOf[m] # r
      PROVE  Pinned[n] # NoAgent /\ node[m].agent \in {NoAgent, Pinned[m]} /\ Pinned[m] # Pinned[n]
  <2>1. AllPinned
    BY <1>2, <1>3 DEF AllPinned, AgentsOfRun
  <2>2. OwnAgent
    BY <2>1 DEF PinInv
  <2>3. QED
    BY <1>2, <1>3, <2>1, <2>2 DEF OwnAgent, AllPinned, AgentsOfRun
<1>4. Pinned[n] \notin Reserved(r)
  BY <1>1, <1>3
<1>5. Pinned[n] = NoAgent
  BY <1>4
<1>6. QED
  BY <1>1, <1>3, <1>5

LEMMA LoneLook ==
  ASSUME FlowInv, AllPinned => PinInv, AgentsOfRun, NEW x \in Tasks, Look(x),
         Alive(RunOfTask(x)), Others(x) = {}, NoneHopeless
  PROVE  CanServe'
<1> DEFINE r == RunOfTask(x)
           active == { n \in NodesOf(r) : node[n].status \in {"running", "waiting_ollama"} }
<1>0. TypeOK
  BY DEF FlowInv, StepInv, SchedulerInv
<1>1. /\ Looks(x)
      /\ lock' = [lock EXCEPT !.phase = "assign", !.view = Ready(r), !.reserved = Reserved(r),
                              !.slots = IF Cardinality(active) < PoolSize
                                          THEN PoolSize - Cardinality(active) ELSE 0]
  BY DEF Look
<1>2. PICK o \in NodesOf(r) : node[o].status \notin Closed
  BY DEF Look
<1>3. active = {}
  BY <1>1, LoneOpen DEF Closed
<1>4. Cardinality(active) = 0
  BY <1>3, FS_EmptySet
<1>5. lock'.view = Ready(r) /\ lock'.reserved = Reserved(r) /\ lock'.slots = PoolSize
  <2> HIDE DEF active
  <2>1. PoolSize \in Nat \ {0}
    BY SchedulerAssumption
  <2>2. QED
    BY <1>0, <1>1, <1>4, <2>1 DEF TypeOK
<1>6. Ready(r) # {} /\ Ready(r) \subseteq NodesOf(r)
  BY <1>1, <1>2, LoneReady DEF Ready
<1>7. \A n \in Ready(r) : /\ Pinned[n] = NoAgent \/ Pinned[n] \notin Reserved(r)
                          /\ Pinned[n] = NoAgent => Reserved(r) = {}
  BY <1>1, <1>6, LoneAgents
<1>8. PoolSize > 0
  BY SchedulerAssumption
<1>9. QED
  BY <1>5, <1>6, <1>7, <1>8 DEF CanServe, PinReserved

\* A step that is not the dispatch's leaves it what it had to go on with.
LEMMA OtherKeepsGraph ==
  ASSUME GraphInv, Onward, Spares, ~Dispatches
  PROVE  HolderOut' /\ NoneHopeless' /\ LoopServes'
<1> USE DEF GraphInv
<1> DEFINE x == lock.holder
           r == RunOfTask(x)
<1>0. TypeOK /\ UNCHANGED lock /\ View' = View
  BY OtherSteps DEF FlowInv, StepInv, SchedulerInv, Onward, View, Dispatching
<1>1. ASSUME Lively' PROVE Lively /\ x \in Tasks /\ r \in Runs /\ Alive(r)'
  <2>1. x \in Tasks /\ r \in Runs
    BY <1>0, <1>1, TaskNames DEF Lively, TypeOK
  <2>2. Alive(r)'
    BY <1>0, <1>1 DEF Lively
  <2>3. QED
    BY <1>0, <1>1, <2>1, <2>2, CancelledStays DEF Lively, Onward
<1>2. HolderOut'
  BY <1>0, <1>1 DEF HolderOut
<1>3. ASSUME Lively', Others(x) # {} PROVE Others(lock.holder)' # {}
  BY <1>0, <1>1, <1>3, OthersStay DEF Dispatches
<1>4. LoopServes'
  BY <1>0, <1>1, <1>3 DEF LoopServes, CanServe, PinReserved
<1>5. NoneHopeless'
  <2>1. SUFFICES ASSUME Lively', lock.phase = "look", Others(x) = {}
                 PROVE  \A n \in NodesOf(r) : node'[n].status = "pending" =>
                          TransitiveDeps[n] \cap { d \in NodesOf(r) :
                            node'[d].status \in {"failed", "blocked"} } = {}
    BY <1>0, <1>3 DEF NoneHopeless, Failed
  <2>2. \A n \in NodesOf(r) : node'[n].status = node[n].status
    BY <1>0, <1>1, <2>1, Still
  <2>3. \A n \in NodesOf(r) : node[n].status = "pending" => TransitiveDeps[n] \cap Failed(r) = {}
    BY <1>1, <2>1 DEF NoneHopeless
  <2>4. QED
    BY <2>2, <2>3 DEF Failed
<1>6. QED
  BY <1>2, <1>4, <1>5

\* What is blocked is all that is behind a failed node.
LEMMA BlockKeepsGraph ==
  ASSUME GraphInv, NEW x \in Tasks, Block(x)
  PROVE  HolderOut' /\ NoneHopeless' /\ LoopServes'
<1> DEFINE r == RunOfTask(x)
<1>1. lock'.holder = x /\ lock'.phase = "look" /\ View' = {}
  BY DEF Block, Free, View, Dispatching
<1>2. TypeOK /\ StepInv
  BY DEF GraphInv, FlowInv, StepInv, SchedulerInv
<1>3. ASSUME NEW n \in NodesOf(r), node'[n].status = "pending", NEW d \in TransitiveDeps[n],
             node'[d].status \in {"failed", "blocked"}
      PROVE  FALSE
  <2>1. n \in Nodes /\ RunOf[n] = r /\ d \in Nodes /\ RunOf[d] = r
    BY TransitiveDepsOfRun DEF NodesOf
  <2>2. node'[n] = node[n]
    BY <1>2, <1>3, <2>1, BlockSparesUsed
  <2>3. TransitiveDeps[n] \cap Failed(r) = {}
    BY <1>2, <1>3, <2>1, <2>2 DEF Block
  <2>4. node'[d] # node[d]
    BY <1>3, <2>1, <2>3 DEF Failed, NodesOf
  <2>5. TransitiveDeps[d] \cap Failed(r) # {}
    BY <1>2, <2>1, <2>4, BlockSparesUsed
  <2>6. TransitiveDeps[d] \subseteq TransitiveDeps[n]
    BY <2>1, TransitiveDepsTransitive
  <2>7. QED
    BY <2>3, <2>5, <2>6
<1>4. NoneHopeless'
  <2>1. \A n \in NodesOf(r) : node'[n].status = "pending" => TransitiveDeps[n] \cap Failed(r)' = {}
    BY <1>3 DEF Failed
  <2>2. QED
    BY <1>1, <2>1 DEF NoneHopeless
<1>5. QED
  BY <1>1, <1>4 DEF HolderOut, LoopServes

\* A node whose turn it is has a job to come, and so is a carrier.
LEMMA EnqueueGivesCarrier ==
  ASSUME GraphInv, NEW x \in Tasks, NEW n \in Nodes, EnqueueNode(x, n), Alive(RunOfTask(x))
  PROVE  Others(x)' # {}
<1>0. /\ FlowInv /\ StepInv /\ SchedulerInv /\ TypeOK /\ x # Nobody /\ n \in Tasks
      /\ RunOfTask(n) = RunOf[n]
  BY TaskNames DEF GraphInv, FlowInv, StepInv, SchedulerInv
<1>1. n \in View /\ lock.holder = x
  BY DEF EnqueueNode, View, Dispatching
<1>2. RunOf[n] = RunOfTask(x)
  BY <1>0, <1>1 DEF SchedulerInv, Locked
<1>3. n # x
  BY <1>0, <1>1 DEF GraphInv, HolderOut, Lively
<1>4. pc[n] # "ended"
  BY <1>0, <1>1, <1>2 DEF StepInv, OpenView, FlowInv, Through, Closed
<1>5. job'[n] # "none" /\ pc'[n] = pc[n]
  BY <1>0 DEF EnqueueNode, Enqueue, TypeOK
<1>6. n \in Others(x)'
  BY <1>0, <1>2, <1>3, <1>4, <1>5 DEF Others, Carries
<1>7. QED
  BY <1>6

LEMMA DispatchKeepsGraph ==
  ASSUME GraphInv, AllPinned => PinInv, AgentsOfRun, Onward, Spares, NEW x \in Tasks, Dispatch(x)
  PROVE  HolderOut' /\ NoneHopeless' /\ LoopServes'
<1>0. FlowInv /\ TypeOK /\ x # Nobody /\ RunOfTask(x) \in Runs
      /\ (Alive(RunOfTask(x))' => Alive(RunOfTask(x)))
  BY TaskNames, CancelledStays DEF GraphInv, FlowInv, StepInv, SchedulerInv, Onward
<1>1. CASE Block(x)
  BY <1>1, BlockKeepsGraph
<1>2. CASE QueueMerge(x) \/ FailClosed(x) \/ Dispatched(x)
  <2>1. lock'.holder = Nobody
    BY <1>2 DEF QueueMerge, FailClosed, Dispatched, Free
  <2>2. QED
    BY <2>1 DEF HolderOut, NoneHopeless, LoopServes, Lively
<1>3. CASE Look(x)
  <2>1. /\ UNCHANGED <<run, node, job, pc>> /\ lock.holder = x /\ lock'.holder = x
        /\ lock'.phase = "assign" /\ View' = Ready(RunOfTask(x))
    BY <1>0, <1>3 DEF Look, Looks, View, Dispatching, TypeOK
  <2>2. Alive(RunOfTask(x))' => x \notin Ready(RunOfTask(x))
    <3>1. pc[x] \in {"chain", "dispatch"}
      BY <1>0, <2>1 DEF TypeOK
    <3>2. QED
      BY <1>0, <3>1, TaskNames DEF Ready, NodesOf, FlowInv, Through, Closed
  <2>3. Others(x)' = Others(x)
    BY <2>1 DEF Others, Carries
  <2>4. Alive(RunOfTask(x)) /\ Others(x) = {} => CanServe'
    BY <1>0, <1>3, LoneLook DEF GraphInv
  <2>5. HolderOut' /\ NoneHopeless'
    BY <2>1, <2>2 DEF HolderOut, NoneHopeless, Lively
  <2>6. LoopServes'
    BY <1>0, <2>1, <2>3, <2>4 DEF LoopServes, Lively
  <2>7. QED
    BY <2>5, <2>6
<1>4. ASSUME NEW n \in Nodes, FailUnserved(x, n) \/ Assign(x, n)
      PROVE  HolderOut' /\ NoneHopeless' /\ LoopServes'
  <2>1. /\ lock.holder = x /\ lock'.holder = x /\ lock'.phase \in {"block", "enqueue"}
        /\ View' \subseteq View /\ UNCHANGED run
    <3>1. CASE FailUnserved(x, n)
      BY <1>0, <3>1 DEF FailUnserved, Turn, TypeOK, View, Dispatching
    <3>2. CASE Assign(x, n)
      <4>1. PICK a : lock' = [lock EXCEPT !.phase = "enqueue", !.reserved = @ \cup {a},
                                          !.slots = @ - 1]
        BY <3>2 DEF Assign
      <4>2. QED
        BY <1>0, <3>2, <4>1 DEF Assign, Turn, TypeOK, View, Dispatching
    <3>3. QED
      BY <1>4, <3>1, <3>2
  <2>2. QED
    BY <1>0, <2>1 DEF GraphInv, HolderOut, NoneHopeless, LoopServes, Lively
<1>5. ASSUME NEW n \in Nodes, PassOver(x, n)
      PROVE  HolderOut' /\ NoneHopeless' /\ LoopServes'
  <2>1. /\ lock.holder = x /\ lock'.holder = x /\ lock.phase = "assign" /\ lock'.phase = "assign"
        /\ View' \subseteq View /\ UNCHANGED <<run, job, pc>>
    BY <1>0, <1>5 DEF PassOver, Turn, TypeOK, View, Dispatching
  <2>2. ~CanServe
    <3>1. SUFFICES ASSUME CanServe PROVE FALSE
      OBVIOUS
    <3>2. /\ ~PinReserved(n) /\ (Pinned[n] = NoAgent => lock.reserved = {})
          /\ ~Unserved(n) /\ enabled \ lock.reserved = {}
      BY <1>5, <3>1 DEF PassOver, Turn, CanServe
    <3>3. QED
      BY <3>2 DEF PinReserved, Unserved
  <2>3. Others(x)' = Others(x)
    BY <2>1 DEF Others, Carries
  <2>4. QED
    BY <1>0, <2>1, <2>2, <2>3 DEF GraphInv, HolderOut, NoneHopeless, LoopServes, Lively
<1>6. ASSUME NEW n \in Nodes, EnqueueNode(x, n)
      PROVE  HolderOut' /\ NoneHopeless' /\ LoopServes'
  <2>1. /\ lock.holder = x /\ lock'.holder = x /\ lock'.phase = "assign"
        /\ View' \subseteq View /\ UNCHANGED run
    BY <1>0, <1>6 DEF EnqueueNode, TypeOK, View, Dispatching
  <2>2. Alive(RunOfTask(x)) => Others(x)' # {}
    BY <1>6, EnqueueGivesCarrier
  <2>3. QED
    BY <1>0, <2>1, <2>2 DEF GraphInv, HolderOut, NoneHopeless, LoopServes, Lively
<1>7. QED
  BY <1>1, <1>2, <1>3, <1>4, <1>5, <1>6 DEF Dispatch

\* The dispatcher leaves a carrier or a merge behind, or goes on itself.
LEMMA DispatchCarries ==
  ASSUME GraphInv, Onward, Spares, NEW x \in Tasks, Dispatch(x),
         StatusOf(RunOfTask(x))' = "implementing", RunOfTask(x) \notin merge'
  PROVE  \E y \in Tasks : RunOfTask(y) = RunOfTask(x) /\ Carries(y)'
<1> DEFINE r == RunOfTask(x)
<1>0. /\ FlowInv /\ TypeOK /\ RunsReach /\ x # Nobody /\ r \in Runs /\ Alive(r)' /\ Alive(r)
  BY TaskNames, CancelledStays
  DEF GraphInv, FlowInv, StepInv, SchedulerInv, Onward, Alive
<1>1. pc[x] \in {"chain", "dispatch"} /\ job[x] = "running"
  BY <1>0 DEF Dispatch, Block, QueueMerge, FailClosed, Look, Looks, Dispatched, PassOver,
              FailUnserved, Assign, EnqueueNode, Turn, TypeOK
<1>2. job'[x] = "running"
  <2>1. UNCHANGED job \/ \E n \in Nodes : Enqueue(n)
    BY DEF Dispatch, Block, QueueMerge, FailClosed, Look, Dispatched, PassOver, FailUnserved,
           Assign, EnqueueNode
  <2>2. QED
    BY <1>0, <1>1, <2>1 DEF Enqueue, TypeOK
<1>3. CASE UNCHANGED pc
  BY <1>1, <1>2, <1>3 DEF Carries
<1>4. CASE QueueMerge(x)
  BY <1>4 DEF QueueMerge
<1>5. CASE FailClosed(x)
  <2>1. ~ValidTransition(StatusOf(r), "failed")
    BY <1>0, <1>5 DEF FailClosed, StatusOf, TypeOK
  <2>2. UNCHANGED run
    BY <1>5, <2>1 DEF FailClosed
  <2>3. StatusOf(r) = "implementing"
    BY <2>2 DEF StatusOf
  <2>4. QED
    BY <2>1, <2>3, StatusTable
<1>6. CASE Dispatched(x)
  <2>1. lock.holder = x /\ lock.phase = "assign" /\ ~CanServe
    BY <1>6, <1>0 DEF Dispatched, CanServe
  <2>2. Others(x) # {}
    BY <1>0, <2>1 DEF GraphInv, LoopServes, Lively
  <2>3. \A y \in Tasks : y # x => ~Dispatch(y)
    BY <1>0, <2>1 DEF Dispatch, Block, QueueMerge, FailClosed, Look, Looks, Dispatched, PassOver,
                      FailUnserved, Assign, EnqueueNode, Turn
  <2>4. Others(x)' # {}
    BY <1>0, <2>2, <2>3, OthersStay
  <2>5. QED
    BY <2>4 DEF Others
<1>7. QED
  BY <1>3, <1>4, <1>5, <1>6 DEF Dispatch, Block, Look, PassOver, FailUnserved, Assign, EnqueueNode

LEMMA CarriedStays ==
  ASSUME GraphInv, Onward, Spares
  PROVE  Carried'
<1>0. FlowInv /\ TypeOK /\ SchedulerInv /\ [Next]_vars
  BY DEF GraphInv, FlowInv, StepInv, SchedulerInv, Onward
<1>1. SUFFICES ASSUME NEW r \in Runs, StatusOf(r)' = "implementing", r \notin merge'
               PROVE  \E y \in Tasks : RunOfTask(y) = r /\ Carries(y)'
  <2>1. \A r \in Runs : \A y \in Tasks : RunOfTask(y) = r => y \in NodesOf(r) \cup {r}
    BY DEF Tasks, RunOfTask, NodesOf
  <2>2. QED
    BY <1>1, <2>1 DEF Carried
<1>2. RunMoves(r) /\ Alive(r)'
  BY <1>0, <1>1, RunsMove DEF Alive
<1>3. CASE run'[r].status = run[r].resume /\ r \in Paused /\ Recover
  <2>1. PICK y \in Tasks : RunOfTask(y) = r /\ job[y] = "waiting"
    BY <1>3 DEF Paused
  <2>2. pc[y] = "idle" /\ job'[y] = "pending" /\ pc'[y] = pc[y]
    BY <1>0, <1>3, <2>1 DEF Recover, TypeOK
  <2>3. QED
    BY <2>1, <2>2 DEF Carries
<1>4. CASE run'[r] = run[r]
  <2>1. StatusOf(r) = "implementing"
    BY <1>1, <1>4 DEF StatusOf
  <2>2. r \notin merge
    <3>1. SUFFICES ASSUME r \in merge PROVE r \in merge'
      BY <1>1
    <3>2. ASSUME NEW q \in Runs, Merge(q) PROVE r \in merge'
      <4>1. ValidTransition("implementing", "verifying")
        BY DEF ValidTransition, AllowedTransitions
      <4>2. q # r
        BY <1>0, <1>1, <2>1, <3>2, <4>1 DEF Merge, StatusOf, TypeOK
      <4>3. QED
        BY <3>1, <3>2, <4>2 DEF Merge
    <3>3. ASSUME NEW q \in Runs, CancelRun(q) PROVE r \in merge'
      BY <1>0, <1>1, <3>1, <3>3 DEF CancelRun, StatusOf, TypeOK
    <3>4. ASSUME NEW x \in Tasks, Claim(x) \/ Thread(x) PROVE r \in merge'
      BY <3>1, <3>4 DEF Claim, Thread, StartRun, Finalize, Run, StartNode, Stage, Finish, Reject,
                        Retry, GiveUp, InsertRetry, Dispatch, Block, QueueMerge, FailClosed, Look,
                        Dispatched, PassOver, FailUnserved, Assign, EnqueueNode
    <3>5. QED
      BY <1>0, <3>1, <3>2, <3>3, <3>4 DEF Next, vars, Recover, World, CallRaises, Pause, ResumeRun,
                        ToggleAgent, Restart
  <2>3. PICK y \in Tasks : RunOfTask(y) = r /\ Carries(y)
    BY <2>1, <2>2, TaskNames DEF GraphInv, Carried, NodesOf
  <2>4. CASE Dispatch(y)
    BY <1>1, <2>3, <2>4, DispatchCarries
  <2>5. CASE ~Dispatch(y)
    BY <1>0, <1>2, <2>3, <2>5, CarrierStays
  <2>6. QED
    BY <2>4, <2>5
<1>5. QED
  BY <1>1, <1>2, <1>3, <1>4 DEF RunMoves, StatusOf

LEMMA GraphKeeps ==
  ASSUME GraphInv, AllPinned => PinInv, AgentsOfRun, Onward, Spares, MaxAttempts = 1, SchedulerInv'
  PROVE  GraphInv'
<1>1. FlowInv'
  BY FlowKeeps DEF GraphInv
<1>2. HolderOut' /\ NoneHopeless' /\ LoopServes'
  BY OtherKeepsGraph, DispatchKeepsGraph DEF Dispatches
<1>3. Carried'
  BY CarriedStays
<1>4. QED
  BY <1>1, <1>2, <1>3 DEF GraphInv

LEMMA GraphInit == Init => GraphInv
<1> SUFFICES ASSUME Init PROVE GraphInv
  OBVIOUS
<1>1. lock.holder = Nobody /\ \A r \in Runs : job[r] = "pending" /\ pc[r] = "idle"
  BY TaskNames DEF Init, Free
<1>2. QED
  BY <1>1, FlowInit DEF GraphInv, HolderOut, NoneHopeless, LoopServes, Lively, Carried, Carries

\* Up to the first restart or resumption, with agents no two runs want and no second
\* attempts: a run that is being implemented always has a merge queued or a task that
\* carries its graph on, so none is left half done when every thread is through.
THEOREM GraphsAreCarried ==
  MaxAttempts = 1 /\ AgentsOfRun =>
    (Spec => [](Undisturbed /\ count.resumes = 0 => Carried /\ NoDeadGraph))
<1> SUFFICES ASSUME MaxAttempts = 1, AgentsOfRun
             PROVE  Spec => [](Undisturbed /\ count.resumes = 0 => Carried /\ NoDeadGraph)
  OBVIOUS
<1> DEFINE J == Undisturbed /\ count.resumes = 0 => GraphInv
           I == count \in Counts /\ (Undisturbed => StepInv /\ Spares)
           P == AllPinned => PinsSoFar
<1>1. Init => J
  BY GraphInit
<1>2. J /\ I /\ P /\ SchedulerInv' /\ [Next]_vars => J'
  <2> SUFFICES ASSUME J, I, P, SchedulerInv', [Next]_vars, Undisturbed', count'.resumes = 0
               PROVE  GraphInv'
    OBVIOUS
  <2>1. Undisturbed /\ count.resumes = 0 /\ Onward
    BY CountsGoUp DEF Undisturbed, Ups, Onward
  <2>2. AllPinned => PinInv
    BY <2>1 DEF PinsSoFar, Undisturbed
  <2>3. QED
    BY <2>1, <2>2, GraphKeeps
<1>3. Spec => []I
  BY StepInvariant
<1>4. Spec => []P
  <2>1. CASE AllPinned
    <3>1. PinsSoFar => P
      OBVIOUS
    <3>2. Spec => []PinsSoFar
      BY <2>1, PinsInvariant
    <3>3. QED
      BY <3>1, <3>2, PTL
  <2>2. CASE ~AllPinned
    <3>1. P
      BY <2>2
    <3>2. QED
      BY <3>1, PTL
  <2>3. QED
    BY <2>1, <2>2
<1>5. J => (Undisturbed /\ count.resumes = 0 => Carried /\ NoDeadGraph)
  BY TaskNames DEF GraphInv, Carried, Carries, NoDeadGraph, NodesOf
<1>6. QED
  BY <1>1, <1>2, <1>3, <1>4, <1>5, SchedulerInvariant, PTL DEF Spec
=============================================================================
