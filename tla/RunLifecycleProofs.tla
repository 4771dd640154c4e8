------------------------- MODULE RunLifecycleProofs -------------------------
(***************************************************************************)
(* Theorems about the life of a run, for any drainers and any number of    *)
(* plans, requests, errors and outages.  The types are those of any run;   *)
(* the rest speaks of one client at a time and of the time before the      *)
(* first restart, the last two theorems of this restart itself as well.    *)
(***************************************************************************)
EXTENDS RunLifecycle, TLAPS, FiniteSetTheorems

-----------------------------------------------------------------------------
(* Types.  The bounds are what is not immediate: a plan is written only    *)
(* below MaxPlans, a revision only below MaxEdits, and a repair is decided *)
(* only while a cycle is left, and counted when the handler comes back     *)
(* from it.  The target always holds some content: a restore is only done  *)
(* from a snapshot that is there.                                          *)

Held == [rev : Revisions, change : {"none", "part", "full"}]

Rows == [status : RunStatuses,
         state : {"none", "provisional", "refined", "editing"},
         draft : Plans, hash : Plans, approved : Plans,
         baseline : Held, snapshot : Contents,
         error : {"none", "interrupted", "other"}, resume : RunStatuses]

Reads == [plan : Plans, content : Contents, status : RunStatuses]

Counts == [requests : Nat, edits : 0..MaxEdits, expansions : Nat, errors : Nat,
           outages : Nat, restarts : Nat]

WorldTyped ==
  /\ graph \in [of : Plans, state : {"none", "open", "done", "closed"}]
  /\ workspace \in Held
  /\ made \in Plans
  /\ count \in Counts

JobsTyped == job \in [Handlers -> {"none", "pending", "running", "waiting"}]

\* Whoever repairs has a cycle left.
RepairsLeft ==
  \A k \in Appliers : pc[k] \in {"repair", "repairing"} => cycle[k] < RepairCycles

ControlTyped ==
  /\ pc \in [Actors -> Labels]
  /\ mine \in [Actors -> Reads]
  /\ cycle \in [Appliers -> 1..RepairCycles]
  /\ RepairsLeft

LifeTypes == run \in Rows /\ WorldTyped /\ JobsTyped /\ ControlTyped

LEMMA LifeTypesAreTypes == LifeTypes => TypeOK
  BY DEF LifeTypes, TypeOK, Rows, Reads, Held, Contents, WorldTyped, JobsTyped, ControlTyped

LEMMA ActorNames ==
  /\ Handlers \subseteq Actors /\ Clients \subseteq Actors /\ "monitor" \in Actors
  /\ Appliers \subseteq Handlers
  /\ {"provisional", "research", "decompose", "implementation", "work", "merge"} \subseteq Handlers
  BY DEF Actors, Handlers, Appliers

LEMMA StatusNames ==
  {"planning_provisional", "waiting_for_ollama", "decomposing", "researching",
   "awaiting_approval", "implementing", "verifying", "applying", "post_check", "failed",
   "completed", "cancelled", "rolled_back"} \subseteq RunStatuses
  BY DEF RunStatuses, AllowedTransitions

LEMMA LabelNames ==
  {"idle", "start", "ended", "except", "dead", "park", "brain", "worker", "decompose",
   "hash", "edited", "dispatch", "working", "solo", "verify", "verifiers", "verdict",
   "gate", "repairing", "copying", "copied", "checking", "pausing", "resuming",
   "releasing", "snapshot", "reuse", "fresh", "redone", "cancelled", "queue_research",
   "queue_implementation", "rolling", "saved", "researching", "ready", "verifying",
   "expand", "repair", "applying", "post_check", "completed", "restored", "failing",
   "waiting", "stale", "edit", "redo", "cancel", "resume", "restart", "renew",
   "rollback"} \subseteq Labels
  BY DEF Labels, Target

LEMMA Numbers ==
  /\ MaxPlans \in Nat /\ MaxPlans > 0 /\ MaxEdits \in Nat
  /\ RepairCycles \in Nat /\ RepairCycles > 0
  /\ 0 \in Plans /\ 0 \in Revisions
  /\ Clean \in Held /\ NoContent \in Contents /\ Held \subseteq Contents
  /\ \A s \in Contents : s # NoContent => s \in Held
  BY LifecycleAssumption DEF Plans, Revisions, Clean, NoContent, Held, Contents

LEMMA NothingRead == Nothing \in Reads
  BY Numbers, StatusNames DEF Nothing, Reads

\* An actor moves to a label; a repair is begun only with a cycle left.
LEMMA Moves ==
  ASSUME ControlTyped, NEW a \in Actors, NEW l \in Labels, Go(a, l),
         mine' \in [Actors -> Reads], UNCHANGED cycle,
         l \in {"repair", "repairing"} => (a \in Appliers => cycle[a] < RepairCycles)
  PROVE  ControlTyped'
<1>1. pc' \in [Actors -> Labels]
  BY DEF ControlTyped, Go
<1>2. RepairsLeft'
  BY ActorNames DEF ControlTyped, RepairsLeft, Go
<1> QED
  BY <1>1, <1>2 DEF ControlTyped

\* The usual one: it keeps what it has read.
LEMMA Walks ==
  ASSUME ControlTyped, NEW a \in Actors, NEW l \in Labels, Go(a, l), UNCHANGED <<mine, cycle>>,
         l \notin {"repair", "repairing"}
  PROVE  ControlTyped'
  BY Moves DEF ControlTyped

\* It validates a write, which follows if the run may move that way.
LEMMA Validates ==
  ASSUME NEW a, NEW write, NEW raises, Validate(a, write, raises)
  PROVE  Go(a, write) \/ Go(a, raises)
  BY DEF Validate

LEMMA WorldStays ==
  ASSUME WorldTyped, UNCHANGED <<graph, workspace, made, count>>
  PROVE  WorldTyped'
  BY DEF WorldTyped

LEMMA NewPlans ==
  ASSUME WorldTyped, NewPlan
  PROVE  made + 1 \in Plans /\ made' \in Plans /\ made' = made + 1
  BY Numbers DEF WorldTyped, NewPlan, Plans

LEMMA Counting ==
  ASSUME WorldTyped, NEW what \in {"requests", "expansions", "errors", "outages", "restarts"},
         NEW max, Count(what, max)
  PROVE  count' \in Counts
  BY DEF WorldTyped, Count, Counts

LEMMA Enqueues ==
  ASSUME JobsTyped, NEW k \in Handlers, Enqueue(k)
  PROVE  JobsTyped'
  BY DEF JobsTyped, Enqueue

-----------------------------------------------------------------------------
(* Each group of actions keeps the types.                                  *)

\* A step that changes nothing but where its actor is.
LEMMA OnlyWalks ==
  ASSUME LifeTypes, NEW a \in Actors, NEW l \in Labels, Go(a, l),
         l \notin {"repair", "repairing"},
         UNCHANGED <<run, graph, workspace, job, mine, cycle, made, count>>
  PROVE  LifeTypes'
<1>1. ControlTyped'
  BY Walks DEF LifeTypes
<1> QED
  BY <1>1, WorldStays DEF LifeTypes, JobsTyped

\* A step that writes the row as well.
LEMMA WritesRow ==
  ASSUME LifeTypes, NEW a \in Actors, NEW l \in Labels, Go(a, l),
         l \notin {"repair", "repairing"}, run' \in Rows,
         UNCHANGED <<graph, workspace, job, mine, cycle, made, count>>
  PROVE  LifeTypes'
<1>1. ControlTyped'
  BY Walks DEF LifeTypes
<1> QED
  BY <1>1, WorldStays DEF LifeTypes, JobsTyped

\* A step that validates a write of its actor.
LEMMA OnlyValidates ==
  ASSUME LifeTypes, NEW a \in Actors, NEW write \in Labels, NEW raises \in Labels,
         Validate(a, write, raises), {write, raises} \cap {"repair", "repairing"} = {},
         UNCHANGED <<run, graph, workspace, job, mine, cycle, made, count>>
  PROVE  LifeTypes'
  BY Validates, OnlyWalks

LEMMA QueueKeepsTypes ==
  ASSUME LifeTypes, NEW k \in Handlers, Claim(k) \/ Finalize(k) \/ RunIsOver(k)
  PROVE  LifeTypes'
<1>0. k \in Actors
  BY ActorNames
<1>1. CASE Claim(k)
  <2>1. ControlTyped'
    BY <1>0, <1>1, Walks, LabelNames DEF Claim, LifeTypes
  <2>2. JobsTyped'
    BY <1>1 DEF Claim, LifeTypes, JobsTyped
  <2> QED
    BY <1>1, <2>1, <2>2, WorldStays DEF Claim, LifeTypes
<1>2. CASE Finalize(k)
  <2>1. mine' \in [Actors -> Reads]
    BY <1>2, NothingRead DEF Finalize, LifeTypes, ControlTyped
  <2>2. ControlTyped'
    BY <1>0, <1>2, <2>1, Moves, LabelNames DEF Finalize, LifeTypes
  <2>3. JobsTyped'
    BY <1>2 DEF Finalize, LifeTypes, JobsTyped
  <2> QED
    BY <1>2, <2>2, <2>3, WorldStays DEF Finalize, LifeTypes
<1>3. CASE RunIsOver(k)
  BY <1>0, <1>3, OnlyWalks, LabelNames DEF RunIsOver
<1> QED
  BY <1>1, <1>2, <1>3

LEMMA FailureKeepsTypes ==
  ASSUME LifeTypes, NEW k \in Handlers, CallRaises(k) \/ Except(k) \/ Fail(k)
  PROVE  LifeTypes'
<1>0. k \in Actors
  BY ActorNames
<1>1. CASE CallRaises(k)
  <2>1. ControlTyped'
    BY <1>0, <1>1, Walks, LabelNames DEF CallRaises, LifeTypes
  <2>2. run' \in Rows
    BY <1>1, Numbers DEF CallRaises, LifeTypes, Rows
  <2>3. WorldTyped'
    BY <1>1, Counting DEF CallRaises, LifeTypes, WorldTyped
  <2> QED
    BY <1>1, <2>1, <2>2, <2>3 DEF CallRaises, LifeTypes, JobsTyped
<1>2. CASE Except(k)
  <2>1. Go(k, "restored") \/ Go(k, "failing") \/ Go(k, "ended")
    BY <1>2, Validates DEF Except
  <2>2. ControlTyped'
    BY <1>0, <1>2, <2>1, Walks, LabelNames DEF Except, LifeTypes
  <2>3. WorldTyped'
    BY <1>2, Numbers DEF Except, LifeTypes, WorldTyped, Rows
  <2> QED
    BY <1>2, <2>2, <2>3 DEF Except, LifeTypes, JobsTyped
<1>3. CASE Fail(k)
  <2>1. run' \in Rows
    BY <1>3, StatusNames DEF Fail, LifeTypes, Rows
  <2> QED
    BY <1>0, <1>3, <2>1, WritesRow, LabelNames DEF Fail
<1> QED
  BY <1>1, <1>2, <1>3

LEMMA PlanningKeepsTypes ==
  ASSUME LifeTypes, NEW k \in Handlers, Planning(k)
  PROVE  LifeTypes'
<1>0. k \in Actors /\ {"provisional", "research", "decompose"} \subseteq Actors
  BY ActorNames
<1>1. CASE StartProvisional
  BY <1>0, <1>1, OnlyWalks, LabelNames DEF StartProvisional
<1>2. CASE StartResearch
  <2>1. Go("research", "researching") \/ Go("research", "except")
    BY <1>2, Validates DEF StartResearch
  <2>2. run' \in Rows
    BY <1>2 DEF StartResearch, LifeTypes, Rows, WorldTyped
  <2> QED
    BY <1>0, <1>2, <2>1, <2>2, WritesRow, LabelNames DEF StartResearch
<1>3. CASE Research
  <2>1. run' \in Rows
    BY <1>3, StatusNames DEF Research, LifeTypes, Rows
  <2> QED
    BY <1>0, <1>3, <2>1, WritesRow, LabelNames DEF Research
<1>4. CASE Researched
  BY <1>0, <1>4, OnlyWalks, LabelNames DEF Researched
<1>5. CASE Planned(k)
  <2>1. Go(k, "saved") \/ Go(k, "except") \/ Go(k, "ended") \/ Go(k, "decompose")
    BY <1>5, Validates DEF Planned
  <2>2. made + 1 \in Plans /\ made' \in Plans
    BY <1>5, NewPlans DEF Planned, LifeTypes
  <2>3. mine' \in [Actors -> Reads]
    BY <1>5, <2>2 DEF Planned, LifeTypes, ControlTyped, Reads
  <2>4. ControlTyped'
    BY <1>0, <1>5, <2>1, <2>3, Moves, LabelNames DEF Planned, LifeTypes
  <2>5. WorldTyped'
    BY <1>5, <2>2 DEF Planned, LifeTypes, WorldTyped
  <2> QED
    BY <1>5, <2>4, <2>5 DEF Planned, LifeTypes, JobsTyped
<1>6. CASE Save
  <2>1. mine["provisional"] \in Reads
    BY <1>0 DEF LifeTypes, ControlTyped
  <2>2. run' \in Rows
    BY <1>6, <2>1, StatusNames DEF Save, LifeTypes, Rows, Reads
  <2> QED
    BY <1>0, <1>6, <2>2, WritesRow, LabelNames DEF Save
<1>7. CASE Park
  <2>1. ControlTyped'
    BY <1>0, <1>7, Walks, LabelNames DEF Park, LifeTypes
  <2>2. JobsTyped'
    BY <1>7 DEF Park, LifeTypes, JobsTyped
  <2> QED
    BY <1>7, <2>1, <2>2, WorldStays DEF Park, LifeTypes
<1>8. CASE StartDecompose
  <2>1. mine' \in [Actors -> Reads]
    BY <1>8 DEF StartDecompose, LifeTypes, ControlTyped, Reads, Rows
  <2>2. ControlTyped'
    BY <1>0, <1>8, <2>1, Moves, LabelNames DEF StartDecompose, LifeTypes
  <2> QED
    BY <1>8, <2>2, WorldStays DEF StartDecompose, LifeTypes, JobsTyped
<1>9. CASE Decompose(k)
  <2>1. mine[k].plan \in Plans
    BY <1>0 DEF LifeTypes, ControlTyped, Reads
  <2>2. ControlTyped'
    BY <1>0, <1>9, Walks, LabelNames DEF Decompose, LifeTypes
  <2>3. WorldTyped'
    BY <1>9, <2>1 DEF Decompose, LifeTypes, WorldTyped
  <2> QED
    BY <1>9, <2>2, <2>3 DEF Decompose, LifeTypes, JobsTyped
<1>10. CASE RecordHash(k)
  <2>1. Go(k, "ready") \/ Go(k, "except")
    BY <1>10, Validates DEF RecordHash
  <2>2. mine[k].plan \in Plans
    BY <1>0 DEF LifeTypes, ControlTyped, Reads
  <2>3. run' \in Rows
    BY <1>10, <2>2 DEF RecordHash, LifeTypes, Rows
  <2> QED
    BY <1>0, <1>10, <2>1, <2>3, WritesRow, LabelNames DEF RecordHash
<1>11. CASE Ready(k)
  <2>1. mine[k].plan \in Plans
    BY <1>0 DEF LifeTypes, ControlTyped, Reads
  <2>2. run' \in Rows
    BY <1>11, <2>1, StatusNames DEF Ready, LifeTypes, Rows
  <2> QED
    BY <1>0, <1>11, <2>2, WritesRow, LabelNames DEF Ready
<1> QED
  BY <1>1, <1>2, <1>3, <1>4, <1>5, <1>6, <1>7, <1>8, <1>9, <1>10, <1>11 DEF Planning

LEMMA ImplementingKeepsTypes ==
  ASSUME LifeTypes, NEW k \in Handlers, Implementing(k) \/ Edited(k)
  PROVE  LifeTypes'
<1>0. k \in Actors /\ {"implementation", "work", "merge"} \subseteq Actors
      /\ {"decompose", "work", "merge"} \subseteq Handlers
  BY ActorNames
<1>1. CASE StartImplementation
  BY <1>0, <1>1, OnlyWalks, LabelNames DEF StartImplementation
<1>2. CASE Solo
  BY <1>0, <1>2, OnlyWalks, LabelNames DEF Solo
<1>3. CASE StartWork
  BY <1>0, <1>3, OnlyWalks, LabelNames DEF StartWork
<1>4. CASE Work
  <2>1. ControlTyped'
    BY <1>0, <1>4, Walks, LabelNames DEF Work, LifeTypes
  <2>2. WorldTyped'
    BY <1>4 DEF Work, LifeTypes, WorldTyped
  <2> QED
    BY <1>4, <2>1, <2>2 DEF Work, LifeTypes, JobsTyped
<1>5. CASE StartMerge
  <2>1. Go("merge", "except") \/ Go("merge", "verify") \/ Go("merge", "failing")
        \/ Go("merge", "ended")
    BY <1>5, Validates DEF StartMerge
  <2> QED
    BY <1>0, <1>5, <2>1, OnlyWalks, LabelNames DEF StartMerge
<1>6. CASE Dispatch(k)
  <2>1. Go(k, "failing") \/ Go(k, "ended")
    BY <1>6, Validates DEF Dispatch
  <2>2. JobsTyped'
    BY <1>0, <1>6, Enqueues DEF Dispatch, LifeTypes, JobsTyped
  <2>3. ControlTyped'
    BY <1>0, <1>6, <2>1, Walks, LabelNames DEF Dispatch, LifeTypes
  <2> QED
    BY <1>6, <2>2, <2>3, WorldStays DEF Dispatch, LifeTypes
<1>7. CASE Edited(k)
  <2>1. JobsTyped'
    BY <1>0, <1>7, Enqueues DEF Edited, LifeTypes
  <2>2. ControlTyped'
    BY <1>0, <1>7, Walks, LabelNames DEF Edited, LifeTypes
  <2>3. WorldTyped'
    BY <1>7, Numbers DEF Edited, LifeTypes, WorldTyped
  <2> QED
    BY <1>7, <2>1, <2>2, <2>3 DEF Edited, LifeTypes
<1> QED
  BY <1>1, <1>2, <1>3, <1>4, <1>5, <1>6, <1>7 DEF Implementing

LEMMA ApplyingKeepsTypes ==
  ASSUME LifeTypes, NEW k \in Appliers, Applying(k)
  PROVE  LifeTypes'
<1>0. k \in Actors /\ cycle[k] \in 1..RepairCycles
  BY ActorNames DEF LifeTypes, ControlTyped
<1>1. CASE Verify(k)
  <2>1. pc' \in [Actors -> Labels] /\ pc'[k] \in {"verifying", "except"}
        /\ \A j \in Appliers : j # k => pc'[j] = pc[j]
    BY <1>0, <1>1, ActorNames, LabelNames, Validates DEF Verify, Go, LifeTypes, ControlTyped
  <2>2. cycle' \in [Appliers -> 1..RepairCycles] /\ \A j \in Appliers : j # k => cycle'[j] = cycle[j]
    BY <1>1, Numbers DEF Verify, LifeTypes, ControlTyped
  <2>3. ControlTyped'
    BY <1>1, <2>1, <2>2 DEF Verify, LifeTypes, ControlTyped, RepairsLeft
  <2> QED
    BY <1>1, <2>3, WorldStays DEF Verify, LifeTypes, JobsTyped
<1>2. CASE Verifying(k) \/ Apply(k) \/ PostCheck(k) \/ Complete(k) \/ Restored(k)
  <2>1. run' \in Rows
    BY <1>2, StatusNames DEF Verifying, Apply, PostCheck, Complete, Restored, LifeTypes, Rows
  <2> QED
    BY <1>0, <1>2, <2>1, WritesRow, LabelNames
       DEF Verifying, Apply, PostCheck, Complete, Restored
<1>3. CASE VerifiersReport(k) \/ VerdictPasses(k)
  BY <1>0, <1>3, OnlyWalks, LabelNames DEF VerifiersReport, VerdictPasses
<1>4. CASE VerdictExpands(k)
  <2>1. Go(k, "expand") \/ Go(k, "except")
    BY <1>4, Validates DEF VerdictExpands
  <2>2. ControlTyped'
    BY <1>0, <1>4, <2>1, Walks, LabelNames DEF VerdictExpands, LifeTypes
  <2>3. WorldTyped'
    BY <1>4, Counting DEF VerdictExpands, LifeTypes, WorldTyped
  <2> QED
    BY <1>4, <2>2, <2>3 DEF VerdictExpands, LifeTypes, JobsTyped
<1>5. CASE VerdictFails(k)
  <2>1. \/ Go(k, "repair") /\ cycle[k] < RepairCycles
        \/ Go(k, "failing") \/ Go(k, "except")
    BY <1>5, Validates DEF VerdictFails
  <2>2. ControlTyped'
    BY <1>0, <1>5, <2>1, Moves, LabelNames DEF VerdictFails, LifeTypes, ControlTyped
  <2> QED
    BY <1>5, <2>2, WorldStays DEF VerdictFails, LifeTypes, JobsTyped
<1>6. CASE Expand(k)
  <2>1. made + 1 \in Plans /\ made' \in Plans
    BY <1>6, NewPlans DEF Expand, LifeTypes
  <2>2. run' \in Rows
    BY <1>6, <2>1, StatusNames, Numbers DEF Expand, LifeTypes, Rows
  <2>3. ControlTyped'
    BY <1>0, <1>6, Walks, LabelNames DEF Expand, LifeTypes
  <2> QED
    BY <1>6, <2>1, <2>2, <2>3 DEF Expand, LifeTypes, WorldTyped, JobsTyped
<1>7. CASE Repair(k)
  <2>1. run' \in Rows
    BY <1>7, StatusNames DEF Repair, LifeTypes, Rows
  <2>2. cycle[k] < RepairCycles
    BY <1>7 DEF Repair, LifeTypes, ControlTyped, RepairsLeft
  <2>3. ControlTyped'
    BY <1>0, <1>7, <2>2, Moves, LabelNames DEF Repair, LifeTypes, ControlTyped
  <2> QED
    BY <1>7, <2>1, <2>3, WorldStays DEF Repair, LifeTypes, JobsTyped
<1>8. CASE Repaired(k)
  <2>1. pc' \in [Actors -> Labels] /\ pc'[k] \in {"verifying", "except"}
        /\ \A j \in Appliers : j # k => pc'[j] = pc[j]
    BY <1>0, <1>8, ActorNames, LabelNames, Validates DEF Repaired, Go, LifeTypes, ControlTyped
  <2>2. cycle[k] < RepairCycles
    BY <1>8 DEF Repaired, LifeTypes, ControlTyped, RepairsLeft
  <2>3. cycle' \in [Appliers -> 1..RepairCycles] /\ \A j \in Appliers : j # k => cycle'[j] = cycle[j]
    BY <1>0, <1>8, <2>2, Numbers DEF Repaired, LifeTypes, ControlTyped
  <2>4. ControlTyped'
    BY <1>8, <2>1, <2>3 DEF Repaired, LifeTypes, ControlTyped, RepairsLeft
  <2> QED
    BY <1>8, <2>4, WorldStays DEF Repaired, LifeTypes, JobsTyped
<1>9. CASE Gate(k)
  <2>1. Go(k, "failing") \/ Go(k, "except") \/ Go(k, "applying")
    BY <1>9, Validates DEF Gate
  <2> QED
    BY <1>0, <1>9, <2>1, OnlyWalks, LabelNames DEF Gate
<1>10. CASE CopySome(k) \/ CopyRest(k) \/ CheckFails(k)
  <2>1. Go(k, "copied") \/ Go(k, "post_check") \/ Go(k, "restored") \/ Go(k, "except")
    BY <1>10, Validates DEF CopySome, CopyRest, CheckFails
  <2>2. workspace' \in Held
    BY <1>10, Numbers DEF CopySome, CopyRest, CheckFails, LifeTypes, Rows, WorldTyped, Held
  <2>3. ControlTyped'
    BY <1>0, <1>10, <2>1, Walks, LabelNames DEF CopySome, CopyRest, CheckFails, LifeTypes
  <2> QED
    BY <1>10, <2>2, <2>3 DEF CopySome, CopyRest, CheckFails, LifeTypes, WorldTyped, JobsTyped
<1>11. CASE CheckPasses(k)
  BY <1>0, <1>11, OnlyValidates, LabelNames DEF CheckPasses
<1> QED
  BY <1>1, <1>2, <1>3, <1>4, <1>5, <1>6, <1>7, <1>8, <1>9, <1>10, <1>11 DEF Applying, Verdict

LEMMA OutageKeepsTypes ==
  ASSUME LifeTypes,
         \/ \E k \in Handlers : Pause(k) \/ PauseRun(k) \/ Wait(k)
         \/ Monitor
  PROVE  LifeTypes'
<1>1. ASSUME NEW k \in Handlers, Pause(k) PROVE LifeTypes'
  <2>0. k \in Actors
    BY ActorNames
  <2>1. mine' \in [Actors -> Reads]
    BY <1>1, StatusNames DEF Pause, LifeTypes, ControlTyped, Reads, Rows
  <2>2. Go(k, "idle") \/ Go(k, "pausing")
    BY <1>1 DEF Pause
  <2>3. ControlTyped'
    BY <1>1, <2>0, <2>1, <2>2, Moves, LabelNames DEF Pause, LifeTypes
  <2>4. workspace' \in Held
    BY <1>1, Numbers DEF Pause, LifeTypes, Rows, WorldTyped
  <2>5. WorldTyped'
    BY <1>1, <2>4, Counting DEF Pause, LifeTypes, WorldTyped
  <2>6. JobsTyped'
    BY <1>1 DEF Pause, LifeTypes, JobsTyped
  <2> QED
    BY <1>1, <2>3, <2>5, <2>6 DEF Pause, LifeTypes
<1>2. ASSUME NEW k \in Handlers, PauseRun(k) PROVE LifeTypes'
  BY <1>2, ActorNames, OnlyValidates, LabelNames DEF PauseRun
<1>3. ASSUME NEW k \in Handlers, Wait(k) PROVE LifeTypes'
  <2>1. k \in Actors /\ mine[k] \in Reads
    BY ActorNames DEF LifeTypes, ControlTyped
  <2>2. run' \in Rows
    BY <1>3, <2>1, StatusNames DEF Wait, LifeTypes, Rows, Reads
  <2> QED
    BY <1>3, <2>1, <2>2, WritesRow, LabelNames DEF Wait
<1>4. CASE Recover
  <2>1. mine' \in [Actors -> Reads]
    BY <1>4 DEF Recover, LifeTypes, ControlTyped, Reads, Rows
  <2>2. ControlTyped'
    BY <1>4, <2>1, ActorNames, Moves, LabelNames DEF Recover, LifeTypes
  <2> QED
    BY <1>4, <2>2, WorldStays DEF Recover, LifeTypes, JobsTyped
<1>5. CASE ResumeWaiting
  <2>1. mine["monitor"] \in Reads
    BY ActorNames DEF LifeTypes, ControlTyped
  <2>2. run' \in Rows
    BY <1>5, <2>1, StatusNames DEF ResumeWaiting, LifeTypes, Rows, Reads
  <2> QED
    BY <1>5, <2>2, ActorNames, WritesRow, LabelNames DEF ResumeWaiting
<1>6. CASE Release
  <2>1. mine' \in [Actors -> Reads]
    BY <1>6, NothingRead DEF Release, LifeTypes, ControlTyped
  <2>2. ControlTyped'
    BY <1>6, <2>1, ActorNames, Moves, LabelNames DEF Release, LifeTypes
  <2>3. JobsTyped'
    BY <1>6 DEF Release, LifeTypes, JobsTyped
  <2> QED
    BY <1>6, <2>2, <2>3, WorldStays DEF Release, LifeTypes
<1> QED
  BY <1>1, <1>2, <1>3, <1>4, <1>5, <1>6 DEF Monitor

LEMMA RequestsKeepTypes ==
  ASSUME LifeTypes, NEW c \in Clients, NewRequest(c)
  PROVE  LifeTypes'
<1>0. c \in Actors
  BY ActorNames
<1>1. CASE EditProvisional(c)
  <2>1. count' \in Counts
    BY <1>1, Counting DEF EditProvisional, Request, LifeTypes
  <2>2. made + 1 \in Plans /\ made' \in Plans
    BY <1>1, NewPlans DEF EditProvisional, LifeTypes
  <2>3. run' \in Rows
    BY <1>1, <2>2 DEF EditProvisional, LifeTypes, Rows
  <2> QED
    BY <1>1, <2>1, <2>2, <2>3
       DEF EditProvisional, LifeTypes, WorldTyped, JobsTyped, ControlTyped, RepairsLeft
<1>2. CASE Approve(c)
  <2>1. count' \in Counts
    BY <1>2, Counting DEF Approve, Request, LifeTypes
  <2>2. Go(c, "stale") \/ Go(c, "idle") \/ Go(c, "reuse") \/ Go(c, "snapshot")
    BY <1>2, Validates DEF Approve
  <2>3. mine' \in [Actors -> Reads]
    BY <1>2 DEF Approve, LifeTypes, ControlTyped, Reads, Rows
  <2>4. ControlTyped'
    BY <1>0, <1>2, <2>2, <2>3, Moves, LabelNames DEF Approve, LifeTypes
  <2> QED
    BY <1>2, <2>1, <2>4 DEF Approve, LifeTypes, WorldTyped, JobsTyped
<1>3. CASE EditPlan(c) \/ RedoPlan(c) \/ CancelRun(c) \/ ResumeRun(c)
  <2>1. count' \in Counts
    BY <1>3, Counting DEF EditPlan, RedoPlan, CancelRun, ResumeRun, Request, LifeTypes
  <2>2. \E l \in {"edit", "redo", "cancel", "renew", "resume", "restart", "idle"} : Go(c, l)
    BY <1>3, Validates DEF EditPlan, RedoPlan, CancelRun, ResumeRun
  <2>3. ControlTyped'
    BY <1>0, <1>3, <2>2, Walks, LabelNames
       DEF EditPlan, RedoPlan, CancelRun, ResumeRun, LifeTypes
  <2> QED
    BY <1>3, <2>1, <2>3
       DEF EditPlan, RedoPlan, CancelRun, ResumeRun, LifeTypes, WorldTyped, JobsTyped
<1>4. CASE RollbackRun(c)
  <2>1. count' \in Counts
    BY <1>4, Counting DEF RollbackRun, Request, LifeTypes
  <2>2. workspace' \in Held
    BY <1>4, Numbers DEF RollbackRun, LifeTypes, Rows
  <2>3. ControlTyped'
    BY <1>0, <1>4, Walks, LabelNames DEF RollbackRun, LifeTypes
  <2> QED
    BY <1>4, <2>1, <2>2, <2>3 DEF RollbackRun, LifeTypes, WorldTyped, JobsTyped
<1> QED
  BY <1>1, <1>2, <1>3, <1>4 DEF NewRequest

LEMMA ClientKeepsTypes ==
  ASSUME LifeTypes, NEW c \in Clients, Client(c)
  PROVE  LifeTypes'
<1>0. c \in Actors /\ mine[c] \in Reads
  BY ActorNames DEF LifeTypes, ControlTyped
<1>0a. {"research", "implementation", "decompose"} \subseteq Handlers
  BY ActorNames
<1>1. CASE Stale(c) \/ Redo(c) \/ Cancel(c) \/ Resume(c) \/ Rollback(c)
  <2>1. run' \in Rows
    <3>1. CASE Stale(c) \/ Redo(c)
      BY <3>1, StatusNames, Numbers DEF Stale, Redo, LifeTypes, Rows, WorldTyped
    <3>2. CASE Cancel(c) \/ Rollback(c)
      BY <3>2, StatusNames DEF Cancel, Rollback, LifeTypes, Rows
    <3>3. CASE Resume(c)
      BY <3>3, StatusNames, Numbers DEF Resume, LifeTypes, Rows, WorldTyped
    <3> QED
      BY <1>1, <3>1, <3>2, <3>3
  <2> QED
    BY <1>0, <1>1, <2>1, WritesRow, LabelNames DEF Stale, Redo, Cancel, Resume, Rollback
<1>2. CASE Snapshot(c)
  <2>1. mine' \in [Actors -> Reads]
    BY <1>2, Numbers DEF Snapshot, LifeTypes, ControlTyped, WorldTyped, Reads
  <2>2. ControlTyped'
    BY <1>0, <1>2, <2>1, Moves, LabelNames DEF Snapshot, LifeTypes
  <2> QED
    BY <1>2, <2>2, WorldStays DEF Snapshot, LifeTypes, JobsTyped
<1>3. CASE Approved(c)
  <2>1. mine' \in [Actors -> Reads]
    BY <1>3, NothingRead DEF Approved, LifeTypes, ControlTyped
  <2>2. ControlTyped'
    BY <1>0, <1>3, <2>1, Moves, LabelNames DEF Approved, LifeTypes
  <2>3. run' \in Rows
    BY <1>0, <1>3, StatusNames DEF Approved, LifeTypes, Rows, Reads
  <2>4. JobsTyped'
    BY <1>0a, <1>3 DEF Approved, LifeTypes, JobsTyped
  <2> QED
    BY <1>3, <2>2, <2>3, <2>4, WorldStays DEF Approved, LifeTypes
<1>4. CASE Edit(c)
  <2>1. made + 1 \in Plans /\ made' \in Plans
    BY <1>4, NewPlans DEF Edit, LifeTypes
  <2>2. run' \in Rows
    BY <1>4, <2>1, StatusNames, Numbers DEF Edit, LifeTypes, Rows
  <2>3. ControlTyped'
    BY <1>0, <1>4, Walks, LabelNames DEF Edit, LifeTypes
  <2> QED
    BY <1>4, <2>1, <2>2, <2>3 DEF Edit, LifeTypes, WorldTyped, JobsTyped
<1>5. CASE Edited(c)
  <2>1. JobsTyped'
    BY <1>0a, <1>5, Enqueues DEF Edited, LifeTypes
  <2>2. ControlTyped'
    BY <1>0, <1>5, Walks, LabelNames DEF Edited, LifeTypes
  <2>3. WorldTyped'
    BY <1>5, Numbers DEF Edited, LifeTypes, WorldTyped
  <2> QED
    BY <1>5, <2>1, <2>2, <2>3 DEF Edited, LifeTypes
<1>6. CASE Redone(c)
  <2>1. JobsTyped'
    BY <1>6 DEF Redone, LifeTypes, JobsTyped
  <2>2. ControlTyped'
    BY <1>0, <1>6, Walks, LabelNames DEF Redone, LifeTypes
  <2>3. WorldTyped'
    BY <1>6, Numbers DEF Redone, LifeTypes, WorldTyped
  <2> QED
    BY <1>6, <2>1, <2>2, <2>3 DEF Redone, LifeTypes
<1>7. CASE CancelJobs(c) \/ QueueJob(c)
  <2>1. JobsTyped'
    BY <1>0a, <1>7, Enqueues DEF CancelJobs, QueueJob, LifeTypes, JobsTyped
  <2>2. ControlTyped'
    BY <1>0, <1>7, Walks, LabelNames DEF CancelJobs, QueueJob, LifeTypes
  <2> QED
    BY <1>7, <2>1, <2>2, WorldStays DEF CancelJobs, QueueJob, LifeTypes
<1>8. CASE RollbackDone(c)
  BY <1>0, <1>8, OnlyValidates, LabelNames DEF RollbackDone
<1> QED
  BY <1>1, <1>2, <1>3, <1>4, <1>5, <1>6, <1>7, <1>8 DEF Client

LEMMA WorldKeepsTypes ==
  ASSUME LifeTypes, UserEdits \/ Restart
  PROVE  LifeTypes'
<1>1. CASE UserEdits
  <2>1. count' \in Counts /\ count.edits + 1 \in Revisions
    BY <1>1, Numbers DEF UserEdits, Count, Counts, LifeTypes, WorldTyped, Revisions
  <2>2. workspace' \in Held
    BY <1>1, <2>1 DEF UserEdits, LifeTypes, WorldTyped, Held
  <2> QED
    BY <1>1, <2>1, <2>2
       DEF UserEdits, LifeTypes, WorldTyped, JobsTyped, ControlTyped, RepairsLeft
<1>2. CASE Restart
  <2>1. count' \in Counts
    BY <1>2, Counting DEF Restart, LifeTypes
  <2>2. run' \in Rows
    BY <1>2, StatusNames DEF Restart, LifeTypes, Rows
  <2>3. workspace' \in Held
    BY <1>2, Numbers DEF Restart, Restores, LifeTypes, Rows, WorldTyped
  <2>4. JobsTyped'
    BY <1>2 DEF Restart, LifeTypes, JobsTyped
  <2>5. ControlTyped'
    BY <1>2, NothingRead, LabelNames, Numbers, ActorNames DEF Restart, ControlTyped, RepairsLeft
  <2> QED
    BY <1>2, <2>1, <2>2, <2>3, <2>4, <2>5 DEF Restart, LifeTypes, WorldTyped
<1> QED
  BY <1>1, <1>2

LEMMA TypesAtStart == ASSUME Init PROVE LifeTypes
<1>1. run \in Rows
  BY StatusNames, Numbers, LifecycleAssumption DEF Init, Rows
<1>2. WorldTyped
  BY Numbers DEF Init, WorldTyped, Counts
<1>3. JobsTyped
  BY DEF Init, JobsTyped
<1>4. ControlTyped
  BY NothingRead, LabelNames, Numbers, ActorNames DEF Init, ControlTyped, RepairsLeft
<1> QED
  BY <1>1, <1>2, <1>3, <1>4 DEF LifeTypes

LEMMA TypesStep == ASSUME LifeTypes, [Next]_vars PROVE LifeTypes'
<1>1. ASSUME NEW k \in Handlers, Claim(k) \/ Handler(k) \/ CallRaises(k) \/ Pause(k)
      PROVE  LifeTypes'
  BY <1>1, QueueKeepsTypes, FailureKeepsTypes, PlanningKeepsTypes, ImplementingKeepsTypes,
     ApplyingKeepsTypes, OutageKeepsTypes DEF Handler, Applying
<1>2. ASSUME NEW c \in Clients, NewRequest(c) \/ Client(c) PROVE LifeTypes'
  BY <1>2, RequestsKeepTypes, ClientKeepsTypes
<1>3. CASE Monitor \/ UserEdits \/ Restart
  BY <1>3, OutageKeepsTypes, WorldKeepsTypes
<1>4. CASE UNCHANGED vars
  BY <1>4 DEF vars, LifeTypes, WorldTyped, JobsTyped, ControlTyped, RepairsLeft
<1> QED
  BY <1>1, <1>2, <1>3, <1>4 DEF Next

\* The rows, the graph, the target, the jobs and what every thread has read keep
\* their types; no plan, revision or repair cycle is beyond its bound.
THEOREM LifecycleTypes == Spec => []TypeOK
<1>1. Init => LifeTypes
  BY TypesAtStart
<1>2. LifeTypes /\ [Next]_vars => LifeTypes'
  BY TypesStep
<1> QED
  BY <1>1, <1>2, LifeTypesAreTypes, PTL DEF Spec

-----------------------------------------------------------------------------
(* Whose turn it is.  With one client at a time, without redo and up to    *)
(* the first restart the run is handed from one to the next, although      *)
(* every handler has a thread of its own: of the handlers, at most one     *)
(* carries the run, in the queue or in its thread, and none does while a   *)
(* client decides what becomes of it.                                      *)

OneByOne ==
  /\ \A c, d \in Clients : c = d
  /\ "redo" \notin Requests

Sequential == OneByOne /\ MaxRestarts = 0

Planners == {"provisional", "research", "decompose"}
Doers == {"implementation", "work", "merge"}

\* A thread that has ended still has to write the end of its job.
Carries(k) == job[k] \in {"pending", "waiting"} \/ pc[k] \notin {"idle", "ended"}

\* The steps of a client on which the next status of the run depends.
Approving == {"stale", "snapshot", "reuse", "fresh"}
Resuming == {"renew", "resume", "restart"}
RollingBack == {"rolling", "rollback"}
Deciding == Approving \cup Resuming \cup RollingBack
              \cup {"edit", "edited", "queue_research", "queue_implementation"}

OneTurn ==
  /\ \A j, k \in Handlers : Carries(j) /\ Carries(k) => j = k
  /\ \A c \in Clients : pc[c] \in Deciding => \A k \in Handlers : ~Carries(k)

\* The steps each handler goes through.
Common == {"idle", "start", "except", "failing", "ended"}
Paused == {"pausing", "waiting"}
AppliersSteps == {"verify", "verifying", "verifiers", "verdict", "gate", "expand", "edited",
                  "repair", "repairing", "applying", "copying", "copied", "post_check",
                  "checking", "completed", "restored"} \cup Paused \cup Common
StepsOf ==
  [provisional |-> {"brain", "saved", "park"} \cup Common,
   research |-> {"researching", "worker", "brain", "decompose", "hash", "ready"}
                  \cup Paused \cup Common,
   decompose |-> {"decompose", "hash", "ready"} \cup Common,
   implementation |-> {"solo", "dispatch"} \cup AppliersSteps,
   work |-> {"working", "dispatch"} \cup Paused \cup Common,
   merge |-> AppliersSteps]

Placed ==
  /\ \A k \in Handlers : pc[k] \in StepsOf[k]
  /\ \A c \in Clients : pc[c] \in Deciding \cup {"idle", "cancel", "cancelled"}
  /\ pc["monitor"] \in {"idle", "dead", "resuming", "releasing"}

\* A thread at work has a running job; only a handler that may meet an outage has
\* one that waits.
JobFits ==
  \A k \in Handlers :
    /\ pc[k] \notin {"idle", "pausing", "waiting"} => job[k] = "running"
    /\ pc[k] \in Paused => job[k] # "running" /\ (k \in Doers => job[k] = "waiting")
    /\ job[k] = "waiting" => k \in Doers \cup {"research"}

\* What the status may be while a handler carries the run.  A cancellation may be
\* written at any moment, and be overwritten.
PlannerStatus(k) ==
  /\ k = "provisional" =>
       run.status \in {IF pc[k] = "park" THEN "waiting_for_ollama" ELSE "planning_provisional",
                       "cancelled"}
  /\ k = "research" => run.status \in {"researching", "waiting_for_ollama", "cancelled"}
  /\ k = "decompose" => run.status \in {"decomposing", "cancelled"}

Doing == {"implementing", "verifying", "cancelled"}

\* The steps at which it need not be one of these.
Elsewhere == {"edited", "copying", "copied", "post_check", "checking", "completed",
              "restored", "except", "pausing", "waiting"}

DoerStatus(k) ==
  /\ pc[k] = "edited" => run.status \in {"decomposing", "cancelled"}
  /\ pc[k] \in {"copying", "copied", "post_check"} => run.status \in {"applying", "cancelled"}
  /\ pc[k] \in {"checking", "completed"} => run.status \in {"post_check", "cancelled"}
  /\ pc[k] = "restored" => run.status \in {"applying", "post_check", "cancelled"}
  /\ pc[k] = "except" =>
       run.status \in Doing \cup (IF k \in Appliers THEN {"applying", "post_check"} ELSE {})
  /\ pc[k] \in Paused => run.status \in {"post_check"} \cup Doing
  /\ pc[k] = "idle" /\ job[k] = "waiting" => run.status \in {"waiting_for_ollama"} \cup Doing
  /\ pc[k] \notin Elsewhere /\ job[k] # "waiting" => run.status \in Doing

StatusFits ==
  \A k \in Handlers : Carries(k) =>
    /\ k \in Planners => PlannerStatus(k)
    /\ k \in Doers => DoerStatus(k)

\* A client that decides finds the status it has looked at.
ClientFits ==
  \A c \in Clients :
    /\ pc[c] \in Approving \cup {"edit"} => run.status = "awaiting_approval"
    /\ pc[c] \in Resuming => run.status = "failed"
    /\ pc[c] \in RollingBack => run.status \in {"completed", "failed", "rolled_back"}
    /\ pc[c] = "edited" => run.status = "decomposing"
    /\ pc[c] = "queue_research" => run.status = "researching"
    /\ pc[c] = "queue_implementation" => run.status = "implementing"

\* A paused run remembers where to go on, until the monitor has taken it there.
\* A monitor that meets a run that may not resume is dead.
Remembers(k) ==
  /\ job[k] = "waiting" /\ pc[k] = "idle"
  /\ run.resume \in {"implementing", "verifying"}
  /\ run.status \in {"waiting_for_ollama", "cancelled"}
  /\ pc["monitor"] # "releasing"
  /\ pc["monitor"] = "resuming" => mine["monitor"].status = run.resume

Resumed(k) ==
  /\ job[k] = "waiting" /\ pc[k] = "idle" /\ run.resume = "researching"
  /\ \/ pc["monitor"] = "releasing" /\ run.status \in Doing
     \/ pc["monitor"] \in {"idle", "dead"} /\ run.status = "cancelled"

Pauses(k) ==
  /\ pc[k] \in Paused /\ run.resume = "researching"
  /\ pc["monitor"] \in {"idle", "dead"}

PauseFits ==
  /\ \A k \in Doers : job[k] = "waiting" => Remembers(k) \/ Resumed(k) \/ Pauses(k)
  /\ run.resume # "researching" => \E k \in Doers : Remembers(k)
  /\ pc["monitor"] \in {"resuming", "releasing"} => \E k \in Handlers : job[k] = "waiting"
  /\ pc["monitor"] = "resuming" /\ job["research"] = "waiting" =>
       mine["monitor"].status = "researching"
  /\ \A k \in Handlers : pc[k] \in Paused =>
       /\ mine[k].status \in (IF k \in Doers THEN {"implementing", "verifying"}
                              ELSE {"researching"})
                             \cup (IF pc[k] = "pausing" THEN {"cancelled"} ELSE {})
       /\ mine[k].status = "cancelled" =>
            run.status = "cancelled" /\ pc["monitor"] \in {"idle", "dead"}

\* Who implements can be undone.
Backed ==
  /\ run.approved # 0 => run.snapshot # NoContent
  /\ \A k \in Doers : Carries(k) => run.approved # 0
  /\ \A c \in Clients :
       /\ pc[c] \in {"resume", "queue_implementation"} => run.approved # 0
       /\ pc[c] = "reuse" => run.snapshot # NoContent
       /\ pc[c] = "fresh" => mine[c].content # NoContent
       /\ pc[c] \in Approving => mine[c].plan # 0 /\ mine[c].plan = run.hash

Turn ==
  /\ LifeTypes
  /\ OneTurn /\ Placed /\ JobFits /\ StatusFits /\ ClientFits /\ PauseFits /\ Backed

LEMMA TurnNames ==
  /\ Handlers = Planners \cup Doers /\ Planners \cap Doers = {}
  /\ Appliers \subseteq Doers /\ "work" \notin Appliers
  /\ {"implementation", "work", "merge"} \subseteq Doers
  /\ {"provisional", "research", "decompose"} \subseteq Planners
  /\ \A k \in Handlers : k \notin Clients /\ k # "monitor" /\ k \in Actors
  /\ \A c \in Clients : c # "monitor" /\ c \in Actors
  /\ "monitor" \in Actors /\ "monitor" \notin Handlers
  BY LifecycleAssumption DEF Handlers, Planners, Doers, Appliers, Actors

\* The rows of the status table that matter for whose turn it is.
LEMMA StatusTable ==
  /\ \A s : ~ValidTransition("cancelled", s) \/ s = "cancelled"
  /\ \A s \in {"implementing", "verifying", "post_check"} :
       /\ ValidTransition(s, "waiting_for_ollama")
       /\ ~ValidTransition(s, "researching")
  /\ \A s \in {"implementing", "verifying"} : ValidTransition("waiting_for_ollama", s)
  /\ \A s \in {"researching", "waiting_for_ollama"} : ValidTransition(s, "waiting_for_ollama")
  BY DEF ValidTransition, AllowedTransitions

\* While a thread carries the run, nobody else does, and nothing waits.
LEMMA OnTurn ==
  ASSUME Turn, NEW k \in Handlers, pc[k] \notin {"idle", "ended", "pausing", "waiting"}
  PROVE  /\ job[k] = "running"
         /\ \A j \in Handlers : j # k => ~Carries(j) /\ pc[j] \in {"idle", "ended"}
         /\ \A j \in Handlers : job[j] # "waiting"
         /\ \A c \in Clients : pc[c] \notin Deciding
         /\ pc["monitor"] \in {"idle", "dead"}
         /\ run.resume = "researching"
         /\ k \in Planners => PlannerStatus(k)
         /\ k \in Doers => DoerStatus(k) /\ run.approved # 0 /\ run.snapshot # NoContent
         /\ k \in Actors
<1>1. Carries(k) /\ job[k] = "running" /\ k \in Actors
  BY TurnNames DEF Turn, JobFits, Carries, Paused
<1>2. \A j \in Handlers : j # k => ~Carries(j)
  BY <1>1 DEF Turn, OneTurn
<1>3. \A j \in Handlers : job[j] # "waiting"
  BY <1>1, <1>2 DEF Carries
<1>4. \A c \in Clients : pc[c] \notin Deciding
  BY <1>1 DEF Turn, OneTurn
<1>5. pc["monitor"] \in {"idle", "dead"} /\ run.resume = "researching"
  BY <1>3, TurnNames DEF Turn, Placed, PauseFits, Remembers
<1>6. /\ k \in Planners => PlannerStatus(k)
      /\ k \in Doers => DoerStatus(k) /\ run.approved # 0 /\ run.snapshot # NoContent
  BY <1>1 DEF Turn, StatusFits, Backed
<1> QED
  BY <1>1, <1>2, <1>3, <1>4, <1>5, <1>6 DEF Carries

\* While no handler carries the run, the monitor has nothing to do.
LEMMA NobodysTurn ==
  ASSUME Turn, \A k \in Handlers : ~Carries(k)
  PROVE  pc["monitor"] \in {"idle", "dead"} /\ run.resume = "researching"
<1>1. \A k \in Handlers : job[k] # "waiting"
  BY DEF Carries
<1> QED
  BY <1>1, TurnNames DEF Turn, Placed, PauseFits, Remembers

\* No handler carries a run that is over or waits for the user.
LEMMA Settled ==
  ASSUME Turn, run.status \in {"awaiting_approval", "failed", "completed", "rolled_back"}
  PROVE  \A k \in Handlers : ~Carries(k)
<1>1. SUFFICES ASSUME NEW k \in Handlers, Carries(k) PROVE FALSE
  OBVIOUS
<1>2. CASE k \in Planners
  BY <1>1, <1>2 DEF Turn, StatusFits, PlannerStatus, Planners
<1>3. CASE k \in Doers
  BY <1>1, <1>3, TurnNames DEF Turn, StatusFits, JobFits, DoerStatus, Doing, Elsewhere, Paused
<1> QED
  BY <1>2, <1>3, TurnNames

\* A step of the thread that carries the run, after which it still does, or its
\* job is over.
LEMMA ThreadStep ==
  ASSUME Turn, LifeTypes', NEW k \in Handlers,
         pc[k] \notin {"idle", "ended", "pausing", "waiting"},
         NEW l \in StepsOf[k] \ {"idle", "pausing", "waiting"}, Go(k, l),
         UNCHANGED job, run'.approved = run.approved, run'.snapshot = run.snapshot,
         run'.resume = "researching",
         l # "ended" => (k \in Planners => PlannerStatus(k)') /\ (k \in Doers => DoerStatus(k)')
  PROVE  Turn'
<1>0. /\ job[k] = "running" /\ k \in Actors
      /\ \A j \in Handlers : j # k => ~Carries(j) /\ pc[j] \in {"idle", "ended"}
      /\ \A j \in Handlers : job[j] # "waiting"
      /\ \A c \in Clients : pc[c] \notin Deciding
      /\ pc["monitor"] \in {"idle", "dead"}
      /\ k \in Doers => run.approved # 0
  BY OnTurn
<1>1. /\ pc'[k] = l /\ \A j \in Handlers : j # k => pc'[j] = pc[j]
      /\ \A c \in Clients : pc'[c] = pc[c]
      /\ pc'["monitor"] = pc["monitor"]
  BY <1>0, TurnNames DEF Go, Turn, LifeTypes, ControlTyped
<1>2. \A j \in Handlers : j # k => ~Carries(j)'
  BY <1>0, <1>1 DEF Carries
<1>3. OneTurn'
  BY <1>0, <1>1, <1>2 DEF OneTurn
<1>4. Placed'
  BY <1>1 DEF Turn, Placed
<1>5. JobFits'
  BY <1>0, <1>1 DEF Turn, JobFits, Paused
<1>6. StatusFits'
  <2>1. Carries(k)' => l # "ended"
    BY <1>0, <1>1 DEF Carries
  <2> QED
    BY <1>2, <2>1 DEF StatusFits
<1>7. ClientFits'
  BY <1>0, <1>1 DEF ClientFits, Deciding
<1>8. PauseFits'
  BY <1>0, <1>1, TurnNames DEF PauseFits, Paused
<1>9. Backed'
  BY <1>0, <1>1, <1>2, TurnNames DEF Turn, Backed, Deciding, Approving, Resuming
<1> QED
  BY <1>3, <1>4, <1>5, <1>6, <1>7, <1>8, <1>9 DEF Turn

LEMMA Lands ==
  ASSUME Turn, NEW a \in Actors, NEW l, Go(a, l)
  PROVE  pc'[a] = l /\ \A b \in Actors : b # a => pc'[b] = pc[b]
  BY DEF Go, Turn, LifeTypes, ControlTyped

\* The last step of a thread leaves the run to a job it has queued, unless there
\* was one.
LEMMA HandsOver ==
  ASSUME Turn, LifeTypes', NEW k \in Handlers,
         pc[k] \notin {"idle", "ended", "pausing", "waiting"}, Go(k, "ended"),
         NEW j \in Handlers, \A i \in Handlers : i # j => job'[i] = job[i],
         job'[j] # job[j] =>
           job[j] = "none" /\ (job'[j] = "pending" \/ (j = "research" /\ job'[j] = "waiting")),
         run'.approved = run.approved, run'.snapshot = run.snapshot, run'.resume = "researching",
         pc'[j] = "idle" =>
           (j \in Planners => PlannerStatus(j)')
           /\ (j \in Doers => DoerStatus(j)' /\ run.approved # 0)
  PROVE  Turn'
<1>0. /\ k \in Actors /\ job[k] = "running"
      /\ \A i \in Handlers : i # k => ~Carries(i) /\ pc[i] \in {"idle", "ended"}
      /\ \A i \in Handlers : job[i] # "waiting"
      /\ \A c \in Clients : pc[c] \notin Deciding
      /\ pc["monitor"] \in {"idle", "dead"}
  BY OnTurn
<1>1. /\ pc'[k] = "ended" /\ \A i \in Handlers : i # k => pc'[i] = pc[i]
      /\ \A c \in Clients : pc'[c] = pc[c]
      /\ pc'["monitor"] = pc["monitor"]
  BY <1>0, Lands, TurnNames
<1>2. \A i \in Handlers : i # j => ~Carries(i)'
  BY <1>0, <1>1 DEF Carries
<1>3. Carries(j)' => pc'[j] = "idle"
  BY <1>0, <1>1 DEF Carries, Turn, JobFits
<1>4. OneTurn'
  BY <1>0, <1>1, <1>2 DEF OneTurn
<1>5. Placed'
  <2>1. "ended" \in StepsOf[k]
    BY DEF Handlers, StepsOf, AppliersSteps, Common
  <2> QED
    BY <1>0, <1>1, <2>1 DEF Turn, Placed
<1>6. JobFits'
  <2> SUFFICES ASSUME NEW i \in Handlers
               PROVE  /\ pc'[i] \notin {"idle", "pausing", "waiting"} => job'[i] = "running"
                      /\ pc'[i] \notin Paused
                      /\ job'[i] = "waiting" => i \in Doers \cup {"research"}
    BY DEF JobFits
  <2>1. /\ pc[i] \notin {"idle", "pausing", "waiting"} => job[i] = "running"
        /\ pc'[i] \notin Paused /\ (pc'[i] = pc[i] \/ (i = k /\ job[k] = "running"))
    BY <1>0, <1>1 DEF Turn, JobFits, Paused
  <2> QED
    BY <1>0, <2>1
<1>7. StatusFits'
  BY <1>2, <1>3 DEF StatusFits
<1>8. ClientFits'
  BY <1>0, <1>1 DEF ClientFits, Deciding
<1>9. PauseFits'
  <2>1. /\ \A i \in Doers : job'[i] # "waiting"
        /\ \A i \in Handlers : pc'[i] \notin Paused
        /\ pc'["monitor"] \in {"idle", "dead"}
    BY <1>0, <1>1, TurnNames DEF Paused
  <2> QED
    BY <2>1 DEF PauseFits
<1>10. Backed'
  BY <1>0, <1>1, <1>2, <1>3, TurnNames DEF Turn, Backed, Deciding, Approving, Resuming
<1> QED
  BY <1>4, <1>5, <1>6, <1>7, <1>8, <1>9, <1>10 DEF Turn

LEMMA PlannerStep ==
  ASSUME Turn, LifeTypes', NEW k \in Planners,
         pc[k] \notin {"idle", "ended", "pausing", "waiting", "park"},
         NEW l \in StepsOf[k] \ {"idle", "pausing", "waiting", "park"}, Go(k, l),
         UNCHANGED job, run'.approved = run.approved, run'.snapshot = run.snapshot,
         run'.resume = "researching",
         l = "ended" \/ run'.status = run.status \/ (k = "research" /\ run'.status = "researching")
  PROVE  Turn'
<1>0. k \in Handlers /\ k \in Actors /\ k \notin Doers
  BY TurnNames
<1>1. PlannerStatus(k)
  BY <1>0, OnTurn
<1>2. pc'[k] = l
  BY <1>0, Lands
<1>3. l # "ended" => PlannerStatus(k)'
  BY <1>1, <1>2 DEF PlannerStatus
<1> QED
  BY <1>0, <1>3, ThreadStep

LEMMA PlanningTurn ==
  ASSUME Turn, LifeTypes', NEW k \in Handlers, Planning(k)
  PROVE  Turn'
<1>0. {"provisional", "research", "decompose"} \subseteq Planners /\ Planners \subseteq Handlers
  BY TurnNames
<1>1. CASE k = "provisional" /\ StartProvisional
  <2>1. run.resume = "researching"
    BY <1>1, OnTurn DEF StartProvisional, Starts
  <2> QED
    BY <1>0, <1>1, <2>1, PlannerStep DEF StartProvisional, Starts, StepsOf
<1>2. CASE k = "research" /\ StartResearch
  <2>1. /\ Go("research", "researching") \/ Go("research", "except")
        /\ pc["research"] = "start" /\ run.resume = "researching"
    BY <1>2, OnTurn, Validates DEF StartResearch, Starts
  <2>2. /\ run'.approved = run.approved /\ run'.snapshot = run.snapshot
        /\ run'.resume = run.resume /\ run'.status = run.status
    BY <1>2 DEF StartResearch, Turn, LifeTypes, Rows
  <2> QED
    BY <1>0, <1>2, <2>1, <2>2, PlannerStep DEF StartResearch, StepsOf, Common
<1>3. CASE k = "research" /\ Research
  <2>1. pc["research"] = "researching" /\ run.resume = "researching"
    BY <1>3, OnTurn DEF Research
  <2>2. /\ run'.approved = run.approved /\ run'.snapshot = run.snapshot
        /\ run'.resume = run.resume /\ run'.status = "researching"
    BY <1>3 DEF Research, Turn, LifeTypes, Rows
  <2> QED
    BY <1>0, <1>3, <2>1, <2>2, PlannerStep DEF Research, StepsOf, Common
<1>4. CASE k = "research" /\ Researched
  <2>1. pc["research"] = "worker" /\ run.resume = "researching"
    BY <1>4, OnTurn DEF Researched
  <2> QED
    BY <1>0, <1>4, <2>1, PlannerStep DEF Researched, StepsOf, Common
<1>5. CASE Planned(k)
  <2>1. /\ pc[k] = "brain" /\ k \in {"provisional", "research"} /\ run.resume = "researching"
        /\ \/ k = "provisional" /\ (Go(k, "saved") \/ Go(k, "except"))
           \/ k = "research" /\ (Go(k, "ended") \/ Go(k, "decompose"))
    BY <1>5, OnTurn, Validates DEF Planned
  <2> QED
    BY <1>0, <1>5, <2>1, PlannerStep DEF Planned, StepsOf, Common
<1>6. CASE k = "provisional" /\ Save
  <2>1. pc["provisional"] = "saved"
    BY <1>6 DEF Save
  <2>2. /\ run'.approved = run.approved /\ run'.snapshot = run.snapshot
        /\ run'.resume = "researching" /\ run'.status = "waiting_for_ollama"
    BY <1>6 DEF Save, Turn, LifeTypes, Rows
  <2>3. PlannerStatus(k)' /\ k \notin Doers
    BY <1>0, <1>6, <2>2, Lands, TurnNames DEF Save, PlannerStatus
  <2> QED
    BY <1>6, <2>1, <2>2, <2>3, ThreadStep DEF Save, StepsOf
<1>7. CASE k = "provisional" /\ Park
  <2>1. /\ pc[k] = "park" /\ PlannerStatus(k) /\ run.resume = "researching"
    BY <1>0, <1>7, OnTurn DEF Park
  <2>2. /\ \A i \in Handlers : i # "research" => job'[i] = job[i]
        /\ job'["research"] # job["research"] =>
             job["research"] = "none" /\ job'["research"] = "waiting"
    BY <1>0, <1>7 DEF Park, Turn, LifeTypes, JobsTyped
  <2>3. PlannerStatus("research")' /\ "research" \notin Doers
    BY <1>7, <2>1, TurnNames DEF Park, PlannerStatus
  <2> QED
    BY <1>0, <1>7, <2>1, <2>2, <2>3, HandsOver DEF Park
<1>8. CASE k = "decompose" /\ StartDecompose
  <2>1. pc[k] = "start" /\ run.resume = "researching"
    BY <1>8, OnTurn DEF StartDecompose, Starts
  <2> QED
    BY <1>0, <1>8, <2>1, PlannerStep DEF StartDecompose, StepsOf
<1>9. CASE Decompose(k) \/ RecordHash(k) \/ Ready(k)
  <2>1. /\ pc[k] \in {"decompose", "hash", "ready"} /\ run.resume = "researching"
        /\ Go(k, "hash") \/ Go(k, "ready") \/ Go(k, "except") \/ (Ready(k) /\ Go(k, "ended"))
    BY <1>9, OnTurn, Validates DEF Decompose, RecordHash, Ready
  <2>2. k \in {"research", "decompose"}
    BY <2>1 DEF Turn, Placed, StepsOf, Common, AppliersSteps, Paused, Handlers
  <2>3. /\ run'.approved = run.approved /\ run'.snapshot = run.snapshot
        /\ run'.resume = "researching" /\ (Ready(k) \/ run'.status = run.status)
    BY <1>9, <2>1 DEF Decompose, RecordHash, Ready, Turn, LifeTypes, Rows
  <2>4. UNCHANGED job
    BY <1>9 DEF Decompose, RecordHash, Ready
  <2>5. {"hash", "ready", "except", "ended"} \subseteq StepsOf[k]
    BY <2>2 DEF StepsOf, Common
  <2>6. CASE Ready(k)
    BY <1>0, <2>1, <2>2, <2>3, <2>4, <2>5, <2>6, PlannerStep DEF Ready
  <2> QED
    BY <1>0, <2>1, <2>2, <2>3, <2>4, <2>5, <2>6, PlannerStep
<1> QED
  BY <1>1, <1>2, <1>3, <1>4, <1>5, <1>6, <1>7, <1>8, <1>9 DEF Planning


\* A handler is claimed, ends, or finds the run over.
LEMMA QueueTurn ==
  ASSUME Turn, LifeTypes', NEW k \in Handlers, Claim(k) \/ Finalize(k) \/ RunIsOver(k)
  PROVE  Turn'
<1>0. k \in Actors
  BY TurnNames
<1>1. CASE Claim(k)
  <2>0. /\ pc[k] = "idle" /\ job[k] = "pending" /\ Carries(k)
        /\ \A j \in Handlers : j # k => ~Carries(j)
        /\ \A c \in Clients : pc[c] \notin Deciding
    BY <1>1 DEF Claim, Carries, Turn, OneTurn
  <2>1. /\ pc'[k] = "start" /\ \A j \in Handlers : j # k => pc'[j] = pc[j]
        /\ \A c \in Clients : pc'[c] = pc[c]
        /\ pc'["monitor"] = pc["monitor"]
    BY <1>0, <1>1, Lands, TurnNames DEF Claim
  <2>2. job'[k] = "running" /\ \A j \in Handlers : j # k => job'[j] = job[j]
    BY <1>1 DEF Claim, Turn, LifeTypes, JobsTyped
  <2>3. \A j \in Handlers : j # k => ~Carries(j)'
    BY <2>0, <2>1, <2>2 DEF Carries
  <2>4. \A j \in Handlers : job[j] # "waiting"
    BY <2>0 DEF Carries
  <2>5. pc["monitor"] \in {"idle", "dead"} /\ run.resume = "researching"
    BY <2>4, TurnNames DEF Turn, Placed, PauseFits, Remembers
  <2>6. OneTurn' /\ ClientFits'
    BY <1>1, <2>0, <2>1, <2>3 DEF Claim, OneTurn, ClientFits, Deciding
  <2>7. Placed'
    <3>1. "start" \in StepsOf[k]
      BY DEF Handlers, StepsOf, AppliersSteps, Common
    <3> QED
      BY <2>1, <3>1 DEF Turn, Placed
  <2>8. JobFits'
    BY <2>1, <2>2 DEF Turn, JobFits, Paused
  <2>9. StatusFits'
    <3>1. k \in Planners => PlannerStatus(k)'
      BY <1>1, <2>0, <2>1 DEF Claim, Turn, StatusFits, PlannerStatus
    <3>2. k \in Doers => DoerStatus(k)'
      BY <1>1, <2>0, <2>1, <2>2 DEF Claim, Turn, StatusFits, DoerStatus, Elsewhere, Paused
    <3> QED
      BY <2>3, <3>1, <3>2 DEF StatusFits
  <2>10. PauseFits'
    <3>1. \A j \in Handlers : pc'[j] \notin Paused /\ job'[j] # "waiting"
      BY <2>1, <2>2, <2>3, <2>4 DEF Carries, Paused
    <3> QED
      BY <1>1, <2>1, <2>5, <3>1, TurnNames DEF Claim, PauseFits
  <2>11. Backed'
    BY <1>1, <2>0, <2>1, <2>3, TurnNames
       DEF Claim, Turn, Backed, Deciding, Approving, Resuming
  <2> QED
    BY <2>6, <2>7, <2>8, <2>9, <2>10, <2>11 DEF Turn
<1>2. CASE Finalize(k)
  <2>0. pc[k] = "ended" /\ job[k] = "running"
    BY <1>2 DEF Finalize, Turn, JobFits
  <2>1. /\ pc'[k] = "idle" /\ \A j \in Handlers : j # k => pc'[j] = pc[j]
        /\ \A c \in Clients : pc'[c] = pc[c]
        /\ pc'["monitor"] = pc["monitor"]
    BY <1>0, <1>2, Lands, TurnNames DEF Finalize
  <2>2. job'[k] = "none" /\ \A j \in Handlers : j # k => job'[j] = job[j]
    BY <1>2 DEF Finalize, Turn, LifeTypes, JobsTyped
  <2>3. /\ \A a \in Actors : a # k => mine'[a] = mine[a]
    BY <1>2 DEF Finalize, Turn, LifeTypes, ControlTyped
  <2>4. \A j \in Handlers : /\ Carries(j)' <=> Carries(j)
                            /\ job'[j] = "waiting" <=> job[j] = "waiting"
                            /\ Carries(j) => j # k
    BY <2>0, <2>1, <2>2 DEF Carries
  <2>5. OneTurn' /\ ClientFits'
    BY <1>2, <2>1, <2>4 DEF Finalize, Turn, OneTurn, ClientFits
  <2>6. Placed'
    <3>1. "idle" \in StepsOf[k]
      BY DEF Handlers, StepsOf, AppliersSteps, Common
    <3> QED
      BY <2>1, <3>1 DEF Turn, Placed
  <2>7. JobFits'
    BY <2>1, <2>2 DEF Turn, JobFits, Paused
  <2>8. StatusFits'
    BY <1>2, <2>1, <2>2, <2>4 DEF Finalize, Turn, StatusFits, PlannerStatus, DoerStatus
  <2>9. PauseFits'
    <3>1. \A j \in Handlers : pc'[j] \in Paused => j # k /\ pc[j] \in Paused /\ mine'[j] = mine[j]
      BY <2>1, <2>3, TurnNames DEF Paused
    <3>2. \A j \in Handlers : job[j] = "waiting" => j # k
      BY <2>0
    <3>3. mine'["monitor"] = mine["monitor"]
      BY <2>3, TurnNames
    <3>4. \A j \in Handlers : /\ Remembers(j) => Remembers(j)'
                              /\ Resumed(j) => Resumed(j)'
                              /\ Pauses(j) => Pauses(j)'
      BY <1>2, <2>0, <2>1, <2>2, <3>2, <3>3 DEF Finalize, Remembers, Resumed, Pauses, Paused
    <3> QED
      BY <1>2, <2>1, <2>4, <3>1, <3>3, <3>4, TurnNames DEF Finalize, Turn, PauseFits
  <2>10. Backed'
    <3>1. \A c \in Clients : mine'[c] = mine[c]
      BY <2>3, TurnNames
    <3> QED
      BY <1>2, <2>1, <2>4, <3>1, TurnNames DEF Finalize, Turn, Backed
  <2> QED
    BY <2>5, <2>6, <2>7, <2>8, <2>9, <2>10 DEF Turn
<1>3. CASE RunIsOver(k)
  <2>1. pc[k] = "start" /\ run.resume = "researching"
    BY <1>3, OnTurn DEF RunIsOver
  <2>2. "ended" \in StepsOf[k]
    BY DEF Handlers, StepsOf, AppliersSteps, Common
  <2> QED
    BY <1>3, <2>1, <2>2, ThreadStep DEF RunIsOver
<1> QED
  BY <1>1, <1>2, <1>3

\* A step of a thread keeps the status, or one a handler may have there.
LEMMA FailureTurn ==
  ASSUME Turn, LifeTypes', NEW k \in Handlers, CallRaises(k) \/ Except(k) \/ Fail(k)
  PROVE  Turn'
<1>0. /\ pc[k] \notin {"idle", "ended", "pausing", "waiting", "park"}
      /\ k \in Actors /\ run.resume = "researching"
      /\ k \in Planners => PlannerStatus(k)
      /\ k \in Doers => DoerStatus(k) /\ run.snapshot # NoContent
  BY OnTurn DEF CallRaises, Except, Fail
<1>0a. /\ job[k] = "running" /\ UNCHANGED job
       /\ {"except", "failing", "ended"} \subseteq StepsOf[k]
  BY <1>0, OnTurn DEF CallRaises, Except, Fail, Handlers, StepsOf, AppliersSteps, Common
<1>1. CASE CallRaises(k)
  <2>1. /\ run'.approved = run.approved /\ run'.snapshot = run.snapshot
        /\ run'.resume = run.resume /\ run'.status = run.status
    BY <1>1 DEF CallRaises, Turn, LifeTypes, Rows
  <2>2. Go(k, "except") /\ pc'[k] = "except"
    BY <1>0, <1>1, Lands DEF CallRaises
  <2>3. k \in Planners => PlannerStatus(k)'
    BY <1>0, <2>1, <2>2 DEF PlannerStatus
  <2>4. k \in Doers => DoerStatus(k)'
    <3>1. /\ pc[k] \in {"brain", "decompose", "worker", "solo", "verifiers", "verdict",
                        "gate", "repairing", "copying", "copied", "checking"}
          /\ pc[k] \in {"copying", "copied", "checking"} /\ k \in Doers => k \in Appliers
      BY <1>1 DEF CallRaises, Turn, Placed, Doers, Appliers, StepsOf, Common, Paused, Handlers
    <3>2. \/ run.status \in Doing
          \/ k \in Appliers /\ run.status \in {"applying", "post_check"}
          \/ k \notin Doers
      BY <1>0, <1>0a, <3>1 DEF DoerStatus, Elsewhere, Doing
    <3> QED
      BY <1>0a, <2>1, <2>2, <3>2 DEF DoerStatus, Elsewhere, Paused
  <2> QED
    BY <1>0, <1>0a, <2>1, <2>2, <2>3, <2>4, ThreadStep
<1>2. CASE Except(k)
  <2>1. CASE Go(k, "ended")
    BY <1>0, <1>0a, <1>2, <2>1, ThreadStep DEF Except
  <2>2. CASE Go(k, "restored") /\ k \in Appliers /\ run.status \in {"applying", "post_check"}
    <3>1. k \in Doers /\ k \notin Planners /\ "restored" \in StepsOf[k] /\ pc'[k] = "restored"
      BY <1>0, <2>2, Lands, TurnNames DEF StepsOf, AppliersSteps, Appliers
    <3>2. DoerStatus(k)'
      BY <1>0a, <1>2, <2>2, <3>1 DEF Except, DoerStatus, Elsewhere, Paused
    <3> QED
      BY <1>0, <1>0a, <1>2, <2>2, <3>1, <3>2, ThreadStep DEF Except
  <2>3. CASE Go(k, "failing") /\ ~(k \in Appliers /\ run.status \in {"applying", "post_check"})
    <3>1. pc[k] = "except" /\ pc'[k] = "failing"
      BY <1>0, <1>2, <2>3, Lands DEF Except
    <3>2. k \in Planners => PlannerStatus(k)'
      BY <1>0, <1>2, <3>1 DEF Except, PlannerStatus
    <3>3. k \in Doers => DoerStatus(k)'
      BY <1>0, <1>0a, <1>2, <2>3, <3>1 DEF Except, DoerStatus, Elsewhere, Paused
    <3> QED
      BY <1>0, <1>0a, <1>2, <2>3, <3>2, <3>3, ThreadStep DEF Except
  <2> QED
    BY <1>0, <1>2, <2>1, <2>2, <2>3, TurnNames, Validates DEF Except
<1>3. CASE Fail(k)
  <2>1. /\ run'.approved = run.approved /\ run'.snapshot = run.snapshot
        /\ run'.resume = run.resume
    BY <1>3 DEF Fail, Turn, LifeTypes, Rows
  <2> QED
    BY <1>0, <1>0a, <1>3, <2>1, ThreadStep DEF Fail
<1> QED
  BY <1>1, <1>2, <1>3

\* The next step of a handler that implements, with a status it may have there.
LEMMA DoerStep ==
  ASSUME Turn, LifeTypes', NEW k \in Doers, pc[k] \notin {"idle", "ended", "pausing", "waiting"},
         NEW l \in StepsOf[k] \ {"idle", "pausing", "waiting"}, Go(k, l), UNCHANGED job,
         run'.approved = run.approved, run'.snapshot = run.snapshot, run'.resume = run.resume,
         \/ l = "ended"
         \/ l \notin Elsewhere /\ run'.status \in Doing
         \/ l \in {"copying", "copied", "post_check"} /\ run'.status \in {"applying", "cancelled"}
         \/ l \in {"checking", "completed"} /\ run'.status \in {"post_check", "cancelled"}
         \/ l = "restored" /\ run'.status \in {"applying", "post_check", "cancelled"}
         \/ l = "edited" /\ run'.status \in {"decomposing", "cancelled"}
         \/ l = "except" /\ run'.status \in Doing
         \/ l = "except" /\ k \in Appliers /\ run'.status \in {"applying", "post_check"}
  PROVE  Turn'
<1>0. k \in Handlers /\ k \notin Planners
  BY TurnNames
<1>1. job[k] = "running" /\ run.resume = "researching" /\ k \in Actors
  BY <1>0, OnTurn
<1>2. pc'[k] = l
  BY <1>1, Lands
<1>3. l # "ended" => DoerStatus(k)'
  BY <1>1, <1>2 DEF DoerStatus, Elsewhere, Paused
<1> QED
  BY <1>0, <1>1, <1>3, ThreadStep

LEMMA ImplementingTurn ==
  ASSUME Turn, LifeTypes', NEW k \in Handlers, Implementing(k) \/ Edited(k)
  PROVE  Turn'
<1>0. /\ pc[k] \notin {"idle", "ended", "pausing", "waiting", "except"}
      /\ k \in Doers
  BY DEF Implementing, StartImplementation, Solo, StartWork, Work, StartMerge, Dispatch, Edited,
         Starts, Turn, Placed, StepsOf, Common, Paused, Handlers, Doers
<1>1. /\ job[k] = "running" /\ DoerStatus(k) /\ run.approved # 0 /\ run.resume = "researching"
      /\ \A j \in Handlers : j # k => pc[j] \in {"idle", "ended"}
      /\ \A j \in Handlers : job[j] # "waiting"
  BY <1>0, OnTurn
<1>2. CASE k = "implementation" /\ StartImplementation
  <2>1. /\ Go(k, "solo") \/ Go(k, "dispatch")
        /\ run'.status \in Doing
    BY <1>1, <1>2 DEF StartImplementation, Starts, DoerStatus, Elsewhere
  <2> QED
    BY <1>0, <1>2, <2>1, DoerStep DEF StartImplementation, StepsOf, Elsewhere
<1>3. CASE k = "implementation" /\ Solo
  <2>1. (Go(k, "verify") \/ Go(k, "ended")) /\ run'.status \in Doing
    BY <1>1, <1>3 DEF Solo, DoerStatus, Elsewhere
  <2> QED
    BY <1>0, <1>3, <2>1, DoerStep DEF Solo, StepsOf, AppliersSteps, Common, Elsewhere
<1>4. CASE k = "work" /\ (StartWork \/ Work)
  <2>1. /\ Go(k, "working") \/ Go(k, "dispatch")
        /\ run'.status \in Doing
    BY <1>1, <1>4 DEF StartWork, Work, Starts, DoerStatus, Elsewhere
  <2>2. UNCHANGED <<run, job>>
    BY <1>4 DEF StartWork, Work
  <2> QED
    BY <1>0, <1>4, <2>1, <2>2, DoerStep DEF StepsOf, Elsewhere
<1>5. CASE k = "merge" /\ StartMerge
  <2>1. /\ Go(k, "except") \/ Go(k, "verify") \/ Go(k, "failing") \/ Go(k, "ended")
        /\ run'.status \in Doing /\ UNCHANGED <<run, job>>
    BY <1>1, <1>5, Validates DEF StartMerge, Starts, DoerStatus, Elsewhere
  <2>2. {"except", "verify", "failing", "ended"} \subseteq StepsOf[k]
    BY <1>5 DEF StepsOf, AppliersSteps, Common
  <2> QED
    BY <1>0, <2>1, <2>2, DoerStep DEF Elsewhere
<1>6. CASE Dispatch(k)
  <2>1. run.status \in Doing
    BY <1>1, <1>6 DEF Dispatch, DoerStatus, Elsewhere
  <2>2. {"failing", "ended"} \subseteq StepsOf[k]
    BY <1>0 DEF StepsOf, AppliersSteps, Common, Doers
  <2>3. CASE graph.state = "closed"
    <3>1. (Go(k, "failing") \/ Go(k, "ended")) /\ UNCHANGED <<run, job>>
      BY <1>6, <2>3, Validates DEF Dispatch
    <3> QED
      BY <1>0, <2>1, <2>2, <3>1, DoerStep DEF Elsewhere
  <2>4. CASE graph.state # "closed"
    <3>1. PICK j \in {"work", "merge"} : Enqueue(j) \/ UNCHANGED job
      BY <1>6, <2>4 DEF Dispatch
    <3>2. /\ j \in Handlers /\ j \in Doers /\ j \notin Planners
          /\ \A i \in Handlers : i # j => job'[i] = job[i]
          /\ job'[j] # job[j] => job[j] = "none" /\ job'[j] = "pending"
      BY <3>1, TurnNames DEF Enqueue, Turn, LifeTypes, JobsTyped
    <3>3. Go(k, "ended") /\ UNCHANGED run
      BY <1>6, <2>4 DEF Dispatch
    <3>4. pc'[j] = "idle" => DoerStatus(j)'
      BY <2>1, <3>2, <3>3 DEF DoerStatus, Elsewhere, Paused
    <3> QED
      BY <1>0, <1>1, <3>2, <3>3, <3>4, HandsOver
  <2> QED
    BY <2>3, <2>4
<1>7. CASE Edited(k)
  <2>1. Enqueue("decompose") /\ Go(k, "ended") /\ UNCHANGED run
    BY <1>7 DEF Edited
  <2>2. run.status \in {"decomposing", "cancelled"}
    BY <1>1, <1>7 DEF Edited, DoerStatus
  <2>3. /\ "decompose" \in Handlers /\ "decompose" \notin Doers
        /\ \A i \in Handlers : i # "decompose" => job'[i] = job[i]
        /\ job'["decompose"] # job["decompose"] =>
             job["decompose"] = "none" /\ job'["decompose"] = "pending"
    BY <2>1, TurnNames DEF Enqueue, Turn, LifeTypes, JobsTyped
  <2>4. PlannerStatus("decompose")'
    BY <2>1, <2>2 DEF PlannerStatus
  <2> QED
    BY <1>0, <1>1, <2>1, <2>3, <2>4, HandsOver
<1> QED
  BY <1>2, <1>3, <1>4, <1>5, <1>6, <1>7 DEF Implementing

LEMMA ApplyingTurn ==
  ASSUME Turn, LifeTypes', NEW k \in Appliers, Applying(k)
  PROVE  Turn'
<1>0. /\ pc[k] \notin {"idle", "ended", "pausing", "waiting", "start", "except"}
      /\ k \in Doers /\ k \in Handlers /\ k \in Actors
  BY TurnNames
     DEF Applying, Verdict, Verify, Verifying, VerifiersReport, VerdictPasses, VerdictExpands,
         VerdictFails, Expand, Repair, Repaired, Gate, Apply, CopySome, CopyRest, PostCheck,
         CheckPasses, CheckFails, Complete, Restored
<1>1. job[k] = "running" /\ DoerStatus(k)
  BY <1>0, OnTurn
<1>2. AppliersSteps \subseteq StepsOf[k]
  BY DEF Appliers, StepsOf
<1>3. CASE \/ Verify(k) \/ VerifiersReport(k) \/ VerdictPasses(k) \/ VerdictExpands(k)
           \/ VerdictFails(k) \/ Repaired(k) \/ Gate(k)
  <2>1. run.status \in Doing
    BY <1>1, <1>3 DEF Verify, VerifiersReport, VerdictPasses, VerdictExpands, VerdictFails,
                      Repaired, Gate, DoerStatus, Elsewhere
  <2>2. UNCHANGED <<run, job>>
    BY <1>3 DEF Verify, VerifiersReport, VerdictPasses, VerdictExpands, VerdictFails, Repaired, Gate
  <2>3. PICK l \in {"verifying", "except", "ended", "verdict", "gate", "expand", "repair",
                    "failing", "applying"} : Go(k, l)
    BY <1>3, Validates
       DEF Verify, VerifiersReport, VerdictPasses, VerdictExpands, VerdictFails, Repaired, Gate
  <2> QED
    BY <1>0, <1>2, <2>1, <2>2, <2>3, DoerStep DEF AppliersSteps, Common, Elsewhere
<1>4. CASE Verifying(k) \/ Repair(k)
  <2>1. /\ run'.approved = run.approved /\ run'.snapshot = run.snapshot
        /\ run'.resume = run.resume /\ run'.status \in Doing
    BY <1>4 DEF Verifying, Repair, Turn, LifeTypes, Rows, Doing
  <2>2. (Go(k, "verifiers") \/ Go(k, "repairing")) /\ UNCHANGED job
    BY <1>4 DEF Verifying, Repair
  <2> QED
    BY <1>0, <1>2, <2>1, <2>2, DoerStep DEF AppliersSteps, Elsewhere
<1>5. CASE Expand(k)
  <2>1. /\ run'.approved = run.approved /\ run'.snapshot = run.snapshot
        /\ run'.resume = run.resume /\ run'.status = "decomposing"
    BY <1>5 DEF Expand, Turn, LifeTypes, Rows
  <2> QED
    BY <1>0, <1>2, <1>5, <2>1, DoerStep DEF Expand, AppliersSteps
<1>6. CASE Apply(k)
  <2>1. /\ run'.approved = run.approved /\ run'.snapshot = run.snapshot
        /\ run'.resume = run.resume /\ run'.status = "applying"
    BY <1>6 DEF Apply, Turn, LifeTypes, Rows
  <2> QED
    BY <1>0, <1>2, <1>6, <2>1, DoerStep DEF Apply, AppliersSteps
<1>7. CASE CopySome(k) \/ CopyRest(k)
  <2>1. run.status \in {"applying", "cancelled"}
    BY <1>1, <1>7 DEF CopySome, CopyRest, DoerStatus
  <2>2. (Go(k, "copied") \/ Go(k, "post_check") \/ Go(k, "except")) /\ UNCHANGED <<run, job>>
    BY <1>7, Validates DEF CopySome, CopyRest
  <2> QED
    BY <1>0, <1>2, <2>1, <2>2, DoerStep DEF AppliersSteps, Common, Doing
<1>8. CASE PostCheck(k)
  <2>1. /\ run'.approved = run.approved /\ run'.snapshot = run.snapshot
        /\ run'.resume = run.resume /\ run'.status = "post_check"
    BY <1>8 DEF PostCheck, Turn, LifeTypes, Rows
  <2> QED
    BY <1>0, <1>2, <1>8, <2>1, DoerStep DEF PostCheck, AppliersSteps
<1>9. CASE CheckPasses(k) \/ CheckFails(k)
  <2>1. run.status \in {"post_check", "cancelled"}
    BY <1>1, <1>9 DEF CheckPasses, CheckFails, DoerStatus
  <2>2. (Go(k, "completed") \/ Go(k, "restored") \/ Go(k, "except")) /\ UNCHANGED <<run, job>>
    BY <1>9, Validates DEF CheckPasses, CheckFails
  <2> QED
    BY <1>0, <1>2, <2>1, <2>2, DoerStep DEF AppliersSteps, Common, Doing
<1>10. CASE Complete(k) \/ Restored(k)
  <2>1. /\ run'.approved = run.approved /\ run'.snapshot = run.snapshot
        /\ run'.resume = run.resume
    BY <1>10 DEF Complete, Restored, Turn, LifeTypes, Rows
  <2>2. Go(k, "ended") /\ UNCHANGED job
    BY <1>10 DEF Complete, Restored
  <2> QED
    BY <1>0, <1>2, <2>1, <2>2, DoerStep DEF AppliersSteps, Common
<1> QED
  BY <1>3, <1>4, <1>5, <1>6, <1>7, <1>8, <1>9, <1>10 DEF Applying, Verdict

\* The thread of an outage leaves the run to its own parked job, the only one
\* that waits.
LEMMA PauseTurn ==
  ASSUME Turn, LifeTypes', NEW k \in Handlers, Pause(k)
  PROVE  Turn'
<1>0. /\ pc[k] \notin {"idle", "ended", "pausing", "waiting", "park"}
      /\ k \in Doers \cup {"research"}
  BY DEF Pause, CallsOllama, Starts, Turn, Placed, StepsOf, Common, Paused, Handlers, Doers
<1>1. /\ job[k] = "running" /\ k \in Actors
      /\ \A j \in Handlers : j # k => ~Carries(j) /\ pc[j] \in {"idle", "ended"}
      /\ \A j \in Handlers : job[j] # "waiting"
      /\ \A c \in Clients : pc[c] \notin Deciding
      /\ pc["monitor"] \in {"idle", "dead"}
      /\ run.resume = "researching"
      /\ k \in Planners => PlannerStatus(k)
      /\ k \in Doers => DoerStatus(k) /\ run.approved # 0 /\ run.snapshot # NoContent
  BY <1>0, OnTurn
<1>2. /\ pc'[k] \in {"idle", "pausing"} /\ \A j \in Handlers : j # k => pc'[j] = pc[j]
      /\ \A c \in Clients : pc'[c] = pc[c]
      /\ pc'["monitor"] = pc["monitor"]
      /\ pc'[k] = "idle" <=> run.status = "waiting_for_ollama"
  BY <1>1, Lands, TurnNames DEF Pause
<1>3. job'[k] = "waiting" /\ \A j \in Handlers : j # k => job'[j] = job[j]
  BY <1>1 DEF Pause, Carries, Turn, LifeTypes, JobsTyped
<1>4. \A j \in Handlers : j # k => ~Carries(j)'
  BY <1>1, <1>2, <1>3 DEF Carries
<1>5. UNCHANGED run /\ \A a \in Actors : a # k => mine'[a] = mine[a]
  BY DEF Pause, Turn, LifeTypes, ControlTyped
<1>6. /\ k \in Doers => run.status \in Doing \cup {"post_check"}
      /\ k = "research" => run.status \in {"researching", "waiting_for_ollama", "cancelled"}
  <2>1. CASE k \in Doers
    <3>1. \/ pc[k] \in {"start", "working", "solo", "verifiers", "repairing"}
          \/ pc[k] = "checking"
      BY <1>0, <2>1, TurnNames
         DEF Pause, CallsOllama, Starts, Turn, Placed, StepsOf, Common, Paused, AppliersSteps, Doers
    <3> QED
      BY <1>1, <2>1, <3>1, TurnNames DEF DoerStatus, Elsewhere, Doing, Planners
  <2> QED
    BY <1>0, <1>1, <2>1, TurnNames DEF PlannerStatus
<1>7. k \in Doers => run.status # "waiting_for_ollama"
  BY <1>6 DEF Doing
<1>8. OneTurn' /\ ClientFits'
  BY <1>1, <1>2, <1>4 DEF OneTurn, ClientFits, Deciding
<1>9. Placed'
  <2>1. {"idle", "pausing"} \subseteq StepsOf[k]
    BY <1>0 DEF Doers, StepsOf, AppliersSteps, Common, Paused
  <2> QED
    BY <1>2, <2>1 DEF Turn, Placed
<1>10. JobFits'
  BY <1>0, <1>2, <1>3 DEF Turn, JobFits, Paused
<1>11. StatusFits'
  <2>1. k \in Planners => PlannerStatus(k)'
    BY <1>1, <1>5, <1>0, TurnNames DEF PlannerStatus
  <2>2. k \in Doers => DoerStatus(k)'
    BY <1>2, <1>3, <1>5, <1>6, <1>7 DEF DoerStatus, Elsewhere, Paused
  <2> QED
    BY <1>4, <2>1, <2>2 DEF StatusFits
<1>12. PauseFits'
  <2>1. k \in Doers => Pauses(k)'
    BY <1>1, <1>2, <1>5, <1>7 DEF Pauses, Paused
  <2>2. \A j \in Handlers : pc'[j] \in Paused => j = k
    BY <1>1, <1>2 DEF Paused
  <2>3. pc'[k] \in Paused =>
          /\ mine'[k].status \in (IF k \in Doers THEN {"implementing", "verifying"}
                                  ELSE {"researching"}) \cup {"cancelled"}
          /\ mine'[k].status = "cancelled" => run.status = "cancelled"
          /\ pc'[k] = "pausing"
    <3>1. mine'[k].status =
            IF run.status = "post_check" /\ run.snapshot # NoContent THEN "verifying" ELSE run.status
      BY <1>1 DEF Pause, Turn, LifeTypes, ControlTyped, Reads
    <3> QED
      BY <1>0, <1>1, <1>2, <1>6, <3>1, TurnNames DEF Doing, Paused
  <2>4. \A j \in Doers : job'[j] = "waiting" => j = k
    BY <1>1, <1>3, TurnNames
  <2> QED
    BY <1>1, <1>2, <1>5, <2>1, <2>2, <2>3, <2>4 DEF PauseFits
<1>13. Backed'
  <2>1. \A c \in Clients : mine'[c] = mine[c]
    BY <1>5, TurnNames
  <2> QED
    BY <1>1, <1>2, <1>4, <1>5, <2>1, TurnNames DEF Turn, Backed
<1> QED
  BY <1>8, <1>9, <1>10, <1>11, <1>12, <1>13 DEF Turn

\* It parks the run itself, unless that was cancelled meanwhile.
LEMMA WaitTurn ==
  ASSUME Turn, LifeTypes', NEW k \in Handlers, PauseRun(k) \/ Wait(k)
  PROVE  Turn'
<1>0. /\ pc[k] \in Paused /\ Carries(k) /\ k \in Actors
      /\ k \in Doers \cup {"research"}
  BY TurnNames DEF PauseRun, Wait, Carries, Turn, Placed, StepsOf, Common, Paused, Planners
<1>1. /\ \A j \in Handlers : j # k => ~Carries(j)
      /\ \A c \in Clients : pc[c] \notin Deciding
      /\ job[k] # "running" /\ (k \in Doers => job[k] = "waiting")
      /\ run.resume = "researching"
      /\ k \in Doers => Pauses(k)
  <2>1. \A j \in Handlers : j # k => ~Carries(j)
    BY <1>0 DEF Turn, OneTurn
  <2>2. \A j \in Doers : ~Remembers(j)
    BY <1>0, <2>1, TurnNames DEF Remembers, Carries, Paused
  <2>3. k \in Doers => ~Resumed(k) /\ job[k] = "waiting"
    BY <1>0 DEF Resumed, Paused, Turn, JobFits
  <2> QED
    BY <1>0, <2>1, <2>2, <2>3 DEF Turn, OneTurn, JobFits, PauseFits
<1>2. /\ pc'[k] \in {"idle", "waiting"} /\ \A j \in Handlers : j # k => pc'[j] = pc[j]
      /\ \A c \in Clients : pc'[c] = pc[c]
      /\ pc'["monitor"] = pc["monitor"]
  BY <1>0, Lands, Validates, TurnNames DEF PauseRun, Wait
<1>3. /\ UNCHANGED <<job, mine>>
      /\ \A j \in Handlers : j # k => ~Carries(j)'
  BY <1>1, <1>2 DEF PauseRun, Wait, Carries
<1>4. OneTurn' /\ ClientFits'
  BY <1>1, <1>2, <1>3 DEF OneTurn, ClientFits, Deciding
<1>5. Placed'
  <2>1. {"idle", "waiting"} \subseteq StepsOf[k]
    BY <1>0 DEF Doers, StepsOf, AppliersSteps, Common, Paused
  <2> QED
    BY <1>2, <2>1 DEF Turn, Placed
<1>6. JobFits'
  BY <1>1, <1>2, <1>3 DEF Turn, JobFits, Paused
<1>7. Backed'
  <2>1. run'.approved = run.approved /\ run'.snapshot = run.snapshot
    BY DEF PauseRun, Wait, Turn, LifeTypes, Rows
  <2> QED
    BY <1>0, <1>1, <1>2, <1>3, <2>1, TurnNames
       DEF Turn, Backed, Deciding, Approving, Resuming
<1>8. CASE PauseRun(k)
  <2>1. /\ UNCHANGED run
        /\ \/ pc'[k] = "waiting"
           \/ pc'[k] = "idle" /\ ~ValidTransition(run.status, "waiting_for_ollama")
    BY <1>0, <1>8, Lands DEF PauseRun, Validate, Target
  <2>2. /\ k \in Doers => run.status \in {"post_check"} \cup Doing
        /\ k = "research" => run.status \in {"researching", "waiting_for_ollama", "cancelled"}
    BY <1>0, TurnNames DEF Turn, StatusFits, DoerStatus, PlannerStatus
  <2>3. /\ pc'[k] = "idle" => run.status = "cancelled"
        /\ pc'[k] = "waiting" => run.status # "cancelled"
    <3>1. /\ ~ValidTransition(run.status, "waiting_for_ollama") => run.status = "cancelled"
          /\ ValidTransition(run.status, "waiting_for_ollama") => run.status # "cancelled"
      BY <1>0, <2>2, StatusTable DEF Doing
    <3>2. pc'[k] = "waiting" => ValidTransition(run.status, "waiting_for_ollama")
      BY <1>0, <1>8, Lands DEF PauseRun, Validate, Target
    <3> QED
      BY <2>1, <3>1, <3>2
  <2>4. StatusFits'
    <3>1. k \in Planners => PlannerStatus(k)'
      BY <1>0, <2>1, <2>2, TurnNames DEF PlannerStatus
    <3>2. k \in Doers => DoerStatus(k)'
      BY <1>1, <1>2, <1>3, <2>1, <2>2, <2>3 DEF DoerStatus, Elsewhere, Paused, Doing
    <3> QED
      BY <1>3, <3>1, <3>2 DEF StatusFits
  <2>5. PauseFits'
    <3>1. k \in Doers => Pauses(k)' \/ Resumed(k)'
      BY <1>1, <1>2, <1>3, <2>1, <2>3 DEF Pauses, Resumed, Paused
    <3>2. \A j \in Handlers : pc'[j] \in Paused => j = k
      BY <1>0, <1>1, <1>2 DEF Carries, Paused
    <3>3. \A j \in Doers : job'[j] = "waiting" => j = k
      BY <1>1, <1>3, TurnNames DEF Carries
    <3> QED
      BY <1>0, <1>1, <1>2, <1>3, <2>1, <2>3, <3>1, <3>2, <3>3 DEF Turn, PauseFits, Paused
  <2> QED
    BY <1>4, <1>5, <1>6, <1>7, <2>4, <2>5 DEF Turn
<1>9. CASE Wait(k)
  <2>1. /\ pc'[k] = "idle" /\ run'.status = "waiting_for_ollama"
        /\ run'.resume = mine[k].status
    BY <1>0, <1>9, Lands DEF Wait, Turn, LifeTypes, Rows
  <2>2. mine[k].status \in (IF k \in Doers THEN {"implementing", "verifying"} ELSE {"researching"})
    BY <1>0, <1>9 DEF Wait, Turn, PauseFits
  <2>3. StatusFits'
    <3>1. k \in Planners => PlannerStatus(k)'
      BY <1>0, <2>1, TurnNames DEF PlannerStatus
    <3>2. k \in Doers => DoerStatus(k)'
      BY <1>1, <1>3, <2>1 DEF DoerStatus, Elsewhere, Paused
    <3> QED
      BY <1>3, <3>1, <3>2 DEF StatusFits
  <2>4. PauseFits'
    <3>1. k \in Doers => Remembers(k)'
      BY <1>1, <1>2, <1>3, <2>1, <2>2 DEF Pauses, Remembers
    <3>2. \A j \in Handlers : pc'[j] \notin Paused
      BY <1>0, <1>1, <1>2, <2>1 DEF Carries, Paused
    <3>3. \A j \in Doers : job'[j] = "waiting" => j = k
      BY <1>1, <1>3, TurnNames DEF Carries
    <3> QED
      BY <1>0, <1>1, <1>2, <1>3, <2>1, <2>2, <3>1, <3>2, <3>3 DEF Turn, PauseFits
  <2> QED
    BY <1>4, <1>5, <1>6, <1>7, <2>3, <2>4 DEF Turn
<1> QED
  BY <1>8, <1>9

\* The monitor takes the run where the paused handler left it, or is ended by a
\* run that may not go on.
LEMMA MonitorTurn ==
  ASSUME Turn, LifeTypes', Monitor
  PROVE  Turn'
<1>0. PICK k \in Handlers : job[k] = "waiting"
  BY DEF Monitor, Recover, ResumeWaiting, Release, Turn, PauseFits
<1>1. /\ Carries(k) /\ \A j \in Handlers : j # k => ~Carries(j)
      /\ \A c \in Clients : pc[c] \notin Deciding
      /\ k \in Doers \cup {"research"}
      /\ pc[k] \in Paused \cup {"idle"}
  BY <1>0 DEF Carries, Turn, OneTurn, JobFits, Paused
<1>2. /\ pc'["monitor"] \in {"idle", "dead", "resuming", "releasing"}
      /\ \A j \in Handlers : pc'[j] = pc[j]
      /\ \A c \in Clients : pc'[c] = pc[c]
  BY Lands, TurnNames DEF Monitor, Recover, ResumeWaiting, Release
<1>3. /\ run'.approved = run.approved /\ run'.snapshot = run.snapshot
      /\ \A a \in Actors : a # "monitor" => mine'[a] = mine[a]
  BY DEF Monitor, Recover, ResumeWaiting, Release, Turn, LifeTypes, Rows, ControlTyped
<1>4. \A j \in Handlers : job'[j] = job[j] \/ (job[j] = "waiting" /\ job'[j] = "pending")
  BY DEF Monitor, Recover, ResumeWaiting, Release, Turn, LifeTypes, JobsTyped
<1>5. \A j \in Handlers : j # k => ~Carries(j)'
  BY <1>1, <1>2, <1>4 DEF Carries
<1>6. OneTurn' /\ Placed' /\ ClientFits'
  BY <1>1, <1>2, <1>5 DEF OneTurn, Turn, Placed, ClientFits, Deciding
<1>7. JobFits'
  <2>1. \A j \in Doers : pc[j] \in Paused => pc["monitor"] \in {"idle", "dead"}
    <3> SUFFICES ASSUME NEW j \in Doers, pc[j] \in Paused
                 PROVE  pc["monitor"] \in {"idle", "dead"}
      OBVIOUS
    <3>1. job[j] = "waiting" /\ ~Remembers(j)
      BY TurnNames DEF Turn, JobFits, Remembers, Paused
    <3>2. Resumed(j) \/ Pauses(j)
      BY <3>1 DEF Turn, PauseFits
    <3> QED
      BY <3>2 DEF Resumed, Pauses, Paused
  <2>2. Release \/ UNCHANGED job
    BY DEF Monitor, Recover, ResumeWaiting
  <2>3. \A j \in Doers : pc[j] \in Paused => job'[j] = job[j]
    BY <2>1, <2>2 DEF Release
  <2> QED
    BY <1>2, <1>4, <2>3, TurnNames DEF Turn, JobFits, Paused
<1>8. Backed'
  <2>1. \A c \in Clients : mine'[c] = mine[c]
    BY <1>3, TurnNames
  <2>2. run'.hash = run.hash
    BY DEF Monitor, Recover, ResumeWaiting, Release, Turn, LifeTypes, Rows
  <2> QED
    BY <1>1, <1>2, <1>3, <1>5, <2>1, <2>2, TurnNames DEF Turn, Backed
<1>9. k = "research" => run.resume = "researching"
  <2>1. \A j \in Doers : Remembers(j) => Carries(j) /\ j \in Handlers /\ j # "research"
    BY TurnNames DEF Remembers, Carries, Planners
  <2> QED
    BY <1>1, <2>1 DEF Turn, PauseFits
<1>10. \A j \in Doers : job[j] = "waiting" => j = k
  BY <1>1, TurnNames DEF Carries
<1>11. \A j \in Handlers : pc[j] \in Paused => j = k
  BY <1>1 DEF Carries, Paused
<1>12. CASE Recover
  <2>1. /\ UNCHANGED <<run, job>> /\ pc["monitor"] = "idle"
        /\ mine'["monitor"].status = run.resume
        /\ \/ pc'["monitor"] = "resuming" /\ ValidTransition(run.status, run.resume)
           \/ pc'["monitor"] = "dead"
    BY <1>12, Lands, TurnNames DEF Recover, Turn, LifeTypes, ControlTyped, Reads
  <2>2. StatusFits'
    BY <1>2, <2>1 DEF Turn, StatusFits, PlannerStatus, DoerStatus, Carries
  <2>3. CASE k \in Doers
    <3>1. Remembers(k) => Remembers(k)'
      BY <1>2, <2>1, <2>3, TurnNames DEF Remembers
    <3>2. /\ Resumed(k) => run.status = "cancelled"
          /\ Pauses(k) => run.status \in {"post_check"} \cup Doing
      BY <1>1, <2>1, <2>3, TurnNames DEF Turn, StatusFits, DoerStatus, Resumed, Pauses
    <3>3. Resumed(k) \/ Pauses(k) => pc'["monitor"] = "dead"
      BY <2>1, <3>2, StatusTable DEF Doing, Resumed, Pauses
    <3>4. /\ Resumed(k) => Resumed(k)'
          /\ Pauses(k) => Pauses(k)'
      BY <1>2, <2>1, <2>3, <3>2, <3>3, TurnNames DEF Resumed, Pauses
    <3>5. Remembers(k) \/ Resumed(k) \/ Pauses(k)
      BY <1>0, <2>3 DEF Turn, PauseFits
    <3>6. pc[k] \in Paused => pc'["monitor"] = "dead" /\ mine'[k] = mine[k]
      BY <1>3, <3>3, <3>5, TurnNames DEF Remembers, Paused
    <3>7. run.resume # "researching" => Remembers(k)
      BY <3>5 DEF Resumed, Pauses
    <3> QED
      BY <1>0, <1>1, <1>2, <1>5, <1>6, <1>7, <1>8, <1>10, <1>11, <2>1, <2>2, <2>3, <3>1, <3>4, <3>5,
         <3>6, <3>7, TurnNames DEF Turn, PauseFits, Carries
  <2>4. CASE k = "research"
    <3>1. run.resume = "researching" /\ k \notin Doers
      BY <1>9, <2>4, TurnNames DEF Planners
    <3>2. pc'["monitor"] = "resuming" => run.status # "cancelled"
      BY <2>1, <3>1, StatusTable
    <3>3. PauseFits'
      BY <1>0, <1>1, <1>2, <1>3, <1>10, <1>11, <2>1, <3>1, <3>2, TurnNames
         DEF Turn, PauseFits
    <3> QED
      BY <1>6, <1>7, <1>8, <2>2, <3>3 DEF Turn
  <2> QED
    BY <1>1, <2>3, <2>4
<1>13. CASE ResumeWaiting
  <2>1. /\ UNCHANGED <<job, mine>> /\ pc["monitor"] = "resuming" /\ pc'["monitor"] = "releasing"
        /\ run'.status = mine["monitor"].status /\ run'.resume = "researching"
    BY <1>13, Lands, TurnNames DEF ResumeWaiting, Turn, LifeTypes, Rows
  <2>2. CASE k \in Doers
    <3>1. Remembers(k)
      BY <1>0, <2>1, <2>2 DEF Turn, PauseFits, Resumed, Pauses
    <3>2. run'.status \in {"implementing", "verifying"} /\ pc[k] = "idle"
      BY <2>1, <3>1 DEF Remembers
    <3>3. Resumed(k)'
      BY <1>0, <1>2, <2>1, <3>2 DEF Resumed, Doing
    <3>4. StatusFits'
      <4>1. DoerStatus(k)' /\ k \notin Planners
        BY <1>0, <1>2, <2>1, <2>2, <3>2, TurnNames DEF DoerStatus, Elsewhere, Paused, Doing
      <4> QED
        BY <1>5, <4>1 DEF StatusFits
    <3>5. PauseFits'
      BY <1>0, <1>2, <1>10, <1>11, <2>1, <2>2, <3>2, <3>3, TurnNames DEF PauseFits, Paused
    <3> QED
      BY <1>6, <1>7, <1>8, <3>4, <3>5 DEF Turn
  <2>3. CASE k = "research"
    <3>1. run'.status = "researching" /\ k \notin Doers
      BY <1>0, <2>1, <2>3, TurnNames DEF Turn, PauseFits, Planners
    <3>2. StatusFits'
      BY <1>5, <2>3, <3>1 DEF StatusFits, PlannerStatus
    <3>3. PauseFits'
      BY <1>0, <1>2, <1>10, <1>11, <2>1, <2>3, <3>1, TurnNames DEF Turn, PauseFits, Paused
    <3> QED
      BY <1>6, <1>7, <1>8, <3>2, <3>3 DEF Turn
  <2> QED
    BY <1>1, <2>2, <2>3
<1>14. CASE Release
  <2>1. /\ UNCHANGED run /\ pc["monitor"] = "releasing" /\ pc'["monitor"] = "idle"
        /\ \A j \in Handlers : job'[j] # "waiting"
        /\ job'[k] = "pending"
    BY <1>0, <1>14, Lands, TurnNames DEF Release, Turn, LifeTypes, JobsTyped
  <2>2. /\ k \in Doers => Resumed(k)
    BY <1>0, <2>1 DEF Turn, PauseFits, Remembers, Pauses
  <2>3. run.resume = "researching"
    BY <1>1, <1>9, <2>2 DEF Resumed
  <2>4. StatusFits'
    <3>1. k \in Planners => PlannerStatus(k)'
      BY <1>1, <1>2, <2>1 DEF Turn, StatusFits, PlannerStatus
    <3>2. k \in Doers => DoerStatus(k)'
      BY <1>2, <2>1, <2>2 DEF Resumed, DoerStatus, Elsewhere, Paused
    <3> QED
      BY <1>5, <3>1, <3>2 DEF StatusFits
  <2>5. PauseFits'
    <3>1. \A j \in Handlers : pc[j] \in Paused => j = "research" /\ mine'[j] = mine[j]
      BY <1>1, <1>3, <1>11, <2>2, TurnNames DEF Resumed, Paused
    <3> QED
      BY <1>2, <2>1, <2>3, <3>1, TurnNames DEF Turn, PauseFits, Planners
  <2> QED
    BY <1>6, <1>7, <1>8, <2>4, <2>5 DEF Turn
<1> QED
  BY <1>12, <1>13, <1>14 DEF Monitor

\* A step that changes nothing of whose turn it is.
LEMMA SameTurn ==
  ASSUME Turn, LifeTypes', UNCHANGED <<job, pc, mine>>,
         run'.status = run.status, run'.resume = run.resume, run'.hash = run.hash,
         run'.approved = run.approved, run'.snapshot = run.snapshot
  PROVE  Turn'
<1>1. OneTurn' /\ Placed' /\ JobFits'
  BY DEF Turn, OneTurn, Placed, JobFits, Carries
<1>2. StatusFits' /\ ClientFits'
  BY DEF Turn, StatusFits, PlannerStatus, DoerStatus, ClientFits, Carries
<1>3. PauseFits'
  BY DEF Turn, PauseFits, Remembers, Resumed, Pauses
<1>4. Backed'
  BY DEF Turn, Backed, Carries
<1> QED
  BY <1>1, <1>2, <1>3, <1>4 DEF Turn

\* A client that cancels goes its own way beside whoever carries the run.
LEMMA ClientAside ==
  ASSUME Turn, LifeTypes', NEW c \in Clients, NEW l \in {"idle", "cancel", "cancelled"},
         Go(c, l), UNCHANGED <<job, mine>>,
         run'.status = run.status \/ (run'.status = "cancelled" /\ \A d \in Clients : d = c),
         run'.resume = run.resume, run'.hash = run.hash,
         run'.approved = run.approved, run'.snapshot = run.snapshot
  PROVE  Turn'
<1>1. /\ pc'[c] = l /\ \A k \in Handlers : pc'[k] = pc[k]
      /\ \A d \in Clients : d # c => pc'[d] = pc[d]
      /\ pc'["monitor"] = pc["monitor"]
  BY Lands, TurnNames
<1>2. \A k \in Handlers : Carries(k)' <=> Carries(k)
  BY <1>1 DEF Carries
<1>3. OneTurn' /\ Placed' /\ JobFits'
  BY <1>1, <1>2 DEF Turn, OneTurn, Placed, JobFits, Deciding, Approving, Resuming, RollingBack
<1>4. StatusFits'
  BY <1>1, <1>2, TurnNames DEF Turn, StatusFits, PlannerStatus, DoerStatus, Doing, Elsewhere
<1>5. ClientFits'
  BY <1>1 DEF Turn, ClientFits, Approving, Resuming, RollingBack
<1>6. PauseFits'
  <2>1. \A k \in Handlers : /\ Remembers(k) => Remembers(k)'
                            /\ Resumed(k) => Resumed(k)'
                            /\ Pauses(k) => Pauses(k)'
    BY <1>1 DEF Remembers, Resumed, Pauses, Doing
  <2> QED
    BY <1>1, <2>1, TurnNames DEF Turn, PauseFits
<1>7. Backed'
  BY <1>1, <1>2, TurnNames DEF Turn, Backed, Approving
<1> QED
  BY <1>3, <1>4, <1>5, <1>6, <1>7 DEF Turn

\* With one client, a step of its own while no handler carries the run.
LEMMA ClientStep ==
  ASSUME OneByOne, Turn, LifeTypes', NEW c \in Clients, \A k \in Handlers : ~Carries(k),
         NEW l \in Deciding \cup {"idle", "cancel"}, Go(c, l), UNCHANGED job,
         \A a \in Actors : a # c => mine'[a] = mine[a],
         run'.resume = run.resume, ClientFits', Backed'
  PROVE  Turn'
<1>1. /\ pc'[c] = l /\ \A k \in Handlers : pc'[k] = pc[k]
      /\ \A d \in Clients : d = c
      /\ pc'["monitor"] = pc["monitor"]
  BY Lands, TurnNames DEF OneByOne
<1>2. \A k \in Handlers : ~Carries(k)'
  BY <1>1 DEF Carries
<1>3. pc["monitor"] \in {"idle", "dead"} /\ run.resume = "researching"
  BY NobodysTurn
<1>4. OneTurn' /\ StatusFits'
  BY <1>2 DEF OneTurn, StatusFits
<1>5. Placed' /\ JobFits'
  BY <1>1 DEF Turn, Placed, JobFits
<1>6. PauseFits'
  <2>1. \A k \in Handlers : job'[k] # "waiting" /\ pc'[k] \notin Paused
    BY <1>2 DEF Carries, Paused
  <2> QED
    BY <1>1, <1>3, <2>1, TurnNames DEF PauseFits
<1> QED
  BY <1>4, <1>5, <1>6 DEF Turn

\* The last step of a client leaves the run to a job it has queued, unless there
\* was one.
LEMMA ClientHandsOver ==
  ASSUME OneByOne, Turn, LifeTypes', NEW c \in Clients, pc[c] \in Deciding, Go(c, "idle"),
         NEW j \in Handlers, \A k \in Handlers : k # j => job'[k] = job[k],
         job'[j] # job[j] => job[j] = "none" /\ job'[j] = "pending",
         \A a \in Actors : a # c => mine'[a] = mine[a],
         run'.resume = run.resume, run'.approved # 0 => run'.snapshot # NoContent,
         pc'[j] = "idle" /\ job'[j] = "pending" =>
           (j \in Planners => PlannerStatus(j)')
           /\ (j \in Doers => DoerStatus(j)' /\ run'.approved # 0)
  PROVE  Turn'
<1>0. \A k \in Handlers : ~Carries(k)
  BY DEF Turn, OneTurn
<1>1. /\ pc'[c] = "idle" /\ \A k \in Handlers : pc'[k] = pc[k]
      /\ \A d \in Clients : d = c
      /\ pc'["monitor"] = pc["monitor"]
  BY Lands, TurnNames DEF OneByOne
<1>2. \A k \in Handlers : k # j => ~Carries(k)'
  BY <1>0, <1>1 DEF Carries
<1>3. Carries(j)' => pc'[j] = "idle" /\ job'[j] = "pending"
  BY <1>0, <1>1 DEF Carries, Turn, JobFits
<1>4. pc["monitor"] \in {"idle", "dead"} /\ run.resume = "researching"
  BY <1>0, NobodysTurn
<1>5. OneTurn' /\ ClientFits'
  BY <1>1, <1>2 DEF OneTurn, ClientFits, Deciding, Approving, Resuming, RollingBack
<1>6. Placed'
  BY <1>1 DEF Turn, Placed
<1>7. JobFits'
  BY <1>0, <1>1 DEF Turn, JobFits, Carries, Paused
<1>8. StatusFits'
  BY <1>2, <1>3 DEF StatusFits
<1>9. PauseFits'
  <2>1. \A k \in Handlers : job'[k] # "waiting" /\ pc'[k] \notin Paused
    BY <1>0, <1>1 DEF Carries, Paused
  <2> QED
    BY <1>1, <1>4, <2>1, TurnNames DEF PauseFits
<1>10. Backed'
  BY <1>1, <1>2, <1>3, TurnNames DEF Backed, Approving
<1> QED
  BY <1>5, <1>6, <1>7, <1>8, <1>9, <1>10 DEF Turn

LEMMA RequestTurn ==
  ASSUME OneByOne, Turn, LifeTypes', NEW c \in Clients, NewRequest(c)
  PROVE  Turn'
<1>0. /\ pc[c] = "idle" /\ c \in Actors /\ \A d \in Clients : d = c
      /\ ~RedoPlan(c)
  BY TurnNames
     DEF NewRequest, Approve, EditPlan, EditProvisional, RedoPlan, CancelRun, ResumeRun,
         RollbackRun, Request, OneByOne
<1>1. CASE Approve(c)
  <2>1. run.status = "awaiting_approval" /\ \A k \in Handlers : ~Carries(k)
    BY <1>1, Settled DEF Approve
  <2>2. PICK l \in Approving \cup {"idle"} :
          Go(c, l) /\ (l = "reuse" => run.snapshot # NoContent) /\ l # "fresh"
    BY <1>1, Validates DEF Approve, Approving
  <2>3. /\ pc'[c] = l /\ UNCHANGED <<run, job>>
        /\ mine'[c].plan = run.hash /\ run.hash # 0
        /\ \A a \in Actors : a # c => mine'[a] = mine[a]
    BY <1>0, <1>1, <2>2, Lands DEF Approve, Turn, LifeTypes, ControlTyped, Reads
  <2>4. ClientFits'
    BY <1>0, <2>1, <2>2, <2>3 DEF ClientFits, Approving, Resuming, RollingBack
  <2>5. \A k \in Doers : ~Carries(k)'
    BY <1>0, <2>1, <2>2, <2>3, Lands, TurnNames DEF Carries
  <2>6. Backed'
    BY <1>0, <2>2, <2>3, <2>5 DEF Turn, Backed, Approving
  <2> QED
    BY <2>1, <2>2, <2>3, <2>4, <2>6, ClientStep DEF Deciding
<1>2. CASE EditPlan(c) \/ ResumeRun(c) \/ RollbackRun(c)
  <2>1. /\ run.status \in {"awaiting_approval", "failed", "completed", "rolled_back"}
        /\ UNCHANGED <<run, job, mine>>
    BY <1>2 DEF EditPlan, ResumeRun, RollbackRun
  <2>2. \A k \in Handlers : ~Carries(k)
    BY <2>1, Settled
  <2>3. PICK l \in {"edit", "idle"} \cup Resuming \cup RollingBack :
          /\ Go(c, l) /\ (l = "resume" => run.approved # 0)
          /\ l = "edit" => run.status = "awaiting_approval"
          /\ l \in Resuming => run.status = "failed"
          /\ l \in RollingBack => run.status \in {"completed", "failed", "rolled_back"}
    <3>1. CASE EditPlan(c)
      BY <3>1, Validates DEF EditPlan, Resuming, RollingBack
    <3>2. CASE ResumeRun(c)
      BY <3>2, Validates DEF ResumeRun, Resuming, RollingBack
    <3>3. CASE RollbackRun(c)
      BY <3>3 DEF RollbackRun, Resuming, RollingBack
    <3> QED
      BY <1>2, <3>1, <3>2, <3>3
  <2>4. pc'[c] = l
    BY <1>0, <2>3, Lands
  <2>5. ClientFits'
    BY <1>0, <2>1, <2>3, <2>4 DEF ClientFits, Approving, Resuming, RollingBack
  <2>6. \A k \in Doers : ~Carries(k)'
    BY <1>0, <2>1, <2>2, <2>3, Lands, TurnNames DEF Carries
  <2>7. Backed'
    BY <1>0, <2>1, <2>3, <2>4, <2>6 DEF Turn, Backed, Approving, Resuming, RollingBack
  <2> QED
    BY <2>1, <2>2, <2>3, <2>5, <2>7, ClientStep DEF Deciding
<1>3. CASE EditProvisional(c)
  <2>1. /\ run'.status = run.status /\ run'.resume = run.resume /\ run'.hash = run.hash
        /\ run'.approved = run.approved /\ run'.snapshot = run.snapshot
        /\ UNCHANGED <<job, pc, mine>>
    BY <1>3 DEF EditProvisional, Turn, LifeTypes, Rows
  <2> QED
    BY <2>1, SameTurn
<1>4. CASE CancelRun(c)
  <2>1. PICK l \in {"cancel", "idle"} : Go(c, l)
    BY <1>4, Validates DEF CancelRun
  <2>2. UNCHANGED <<run, job, mine>>
    BY <1>4 DEF CancelRun
  <2> QED
    BY <1>0, <2>1, <2>2, ClientAside DEF Deciding
<1> QED
  BY <1>0, <1>1, <1>2, <1>3, <1>4 DEF NewRequest

LEMMA ClientTurn ==
  ASSUME OneByOne, Turn, LifeTypes', NEW c \in Clients, Client(c)
  PROVE  Turn'
<1>0. c \in Actors /\ \A d \in Clients : d = c
  BY TurnNames DEF OneByOne
<1>1. CASE Cancel(c) \/ CancelJobs(c)
  <2>1. CASE Cancel(c)
    <3>1. /\ run'.status = "cancelled" /\ run'.resume = run.resume /\ run'.hash = run.hash
          /\ run'.approved = run.approved /\ run'.snapshot = run.snapshot
      BY <2>1 DEF Cancel, Turn, LifeTypes, Rows
    <3> QED
      BY <1>0, <2>1, <3>1, ClientAside DEF Cancel
  <2>2. CASE CancelJobs(c)
    <3>1. /\ pc'[c] = "idle" /\ \A k \in Handlers : pc'[k] = pc[k]
          /\ pc'["monitor"] = pc["monitor"] /\ UNCHANGED <<run, mine>>
      BY <1>0, <2>2, Lands, TurnNames DEF CancelJobs
    <3>2. \A k \in Handlers : job'[k] = job[k] \/ (job[k] = "pending" /\ job'[k] = "none")
      BY <2>2 DEF CancelJobs
    <3>3. \A k \in Handlers : Carries(k)' => Carries(k)
      BY <3>1, <3>2 DEF Carries
    <3>4. OneTurn' /\ Placed'
      BY <1>0, <3>1, <3>3 DEF Turn, OneTurn, Placed, Deciding, Approving, Resuming, RollingBack
    <3>5. JobFits'
      BY <3>1, <3>2, TurnNames DEF Turn, JobFits, Paused
    <3>6. StatusFits'
      BY <3>1, <3>2, <3>3, TurnNames DEF Turn, StatusFits, PlannerStatus, DoerStatus, Carries
    <3>7. ClientFits'
      BY <1>0, <3>1 DEF ClientFits, Approving, Resuming, RollingBack
    <3>8. PauseFits'
      <4>1. \A k \in Handlers : /\ Remembers(k) => Remembers(k)'
                                /\ Resumed(k) => Resumed(k)'
                                /\ Pauses(k) => Pauses(k)'
        BY <3>1, <3>2 DEF Remembers, Resumed, Pauses
      <4> QED
        BY <3>1, <3>2, <4>1, TurnNames DEF Turn, PauseFits
    <3>9. Backed'
      BY <1>0, <3>1, <3>3, TurnNames DEF Turn, Backed, Approving
    <3> QED
      BY <3>4, <3>5, <3>6, <3>7, <3>8, <3>9 DEF Turn
  <2> QED
    BY <1>1, <2>1, <2>2
<1>2. ~Redo(c) /\ ~Redone(c)
  BY DEF Redo, Redone, Turn, Placed, Deciding, Approving, Resuming, RollingBack
<1>3. CASE Stale(c) \/ Snapshot(c) \/ Edit(c) \/ Resume(c) \/ RollbackDone(c) \/ Rollback(c)
  <2>1. pc[c] \in Deciding /\ UNCHANGED job
    BY <1>3 DEF Stale, Snapshot, Edit, Resume, RollbackDone, Rollback,
                Deciding, Approving, Resuming, RollingBack
  <2>2. \A k \in Handlers : ~Carries(k)
    BY <2>1 DEF Turn, OneTurn
  <2>3. PICK l \in Deciding \cup {"idle", "cancel"} : Go(c, l)
    BY <1>3, Validates
       DEF Stale, Snapshot, Edit, Resume, RollbackDone, Rollback, Deciding, Approving, RollingBack
  <2>4. pc'[c] = l /\ \A k \in Doers : ~Carries(k)'
    BY <1>0, <2>1, <2>2, <2>3, Lands, TurnNames DEF Carries
  <2>5. run'.resume = run.resume /\ \A a \in Actors : a # c => mine'[a] = mine[a]
    BY <1>3 DEF Stale, Snapshot, Edit, Resume, RollbackDone, Rollback,
                Turn, LifeTypes, Rows, ControlTyped
  <2>6. ClientFits'
    <3>1. CASE Stale(c)
      BY <1>0, <3>1, Lands DEF Stale, ClientFits, Approving, Resuming, RollingBack,
                               Turn, LifeTypes, Rows
    <3>2. CASE Snapshot(c)
      BY <1>0, <3>2, Lands DEF Snapshot, ClientFits, Approving, Resuming, RollingBack, Turn
    <3>3. CASE Edit(c)
      BY <1>0, <3>3, Lands DEF Edit, ClientFits, Approving, Resuming, RollingBack,
                               Turn, LifeTypes, Rows
    <3>4. CASE Resume(c)
      BY <1>0, <3>4, Lands DEF Resume, ClientFits, Approving, Resuming, RollingBack,
                               Turn, LifeTypes, Rows
    <3>5. CASE RollbackDone(c)
      <4>1. pc'[c] \in {"rollback", "idle"}
        BY <1>0, <3>5, Lands, Validates DEF RollbackDone
      <4> QED
        BY <1>0, <3>5, <4>1 DEF RollbackDone, ClientFits, Approving, Resuming, RollingBack, Turn
    <3>6. CASE Rollback(c)
      BY <1>0, <3>6, Lands DEF Rollback, ClientFits, Approving, Resuming, RollingBack
    <3> QED
      BY <1>3, <3>1, <3>2, <3>3, <3>4, <3>5, <3>6
  <2>7. Backed'
    <3>1. CASE Snapshot(c)
      <4>1. pc'[c] = "fresh" /\ mine'[c] = [mine[c] EXCEPT !.content = workspace]
        BY <1>0, <3>1, Lands DEF Snapshot, Turn, LifeTypes, ControlTyped
      <4>2. workspace # NoContent /\ mine[c].plan = run.hash /\ run.hash # 0
        BY <3>1 DEF Snapshot, Turn, Backed, Approving, LifeTypes, WorldTyped, Held, NoContent
      <4>3. mine'[c].content = workspace /\ mine'[c].plan = mine[c].plan
        BY <1>0, <4>1 DEF Turn, LifeTypes, ControlTyped, Reads
      <4> QED
        BY <1>0, <2>4, <3>1, <4>1, <4>2, <4>3 DEF Snapshot, Turn, Backed
    <3>2. CASE Resume(c)
      <4>1. run'.approved # 0 => run'.snapshot # NoContent
        BY <3>2 DEF Resume, Turn, Backed, LifeTypes, Rows
      <4>2. /\ pc'[c] \in {"queue_research", "queue_implementation"}
            /\ pc'[c] = "queue_implementation" => run'.approved # 0
        BY <1>0, <3>2, Lands DEF Resume, Turn, Backed, LifeTypes, Rows
      <4> QED
        BY <1>0, <2>4, <4>1, <4>2 DEF Backed, Approving
    <3>3. CASE Stale(c) \/ Edit(c) \/ RollbackDone(c) \/ Rollback(c)
      <4>1. run'.approved = run.approved /\ run'.snapshot = run.snapshot
        BY <3>3 DEF Stale, Edit, RollbackDone, Rollback, Turn, LifeTypes, Rows
      <4>2. pc'[c] \in {"queue_research", "edited", "rollback", "idle"}
        BY <1>0, <3>3, Lands, Validates DEF Stale, Edit, RollbackDone, Rollback
      <4> QED
        BY <1>0, <2>4, <4>1, <4>2 DEF Turn, Backed, Approving
    <3> QED
      BY <1>3, <3>1, <3>2, <3>3
  <2> QED
    BY <2>1, <2>2, <2>3, <2>5, <2>6, <2>7, ClientStep
<1>4. CASE Approved(c) \/ Edited(c) \/ QueueJob(c)
  <2>1. /\ pc[c] \in Deciding /\ Go(c, "idle") /\ run'.resume = run.resume
        /\ \A a \in Actors : a # c => mine'[a] = mine[a]
    BY <1>4, TurnNames DEF Approved, Edited, QueueJob, Deciding, Approving,
                           Turn, LifeTypes, Rows, ControlTyped
  <2>2. CASE Approved(c)
    <3>1. /\ "implementation" \in Doers /\ "implementation" \in Handlers
          /\ "implementation" \notin Planners
      BY TurnNames
    <3>2. /\ \A k \in Handlers : k # "implementation" => job'[k] = job[k]
          /\ job'["implementation"] # job["implementation"] =>
               job["implementation"] = "none" /\ job'["implementation"] = "pending"
      BY <2>2, <3>1 DEF Approved, Turn, LifeTypes, JobsTyped
    <3>3. run'.approved # 0 => run'.snapshot # NoContent
      BY <2>2 DEF Approved, Turn, Backed, LifeTypes, Rows
    <3>4. ASSUME pc'["implementation"] = "idle", job'["implementation"] = "pending"
          PROVE  DoerStatus("implementation")' /\ run'.approved # 0
      <4>1. job["implementation"] # "pending"
        BY <2>1, <3>1 DEF Turn, OneTurn, Carries
      <4>2. job["implementation"] = "none"
        BY <3>2, <3>4, <4>1
      <4>3. run'.status = "implementing" /\ run'.approved = mine[c].plan
        BY <2>2, <4>2 DEF Approved, Turn, LifeTypes, Rows
      <4>4. mine[c].plan # 0
        BY <2>2 DEF Approved, Turn, Backed, Approving
      <4> QED
        BY <3>4, <4>3, <4>4 DEF DoerStatus, Elsewhere, Paused, Doing
    <3> QED
      BY <2>1, <3>1, <3>2, <3>3, <3>4, ClientHandsOver
  <2>3. CASE Edited(c) \/ QueueJob(c)
    <3>1. UNCHANGED run
      BY <2>3 DEF Edited, QueueJob
    <3>2. PICK j \in {"decompose", "research", "implementation"} :
            /\ Enqueue(j)
            /\ j = "decompose" => run.status = "decomposing"
            /\ j = "research" => run.status = "researching"
            /\ j = "implementation" => run.status = "implementing" /\ run.approved # 0
      <4>1. CASE Edited(c)
        BY <4>1 DEF Edited, Turn, ClientFits
      <4>2. CASE QueueJob(c)
        BY <4>2 DEF QueueJob, Turn, ClientFits, Backed
      <4> QED
        BY <2>3, <4>1, <4>2
    <3>3. /\ j \in Handlers /\ \A k \in Handlers : k # j => job'[k] = job[k]
          /\ job'[j] # job[j] => job[j] = "none" /\ job'[j] = "pending"
      BY <3>2, TurnNames DEF Enqueue, Turn, LifeTypes, JobsTyped
    <3>4. j \in Planners => PlannerStatus(j)'
      BY <3>1, <3>2 DEF PlannerStatus
    <3>5. pc'[j] = "idle" /\ j \in Doers => DoerStatus(j)' /\ run'.approved # 0
      BY <3>1, <3>2, TurnNames DEF DoerStatus, Elsewhere, Paused, Doing, Planners
    <3>6. run'.approved # 0 => run'.snapshot # NoContent
      BY <3>1 DEF Turn, Backed
    <3> QED
      BY <2>1, <3>1, <3>3, <3>4, <3>5, <3>6, ClientHandsOver
  <2> QED
    BY <1>4, <2>2, <2>3
<1> QED
  BY <1>1, <1>2, <1>3, <1>4 DEF Client

LEMMA TurnAtStart == ASSUME Init PROVE Turn
<1>1. LifeTypes
  BY TypesAtStart
<1>2. /\ \A a \in Actors : pc[a] = "idle"
      /\ run.resume = "researching" /\ run.approved = 0
  BY DEF Init
<1>3. PICK k \in {"provisional", "research"} :
        /\ job = [j \in Handlers |-> IF j = k THEN "pending" ELSE "none"]
        /\ k = "provisional" => run.status = "planning_provisional"
        /\ k = "research" => run.status = "researching"
  BY DEF Init
<1>4. \A j \in Handlers : job[j] # "waiting" /\ (Carries(j) => j = k)
  BY <1>2, <1>3, TurnNames DEF Carries
<1>5. OneTurn /\ ClientFits
  BY <1>2, <1>4, TurnNames DEF OneTurn, ClientFits, Deciding, Approving, Resuming, RollingBack
<1>6. Placed
  <2>1. \A j \in Handlers : "idle" \in StepsOf[j]
    BY DEF Handlers, StepsOf, AppliersSteps, Common
  <2> QED
    BY <1>2, <2>1, TurnNames DEF Placed
<1>7. JobFits /\ PauseFits
  BY <1>2, <1>4, TurnNames DEF JobFits, PauseFits, Paused
<1>8. StatusFits
  BY <1>2, <1>3, <1>4, TurnNames DEF StatusFits, PlannerStatus, Doers
<1>9. Backed
  BY <1>2, <1>3, <1>4, TurnNames DEF Backed, Doers, Approving
<1> QED
  BY <1>1, <1>5, <1>6, <1>7, <1>8, <1>9 DEF Turn

\* The time up to the first restart.
LEMMA NoRestart == ASSUME Sequential, LifeTypes PROVE OneByOne /\ ~Restart
  BY DEF Restart, Count, Sequential, LifeTypes, WorldTyped, Counts

LEMMA TurnGoesOn == ASSUME OneByOne, Turn, [Next]_vars, ~Restart PROVE Turn'
<1>0. LifeTypes'
  BY TypesStep DEF Turn
<1>1. ASSUME NEW k \in Handlers, Claim(k) \/ Handler(k) \/ CallRaises(k) \/ Pause(k)
      PROVE  Turn'
  BY <1>0, <1>1, QueueTurn, FailureTurn, PlanningTurn, ImplementingTurn, ApplyingTurn,
     PauseTurn, WaitTurn DEF Handler, Applying
<1>2. ASSUME NEW c \in Clients, NewRequest(c) \/ Client(c) PROVE Turn'
  BY <1>0, <1>2, RequestTurn, ClientTurn
<1>3. CASE Monitor
  BY <1>0, <1>3, MonitorTurn
<1>4. CASE UserEdits
  BY <1>0, <1>4, SameTurn DEF UserEdits
<1>5. CASE UNCHANGED vars
  BY <1>0, <1>5, SameTurn DEF vars
<1> QED
  BY <1>1, <1>2, <1>3, <1>4, <1>5 DEF Next

LEMMA TurnStep == ASSUME Sequential, Turn, [Next]_vars PROVE Turn'
  BY NoRestart, TurnGoesOn DEF Turn

-----------------------------------------------------------------------------
(* What the target holds.  Half of a change, or a whole one that is not    *)
(* final, is there only while an applier is at it, unless the run was      *)
(* cancelled under it and is dead.                                         *)

\* A cancelled run that nobody carries on any more.
Dead ==
  /\ run.status = "cancelled" /\ pc["monitor"] \in {"idle", "dead"}
  /\ \A k \in Handlers : job[k] # "pending" /\ pc[k] \in {"idle", "ended", "pausing"}

Rolling == \E c \in Clients : pc[c] \in RollingBack

Whole == {"post_check", "checking", "completed"}

Touching(k) ==
  \/ pc[k] \in {"copied"} \cup Whole
  \/ pc[k] = "except" /\ run.status \in {"applying", "post_check", "cancelled"}

TargetFits ==
  /\ run.baseline.change = "none"
  /\ run.snapshot # NoContent => run.snapshot.change = "none"
  /\ \A c \in Clients : pc[c] = "fresh" => mine[c].content.change = "none"
  /\ workspace.change # "none" =>
       \/ \E k \in Appliers : Touching(k)
       \/ run.status = "completed" /\ ~Rolling
       \/ Dead
  /\ \A k \in Appliers : pc[k] \in Whole => workspace.change = "full"
  /\ run.status = "completed" /\ ~Rolling => workspace.change = "full"

\* A handler that carries a live run and is not at its change has a clean target.
LEMMA CleanTarget ==
  ASSUME Turn, TargetFits, NEW k \in Handlers, Carries(k), ~Dead, k \in Appliers => ~Touching(k)
  PROVE  workspace.change = "none"
<1>1. run.status # "completed"
  BY Settled
<1>2. \A j \in Appliers : Touching(j) => Carries(j) /\ j \in Handlers
  BY TurnNames DEF Touching, Whole, Carries
<1>3. \A j \in Appliers : ~Touching(j)
  BY <1>2 DEF Turn, OneTurn
<1> QED
  BY <1>1, <1>3 DEF TargetFits

\* So has a client that decides.
LEMMA CleanForClients ==
  ASSUME Turn, TargetFits, NEW c \in Clients, pc[c] \in Deciding, run.status # "completed" \/ Rolling
  PROVE  workspace.change = "none" /\ \A k \in Appliers : pc[k] \notin Whole
<1>1. \A j \in Appliers : ~Touching(j) /\ pc[j] \notin Whole
  BY TurnNames DEF Touching, Whole, Carries, Turn, OneTurn
<1>2. run.status # "cancelled"
  BY DEF Turn, ClientFits, Deciding
<1> QED
  BY <1>1, <1>2 DEF TargetFits, Dead

\* A step of the handler that carries the run, after which the target is clean.
LEMMA LeavesClean ==
  ASSUME Turn, NEW k \in Handlers, Carries(k), TargetFits,
         run'.baseline.change = "none", run'.snapshot = run.snapshot, run'.status # "completed",
         workspace'.change = "none", \A c \in Clients : pc'[c] = pc[c],
         \A j \in Appliers : pc'[j] \notin Whole
  PROVE  TargetFits'
<1>1. \A c \in Clients : pc'[c] # "fresh"
  BY DEF Turn, OneTurn, Deciding, Approving
<1> QED
  BY <1>1 DEF TargetFits, Rolling

LEMMA TargetOfQueue ==
  ASSUME Turn, TargetFits, NEW k \in Handlers, Claim(k) \/ Finalize(k) \/ RunIsOver(k)
  PROVE  TargetFits'
<1>0. k \in Actors
  BY TurnNames
<1>1. CASE Claim(k)
  <2>1. Carries(k) /\ ~Dead /\ pc[k] = "idle"
    BY <1>1 DEF Claim, Carries, Dead
  <2>2. workspace.change = "none" /\ \A j \in Appliers : j # k => pc[j] \notin Whole
    BY <2>1, CleanTarget, TurnNames DEF Touching, Whole, Carries, Turn, OneTurn
  <2>3. run.status # "completed"
    BY <2>1, Settled
  <2> QED
    BY <1>0, <1>1, <2>1, <2>2, <2>3, Lands, LeavesClean, TurnNames DEF Claim, TargetFits, Whole
<1>2. CASE Finalize(k)
  <2>1. /\ UNCHANGED <<run, workspace>> /\ pc[k] = "ended" /\ pc'[k] = "idle"
        /\ \A a \in Actors : a # k => pc'[a] = pc[a] /\ mine'[a] = mine[a]
    BY <1>0, <1>2, Lands DEF Finalize, Turn, LifeTypes, ControlTyped
  <2>2. \A j \in Handlers : job'[j] = job[j] \/ job'[j] = "none"
    BY <1>2 DEF Finalize
  <2>3. Dead => Dead'
    BY <2>1, <2>2, TurnNames DEF Dead
  <2>4. \A j \in Appliers : /\ Touching(j) => Touching(j)'
                            /\ pc'[j] \in Whole => pc[j] \in Whole
    BY <1>0, <2>1, TurnNames DEF Touching, Whole
  <2>5. \A c \in Clients : pc'[c] = pc[c] /\ mine'[c] = mine[c]
    BY <2>1, TurnNames
  <2> QED
    BY <2>1, <2>3, <2>4, <2>5 DEF TargetFits, Rolling
<1>3. CASE RunIsOver(k)
  <2>1. Carries(k) /\ ~Dead /\ pc[k] = "start"
    BY <1>3 DEF RunIsOver, Carries, Dead
  <2>2. workspace.change = "none" /\ \A j \in Appliers : j # k => pc[j] \notin Whole
    BY <2>1, CleanTarget, TurnNames DEF Touching, Whole, Carries, Turn, OneTurn
  <2>3. run.status # "completed"
    BY <2>1, Settled
  <2> QED
    BY <1>0, <1>3, <2>1, <2>2, <2>3, Lands, LeavesClean, TurnNames DEF RunIsOver, TargetFits, Whole
<1> QED
  BY <1>1, <1>2, <1>3

\* A step of a thread with a clean target.
LEMMA StaysClean ==
  ASSUME Turn, TargetFits, NEW k \in Handlers, pc[k] \notin {"idle", "ended", "pausing", "waiting"},
         k \in Appliers => ~Touching(k),
         NEW l, Go(k, l), l \notin Whole,
         run'.baseline \in {run.baseline, workspace}, run'.snapshot = run.snapshot,
         run'.status = run.status \/ run'.status # "completed",
         UNCHANGED workspace
  PROVE  TargetFits'
<1>0. k \in Actors /\ Carries(k) /\ ~Dead
  BY TurnNames DEF Carries, Dead
<1>1. workspace.change = "none" /\ run.status # "completed"
  BY <1>0, CleanTarget, Settled
<1>2. \A j \in Appliers : pc'[j] \notin Whole
  BY <1>0, Lands, TurnNames DEF Turn, OneTurn, Carries, Whole
<1> QED
  BY <1>0, <1>1, <1>2, Lands, LeavesClean, TurnNames DEF TargetFits

LEMMA TargetOfPlanning ==
  ASSUME Turn, TargetFits, NEW k \in Handlers, Planning(k)
  PROVE  TargetFits'
<1>1. /\ pc[k] \notin {"idle", "ended", "pausing", "waiting"}
      /\ k \in Planners /\ k \notin Appliers
  BY DEF Planning, StartProvisional, Save, Park, StartResearch, Research, Researched,
         StartDecompose, Planned, Decompose, RecordHash, Ready, Starts, Turn, Placed, StepsOf,
         AppliersSteps, Common, Paused, Handlers, Planners, Appliers
<1>2. PICK l : Go(k, l) /\ l \notin Whole
  BY Validates DEF Planning, StartProvisional, Save, Park, StartResearch, Research, Researched,
         StartDecompose, Planned, Decompose, RecordHash, Ready, Whole
<1>3. /\ run'.baseline \in {run.baseline, workspace} /\ run'.snapshot = run.snapshot
      /\ run'.status = run.status \/ run'.status # "completed"
      /\ UNCHANGED workspace
  BY DEF Planning, StartProvisional, Save, Park, StartResearch, Research, Researched,
         StartDecompose, Planned, Decompose, RecordHash, Ready, Turn, LifeTypes, Rows
<1> QED
  BY <1>1, <1>2, <1>3, StaysClean

LEMMA TargetOfImplementing ==
  ASSUME Turn, TargetFits, NEW k \in Handlers, Implementing(k) \/ Edited(k)
  PROVE  TargetFits'
<1>1. pc[k] \notin {"idle", "ended", "pausing", "waiting", "except"} /\ ~Touching(k)
  BY DEF Implementing, StartImplementation, Solo, StartWork, Work, StartMerge, Dispatch, Edited,
         Starts, Touching, Whole
<1>2. PICK l : Go(k, l) /\ l \notin Whole
  BY Validates DEF Implementing, StartImplementation, Solo, StartWork, Work, StartMerge, Dispatch,
         Edited, Whole
<1>3. UNCHANGED <<run, workspace>>
  BY DEF Implementing, StartImplementation, Solo, StartWork, Work, StartMerge, Dispatch, Edited
<1> QED
  BY <1>1, <1>2, <1>3, StaysClean

\* A step of an applier that is at its change.
LEMMA StaysAtIt ==
  ASSUME Turn, TargetFits, NEW k \in Appliers, pc[k] \notin {"idle", "ended", "pausing", "waiting"},
         NEW l, Go(k, l),
         run'.baseline = run.baseline, run'.snapshot = run.snapshot, run'.status # "completed",
         Touching(k)', l \in Whole => workspace'.change = "full"
  PROVE  TargetFits'
<1>0. k \in Handlers /\ k \in Actors /\ Carries(k)
  BY TurnNames DEF Carries
<1>1. \A c \in Clients : pc'[c] = pc[c] /\ pc[c] # "fresh"
  BY <1>0, Lands, TurnNames DEF Turn, OneTurn, Deciding, Approving
<1>2. \A j \in Appliers : pc'[j] \in Whole => j = k /\ l \in Whole
  BY <1>0, Lands, TurnNames DEF Turn, OneTurn, Carries, Whole
<1> QED
  BY <1>1, <1>2 DEF TargetFits

LEMMA TargetOfFailure ==
  ASSUME Turn, TargetFits, NEW k \in Handlers, CallRaises(k) \/ Except(k) \/ Fail(k)
  PROVE  TargetFits'
<1>0. /\ pc[k] \notin {"idle", "ended", "pausing", "waiting"}
      /\ Carries(k) /\ k \in Actors /\ ~Dead
      /\ k \in Doers => DoerStatus(k) /\ run.snapshot # NoContent
      /\ \A j \in Handlers : j # k => pc[j] \in {"idle", "ended"}
      /\ pc["monitor"] \in {"idle", "dead"} /\ run.status # "completed"
      /\ job[k] = "running" /\ \A j \in Handlers : job[j] = "pending" => j = k
  <2>1. pc[k] \notin {"idle", "ended", "pausing", "waiting"}
    BY DEF CallRaises, Except, Fail
  <2>2. Carries(k) /\ ~Dead
    BY <2>1 DEF Carries, Dead
  <2> QED
    BY <2>1, <2>2, OnTurn, Settled DEF Carries
<1>1. CASE CallRaises(k)
  <2>1. /\ run'.baseline = run.baseline /\ run'.snapshot = run.snapshot
        /\ run'.status = run.status /\ UNCHANGED workspace
        /\ Go(k, "except") /\ pc'[k] = "except"
    BY <1>0, <1>1, Lands DEF CallRaises, Turn, LifeTypes, Rows
  <2>2. CASE k \in Appliers /\ Touching(k)
    <3>1. k \in Doers /\ pc[k] \in {"copied", "checking"}
      BY <1>1, <2>2, TurnNames DEF CallRaises, Touching, Whole
    <3>2. Touching(k)'
      BY <1>0, <2>1, <3>1 DEF DoerStatus, Touching
    <3> QED
      BY <1>0, <2>1, <2>2, <3>2, StaysAtIt DEF Whole
  <2> QED
    BY <1>0, <2>1, <2>2, StaysClean DEF Whole
<1>2. CASE Except(k)
  <2>1. CASE k \in Appliers /\ run.status \in {"applying", "post_check"}
    <3>1. workspace' = run.snapshot /\ (Go(k, "restored") \/ Go(k, "ended")) /\ UNCHANGED run
      BY <1>0, <1>2, <2>1, Validates, TurnNames DEF Except
    <3>2. workspace'.change = "none"
      BY <1>0, <2>1, <3>1, TurnNames DEF TargetFits
    <3> QED
      BY <1>0, <3>1, <3>2, Lands, LeavesClean, TurnNames DEF TargetFits, Whole
  <2>2. CASE k \in Appliers /\ run.status = "cancelled"
    <3>1. Go(k, "ended") /\ UNCHANGED <<run, workspace, job, mine>>
      BY <1>2, <2>2, StatusTable DEF Except, Validate, Target
    <3>2. /\ pc'[k] = "ended" /\ \A a \in Actors : a # k => pc'[a] = pc[a]
      BY <1>0, <3>1, Lands
    <3>3. Dead'
      BY <1>0, <2>2, <3>1, <3>2, TurnNames DEF Dead
    <3>4. \A j \in Appliers : pc'[j] \notin Whole
      BY <1>0, <3>2, TurnNames DEF Whole
    <3>5. \A c \in Clients : pc'[c] = pc[c]
      BY <3>2, TurnNames
    <3> QED
      BY <1>0, <3>1, <3>3, <3>4, <3>5 DEF TargetFits
  <2>3. CASE ~(k \in Appliers /\ run.status \in {"applying", "post_check", "cancelled"})
    <3>1. PICK l \in {"failing", "ended"} : Go(k, l)
      BY <1>2, <2>3, Validates DEF Except
    <3>2. pc[k] = "except" /\ UNCHANGED <<run, workspace>>
      BY <1>2, <2>3 DEF Except
    <3>3. k \in Appliers => ~Touching(k)
      BY <2>3, <3>2 DEF Touching, Whole
    <3> QED
      BY <1>0, <3>1, <3>2, <3>3, StaysClean DEF Whole
  <2> QED
    BY <2>1, <2>2, <2>3
<1>3. CASE Fail(k)
  <2>1. /\ run'.baseline = run.baseline /\ run'.snapshot = run.snapshot
        /\ run'.status = "failed" /\ UNCHANGED workspace /\ Go(k, "ended") /\ pc[k] = "failing"
    BY <1>3 DEF Fail, Turn, LifeTypes, Rows
  <2> QED
    BY <1>0, <2>1, StaysClean DEF Touching, Whole
<1> QED
  BY <1>1, <1>2, <1>3

LEMMA TargetOfApplying ==
  ASSUME Turn, TargetFits, NEW k \in Appliers, Applying(k)
  PROVE  TargetFits'
<1>0. /\ pc[k] \notin {"idle", "ended", "pausing", "waiting", "start", "except"}
      /\ k \in Doers /\ k \in Handlers /\ k \in Actors
  BY TurnNames
     DEF Applying, Verdict, Verify, Verifying, VerifiersReport, VerdictPasses, VerdictExpands,
         VerdictFails, Expand, Repair, Repaired, Gate, Apply, CopySome, CopyRest, PostCheck,
         CheckPasses, CheckFails, Complete, Restored
<1>0a. /\ DoerStatus(k) /\ run.snapshot # NoContent /\ Carries(k)
       /\ \A j \in Handlers : j # k => pc[j] \in {"idle", "ended"}
       /\ run.status # "completed"
  <2>1. Carries(k)
    BY <1>0 DEF Carries
  <2> QED
    BY <1>0, <2>1, OnTurn, Settled
<1>1. CASE \/ Verify(k) \/ VerifiersReport(k) \/ VerdictPasses(k) \/ VerdictExpands(k)
           \/ VerdictFails(k) \/ Repaired(k) \/ Gate(k)
  <2>1. ~Touching(k) /\ UNCHANGED <<run, workspace>>
    BY <1>1 DEF Verify, VerifiersReport, VerdictPasses, VerdictExpands, VerdictFails, Repaired,
                Gate, Touching, Whole
  <2>2. PICK l \in {"verifying", "except", "ended", "verdict", "gate", "expand", "repair",
                    "failing", "applying"} : Go(k, l)
    BY <1>1, Validates
       DEF Verify, VerifiersReport, VerdictPasses, VerdictExpands, VerdictFails, Repaired, Gate
  <2> QED
    BY <1>0, <2>1, <2>2, StaysClean DEF Whole
<1>2. CASE Verifying(k) \/ Repair(k) \/ Expand(k) \/ Apply(k) \/ Restored(k)
  <2>1. ~Touching(k) /\ UNCHANGED workspace
    BY <1>2 DEF Verifying, Repair, Expand, Apply, Restored, Touching, Whole
  <2>2. PICK l \in {"verifiers", "repairing", "edited", "copying", "ended"} : Go(k, l)
    BY <1>2 DEF Verifying, Repair, Expand, Apply, Restored
  <2>3. /\ run'.baseline = run.baseline /\ run'.snapshot = run.snapshot
        /\ run'.status # "completed"
    BY <1>2 DEF Verifying, Repair, Expand, Apply, Restored, Turn, LifeTypes, Rows
  <2> QED
    BY <1>0, <2>1, <2>2, <2>3, StaysClean DEF Whole
<1>3. CASE CopySome(k) \/ CopyRest(k) \/ CheckPasses(k)
  <2>1. PICK l \in {"copied", "post_check", "completed", "except"} :
          /\ Go(k, l) /\ UNCHANGED run
          /\ l \in Whole => workspace'.change = "full"
          /\ l = "except" => run.status \in {"applying", "post_check", "cancelled"}
    <3>1. CASE CopySome(k)
      BY <3>1 DEF CopySome, Whole
    <3>2. CASE CopyRest(k)
      BY <1>0a, <3>2, Validates DEF CopyRest, Whole, DoerStatus
    <3>3. CASE CheckPasses(k)
      BY <1>0a, <3>3, Validates DEF CheckPasses, TargetFits, Whole, DoerStatus
    <3> QED
      BY <1>3, <3>1, <3>2, <3>3
  <2>2. Touching(k)'
    BY <1>0, <2>1, Lands DEF Touching, Whole
  <2> QED
    BY <1>0, <1>0a, <2>1, <2>2, StaysAtIt
<1>4. CASE PostCheck(k)
  <2>1. /\ run'.baseline = run.baseline /\ run'.snapshot = run.snapshot
        /\ run'.status = "post_check" /\ Go(k, "checking") /\ workspace' = workspace
        /\ workspace.change = "full"
    BY <1>4 DEF PostCheck, Turn, LifeTypes, Rows, TargetFits, Whole
  <2>2. Touching(k)'
    BY <1>0, <2>1, Lands DEF Touching, Whole
  <2> QED
    BY <1>0, <2>1, <2>2, StaysAtIt
<1>5. CASE CheckFails(k)
  <2>1. /\ workspace' = run.snapshot /\ UNCHANGED run
        /\ Go(k, "restored") \/ Go(k, "except")
    BY <1>5, Validates DEF CheckFails
  <2>2. /\ \A c \in Clients : pc'[c] = pc[c]
        /\ \A j \in Appliers : pc'[j] \notin Whole
    BY <1>0, <1>0a, <2>1, Lands, TurnNames DEF Whole
  <2> QED
    BY <1>0, <1>0a, <2>1, <2>2, LeavesClean DEF TargetFits
<1>6. CASE Complete(k)
  <2>1. /\ run'.baseline = run.baseline /\ run'.snapshot = run.snapshot
        /\ run'.status = "completed" /\ Go(k, "ended") /\ workspace' = workspace
        /\ workspace.change = "full"
    BY <1>6 DEF Complete, Turn, LifeTypes, Rows, TargetFits, Whole
  <2>2. /\ \A c \in Clients : pc'[c] = pc[c] /\ pc[c] \notin Deciding
        /\ \A j \in Appliers : pc'[j] \notin Whole
    BY <1>0, <1>0a, <2>1, Lands, TurnNames DEF Whole, Turn, OneTurn
  <2>3. ~Rolling' /\ \A c \in Clients : pc'[c] # "fresh"
    BY <2>2 DEF Rolling, Deciding, Approving
  <2> QED
    BY <2>1, <2>2, <2>3 DEF TargetFits
<1> QED
  BY <1>1, <1>2, <1>3, <1>4, <1>5, <1>6 DEF Applying, Verdict

\* The monitor takes the run back to a status of the handler it had left.
LEMMA GoesOn ==
  ASSUME Turn, ResumeWaiting
  PROVE  run'.status \in {"implementing", "verifying", "researching"}
<1>1. pc["monitor"] = "resuming" /\ run'.status = mine["monitor"].status
  BY DEF ResumeWaiting, Turn, LifeTypes, Rows
<1>2. PICK k \in Handlers : job[k] = "waiting"
  BY <1>1 DEF Turn, PauseFits
<1>3. k \in Doers => Remembers(k)
  BY <1>1, <1>2 DEF Turn, PauseFits, Resumed, Pauses
<1>4. k \in Doers \/ k = "research"
  BY <1>2 DEF Turn, JobFits
<1> QED
  BY <1>1, <1>2, <1>3, <1>4 DEF Turn, PauseFits, Remembers

LEMMA TargetOfOutage ==
  ASSUME Turn, TargetFits, NEW k \in Handlers, Pause(k) \/ PauseRun(k) \/ Wait(k)
  PROVE  TargetFits'
<1>0. Carries(k) /\ k \in Actors /\ run.status # "completed"
  <2>1. Carries(k)
    BY DEF Pause, PauseRun, Wait, CallsOllama, Starts, Carries
  <2> QED
    BY <2>1, Settled, TurnNames
<1>1. CASE Pause(k)
  <2>1. /\ pc[k] \notin {"idle", "ended", "pausing", "waiting", "copied", "post_check", "completed"}
        /\ k \in Appliers => pc[k] # "except"
    BY <1>1, TurnNames DEF Pause, CallsOllama, Starts, Planners
  <2>2. /\ pc["monitor"] \in {"idle", "dead"}
        /\ \A j \in Handlers : j # k => pc[j] \in {"idle", "ended"} /\ job[j] # "pending"
        /\ k \in Doers => DoerStatus(k) /\ run.snapshot # NoContent
    BY <2>1, OnTurn DEF Carries
  <2>3. /\ pc'[k] \in {"idle", "pausing"} /\ UNCHANGED run
        /\ \A a \in Actors : a # k => pc'[a] = pc[a]
    BY <1>0, <1>1, Lands DEF Pause
  <2>4. /\ \A c \in Clients : pc'[c] = pc[c]
        /\ \A j \in Appliers : pc'[j] \notin Whole
    BY <2>2, <2>3, TurnNames DEF Whole
  <2>5. CASE k \in Appliers /\ Touching(k) /\ run.status = "cancelled"
    <3>1. UNCHANGED workspace
      BY <1>1, <2>5 DEF Pause
    <3>2. \A j \in Handlers : job'[j] # "pending"
      BY <1>1, <2>2 DEF Pause
    <3>3. Dead'
      BY <2>2, <2>3, <2>5, <3>2, TurnNames DEF Dead
    <3>4. \A c \in Clients : pc'[c] # "fresh"
      BY <1>0, <2>4 DEF Turn, OneTurn, Deciding, Approving
    <3> QED
      BY <1>0, <2>3, <2>4, <3>1, <3>3, <3>4 DEF TargetFits
  <2>6. CASE k \in Appliers /\ Touching(k) /\ run.status # "cancelled"
    <3>1. run.status = "post_check" /\ run.snapshot # NoContent
      BY <2>1, <2>2, <2>6, TurnNames DEF Touching, Whole, DoerStatus
    <3>2. workspace'.change = "none"
      BY <1>1, <3>1 DEF Pause, TargetFits
    <3> QED
      BY <1>0, <2>3, <2>4, <3>2, LeavesClean DEF TargetFits
  <2>7. CASE ~(k \in Appliers /\ Touching(k))
    <3>1. workspace.change = "none"
      BY <1>0, <2>1, <2>7, CleanTarget DEF Dead
    <3>2. workspace'.change = "none"
      BY <1>1, <3>1 DEF Pause, TargetFits
    <3> QED
      BY <1>0, <2>3, <2>4, <3>2, LeavesClean DEF TargetFits
  <2> QED
    BY <2>5, <2>6, <2>7
<1>2. CASE PauseRun(k)
  <2>1. /\ UNCHANGED <<run, workspace, job>> /\ pc[k] = "pausing"
        /\ pc'[k] \in {"idle", "waiting"} /\ \A a \in Actors : a # k => pc'[a] = pc[a]
    BY <1>0, <1>2, Lands, Validates DEF PauseRun
  <2>2. /\ \A c \in Clients : pc'[c] = pc[c]
        /\ \A j \in Appliers : pc'[j] \notin Whole
    BY <1>0, <2>1, TurnNames DEF Whole, Turn, OneTurn, Carries
  <2>3. CASE Dead
    <3>1. pc'[k] = "idle"
      BY <1>0, <1>2, <2>3, Lands, StatusTable DEF PauseRun, Validate, Target, Dead
    <3>2. Dead'
      BY <2>1, <2>3, <3>1, TurnNames DEF Dead
    <3>3. \A c \in Clients : pc'[c] # "fresh"
      BY <1>0, <2>2 DEF Turn, OneTurn, Deciding, Approving
    <3> QED
      BY <1>0, <2>1, <2>2, <3>2, <3>3 DEF TargetFits
  <2>4. CASE ~Dead
    <3>1. workspace.change = "none"
      BY <1>0, <2>1, <2>4, CleanTarget DEF Touching, Whole
    <3> QED
      BY <1>0, <2>1, <2>2, <3>1, LeavesClean DEF TargetFits
  <2> QED
    BY <2>3, <2>4
<1>3. CASE Wait(k)
  <2>1. /\ run'.baseline = run.baseline /\ run'.snapshot = run.snapshot
        /\ run'.status = "waiting_for_ollama" /\ UNCHANGED workspace /\ pc[k] = "waiting"
        /\ pc'[k] = "idle" /\ \A a \in Actors : a # k => pc'[a] = pc[a]
    BY <1>0, <1>3, Lands DEF Wait, Turn, LifeTypes, Rows
  <2>2. workspace.change = "none"
    BY <1>0, <2>1, CleanTarget DEF Touching, Whole, Dead
  <2>3. /\ \A c \in Clients : pc'[c] = pc[c]
        /\ \A j \in Appliers : pc'[j] \notin Whole
    BY <1>0, <2>1, TurnNames DEF Whole, Turn, OneTurn, Carries
  <2> QED
    BY <1>0, <2>1, <2>2, <2>3, LeavesClean DEF TargetFits
<1> QED
  BY <1>1, <1>2, <1>3

LEMMA TargetOfMonitor ==
  ASSUME Turn, TargetFits, Monitor
  PROVE  TargetFits'
<1>0. PICK k \in Handlers : job[k] = "waiting"
  BY DEF Monitor, Recover, ResumeWaiting, Release, Turn, PauseFits
<1>1. Carries(k) /\ k \in Actors /\ run.status # "completed"
  <2>1. Carries(k)
    BY <1>0 DEF Carries
  <2> QED
    BY <2>1, Settled, TurnNames
<1>2. /\ \A a \in Actors : a # "monitor" => pc'[a] = pc[a]
      /\ UNCHANGED workspace
      /\ run'.baseline = run.baseline /\ run'.snapshot = run.snapshot
  BY Lands, TurnNames DEF Monitor, Recover, ResumeWaiting, Release, Turn, LifeTypes, Rows
<1>3. /\ \A c \in Clients : pc'[c] = pc[c] /\ pc'[c] # "fresh"
      /\ \A j \in Appliers : ~Touching(j) /\ pc'[j] \notin Whole
  <2>1. pc[k] \in {"idle", "pausing", "waiting"}
    BY <1>0 DEF Turn, JobFits
  <2> QED
    BY <1>1, <1>2, <2>1, TurnNames
       DEF Touching, Whole, Turn, OneTurn, Carries, Deciding, Approving
<1>4. run'.status # "completed"
  BY <1>1, GoesOn DEF Monitor, Recover, Release
<1>5. CASE Dead
  <2>1. pc["monitor"] = "idle" /\ Recover /\ UNCHANGED <<run, job>> /\ run.status = "cancelled"
    BY <1>5 DEF Dead, Monitor, Recover, ResumeWaiting, Release
  <2>2. run.resume # "cancelled"
    BY DEF Turn, PauseFits, Remembers
  <2>3. pc'["monitor"] = "dead"
    BY <2>1, <2>2, Lands, StatusTable, TurnNames DEF Recover
  <2>4. Dead'
    BY <1>2, <1>5, <2>1, <2>3, TurnNames DEF Dead
  <2> QED
    BY <1>1, <1>2, <1>3, <2>1, <2>4 DEF TargetFits
<1>6. CASE ~Dead
  <2>1. workspace.change = "none"
    BY <1>1, <1>3, <1>6, CleanTarget
  <2> QED
    BY <1>1, <1>2, <1>3, <1>4, <2>1, LeavesClean DEF TargetFits
<1> QED
  BY <1>5, <1>6

\* A client that goes on, with the target as it was.
LEMMA TargetOfClient ==
  ASSUME OneByOne, Turn, TargetFits, NEW c \in Clients, NewRequest(c) \/ Client(c)
  PROVE  TargetFits'
<1>0. /\ c \in Actors /\ \A d \in Clients : d = c
      /\ ~RedoPlan(c) /\ ~Redo(c) /\ ~Redone(c)
  BY TurnNames
     DEF RedoPlan, Request, OneByOne, Redo, Redone, Turn, Placed, Deciding, Approving, Resuming,
         RollingBack
<1>1. CASE EditProvisional(c)
  <2>1. /\ run'.status = run.status /\ run'.baseline = run.baseline
        /\ run'.snapshot = run.snapshot /\ UNCHANGED <<workspace, job, pc, mine>>
    BY <1>1 DEF EditProvisional, Turn, LifeTypes, Rows
  <2> QED
    BY <2>1 DEF TargetFits, Touching, Rolling, Dead
<1>2. \A l : Go(c, l) => /\ pc'[c] = l /\ \A k \in Handlers : pc'[k] = pc[k]
                         /\ pc'["monitor"] = pc["monitor"]
  BY <1>0, Lands, TurnNames
<1>4. CASE \/ Approve(c) \/ EditPlan(c) \/ CancelRun(c) \/ ResumeRun(c)
           \/ Edited(c) \/ QueueJob(c) \/ CancelJobs(c)
  <2>1. /\ UNCHANGED <<run, workspace>> /\ pc[c] \notin RollingBack
        /\ pc'[c] \notin RollingBack \cup {"fresh"}
        /\ \A k \in Handlers : pc'[k] = pc[k]
        /\ pc'["monitor"] = pc["monitor"]
    <3>1. /\ UNCHANGED <<run, workspace>> /\ pc[c] \notin RollingBack
      BY <1>4 DEF Approve, EditPlan, CancelRun, ResumeRun, Edited, QueueJob, CancelJobs, Request,
                  RollingBack
    <3>2. PICK m : Go(c, m) /\ m \notin RollingBack \cup {"fresh"}
      BY <1>0, <1>4, Validates, TurnNames
         DEF Approve, EditPlan, CancelRun, ResumeRun, Edited, QueueJob, CancelJobs, RollingBack
    <3> QED
      BY <1>2, <3>1, <3>2
  <2>2. ~Rolling /\ ~Rolling'
    BY <1>0, <2>1 DEF Rolling
  <2>3. \A k \in Handlers : job'[k] = "pending" => job[k] = "pending" \/ ~Dead
    <3>1. CASE Edited(c) \/ QueueJob(c)
      BY <3>1 DEF Edited, QueueJob, Dead, Turn, ClientFits
    <3>2. CASE ~(Edited(c) \/ QueueJob(c))
      BY <1>4, <3>2 DEF Approve, EditPlan, CancelRun, ResumeRun, CancelJobs
    <3> QED
      BY <3>1, <3>2
  <2>4. Dead => Dead'
    BY <2>1, <2>3 DEF Dead
  <2>5. \A k \in Appliers : (Touching(k) <=> Touching(k)') /\ pc'[k] = pc[k]
    BY <2>1, TurnNames DEF Touching
  <2> QED
    BY <1>0, <2>1, <2>2, <2>4, <2>5 DEF TargetFits
<1>5. CASE Cancel(c)
  <2>1. /\ pc[c] = "cancel" /\ pc'[c] = "cancelled" /\ run'.status = "cancelled"
        /\ run'.baseline = run.baseline /\ run'.snapshot = run.snapshot
        /\ UNCHANGED <<workspace, job>> /\ \A k \in Handlers : pc'[k] = pc[k]
        /\ pc'["monitor"] = pc["monitor"]
    BY <1>0, <1>5, Lands, TurnNames DEF Cancel, Turn, LifeTypes, Rows
  <2>2. \A k \in Appliers : (Touching(k) => Touching(k)') /\ pc'[k] = pc[k]
    BY <2>1, TurnNames DEF Touching
  <2>3. run.status = "completed" => Dead'
    <3>1. run.status = "completed" => \A k \in Handlers : ~Carries(k)
      BY Settled
    <3> QED
      BY <2>1, <3>1, NobodysTurn DEF Dead, Carries
  <2>4. Dead => Dead'
    BY <2>1 DEF Dead
  <2> QED
    BY <1>0, <2>1, <2>2, <2>3, <2>4 DEF TargetFits
<1>6. CASE RollbackRun(c)
  <2>1. /\ workspace' = run.snapshot /\ run.snapshot # NoContent /\ UNCHANGED run
        /\ pc'[c] = "rolling" /\ run.status \in {"completed", "failed", "rolled_back"}
        /\ \A k \in Handlers : pc'[k] = pc[k]
    BY <1>0, <1>6, Lands, TurnNames DEF RollbackRun
  <2>2. \A k \in Appliers : pc'[k] \notin Whole
    BY <2>1, Settled, TurnNames DEF Whole, Carries
  <2>3. Rolling'
    BY <2>1 DEF Rolling, RollingBack
  <2> QED
    BY <1>0, <2>1, <2>2, <2>3 DEF TargetFits
<1>7. CASE Stale(c) \/ Snapshot(c) \/ Approved(c) \/ Edit(c) \/ Resume(c) \/ Rollback(c)
  <2>1. /\ pc[c] \in Deciding /\ UNCHANGED workspace
        /\ pc[c] \in Approving \cup Resuming \cup {"edit"} \/ Rolling
        /\ \A k \in Handlers : pc'[k] = pc[k]
    BY <1>2, <1>7 DEF Stale, Snapshot, Approved, Edit, Resume, Rollback, Deciding, Approving,
                      Resuming, RollingBack, Rolling
  <2>2. workspace.change = "none" /\ \A k \in Appliers : pc'[k] \notin Whole
    <3>1. run.status # "completed" \/ Rolling
      BY <2>1 DEF Turn, ClientFits
    <3> QED
      BY <2>1, <3>1, CleanForClients, TurnNames
  <2>3. run'.baseline \in {run.baseline, workspace} /\ run'.status # "completed"
    <3>1. /\ run'.baseline \in {run.baseline, workspace}
          /\ \/ run'.status # "completed"
             \/ run'.status = run.status /\ pc[c] \in Approving
      BY <1>7 DEF Stale, Snapshot, Approved, Edit, Resume, Rollback, Turn, LifeTypes, Rows, Approving
    <3> QED
      BY <3>1 DEF Turn, ClientFits
  <2>4. \/ run'.snapshot \in {run.snapshot, NoContent}
        \/ pc[c] = "fresh" /\ run'.snapshot = mine[c].content
    BY <1>7 DEF Stale, Snapshot, Approved, Edit, Resume, Rollback, Turn, LifeTypes, Rows
  <2>5. pc'[c] = "fresh" => mine'[c].content = workspace
    <3>1. CASE Snapshot(c)
      BY <1>0, <3>1 DEF Snapshot, Turn, LifeTypes, ControlTyped, Reads
    <3>2. CASE ~Snapshot(c)
      BY <1>2, <1>7, <3>2 DEF Stale, Approved, Edit, Resume, Rollback
    <3> QED
      BY <3>1, <3>2
  <2> QED
    BY <1>0, <2>1, <2>2, <2>3, <2>4, <2>5 DEF TargetFits
<1>8. CASE RollbackDone(c)
  <2>1. /\ UNCHANGED <<run, workspace>> /\ pc[c] = "rolling"
        /\ \A k \in Handlers : pc'[k] = pc[k]
        /\ pc'[c] = IF ValidTransition(run.status, "rolled_back") THEN "rollback" ELSE "idle"
    BY <1>0, <1>8, Lands, TurnNames DEF RollbackDone, Validate, Target
  <2>2. pc'[c] = "rollback"
    BY <2>1 DEF Turn, ClientFits, RollingBack, ValidTransition, AllowedTransitions
  <2>3. Rolling /\ Rolling'
    BY <2>1, <2>2 DEF Rolling, RollingBack
  <2>4. workspace.change = "none" /\ \A k \in Appliers : pc'[k] \notin Whole
    BY <2>1, <2>3, CleanForClients, TurnNames DEF Deciding, RollingBack
  <2> QED
    BY <1>0, <2>1, <2>2, <2>3, <2>4 DEF TargetFits
<1> QED
  BY <1>0, <1>1, <1>4, <1>5, <1>6, <1>7, <1>8 DEF NewRequest, Client

LEMMA TargetAtStart == ASSUME Init PROVE TargetFits
  BY TurnNames
     DEF Init, TargetFits, Clean, NoContent, Whole

LEMMA TargetGoesOn ==
  ASSUME OneByOne, Turn, TargetFits, [Next]_vars, ~Restart
  PROVE  TargetFits'
<1>1. ASSUME NEW k \in Handlers, Claim(k) \/ Handler(k) \/ CallRaises(k) \/ Pause(k)
      PROVE  TargetFits'
  BY <1>1, TargetOfQueue, TargetOfFailure, TargetOfPlanning, TargetOfImplementing,
     TargetOfApplying, TargetOfOutage DEF Handler, Applying
<1>2. ASSUME NEW c \in Clients, NewRequest(c) \/ Client(c) PROVE TargetFits'
  BY <1>2, TargetOfClient
<1>3. CASE Monitor
  BY <1>3, TargetOfMonitor
<1>4. CASE UserEdits
  <2>1. workspace'.change = workspace.change /\ UNCHANGED <<run, job, pc, mine>>
    BY <1>4 DEF UserEdits, Turn, LifeTypes, WorldTyped, Held
  <2> QED
    BY <2>1 DEF TargetFits, Touching, Rolling, Dead
<1>5. CASE UNCHANGED vars
  BY <1>5 DEF vars, TargetFits, Touching, Rolling, Dead
<1> QED
  BY <1>1, <1>2, <1>3, <1>4, <1>5 DEF Next

LEMMA TargetStep ==
  ASSUME Sequential, Turn, TargetFits, [Next]_vars
  PROVE  TargetFits'
  BY NoRestart, TargetGoesOn DEF Turn

\* At rest, a completed run has its whole change in the target and a rolled back
\* one nothing of it, for any number of plans, errors, outages and expansions and
\* any moment of a cancellation.
THEOREM OutcomeInTarget ==
  ASSUME Sequential
  PROVE  Spec => []OutcomeMatchesWorkspace
<1>1. Init => Turn /\ TargetFits
  BY TurnAtStart, TargetAtStart
<1>2. Turn /\ TargetFits /\ [Next]_vars => (Turn /\ TargetFits)'
  BY TurnStep, TargetStep
<1>3. Turn /\ TargetFits => OutcomeMatchesWorkspace
  <2> SUFFICES ASSUME Turn, TargetFits, AtRest
               PROVE  /\ run.status = "completed" => workspace.change = "full"
                      /\ run.status = "rolled_back" => workspace.change = "none"
    BY DEF OutcomeMatchesWorkspace
  <2>1. ~Rolling /\ \A k \in Appliers : ~Touching(k)
    BY TurnNames DEF AtRest, Rolling, RollingBack, Touching, Whole
  <2> QED
    BY <2>1 DEF TargetFits, Dead
<1> QED
  BY <1>1, <1>2, <1>3, PTL DEF Spec

-----------------------------------------------------------------------------
(* Where nobody cancels, nothing is left half done: a dead run is a        *)
(* cancelled one.                                                          *)

NeverCancelled == run.status # "cancelled" /\ \A c \in Clients : pc[c] # "cancel"

LEMMA NeverCancelledGoesOn ==
  ASSUME OneByOne, "cancel" \notin Requests, Turn, NeverCancelled, [Next]_vars, ~Restart
  PROVE  NeverCancelled'
<1>1. ASSUME NEW k \in Handlers, Claim(k) \/ Handler(k) \/ CallRaises(k) \/ Pause(k)
      PROVE  NeverCancelled'
  <2>1. k \in Actors
    BY TurnNames
  <2>2. \E l : Go(k, l)
    BY <1>1, Validates
       DEF Handler, Claim, CallRaises, Pause, RunIsOver, Planning, Implementing, Applying, Edited,
           Except, Fail, PauseRun, Wait, Finalize, StartProvisional, Save, Park, StartResearch,
           Research, Researched, StartDecompose, Planned, Decompose, RecordHash, Ready,
           StartImplementation, Solo, StartWork, Work, StartMerge, Dispatch, Verdict, Verify,
           Verifying, VerifiersReport, VerdictPasses, VerdictExpands, VerdictFails, Expand, Repair,
           Repaired, Gate, Apply, CopySome, CopyRest, PostCheck, CheckPasses, CheckFails, Complete,
           Restored
  <2>3. \A c \in Clients : pc'[c] = pc[c]
    BY <2>1, <2>2, Lands, TurnNames
  <2>4. run'.status = run.status \/ run'.status # "cancelled"
    BY <1>1
       DEF Handler, Claim, CallRaises, Pause, RunIsOver, Planning, Implementing, Applying, Edited,
           Except, Fail, PauseRun, Wait, Finalize, StartProvisional, Save, Park, StartResearch,
           Research, Researched, StartDecompose, Planned, Decompose, RecordHash, Ready,
           StartImplementation, Solo, StartWork, Work, StartMerge, Dispatch, Verdict, Verify,
           Verifying, VerifiersReport, VerdictPasses, VerdictExpands, VerdictFails, Expand, Repair,
           Repaired, Gate, Apply, CopySome, CopyRest, PostCheck, CheckPasses, CheckFails, Complete,
           Restored, Turn, LifeTypes, Rows
  <2> QED
    BY <2>3, <2>4 DEF NeverCancelled
<1>2. ASSUME NEW c \in Clients, NewRequest(c) \/ Client(c) PROVE NeverCancelled'
  <2>1. c \in Actors /\ \A d \in Clients : d = c
    BY TurnNames DEF OneByOne
  <2>2. CASE Cancel(c) \/ CancelRun(c)
    BY <2>2 DEF Cancel, CancelRun, Request, NeverCancelled
  <2>3. CASE EditProvisional(c)
    BY <2>3 DEF EditProvisional, NeverCancelled, Turn, LifeTypes, Rows
  <2>4. CASE ~(Cancel(c) \/ CancelRun(c) \/ EditProvisional(c))
    <3>1. PICK l : Go(c, l) /\ l # "cancel"
      BY <1>2, <2>4, Validates
         DEF NewRequest, Client, Approve, EditPlan, RedoPlan, ResumeRun, RollbackRun, Stale, Snapshot,
             Approved, Edit, Edited, Redo, Redone, CancelJobs, Resume, QueueJob, RollbackDone, Rollback
    <3>2. run'.status = run.status \/ run'.status # "cancelled"
      BY <1>2, <2>4
         DEF NewRequest, Client, Approve, EditPlan, RedoPlan, ResumeRun, RollbackRun, Stale, Snapshot,
             Approved, Edit, Edited, Redo, Redone, CancelJobs, Resume, QueueJob, RollbackDone, Rollback,
             Turn, LifeTypes, Rows
    <3> QED
      BY <2>1, <3>1, <3>2, Lands DEF NeverCancelled
  <2> QED
    BY <2>2, <2>3, <2>4
<1>3. CASE Monitor
  <2>1. \A c \in Clients : pc'[c] = pc[c]
    BY <1>3, Lands, TurnNames DEF Monitor, Recover, ResumeWaiting, Release
  <2>2. run'.status = run.status \/ run'.status # "cancelled"
    BY <1>3, GoesOn DEF Monitor, Recover, Release
  <2> QED
    BY <2>1, <2>2 DEF NeverCancelled
<1>4. CASE UserEdits \/ UNCHANGED vars
  BY <1>4 DEF UserEdits, vars, NeverCancelled
<1> QED
  BY <1>1, <1>2, <1>3, <1>4 DEF Next

LEMMA NeverCancelledStep ==
  ASSUME Sequential, "cancel" \notin Requests, Turn, NeverCancelled, [Next]_vars
  PROVE  NeverCancelled'
  BY NoRestart, NeverCancelledGoesOn DEF Turn

\* At rest the target never holds half of a change, if nobody cancels the run: an
\* error or an outage in the middle of apply_stage has been undone.  (A run
\* cancelled while it copies keeps what was copied.)
THEOREM HalfAppliedIsUndone ==
  ASSUME Sequential, "cancel" \notin Requests
  PROVE  Spec => []NoHalfApplied
<1>1. Init => Turn /\ TargetFits /\ NeverCancelled
  BY TurnAtStart, TargetAtStart, TurnNames DEF Init, NeverCancelled
<1>2. Turn /\ TargetFits /\ NeverCancelled /\ [Next]_vars => (Turn /\ TargetFits /\ NeverCancelled)'
  BY TurnStep, TargetStep, NeverCancelledStep
<1>3. Turn /\ TargetFits /\ NeverCancelled => NoHalfApplied
  <2> SUFFICES ASSUME TargetFits, NeverCancelled, AtRest PROVE workspace.change # "part"
    BY DEF NoHalfApplied
  <2>1. \A k \in Appliers : ~Touching(k)
    BY TurnNames DEF AtRest, Touching, Whole
  <2> QED
    BY <2>1 DEF TargetFits, NeverCancelled, Dead
<1> QED
  BY <1>1, <1>2, <1>3, PTL DEF Spec

-----------------------------------------------------------------------------
(* The end of a run.                                                       *)

\* A completed run can only be rolled back and a rolled back run stays so, unless
\* a cancellation that was validated earlier is still to be written.
THEOREM OutcomeStays ==
  ASSUME Sequential
  PROVE  Spec => OutcomeIsFinal
<1>1. Init => Turn
  BY TurnAtStart
<1>2. Turn /\ [Next]_vars => Turn'
  BY TurnStep
<1> DEFINE Over == run.status \in {"completed", "rolled_back"}
           Final == /\ run.status = "completed" => run'.status \in {"completed", "rolled_back"}
                    /\ run.status = "rolled_back" => run'.status = "rolled_back"
<1>3. Turn /\ [Next]_vars => [(\A c \in Clients : pc[c] # "cancel") => Final]_vars
  <2> SUFFICES ASSUME Turn, Next, Over, \A c \in Clients : pc[c] # "cancel"
               PROVE  run'.status = run.status \/ run'.status = "rolled_back"
    OBVIOUS
  <2>0. /\ \A k \in Handlers : pc[k] \in {"idle", "ended"} /\ job[k] \notin {"pending", "waiting"}
        /\ pc["monitor"] \in {"idle", "dead"}
    BY Settled, NobodysTurn DEF Carries
  <2>1. ASSUME NEW k \in Handlers, Claim(k) \/ Handler(k) \/ CallRaises(k) \/ Pause(k)
        PROVE  UNCHANGED run
    BY <2>0, <2>1
       DEF Handler, Claim, CallRaises, Pause, CallsOllama, RunIsOver, Planning, Implementing,
           Applying, Edited, Starts,
           Except, Fail, PauseRun, Wait, Finalize, StartProvisional, Save, Park, StartResearch,
           Research, Researched, StartDecompose, Planned, Decompose, RecordHash, Ready,
           StartImplementation, Solo, StartWork, Work, StartMerge, Dispatch, Verdict, Verify,
           Verifying, VerifiersReport, VerdictPasses, VerdictExpands, VerdictFails, Expand, Repair,
           Repaired, Gate, Apply, CopySome, CopyRest, PostCheck, CheckPasses, CheckFails, Complete,
           Restored, Handlers, Appliers
  <2>2. ASSUME NEW c \in Clients, NewRequest(c)
        PROVE  run'.status = run.status
    BY <2>2
       DEF NewRequest, Approve, EditPlan, EditProvisional, RedoPlan, CancelRun, ResumeRun,
           RollbackRun, Turn, LifeTypes, Rows
  <2>3. ASSUME NEW c \in Clients, Client(c)
        PROVE  run'.status = run.status \/ run'.status = "rolled_back"
    BY <2>3
       DEF Client, Stale, Snapshot, Approved, Edit, Edited, Redo, Redone, Cancel, CancelJobs,
           Resume, QueueJob, RollbackDone, Rollback, Turn, ClientFits, Placed, Deciding, Approving,
           Resuming, RollingBack, LifeTypes, Rows
  <2>4. ~Monitor \/ UNCHANGED run
    BY <2>0 DEF Monitor, Recover, ResumeWaiting, Release
  <2>5. UserEdits => UNCHANGED run
    BY DEF UserEdits
  <2>6. ~Restart
    BY DEF Restart, Count, Sequential, Turn, LifeTypes, WorldTyped, Counts
  <2> QED
    BY <2>1, <2>2, <2>3, <2>4, <2>5, <2>6 DEF Next
<1> QED
  BY <1>1, <1>2, <1>3, PTL DEF Spec, OutcomeIsFinal

-----------------------------------------------------------------------------
(* What has been approved.  Once it is, the run is planned again only      *)
(* after an expansion of its scope; its graph is then the one of another   *)
(* plan, and is executed without a new approval only if a call raised.     *)

\* The recorded plan is the one of the graph, or is about to be.
HashFits ==
  /\ run.hash # 0 => graph.of = run.hash \/ \E k \in Planners : pc[k] = "hash"
  /\ \A k \in Planners : pc[k] = "hash" => graph.of = mine[k].plan
  /\ \A a \in Actors : pc[a] = "edited" => run.hash = 0

PlansNow ==
  \/ \E k \in Planners : Carries(k)
  \/ \E k \in Appliers : pc[k] \in {"expand", "edited"}
  \/ run.status \in {"awaiting_approval", "decomposing", "researching"}

Replans ==
  /\ PlansNow /\ run.approved # 0 => count.expansions > 0
  /\ \A c \in Clients : pc[c] = "restart" => run.approved = 0

\* A planner fails because a call raised: a status that refuses its write is that
\* of a cancelled run, which it cannot fail.
FailsForReason ==
  /\ pc["research"] \in {"worker", "brain", "decompose", "hash", "ready", "except", "failing"}
       => run.status \in {"researching", "cancelled"}
  /\ \A k \in Planners :
       /\ pc[k] = "except" => count.errors > 0 \/ run.status = "cancelled"
       /\ pc[k] = "failing" => count.errors > 0

ExecutesNow ==
  \/ \E k \in Doers : Carries(k)
  \/ run.status \in {"implementing", "verifying", "applying", "post_check"}
  \/ run.status = "failed" /\ run.approved # 0

Executable ==
  \/ graph.state = "none" \/ graph.of = run.approved
  \/ count.expansions > 0 /\ count.errors > 0

Executes ==
  /\ run.snapshot # NoContent => run.approved # 0
  /\ ExecutesNow => Executable

PlanFits == HashFits /\ Replans /\ FailsForReason /\ Executes

Step(k) == Claim(k) \/ Handler(k) \/ CallRaises(k) \/ Pause(k)

\* What a step of a handler leaves alone.
LEMMA StepFrame ==
  ASSUME Turn, NEW k \in Handlers, Step(k)
  PROVE  /\ k \in Actors /\ \A a \in Actors : a # k => pc'[a] = pc[a] /\ mine'[a] = mine[a]
         /\ run'.approved = run.approved /\ run'.snapshot = run.snapshot
         /\ count'.expansions \in {count.expansions, count.expansions + 1}
         /\ count'.errors \in {count.errors, count.errors + 1}
         /\ {count.expansions, count.errors} \subseteq Nat
         /\ Carries(k) \/ Finalize(k)
<1> USE DEF Step, Handler, Claim, CallRaises, Pause, RunIsOver, Planning, Implementing, Applying,
            Edited, Except, Fail, PauseRun, Wait, StartProvisional, Save, Park, StartResearch,
            Research, Researched, StartDecompose, Planned, Decompose, RecordHash, Ready,
            StartImplementation, Solo, StartWork, Work, StartMerge, Dispatch, Verdict, Verify,
            Verifying, VerifiersReport, VerdictPasses, VerdictExpands, VerdictFails, Expand, Repair,
            Repaired, Gate, Apply, CopySome, CopyRest, PostCheck, CheckPasses, CheckFails, Complete,
            Restored
<1>1. k \in Actors
  BY TurnNames
<1>2. \E l : Go(k, l)
  BY Validates DEF Finalize
<1>3. \A a \in Actors : a # k => mine'[a] = mine[a]
  BY DEF Finalize, Turn, LifeTypes, ControlTyped
<1>4. run'.approved = run.approved /\ run'.snapshot = run.snapshot
  BY DEF Finalize, Turn, LifeTypes, Rows
<1>5. /\ count'.expansions \in {count.expansions, count.expansions + 1}
      /\ count'.errors \in {count.errors, count.errors + 1}
      /\ {count.expansions, count.errors} \subseteq Nat
  BY DEF Finalize, Turn, LifeTypes, WorldTyped, Count, Counts
<1>6. Carries(k) \/ Finalize(k)
  BY DEF CallsOllama, Starts, Carries, Handlers, Appliers
<1> QED
  BY <1>1, <1>2, <1>3, <1>4, <1>5, <1>6, Lands

\* Which steps of a handler write the graph or the plan it is recorded with.
LEMMA StepOnGraph ==
  ASSUME Turn, NEW k \in Handlers, Step(k)
  PROVE  \/ Decompose(k) \/ RecordHash(k) \/ Edited(k) \/ Expand(k)
         \/ /\ graph'.of = graph.of /\ (graph.state = "none" => graph'.state = "none")
            /\ run'.hash \in {run.hash, 0}
            /\ pc[k] # "hash" /\ pc'[k] \notin {"hash", "edited"}
<1> USE DEF Step, Handler, Claim, CallRaises, Pause, RunIsOver, Planning, Implementing, Applying,
            Except, Fail, PauseRun, Wait, Finalize, StartProvisional, Save, Park, StartResearch,
            Research, Researched, StartDecompose, Planned, Ready,
            StartImplementation, Solo, StartWork, Work, StartMerge, Dispatch, Verdict, Verify,
            Verifying, VerifiersReport, VerdictPasses, VerdictExpands, VerdictFails, Repair,
            Repaired, Gate, Apply, CopySome, CopyRest, PostCheck, CheckPasses, CheckFails, Complete,
            Restored
<1> SUFFICES ASSUME ~(Decompose(k) \/ RecordHash(k) \/ Edited(k) \/ Expand(k))
             PROVE  /\ graph'.of = graph.of /\ (graph.state = "none" => graph'.state = "none")
                    /\ run'.hash \in {run.hash, 0}
                    /\ pc[k] # "hash" /\ pc'[k] \notin {"hash", "edited"}
  OBVIOUS
<1>1. graph'.of = graph.of /\ (graph.state = "none" => graph'.state = "none")
  BY DEF Turn, LifeTypes, WorldTyped
<1>2. run'.hash \in {run.hash, 0}
  BY DEF Turn, LifeTypes, Rows
<1>3. pc[k] # "hash"
  BY DEF CallsOllama, Starts
<1>4. \E l : Go(k, l) /\ l \notin {"hash", "edited"}
  BY Validates
<1> QED
  BY <1>1, <1>2, <1>3, <1>4, Lands, TurnNames

LEMMA StepKeepsHash ==
  ASSUME Turn, HashFits, NEW k \in Handlers, Step(k)
  PROVE  HashFits'
<1>0. /\ k \in Actors /\ \A a \in Actors : a # k => pc'[a] = pc[a] /\ mine'[a] = mine[a]
      /\ Planners \subseteq Actors
  BY StepFrame, TurnNames
<1>1. CASE Decompose(k) \/ RecordHash(k)
  <2>1. /\ k \in Planners /\ \A a \in Actors : a # k => pc[a] \notin {"hash", "edited"}
    <3>1. k \in Planners
      BY <1>1 DEF Decompose, RecordHash, Turn, Placed, StepsOf, AppliersSteps, Common, Paused,
                  Handlers, Planners
    <3>2. \A j \in Handlers : j # k => pc[j] \in {"idle", "ended"}
      BY <1>1, OnTurn DEF Decompose, RecordHash
    <3>3. \A c \in Clients : pc[c] \notin {"hash", "edited"}
      BY <1>1, OnTurn DEF Decompose, RecordHash, Deciding, Turn, Placed, Approving, Resuming,
                          RollingBack
    <3> QED
      BY <3>1, <3>2, <3>3 DEF Actors, Turn, Placed
  <2>2. CASE Decompose(k)
    <3>1. pc'[k] = "hash" /\ graph'.of = mine[k].plan /\ mine' = mine /\ run' = run
      BY <1>0, <2>2, Lands DEF Decompose
    <3> QED
      BY <1>0, <2>1, <3>1 DEF HashFits
  <2>3. CASE RecordHash(k)
    <3>1. /\ pc[k] = "hash" /\ pc'[k] \in {"ready", "except"} /\ graph' = graph
          /\ run'.hash = mine[k].plan
      BY <1>0, <2>3, Lands, Validates DEF RecordHash, Turn, LifeTypes, Rows
    <3> QED
      BY <1>0, <2>1, <3>1 DEF HashFits
  <2> QED
    BY <1>1, <2>2, <2>3
<1>2. CASE Edited(k) \/ Expand(k)
  <2>1. /\ pc[k] \in {"edited", "expand"} /\ pc'[k] \in {"ended", "edited"}
        /\ run'.hash = 0
    BY <1>0, <1>2, Lands DEF Edited, Expand, HashFits, Turn, LifeTypes, Rows
  <2>2. \A j \in Handlers : j # k => pc[j] \in {"idle", "ended"}
    BY <2>1, OnTurn
  <2> QED
    BY <1>0, <2>1, <2>2, TurnNames DEF HashFits
<1>3. CASE /\ graph'.of = graph.of /\ run'.hash \in {run.hash, 0}
           /\ pc[k] # "hash" /\ pc'[k] \notin {"hash", "edited"}
  BY <1>0, <1>3 DEF HashFits
<1> QED
  BY <1>1, <1>2, <1>3, StepOnGraph

\* A thread that writes the end of its job hands nothing on.
LEMMA FinalizeFrame ==
  ASSUME Turn, NEW k \in Handlers, Finalize(k)
  PROVE  /\ UNCHANGED <<run, graph, workspace, made, count>>
         /\ pc[k] = "ended" /\ pc'[k] = "idle"
         /\ \A a \in Actors : a # k => pc'[a] = pc[a]
         /\ \A j \in Handlers : Carries(j)' => Carries(j)
<1>1. k \in Actors /\ Go(k, "idle")
  BY TurnNames DEF Finalize
<1>2. pc'[k] = "idle" /\ \A a \in Actors : a # k => pc'[a] = pc[a]
  BY <1>1, Lands
<1>3. job'[k] = "none" /\ \A j \in Handlers : j # k => job'[j] = job[j]
  BY DEF Finalize, Turn, LifeTypes, JobsTyped
<1>4. ASSUME NEW j \in Handlers, Carries(j)' PROVE Carries(j)
  BY <1>2, <1>3, <1>4, TurnNames DEF Carries
<1> QED
  BY <1>2, <1>4 DEF Finalize

LEMMA StepKeepsReplans ==
  ASSUME Turn, Replans, NEW k \in Handlers, Step(k)
  PROVE  Replans'
<1>0. /\ k \in Actors /\ \A a \in Actors : a # k => pc'[a] = pc[a] /\ mine'[a] = mine[a]
      /\ run'.approved = run.approved
      /\ count'.expansions \in {count.expansions, count.expansions + 1} /\ count.expansions \in Nat
      /\ Carries(k) \/ Finalize(k)
  BY StepFrame
<1>1. SUFFICES ASSUME PlansNow', ~PlansNow, count'.expansions = count.expansions
               PROVE  FALSE
  BY <1>0, TurnNames DEF Replans
<1>2. ~Finalize(k)
  <2>1. SUFFICES ASSUME Finalize(k) PROVE PlansNow' => PlansNow
    BY <1>1
  <2>2. \A j \in Appliers : pc'[j] \in {"expand", "edited"} => pc[j] \in {"expand", "edited"}
    BY <2>1, FinalizeFrame, TurnNames
  <2> QED
    BY <2>1, <2>2, FinalizeFrame, TurnNames DEF PlansNow
<1>3. k \in Doers /\ pc[k] \notin {"expand", "edited"}
  <2>1. k \in Doers
    BY <1>0, <1>1, <1>2, TurnNames DEF PlansNow
  <2>2. pc[k] \in {"expand", "edited"} => k \in Appliers
    BY DEF Handlers, Appliers, Turn, Placed, StepsOf, Common, Paused
  <2> QED
    BY <1>1, <2>1, <2>2 DEF PlansNow
<1> USE DEF Step, Handler, Claim, CallRaises, Pause, RunIsOver, Planning, Implementing, Applying,
            Edited, Except, Fail, PauseRun, Wait, StartProvisional, Save, Park, StartResearch,
            Research, Researched, StartDecompose, Planned, Decompose, RecordHash, Ready,
            StartImplementation, Solo, StartWork, Work, StartMerge, Dispatch, Verdict, Verify,
            Verifying, VerifiersReport, VerdictPasses, VerdictExpands, VerdictFails, Expand, Repair,
            Repaired, Gate, Apply, CopySome, CopyRest, PostCheck, CheckPasses, CheckFails, Complete,
            Restored
<1>4. ~Planning(k)
  BY <1>3 DEF Starts, Turn, Placed, StepsOf, AppliersSteps, Common, Paused, Doers
<1>5. run'.status = run.status
        \/ run'.status \notin {"awaiting_approval", "decomposing", "researching"}
  BY <1>2, <1>3, <1>4 DEF Turn, LifeTypes, Rows
<1>6. \A j \in Planners : job'[j] = job[j]
  <2>1. CASE Pause(k)
    <3>1. \A j \in Planners : j # k /\ job[j] # "pending"
      BY <1>1, <1>3, TurnNames DEF PlansNow, Carries
    <3> QED
      BY <2>1, <3>1, TurnNames
  <2> QED
    BY <1>2, <1>3, <1>4, <2>1, TurnNames DEF Enqueue, Turn, LifeTypes, JobsTyped, Planners
<1>7. k \in Appliers => pc'[k] \notin {"expand", "edited"}
  <2>1. ~VerdictExpands(k)
    BY <1>0, <1>1 DEF Count, Turn, LifeTypes, WorldTyped, Counts
  <2>2. \E l : Go(k, l) /\ l \notin {"expand", "edited"}
    BY <1>2, <1>3, <1>4, <2>1, Validates
  <2> QED
    BY <1>0, <2>2, Lands
<1>8. \A j \in Planners : j \in Actors /\ j # k
  BY <1>3, TurnNames
<1> QED
  BY <1>0, <1>1, <1>5, <1>6, <1>7, <1>8, TurnNames DEF PlansNow, Carries

LEMMA StepKeepsReasons ==
  ASSUME Turn, FailsForReason, NEW k \in Handlers, Step(k)
  PROVE  FailsForReason'
<1>0. /\ k \in Actors /\ \A a \in Actors : a # k => pc'[a] = pc[a] /\ mine'[a] = mine[a]
      /\ count'.errors \in {count.errors, count.errors + 1} /\ count.errors \in Nat
      /\ Carries(k) \/ Finalize(k)
  BY StepFrame
<1>1. CASE Finalize(k)
  <2>1. pc'[k] = "idle" /\ UNCHANGED <<run, count>>
    BY <1>0, <1>1, Lands DEF Finalize
  <2> QED
    BY <1>0, <2>1, TurnNames DEF FailsForReason
<1>2. ASSUME ~Finalize(k), k \notin Planners
      PROVE  FailsForReason'
  <2>1. \A j \in Planners : pc'[j] = pc[j] /\ pc[j] \in {"idle", "ended"}
    BY <1>0, <1>2, TurnNames DEF Turn, OneTurn, Carries
  <2> QED
    BY <2>1, TurnNames DEF FailsForReason
<1>3. ASSUME ~Finalize(k), k \in Planners
      PROVE  FailsForReason'
  <2>0. /\ \A j \in Planners : j # k => pc'[j] = pc[j] /\ pc[j] \in {"idle", "ended"}
        /\ k \notin Doers
    BY <1>0, <1>3, TurnNames DEF Turn, OneTurn, Carries
  <2> SUFFICES
        /\ k = "research" /\ pc'[k] \in {"worker", "brain", "decompose", "hash", "ready", "except",
                                         "failing"}
             => run'.status \in {"researching", "cancelled"}
        /\ pc'[k] = "except" => count'.errors > 0 \/ run'.status = "cancelled"
        /\ pc'[k] = "failing" => count'.errors > 0
    BY <1>0, <2>0, TurnNames DEF FailsForReason
  <2>1. CASE CallRaises(k)
    <3>1. /\ pc'[k] = "except" /\ run'.status = run.status /\ count'.errors > 0
          /\ pc[k] \in {"brain", "decompose", "worker", "solo", "verifiers", "verdict", "gate",
                        "repairing", "copying", "copied", "checking"}
      BY <1>0, <2>1, Lands DEF CallRaises, Count, Turn, LifeTypes, Rows, WorldTyped, Counts
    <3>2. k = "research" => pc[k] \in {"brain", "decompose", "worker"}
      BY <3>1 DEF Turn, Placed, StepsOf, Common, Paused
    <3> QED
      BY <3>1, <3>2 DEF FailsForReason
  <2>2. CASE Except(k)
    <3>1. /\ pc[k] = "except" /\ UNCHANGED <<run, count>>
          /\ pc'[k] = IF ValidTransition(run.status, "failed") THEN "failing" ELSE "ended"
      BY <1>0, <2>0, <2>2, Lands, TurnNames DEF Except, Validate, Target
    <3>2. pc'[k] = "failing" => run.status # "cancelled"
      BY <3>1, StatusTable
    <3> QED
      BY <1>3, <3>1, <3>2 DEF FailsForReason
  <2>3. CASE Planning(k)
    <3>0. count'.errors = count.errors
      BY <2>3 DEF Planning, StartProvisional, Save, Park, StartResearch, Research, Researched,
                  StartDecompose, Planned, Decompose, RecordHash, Ready
    <3>1. CASE StartResearch /\ k = "research"
      <4>1. /\ PlannerStatus(k) /\ run'.status = run.status
            /\ pc'[k] = IF ValidTransition(run.status, "researching") THEN "researching" ELSE "except"
        BY <1>0, <1>3, <3>1, Lands, OnTurn
           DEF StartResearch, Starts, Validate, Target, Turn, LifeTypes, Rows
      <4>2. pc'[k] = "except" => run.status = "cancelled"
        BY <3>1, <4>1 DEF PlannerStatus, ValidTransition, AllowedTransitions
      <4> QED
        BY <4>1, <4>2
    <3>2. CASE Research /\ k = "research"
      BY <1>0, <3>2, Lands DEF Research, Turn, LifeTypes, Rows
    <3>3. CASE Planned(k)
      <4>1. /\ pc[k] = "brain" /\ PlannerStatus(k) /\ UNCHANGED run
            /\ k = "provisional" =>
                 pc'[k] = IF ValidTransition(run.status, "waiting_for_ollama") THEN "saved" ELSE "except"
            /\ k # "provisional" => pc'[k] \in {"ended", "decompose"}
        BY <1>0, <1>3, <3>3, Lands, OnTurn DEF Planned, Validate, Target
      <4>2. k = "provisional" /\ pc'[k] = "except" => run.status = "cancelled"
        BY <4>1 DEF PlannerStatus, ValidTransition, AllowedTransitions
      <4> QED
        BY <4>1, <4>2 DEF FailsForReason
    <3>4. CASE RecordHash(k)
      <4>1. /\ pc[k] = "hash" /\ PlannerStatus(k) /\ run'.status = run.status
            /\ pc'[k] = IF ValidTransition(run.status, "awaiting_approval") THEN "ready" ELSE "except"
        BY <1>0, <1>3, <3>4, Lands, OnTurn DEF RecordHash, Validate, Target, Turn, LifeTypes, Rows
      <4>2. k \in {"research", "decompose"}
        BY <1>3, <4>1 DEF Planners, Turn, Placed, StepsOf, Common
      <4>3. run.status \in {"researching", "decomposing", "cancelled"}
        BY <4>1, <4>2 DEF FailsForReason, PlannerStatus
      <4>4. pc'[k] = "except" => run.status = "cancelled"
        BY <4>1, <4>3 DEF ValidTransition, AllowedTransitions
      <4> QED
        BY <4>1, <4>2, <4>4 DEF FailsForReason
    <3>5. CASE \/ k = "research" /\ Researched
               \/ k = "decompose" /\ StartDecompose
               \/ k = "provisional" /\ (StartProvisional \/ Save \/ Park)
               \/ Decompose(k) \/ Ready(k)
      <4>1. /\ pc'[k] \in {"ended", "brain", "decompose", "park", "hash"}
            /\ k = "research" /\ pc'[k] # "ended" =>
                 run' = run /\ pc[k] \in {"worker", "decompose"}
        BY <1>0, <3>5, Lands
           DEF Researched, StartDecompose, StartProvisional, Save, Park, Decompose, Ready
      <4> QED
        BY <4>1 DEF FailsForReason
    <3> QED
      BY <2>3, <3>1, <3>2, <3>3, <3>4, <3>5 DEF Planning
  <2>4. CASE Claim(k) \/ RunIsOver(k) \/ Fail(k) \/ PauseRun(k) \/ Wait(k) \/ Pause(k)
    <3>1. \E l \in {"start", "ended", "waiting", "idle", "pausing"} : Go(k, l)
      BY <2>4, Validates DEF Claim, RunIsOver, Fail, PauseRun, Wait, Pause
    <3> QED
      BY <1>0, <3>1, Lands
  <2>5. ~Implementing(k) /\ ~Applying(k) /\ ~Edited(k)
    BY <1>3 DEF Implementing, Dispatch, Applying, Edited, Turn, Placed, StepsOf, Common, Paused,
                Planners, Appliers
  <2> QED
    BY <1>3, <2>1, <2>2, <2>3, <2>4, <2>5 DEF Step, Handler
<1> QED
  BY <1>1, <1>2, <1>3

LEMMA StepKeepsExecutes ==
  ASSUME Turn, Replans, FailsForReason, Executes, NEW k \in Handlers, Step(k)
  PROVE  Executes'
<1>0. /\ k \in Actors /\ \A a \in Actors : a # k => pc'[a] = pc[a] /\ mine'[a] = mine[a]
      /\ run'.approved = run.approved /\ run'.snapshot = run.snapshot
      /\ count'.expansions \in {count.expansions, count.expansions + 1}
      /\ count'.errors \in {count.errors, count.errors + 1}
      /\ {count.expansions, count.errors} \subseteq Nat
      /\ Carries(k) \/ Finalize(k)
  BY StepFrame
<1>1. SUFFICES ASSUME ExecutesNow' PROVE Executable'
  BY <1>0 DEF Executes
<1>2. CASE ExecutesNow
  <2>1. Executable
    BY <1>2 DEF Executes
  <2>2. ~Decompose(k)
    <3>1. Decompose(k) => k \in Planners /\ Carries(k)
      BY DEF Decompose, Carries, Turn, Placed, StepsOf, AppliersSteps, Common, Paused, Handlers,
             Planners
    <3>2. Decompose(k) => PlannerStatus(k) /\ \A j \in Doers : ~Carries(j)
      BY <3>1, TurnNames DEF Turn, OneTurn, StatusFits
    <3> QED
      BY <1>2, <3>1, <3>2, Settled DEF ExecutesNow, PlannerStatus, Planners
  <2>3. graph'.state = "none" \/ (graph'.of = graph.of /\ (graph.state = "none" => graph'.state = "none"))
    BY <2>2, StepOnGraph DEF RecordHash, Edited, Expand
  <2> QED
    BY <1>0, <2>1, <2>3 DEF Executable
<1>3. CASE ~ExecutesNow
  <2>1. ~Finalize(k)
    BY <1>1, <1>3, FinalizeFrame, TurnNames DEF ExecutesNow
  <2>2. k \in Planners /\ k \notin Doers /\ Carries(k)
    BY <1>0, <1>3, <2>1, TurnNames DEF ExecutesNow
  <2>3. CASE Fail(k)
    <3>1. count.errors > 0
      BY <2>2, <2>3 DEF Fail, FailsForReason
    <3>2. run.approved # 0 => count.expansions > 0
      BY <2>2 DEF Replans, PlansNow
    <3>3. run.approved # 0
      <4>1. /\ run'.status = "failed" /\ pc'[k] = "ended" /\ job' = job
        BY <1>0, <2>3, Lands DEF Fail, Turn, LifeTypes, Rows
      <4>2. \A j \in Doers : ~Carries(j)'
        BY <1>0, <1>3, <2>2, <4>1, TurnNames DEF ExecutesNow, Carries
      <4> QED
        BY <1>0, <1>1, <4>1, <4>2 DEF ExecutesNow
    <3> QED
      BY <1>0, <3>1, <3>2, <3>3 DEF Executable
  <2>4. CASE ~Fail(k)
    <3> USE DEF Step, Handler, Claim, CallRaises, RunIsOver, Planning,
                Except, PauseRun, Wait, StartProvisional, Save, Park, StartResearch,
                Research, Researched, StartDecompose, Planned, Decompose, RecordHash, Ready
    <3>1. ~Implementing(k) /\ ~Applying(k) /\ ~Edited(k)
      BY <2>2 DEF Implementing, Dispatch, Applying, Edited, Turn, Placed, StepsOf, Common, Paused,
                  Planners, Appliers
    <3>2. run'.status = run.status
            \/ run'.status \in {"researching", "awaiting_approval", "waiting_for_ollama"}
      BY <2>1, <2>4, <3>1 DEF Pause, Turn, LifeTypes, Rows
    <3>3. \A j \in Doers : job'[j] = job[j]
      <4>1. CASE Pause(k)
        <5>1. \A j \in Doers : j # k /\ job[j] # "pending"
          BY <1>3, <2>2, TurnNames DEF ExecutesNow, Carries
        <5> QED
          BY <4>1, <5>1, TurnNames DEF Pause
      <4> QED
        BY <2>1, <2>2, <2>4, <3>1, <4>1, TurnNames DEF Fail, Turn, LifeTypes, JobsTyped, Doers
    <3>4. \A j \in Doers : ~Carries(j)'
      BY <1>0, <1>3, <2>2, <3>3, TurnNames DEF ExecutesNow, Carries
    <3> QED
      BY <1>0, <1>1, <1>3, <3>2, <3>4 DEF ExecutesNow
  <2> QED
    BY <2>3, <2>4
<1> QED
  BY <1>2, <1>3

\* A step beside the threads: the plan and the graph stay.
LEMMA PlanAside ==
  ASSUME Turn, PlanFits,
         \A k \in Handlers : pc'[k] = pc[k] /\ mine'[k] = mine[k],
         \A c \in Clients : /\ pc'[c] = "edited" => run'.hash = 0
                            /\ pc'[c] = "restart" => run'.approved = 0,
         pc'["monitor"] # "edited", graph' = graph,
         count'.errors = count.errors, count'.expansions = count.expansions,
         run'.hash \in {run.hash, 0}, run'.approved = run.approved, run'.snapshot = run.snapshot,
         \/ run'.status \in {run.status, "cancelled"}
         \/ \A k \in Handlers : pc[k] \in {"idle", "ended", "pausing", "waiting"},
         PlansNow' => PlansNow, ExecutesNow' => ExecutesNow
  PROVE  PlanFits'
<1>1. HashFits'
  <2>1. \A k \in Planners : pc'[k] = pc[k] /\ mine'[k] = mine[k]
    BY TurnNames
  <2>2. \A a \in Actors : pc'[a] = "edited" => run'.hash = 0
    <3>1. \A k \in Handlers : pc'[k] = "edited" => run.hash = 0
      BY TurnNames DEF PlanFits, HashFits
    <3> QED
      BY <3>1 DEF Actors
  <2> QED
    BY <2>1, <2>2 DEF PlanFits, HashFits
<1>2. Replans'
  BY DEF PlanFits, Replans
<1>3. FailsForReason'
  BY TurnNames DEF PlanFits, FailsForReason
<1>4. Executes'
  BY DEF PlanFits, Executes, Executable
<1> QED
  BY <1>1, <1>2, <1>3, <1>4 DEF PlanFits

\* A client that decides does so while nobody plans, implements or applies.
LEMMA NobodyAtWork ==
  ASSUME Turn, NEW c \in Clients, pc[c] \in Deciding
  PROVE  \A k \in Handlers : ~Carries(k) /\ pc[k] \in {"idle", "ended"}
  BY DEF Turn, OneTurn, Carries

\* What a step of the one client leaves alone.
LEMMA ClientFrame ==
  ASSUME OneByOne, Turn, NEW c \in Clients, NewRequest(c) \/ Client(c)
  PROVE  /\ c \in Actors /\ \A d \in Clients : d = c
         /\ ~RedoPlan(c) /\ ~Redo(c) /\ ~Redone(c)
         /\ \A k \in Handlers : pc'[k] = pc[k] /\ mine'[k] = mine[k]
         /\ pc'["monitor"] = pc["monitor"] /\ pc["monitor"] # "edited"
         /\ \A l : Go(c, l) => pc'[c] = l
         /\ count'.errors = count.errors /\ count'.expansions = count.expansions
         /\ count'.edits = count.edits
<1>0. /\ c \in Actors /\ \A d \in Clients : d = c
      /\ ~RedoPlan(c) /\ ~Redo(c) /\ ~Redone(c)
  BY TurnNames
     DEF RedoPlan, Request, OneByOne, Redo, Redone, Turn, Placed, Deciding, Approving, Resuming,
         RollingBack
<1>1. /\ \A k \in Handlers : pc'[k] = pc[k]
      /\ pc'["monitor"] = pc["monitor"] /\ pc["monitor"] # "edited"
      /\ \A l : Go(c, l) => pc'[c] = l
  <2>1. EditProvisional(c) \/ \E l : Go(c, l)
    BY <1>0, Validates
       DEF NewRequest, Client, Approve, EditPlan, CancelRun, ResumeRun, RollbackRun, Stale, Snapshot,
           Approved, Edit, Edited, Cancel, CancelJobs, Resume, QueueJob, RollbackDone, Rollback
  <2>2. EditProvisional(c) => pc' = pc
    BY DEF EditProvisional
  <2> QED
    BY <1>0, <2>1, <2>2, Lands, TurnNames DEF Turn, Placed
<1>2. \A k \in Handlers : mine'[k] = mine[k]
  BY <1>0, TurnNames
     DEF NewRequest, Client, Approve, EditPlan, EditProvisional, CancelRun, ResumeRun, RollbackRun,
         Stale, Snapshot, Approved, Edit, Edited, Cancel, CancelJobs, Resume, QueueJob, RollbackDone,
         Rollback, Turn, LifeTypes, ControlTyped
<1>3. /\ count'.errors = count.errors /\ count'.expansions = count.expansions
      /\ count'.edits = count.edits
  BY <1>0
     DEF NewRequest, Client, Approve, EditPlan, EditProvisional, CancelRun, ResumeRun, RollbackRun,
         Request, Count, Stale, Snapshot, Approved, Edit, Edited, Cancel, CancelJobs, Resume,
         QueueJob, RollbackDone, Rollback, Turn, LifeTypes, WorldTyped, Counts
<1> QED
  BY <1>0, <1>1, <1>2, <1>3

LEMMA PlanOfClient ==
  ASSUME OneByOne, Turn, PlanFits, NEW c \in Clients, NewRequest(c) \/ Client(c)
  PROVE  PlanFits'
<1>0. /\ c \in Actors /\ \A d \in Clients : d = c
      /\ ~RedoPlan(c) /\ ~Redo(c) /\ ~Redone(c)
  BY ClientFrame
<1>1. /\ \A k \in Handlers : pc'[k] = pc[k]
      /\ pc'["monitor"] = pc["monitor"] /\ pc["monitor"] # "edited"
      /\ \A l : Go(c, l) => pc'[c] = l
  BY ClientFrame
<1>2. \A k \in Handlers : mine'[k] = mine[k]
  BY ClientFrame
<1>3. count'.errors = count.errors /\ count'.expansions = count.expansions
  BY ClientFrame
<1>4. CASE \/ Approve(c) \/ EditPlan(c) \/ EditProvisional(c) \/ CancelRun(c) \/ ResumeRun(c)
           \/ RollbackRun(c) \/ Snapshot(c) \/ RollbackDone(c) \/ CancelJobs(c) \/ Cancel(c)
  <2>1. /\ graph' = graph /\ run'.hash = run.hash /\ run'.approved = run.approved
        /\ run'.snapshot = run.snapshot /\ run'.status \in {run.status, "cancelled"}
    BY <1>4
       DEF Approve, EditPlan, EditProvisional, CancelRun, ResumeRun, RollbackRun, Snapshot,
           RollbackDone, CancelJobs, Cancel, Turn, LifeTypes, Rows
  <2>2. \A k \in Handlers : job'[k] \in {job[k], "none"}
    BY <1>4
       DEF Approve, EditPlan, EditProvisional, CancelRun, ResumeRun, RollbackRun, Snapshot,
           RollbackDone, CancelJobs, Cancel
  <2>3. pc'[c] # "edited" /\ (pc'[c] = "restart" => run.approved = 0)
    <3>1. CASE EditProvisional(c)
      BY <3>1 DEF EditProvisional, Request
    <3>2. CASE ~EditProvisional(c)
      <4>1. \E l : Go(c, l) /\ l # "edited" /\ (l = "restart" => run.approved = 0)
        BY <1>4, <3>2, Validates
           DEF Approve, EditPlan, CancelRun, ResumeRun, RollbackRun, Snapshot, RollbackDone,
               CancelJobs, Cancel
      <4> QED
        BY <1>1, <4>1
    <3> QED
      BY <3>1, <3>2
  <2>4. \A k \in Handlers : Carries(k)' => Carries(k)
    BY <1>1, <2>2 DEF Carries
  <2>5. (PlansNow' => PlansNow) /\ (ExecutesNow' => ExecutesNow)
    BY <1>1, <2>1, <2>4, TurnNames DEF PlansNow, ExecutesNow
  <2> QED
    BY <1>0, <1>1, <1>2, <1>3, <2>1, <2>3, <2>5, PlanAside
<1>5. CASE Stale(c) \/ Edit(c) \/ QueueJob(c) \/ Rollback(c)
  <2>1. /\ pc[c] \in Deciding
        /\ \A k \in Handlers : ~Carries(k) /\ pc[k] \in {"idle", "ended"}
    BY <1>5, NobodyAtWork
       DEF Stale, Edit, QueueJob, Rollback, Deciding, Approving, RollingBack
  <2>2. /\ graph' = graph /\ run'.hash \in {run.hash, 0} /\ run'.approved = run.approved
        /\ run'.snapshot = run.snapshot
    BY <1>5 DEF Stale, Edit, QueueJob, Rollback, Turn, LifeTypes, Rows
  <2>3. pc'[c] # "restart" /\ (pc'[c] = "edited" => run'.hash = 0)
    BY <1>1, <1>5 DEF Stale, Edit, QueueJob, Rollback, Turn, LifeTypes, Rows
  <2>4. (PlansNow' => PlansNow) /\ (ExecutesNow' => ExecutesNow)
    <3>1. CASE Stale(c) \/ Edit(c)
      <4>1. /\ run.status = "awaiting_approval" /\ job' = job
            /\ run'.status \in {"researching", "decomposing"}
        BY <3>1 DEF Stale, Edit, Turn, ClientFits, Approving, LifeTypes, Rows
      <4> QED
        BY <1>1, <2>1, <4>1, TurnNames DEF PlansNow, ExecutesNow, Carries
    <3>2. CASE QueueJob(c) /\ pc[c] = "queue_research"
      <4>1. /\ run' = run /\ run.status = "researching"
            /\ \A j \in Doers : job'[j] = job[j]
        BY <3>2, TurnNames DEF QueueJob, Enqueue, Turn, ClientFits, LifeTypes, JobsTyped, Doers
      <4> QED
        BY <1>1, <2>1, <4>1, TurnNames DEF PlansNow, ExecutesNow, Carries
    <3>3. CASE QueueJob(c) /\ pc[c] = "queue_implementation"
      <4>1. /\ run' = run /\ run.status = "implementing"
            /\ \A j \in Planners : job'[j] = job[j]
        BY <3>3, TurnNames DEF QueueJob, Enqueue, Turn, ClientFits, LifeTypes, JobsTyped, Planners
      <4>2. \A k \in Appliers : pc'[k] \notin {"expand", "edited"}
        BY <1>1, <2>1, TurnNames
      <4> QED
        BY <1>1, <2>1, <4>1, <4>2, TurnNames DEF PlansNow, ExecutesNow, Carries
    <3>4. CASE Rollback(c)
      <4>1. run'.status = "rolled_back" /\ job' = job
        BY <3>4 DEF Rollback, Turn, LifeTypes, Rows
      <4>2. \A k \in Appliers : pc'[k] \notin {"expand", "edited"}
        BY <1>1, <2>1, TurnNames
      <4> QED
        BY <1>1, <2>1, <4>1, <4>2, TurnNames DEF PlansNow, ExecutesNow, Carries
    <3> QED
      BY <1>5, <3>1, <3>2, <3>3, <3>4 DEF QueueJob
  <2> QED
    BY <1>0, <1>1, <1>2, <1>3, <2>1, <2>2, <2>3, <2>4, PlanAside
<1>6. CASE Edited(c)
  <2>1. /\ pc[c] = "edited" /\ run.status = "decomposing" /\ run.hash = 0
        /\ \A k \in Handlers : ~Carries(k) /\ pc[k] \in {"idle", "ended"}
    BY <1>0, <1>6, NobodyAtWork DEF Edited, Deciding, Turn, ClientFits, PlanFits, HashFits
  <2>2. /\ graph'.state = "none" /\ run' = run /\ pc'[c] = "idle"
    BY <1>0, <1>1, <1>6, TurnNames DEF Edited
  <2>3. HashFits'
    BY <1>0, <1>1, <2>1, <2>2, TurnNames DEF HashFits
  <2>4. Replans'
    BY <1>0, <1>3, <2>1, <2>2 DEF Replans, PlanFits, PlansNow
  <2>5. FailsForReason'
    BY <1>1, <1>3, <2>1, <2>2, TurnNames DEF FailsForReason
  <2>6. Executes'
    BY <2>2 DEF PlanFits, Executes, Executable
  <2> QED
    BY <2>3, <2>4, <2>5, <2>6 DEF PlanFits
<1>7. CASE Approved(c)
  <2>1. /\ pc[c] \in Approving /\ pc'[c] = "idle" /\ run.status = "awaiting_approval"
        /\ mine[c].plan # 0 /\ mine[c].plan = run.hash
        /\ \A k \in Handlers : ~Carries(k) /\ pc[k] \in {"idle", "ended"}
    BY <1>1, <1>7, NobodyAtWork
       DEF Approved, Approving, Deciding, Turn, ClientFits, Backed
  <2>2. CASE job["implementation"] # "none"
    <3>1. UNCHANGED <<run, job, graph>>
      BY <1>7, <2>2 DEF Approved
    <3>2. \A k \in Handlers : ~Carries(k)'
      BY <1>1, <2>1, <3>1 DEF Carries
    <3>3. (PlansNow' => PlansNow) /\ (ExecutesNow' => ExecutesNow)
      BY <2>1, <3>1, <3>2, TurnNames DEF PlansNow, ExecutesNow
    <3> QED
      BY <1>0, <1>1, <1>2, <1>3, <2>1, <3>1, <3>3, PlanAside
  <2>3. CASE job["implementation"] = "none"
    <3>1. /\ graph' = graph /\ run'.hash = run.hash /\ run'.approved = run.hash
          /\ run'.status = "implementing" /\ \A j \in Planners : job'[j] = job[j]
      <4>1. /\ graph' = graph /\ run'.hash = run.hash /\ run'.approved = run.hash
            /\ run'.status = "implementing"
        BY <1>7, <2>1, <2>3 DEF Approved, Turn, LifeTypes, Rows
      <4>2. \A j \in Planners : job'[j] = job[j]
        BY <1>7, <2>3, TurnNames DEF Approved, Turn, LifeTypes, JobsTyped, Planners
      <4> QED
        BY <4>1, <4>2
    <3>2. graph.of = run.hash
      BY <2>1, TurnNames DEF PlanFits, HashFits
    <3>3. ~PlansNow'
      BY <1>1, <2>1, <3>1, TurnNames DEF PlansNow, Carries
    <3>4. HashFits'
      BY <1>0, <1>1, <2>1, <3>1, <3>2, TurnNames DEF PlanFits, HashFits, Actors
    <3>5. Replans'
      BY <1>0, <2>1, <3>3 DEF Replans
    <3>6. FailsForReason'
      BY <1>1, <2>1, TurnNames DEF FailsForReason
    <3>7. Executes'
      BY <2>1, <3>1, <3>2 DEF Executes, Executable
    <3> QED
      BY <3>4, <3>5, <3>6, <3>7 DEF PlanFits
  <2> QED
    BY <2>2, <2>3
<1>8. CASE Resume(c)
  <2>1. /\ pc[c] \in Resuming /\ run.status = "failed"
        /\ \A k \in Handlers : ~Carries(k) /\ pc[k] \in {"idle", "ended"}
    BY <1>8, NobodyAtWork DEF Resume, Resuming, Deciding, Turn, ClientFits
  <2>2. /\ job' = job /\ graph' = graph /\ run'.hash = run.hash
        /\ pc'[c] \in {"queue_research", "queue_implementation"}
    BY <1>1, <1>8 DEF Resume, Turn, LifeTypes, Rows
  <2>3. \A k \in Handlers : ~Carries(k)'
    BY <1>1, <2>1, <2>2 DEF Carries
  <2>4. HashFits'
    BY <1>0, <1>1, <2>1, <2>2, TurnNames DEF PlanFits, HashFits, Actors
  <2>5. FailsForReason'
    BY <1>1, <2>1, TurnNames DEF FailsForReason
  <2>6. Replans' /\ Executes'
    <3>1. CASE pc[c] = "resume"
      <4>1. /\ run'.status = "implementing" /\ run'.approved = run.approved
            /\ run'.snapshot = run.snapshot /\ run.approved # 0
        BY <1>8, <3>1 DEF Resume, Turn, LifeTypes, Rows, Backed
      <4>2. ~PlansNow'
        BY <1>1, <2>1, <2>3, <4>1, TurnNames DEF PlansNow
      <4>3. ExecutesNow
        BY <2>1, <4>1 DEF ExecutesNow
      <4> QED
        BY <1>0, <1>3, <2>2, <4>1, <4>2, <4>3 DEF PlanFits, Replans, Executes, Executable
    <3>2. CASE pc[c] # "resume"
      <4>1. /\ run'.status = "researching" /\ run'.approved = 0
            /\ run'.snapshot \in {run.snapshot, NoContent}
            /\ run'.snapshot = run.snapshot => run.snapshot = NoContent \/ run.approved = 0
        BY <1>8, <3>2 DEF Resume, PlanFits, Replans, Turn, LifeTypes, Rows
      <4>2. ~ExecutesNow'
        BY <2>3, <4>1, TurnNames DEF ExecutesNow
      <4> QED
        BY <1>0, <2>2, <4>1, <4>2 DEF PlanFits, Replans, Executes
    <3> QED
      BY <3>1, <3>2
  <2> QED
    BY <2>4, <2>5, <2>6 DEF PlanFits
<1> QED
  BY <1>0, <1>4, <1>5, <1>6, <1>7, <1>8 DEF NewRequest, Client

LEMMA PlanOfMonitor ==
  ASSUME Turn, PlanFits, Monitor
  PROVE  PlanFits'
<1>1. /\ \A a \in Actors : a # "monitor" => pc'[a] = pc[a] /\ mine'[a] = mine[a]
      /\ pc'["monitor"] \in {"idle", "dead", "resuming", "releasing"}
  <2>1. \E l \in {"idle", "dead", "resuming", "releasing"} : Go("monitor", l)
    BY DEF Monitor, Recover, ResumeWaiting, Release
  <2>2. \A a \in Actors : a # "monitor" => mine'[a] = mine[a]
    BY DEF Monitor, Recover, ResumeWaiting, Release, Turn, LifeTypes, ControlTyped
  <2> QED
    BY <2>1, <2>2, Lands, TurnNames
<1>2. /\ \A k \in Handlers : pc'[k] = pc[k] /\ mine'[k] = mine[k]
      /\ \A c \in Clients : /\ pc'[c] = "edited" => run.hash = 0
                            /\ pc'[c] = "restart" => run.approved = 0
  BY <1>1, TurnNames DEF PlanFits, HashFits, Replans
<1>3. CASE Recover \/ Release
  <2>1. /\ UNCHANGED <<run, graph, count>>
        /\ \A k \in Handlers : job'[k] = job[k] \/ (job[k] = "waiting" /\ job'[k] = "pending")
    BY <1>3 DEF Recover, Release
  <2>2. \A k \in Handlers : Carries(k)' => Carries(k)
    BY <1>2, <2>1 DEF Carries
  <2>3. (PlansNow' => PlansNow) /\ (ExecutesNow' => ExecutesNow)
    BY <1>2, <2>1, <2>2, TurnNames DEF PlansNow, ExecutesNow
  <2> QED
    BY <1>1, <1>2, <2>1, <2>3, PlanAside
<1>4. CASE ResumeWaiting
  <2>1. PICK k \in Handlers : job[k] = "waiting"
    BY <1>4 DEF ResumeWaiting, Turn, PauseFits
  <2>2. /\ \A j \in Handlers : pc[j] \in {"idle", "ended", "pausing", "waiting"}
        /\ Carries(k) /\ \A j \in Handlers : Carries(j) => j = k
    BY <2>1, OnTurn DEF Carries, Turn, OneTurn
  <2>3. /\ UNCHANGED <<job, graph, count>> /\ run'.hash = run.hash
        /\ run'.approved = run.approved /\ run'.snapshot = run.snapshot
        /\ run'.status = mine["monitor"].status
    BY <1>4 DEF ResumeWaiting, Turn, LifeTypes, Rows
  <2>4. \A j \in Handlers : Carries(j)' <=> Carries(j)
    BY <1>2, <2>3 DEF Carries
  <2>5. CASE k \in Planners
    <3>1. run'.status = "researching"
      BY <1>4, <2>1, <2>3, <2>5, TurnNames DEF ResumeWaiting, Turn, JobFits, PauseFits, Planners
    <3>2. PlansNow /\ ~ExecutesNow'
      BY <2>2, <2>4, <2>5, <3>1, TurnNames DEF PlansNow, ExecutesNow
    <3> QED
      BY <1>1, <1>2, <2>2, <2>3, <3>2, PlanAside
  <2>6. CASE k \in Doers
    <3>1. run'.status \in {"implementing", "verifying"}
      BY <1>4, <2>1, <2>3, <2>6, TurnNames
         DEF ResumeWaiting, Turn, PauseFits, Remembers, Resumed, Pauses
    <3>2. \A j \in Appliers : pc'[j] \notin {"expand", "edited"}
      BY <1>2, <2>2, TurnNames
    <3>3. ExecutesNow /\ ~PlansNow'
      BY <2>2, <2>4, <2>6, <3>1, <3>2, TurnNames DEF PlansNow, ExecutesNow
    <3> QED
      BY <1>1, <1>2, <2>2, <2>3, <3>3, PlanAside
  <2> QED
    BY <2>5, <2>6, TurnNames
<1> QED
  BY <1>3, <1>4 DEF Monitor

LEMMA PlanAtStart == ASSUME Init PROVE PlanFits
<1>1. /\ \A a \in Actors : pc[a] = "idle"
      /\ run.hash = 0 /\ run.approved = 0 /\ run.snapshot = NoContent /\ graph.state = "none"
  BY DEF Init
<1> QED
  BY <1>1, TurnNames
     DEF PlanFits, HashFits, Replans, FailsForReason, Executes, Executable

LEMMA PlanStep ==
  ASSUME Sequential, Turn, PlanFits, [Next]_vars
  PROVE  PlanFits'
<1>1. ASSUME NEW k \in Handlers, Claim(k) \/ Handler(k) \/ CallRaises(k) \/ Pause(k)
      PROVE  PlanFits'
  BY <1>1, StepKeepsHash, StepKeepsReplans, StepKeepsReasons, StepKeepsExecutes DEF Step, PlanFits
<1>2. ASSUME NEW c \in Clients, NewRequest(c) \/ Client(c) PROVE PlanFits'
  BY <1>2, PlanOfClient DEF Sequential
<1>3. CASE Monitor
  BY <1>3, PlanOfMonitor
<1>4. CASE UserEdits \/ UNCHANGED vars
  <2>1. /\ UNCHANGED <<run, graph, job, pc, mine>>
        /\ count'.errors = count.errors /\ count'.expansions = count.expansions
    BY <1>4 DEF UserEdits, Count, vars, Turn, LifeTypes, WorldTyped, Counts
  <2> QED
    BY <2>1
       DEF PlanFits, HashFits, Replans, FailsForReason, Executes, Executable, PlansNow, ExecutesNow,
           Carries
<1>5. ~Restart
  BY DEF Restart, Count, Sequential, Turn, LifeTypes, WorldTyped, Counts
<1> QED
  BY <1>1, <1>2, <1>3, <1>4, <1>5 DEF Next

\* The graph that is implemented, verified and applied is the one of the approved
\* plan, whatever edits, errors, outages, resumes and scope expansions came before,
\* up to the exception the property names.
THEOREM GraphIsOfApprovedPlan ==
  ASSUME Sequential
  PROVE  Spec => []ExecutedIsApproved
<1>1. Init => Turn /\ PlanFits
  BY TurnAtStart, PlanAtStart
<1>2. Turn /\ PlanFits /\ [Next]_vars => (Turn /\ PlanFits)'
  BY TurnStep, PlanStep
<1>3. PlanFits => ExecutedIsApproved
  BY DEF PlanFits, Executes, ExecutesNow, Executable, ExecutedIsApproved
<1> QED
  BY <1>1, <1>2, <1>3, PTL DEF Spec

-----------------------------------------------------------------------------
(* The content the plan was made for.  A snapshot that is not this content *)
(* is one of a later edit, which the target then holds, or a later one:    *)
(* the comparison before the apply tells them apart.                       *)

Revised(content) == content.rev > run.baseline.rev

\* Every edit of the user is later than any content read so far.
Dated ==
  /\ {run.baseline.rev, run.snapshot.rev, workspace.rev} \subseteq 0..count.edits
  /\ \A c \in Clients : pc[c] = "fresh" => mine[c].content.rev \in 0..count.edits

SnapshotFits ==
  run.approved # 0 /\ count.expansions = 0 =>
    run.snapshot = run.baseline \/ (Revised(run.snapshot) /\ Revised(workspace))

AtApply == {"applying", "copying", "copied", "post_check", "checking"}

AppliesBaseline ==
  \A k \in Appliers :
    count.expansions = 0 /\ pc[k] \in AtApply => run.snapshot = run.baseline

\* The approval has compared the content it takes, which an edit may have replaced.
TakesFits ==
  \A c \in Clients :
    /\ pc[c] = "snapshot" => workspace = run.baseline \/ Revised(workspace)
    /\ pc[c] = "fresh" => \/ mine[c].content = run.baseline
                          \/ Revised(mine[c].content) /\ Revised(workspace)

BaselineFits == Dated /\ SnapshotFits /\ AppliesBaseline /\ TakesFits

LEMMA BaselineOfStep ==
  ASSUME Turn, PlanFits, BaselineFits, NEW k \in Handlers, Step(k)
  PROVE  BaselineFits'
<1>0. /\ k \in Actors /\ \A a \in Actors : a # k => pc'[a] = pc[a] /\ mine'[a] = mine[a]
      /\ run'.approved = run.approved /\ run'.snapshot = run.snapshot
      /\ count'.expansions \in {count.expansions, count.expansions + 1}
      /\ count.expansions \in Nat
      /\ Carries(k) \/ Finalize(k)
  BY StepFrame
<1>1. CASE Finalize(k)
  <2>1. UNCHANGED <<run, workspace, count>> /\ pc'[k] = "idle"
    BY <1>1, FinalizeFrame
  <2> QED
    BY <1>0, <2>1, TurnNames
       DEF BaselineFits, Dated, SnapshotFits, AppliesBaseline, TakesFits, Revised, AtApply
<1>2. ASSUME ~Finalize(k) PROVE BaselineFits'
  <2>0. /\ Carries(k) /\ \A j \in Handlers : j # k => pc'[j] \in {"idle", "ended"}
        /\ \A c \in Clients : pc'[c] \notin {"snapshot", "fresh"}
    BY <1>0, <1>2, TurnNames DEF Turn, OneTurn, Carries, Deciding, Approving
  <2> USE DEF Step, Handler, Claim, CallRaises, Pause, RunIsOver, Planning, Implementing, Applying,
              Edited, Except, Fail, PauseRun, Wait, StartProvisional, Save, Park, StartResearch,
              Research, Researched, StartDecompose, Planned, Decompose, RecordHash, Ready,
              StartImplementation, Solo, StartWork, Work, StartMerge, Dispatch, Verdict, Verify,
              Verifying, VerifiersReport, VerdictPasses, VerdictExpands, VerdictFails, Expand, Repair,
              Repaired, Gate, Apply, CopySome, CopyRest, PostCheck, CheckPasses, CheckFails, Complete,
              Restored
  <2>1. count'.edits = count.edits
    BY <1>2 DEF Count, Turn, LifeTypes, WorldTyped, Counts
  <2>2. \/ run'.baseline = run.baseline
        \/ run'.baseline = workspace /\ k = "research" /\ workspace' = workspace
    BY <1>2 DEF Turn, LifeTypes, Rows
  <2>3. \/ workspace'.rev = workspace.rev \/ workspace' = run.snapshot
        \/ workspace'.rev = run.baseline.rev /\ k \in Appliers /\ pc[k] = "copied"
    BY <1>2 DEF Turn, LifeTypes, WorldTyped, Held
  <2>4. k \in Appliers /\ pc'[k] \in AtApply =>
          pc[k] \in AtApply \/ workspace = run.baseline
    <3>1. PICK l : Go(k, l) /\ (l \in AtApply => pc[k] \in AtApply \/ workspace = run.baseline)
      BY <1>2, Validates DEF AtApply
    <3> QED
      BY <1>0, <3>1, Lands
  <2>5. Dated'
    BY <1>0, <2>0, <2>1, <2>2, <2>3 DEF BaselineFits, Dated
  <2>6. TakesFits'
    BY <2>0 DEF TakesFits
  <2>7. CASE run'.baseline # run.baseline
    <3>1. run'.approved # 0 => count'.expansions # 0
      BY <1>0, <2>0, <2>2, <2>7, TurnNames DEF PlanFits, Replans, PlansNow
    <3>2. \A j \in Appliers : pc'[j] \in {"idle", "ended"}
      BY <2>0, <2>2, <2>7, TurnNames
    <3> QED
      BY <2>5, <2>6, <3>1, <3>2 DEF BaselineFits, SnapshotFits, AppliesBaseline, AtApply
  <2>8. CASE run'.baseline = run.baseline
    <3>1. SUFFICES ASSUME count'.expansions = 0 PROVE SnapshotFits' /\ AppliesBaseline'
      BY <2>5, <2>6 DEF BaselineFits, SnapshotFits, AppliesBaseline
    <3>2. count.expansions = 0
      BY <1>0, <3>1
    <3>3. SnapshotFits'
      <4> SUFFICES ASSUME run.approved # 0
                   PROVE  run.snapshot = run.baseline
                          \/ (Revised(run.snapshot) /\ workspace'.rev > run.baseline.rev)
        BY <1>0, <2>8 DEF SnapshotFits, Revised
      <4>1. run.snapshot = run.baseline \/ (Revised(run.snapshot) /\ Revised(workspace))
        BY <3>2 DEF BaselineFits, SnapshotFits
      <4>2. CASE k \in Appliers /\ pc[k] = "copied"
        BY <3>2, <4>2 DEF BaselineFits, AppliesBaseline, AtApply
      <4> QED
        BY <2>3, <4>1, <4>2 DEF Revised
    <3>4. AppliesBaseline'
      <4> SUFFICES ASSUME NEW j \in Appliers, pc'[j] \in AtApply
                   PROVE  run.snapshot = run.baseline
        BY <1>0, <2>8 DEF AppliesBaseline
      <4>1. j = k
        BY <2>0, TurnNames DEF AtApply
      <4>2. CASE pc[k] \in AtApply
        BY <3>2, <4>1, <4>2 DEF BaselineFits, AppliesBaseline
      <4>3. CASE workspace = run.baseline
        <5>1. run.approved # 0 /\ ~Revised(workspace)
          BY <2>0, <4>1, <4>3, TurnNames DEF Turn, Backed, Revised, LifeTypes, Rows, Held, Revisions
        <5> QED
          BY <3>2, <5>1 DEF BaselineFits, SnapshotFits
      <4> QED
        BY <2>4, <4>1, <4>2, <4>3
    <3> QED
      BY <3>3, <3>4
  <2> QED
    BY <2>7, <2>8
<1> QED
  BY <1>1, <1>2

LEMMA BaselineOfClient ==
  ASSUME OneByOne, Turn, PlanFits, BaselineFits, NEW c \in Clients, NewRequest(c) \/ Client(c)
  PROVE  BaselineFits'
<1>0. /\ c \in Actors /\ \A d \in Clients : d = c
      /\ ~RedoPlan(c) /\ ~Redo(c) /\ ~Redone(c)
      /\ \A k \in Appliers : pc'[k] = pc[k]
      /\ \A l : Go(c, l) => pc'[c] = l
      /\ count'.expansions = count.expansions /\ count'.edits = count.edits
      /\ count.expansions \in Nat
  BY ClientFrame, TurnNames DEF Turn, LifeTypes, WorldTyped, Counts
<1>1. /\ pc[c] \in Deciding => \A k \in Appliers : pc[k] \notin AtApply
      /\ run.status = "awaiting_approval" /\ count.expansions = 0 => run.approved = 0
  BY NobodyAtWork, TurnNames DEF AtApply, PlanFits, Replans, PlansNow
<1>2. CASE Snapshot(c)
  <2>1. /\ UNCHANGED <<run, workspace>> /\ pc'[c] = "fresh" /\ mine'[c].content = workspace
        /\ pc[c] = "snapshot"
    BY <1>0, <1>2 DEF Snapshot, Turn, LifeTypes, ControlTyped, Reads
  <2> QED
    BY <1>0, <2>1
       DEF BaselineFits, Dated, SnapshotFits, AppliesBaseline, TakesFits, Revised
<1>3. CASE Stale(c)
  <2>1. /\ run'.baseline = workspace /\ run'.snapshot = run.snapshot /\ pc'[c] = "queue_research"
        /\ run'.approved = run.approved /\ UNCHANGED workspace /\ pc[c] \in Deciding
        /\ run.status = "awaiting_approval"
    BY <1>0, <1>3 DEF Stale, Deciding, Approving, Turn, ClientFits, LifeTypes, Rows
  <2> QED
    BY <1>0, <1>1, <2>1
       DEF BaselineFits, Dated, SnapshotFits, AppliesBaseline, TakesFits
<1>4. CASE Approved(c) /\ job["implementation"] = "none"
  <2>1. /\ run'.baseline = run.baseline /\ UNCHANGED workspace
        /\ pc[c] \in Deciding /\ run.status = "awaiting_approval" /\ pc'[c] = "idle"
        /\ \/ pc[c] = "fresh" /\ run'.snapshot = mine[c].content
           \/ pc[c] = "reuse" /\ run'.snapshot = run.snapshot /\ run.snapshot # NoContent
    BY <1>0, <1>4
       DEF Approved, Deciding, Approving, Turn, ClientFits, Backed, LifeTypes, Rows
  <2>2. pc[c] = "reuse" => count.expansions # 0
    BY <1>1, <2>1 DEF PlanFits, Executes
  <2> QED
    BY <1>0, <1>1, <2>1, <2>2
       DEF BaselineFits, Dated, SnapshotFits, AppliesBaseline, TakesFits, Revised
<1>5. CASE Resume(c) /\ pc[c] # "resume"
  <2>1. /\ run'.baseline = workspace /\ run'.approved = 0 /\ UNCHANGED workspace
        /\ run'.snapshot \in {run.snapshot, NoContent} /\ pc[c] \in Deciding
        /\ pc'[c] = "queue_research"
    BY <1>0, <1>5 DEF Resume, PlanFits, Replans, Deciding, Resuming, Turn, LifeTypes, Rows
  <2>2. run'.snapshot.rev \in {run.snapshot.rev, 0} /\ count.edits \in Nat
    BY <2>1 DEF NoContent, Turn, LifeTypes, WorldTyped, Counts
  <2>3. Dated'
    BY <1>0, <2>1, <2>2 DEF BaselineFits, Dated
  <2>4. SnapshotFits' /\ AppliesBaseline' /\ TakesFits'
    BY <1>0, <1>1, <2>1 DEF SnapshotFits, AppliesBaseline, TakesFits
  <2> QED
    BY <2>3, <2>4 DEF BaselineFits
<1>6. CASE ~Snapshot(c) /\ ~Stale(c) /\ ~(Approved(c) /\ job["implementation"] = "none")
           /\ ~(Resume(c) /\ pc[c] # "resume")
  <2>1. /\ run'.baseline = run.baseline /\ run'.snapshot = run.snapshot
        /\ run'.approved = run.approved /\ workspace' \in {workspace, run.snapshot}
    BY <1>0, <1>6
       DEF NewRequest, Client, Approve, EditPlan, EditProvisional, CancelRun, ResumeRun, RollbackRun,
           Approved, Edit, Edited, Cancel, CancelJobs, Resume, QueueJob, RollbackDone, Rollback,
           Turn, LifeTypes, Rows
  <2>2. pc'[c] # "fresh" /\ (pc'[c] = "snapshot" => workspace' = run.baseline)
    <3>1. CASE EditProvisional(c)
      BY <3>1 DEF EditProvisional, Request
    <3>2. CASE Approve(c)
      <4>1. \E l : Go(c, l) /\ l # "fresh" /\ (l = "snapshot" => workspace' = run.baseline)
        BY <3>2, Validates DEF Approve
      <4> QED
        BY <1>0, <4>1
    <3>3. CASE ~EditProvisional(c) /\ ~Approve(c)
      <4>1. \E l : Go(c, l) /\ l # "fresh" /\ l # "snapshot"
        BY <1>0, <1>6, <3>3, Validates
           DEF NewRequest, Client, EditPlan, CancelRun, ResumeRun, RollbackRun, Approved, Edit,
               Edited, Cancel, CancelJobs, Resume, QueueJob, RollbackDone, Rollback
      <4> QED
        BY <1>0, <4>1
    <3> QED
      BY <3>1, <3>2, <3>3
  <2> QED
    BY <1>0, <2>1, <2>2
       DEF BaselineFits, Dated, SnapshotFits, AppliesBaseline, TakesFits, Revised
<1> QED
  BY <1>2, <1>3, <1>4, <1>5, <1>6

LEMMA BaselineAtStart == ASSUME Init PROVE BaselineFits
  BY TurnNames
     DEF Init, BaselineFits, Dated, SnapshotFits, AppliesBaseline, TakesFits, AtApply, Clean,
         NoContent

LEMMA BaselineStep ==
  ASSUME Sequential, Turn, PlanFits, BaselineFits, [Next]_vars
  PROVE  BaselineFits'
<1>1. ASSUME NEW k \in Handlers, Claim(k) \/ Handler(k) \/ CallRaises(k) \/ Pause(k)
      PROVE  BaselineFits'
  BY <1>1, BaselineOfStep DEF Step
<1>2. ASSUME NEW c \in Clients, NewRequest(c) \/ Client(c) PROVE BaselineFits'
  BY <1>2, BaselineOfClient DEF Sequential
<1>3. CASE Monitor
  <2>1. /\ run'.baseline = run.baseline /\ run'.snapshot = run.snapshot
        /\ run'.approved = run.approved /\ UNCHANGED <<workspace, count>>
    BY <1>3 DEF Monitor, Recover, ResumeWaiting, Release, Turn, LifeTypes, Rows
  <2>2. /\ \A k \in Appliers : pc'[k] = pc[k]
        /\ \A c \in Clients : pc'[c] = pc[c] /\ mine'[c] = mine[c]
    <3>1. \A c \in Clients : mine'[c] = mine[c]
      BY <1>3, TurnNames
         DEF Monitor, Recover, ResumeWaiting, Release, Turn, LifeTypes, ControlTyped
    <3> QED
      BY <1>3, <3>1, Lands, TurnNames DEF Monitor, Recover, ResumeWaiting, Release
  <2> QED
    BY <2>1, <2>2
       DEF BaselineFits, Dated, SnapshotFits, AppliesBaseline, TakesFits, Revised
<1>4. CASE UserEdits
  <2>1. /\ workspace'.rev = count.edits + 1 /\ count'.edits = count.edits + 1
        /\ count'.expansions = count.expansions /\ UNCHANGED <<run, pc, mine>>
        /\ count.edits \in Nat
    BY <1>4 DEF UserEdits, Count, Turn, LifeTypes, WorldTyped, Held, Counts
  <2>2. Revised(workspace)'
    BY <2>1 DEF BaselineFits, Dated, Revised
  <2>3. Dated' /\ AppliesBaseline'
    BY <2>1 DEF BaselineFits, Dated, AppliesBaseline
  <2>4. SnapshotFits' /\ TakesFits'
    BY <2>1, <2>2 DEF BaselineFits, SnapshotFits, TakesFits, Revised
  <2> QED
    BY <2>3, <2>4 DEF BaselineFits
<1>5. ~Restart
  BY DEF Restart, Count, Sequential, Turn, LifeTypes, WorldTyped, Counts
<1>6. CASE UNCHANGED vars
  BY <1>6 DEF vars, BaselineFits, Dated, SnapshotFits, AppliesBaseline, TakesFits, Revised
<1> QED
  BY <1>1, <1>2, <1>3, <1>4, <1>5, <1>6 DEF Next

\* While the first approved plan is applied, the snapshot is the content the
\* verified stage was made from, however often the user has edited the target
\* between the comparison, the snapshot and the apply.
THEOREM SnapshotOfPlannedContent ==
  ASSUME Sequential
  PROVE  Spec => []SnapshotIsBaseline
<1>1. Init => Turn /\ PlanFits /\ BaselineFits
  BY TurnAtStart, PlanAtStart, BaselineAtStart
<1>2. Turn /\ PlanFits /\ BaselineFits /\ [Next]_vars => (Turn /\ PlanFits /\ BaselineFits)'
  BY TurnStep, PlanStep, BaselineStep
<1>3. BaselineFits => SnapshotIsBaseline
  BY DEF BaselineFits, AppliesBaseline, AtApply, SnapshotIsBaseline
<1> QED
  BY <1>1, <1>2, <1>3, PTL DEF Spec


-----------------------------------------------------------------------------
(* Nobody is stranded.  Every status write that makes the run active is    *)
(* followed by an enqueue, which enqueue_job ignores while the previous    *)
(* job of the kind still has its final status to come: without a           *)
(* cancellation, a redo or a restart, that is the only way to leave an     *)
(* active run without a job.                                               *)

\* A step that queues a job of the kind.
Queues(k) ==
  \/ k = "research" /\ (Park \/ \E c \in Clients : pc[c] = "queue_research" /\ QueueJob(c))
  \/ k = "decompose" /\ \E a \in Actors : Edited(a)
  \/ k = "implementation" /\ \E c \in Clients : pc[c] = "queue_implementation" /\ QueueJob(c)
  \/ k = "work" /\ graph.state = "open" /\ \E j \in Handlers : Dispatch(j)
  \/ k = "merge" /\ graph.state = "done" /\ \E j \in Handlers : Dispatch(j)

\* It overtakes the drainer, which has yet to write the end of the previous one.
Overtakes == \E k \in Handlers : pc[k] = "ended" /\ Queues(k)

\* Clients about to queue the job of the status they have written.
Queueing == {"edited", "queue_research", "queue_implementation"}

Attended ==
  run.status \in Active =>
    \/ \E k \in Handlers : Carries(k)
    \/ \E c \in Clients : pc[c] \in Queueing

\* A running job has a thread; a parked one is still there; a cancellation has not
\* taken any away.
JobsKept ==
  /\ \A k \in Handlers : job[k] = "running" => pc[k] # "idle"
  /\ \A k \in Handlers : pc[k] \in Paused => job[k] \in {"pending", "waiting"}
  /\ \A c \in Clients : pc[c] # "cancelled"

\* Whoever dispatches a graph has one to dispatch.
GraphThere ==
  /\ pc["implementation"] = "dispatch" \/ Carries("work") => graph.state # "none"
  /\ pc["work"] = "dispatch" => graph.state # "open"

Served == NeverCancelled /\ Attended /\ JobsKept /\ GraphThere

\* An enqueue that overtakes nobody gives the kind a job that carries the run.
LEMMA QueuedCarries ==
  ASSUME Turn, JobsKept, NEW k \in Handlers, pc[k] # "ended", Enqueue(k),
         pc'[k] = pc[k]
  PROVE  Carries(k)'
<1>1. job'[k] = IF job[k] = "none" THEN "pending" ELSE job[k]
  BY DEF Enqueue, Turn, LifeTypes, JobsTyped
<1>2. job[k] \in {"none", "pending", "running", "waiting"}
  BY DEF Turn, LifeTypes, JobsTyped
<1> QED
  BY <1>1, <1>2 DEF Carries, JobsKept

\* The statuses an active run may always leave.
LEMMA MayFail ==
  /\ \A s \in Active : ValidTransition(s, "failed")
  /\ \A s \in {"applying", "post_check"} : ValidTransition(s, "rolled_back")
  /\ \A s \in Active : s # "failed" /\ s # "cancelled"
  /\ Active \cap {"awaiting_approval", "failed", "completed", "rolled_back", "cancelled"} = {}
  BY DEF Active, RunStatuses, TerminalRunStates, ValidTransition, AllowedTransitions

\* A step of a handler after which it does not carry the run any more: the run has
\* left the active statuses, or a job is queued.
LEMMA Leaves ==
  ASSUME Turn, JobsKept, NEW k \in Handlers, Step(k), ~Finalize(k), ~Carries(k)',
         run'.status \in Active
  PROVE  \/ k = "provisional" /\ Park
         \/ Edited(k)
         \/ Dispatch(k) /\ graph.state # "closed" /\ Go(k, "ended")
<1>0. /\ k \in Actors /\ \A l : Go(k, l) => pc'[k] = l
      /\ pc'[k] \in {"idle", "ended"} /\ job'[k] \notin {"pending", "waiting"}
  BY TurnNames, Lands DEF Carries
<1>1. ASSUME UNCHANGED run, NEW s \in {"failed", "rolled_back"}, NEW w, NEW r,
             Target[w] = s, s = "failed" \/ run.status \in {"applying", "post_check"},
             Validate(k, w, r)
      PROVE  Go(k, w)
  BY <1>1, MayFail DEF Validate
<1>2. Target["failing"] = "failed" /\ Target["restored"] = "rolled_back"
  BY DEF Target
<1>3. run.status # "cancelled" \/ run'.status # run.status
  BY MayFail
<1>4. ASSUME RunIsOver(k) \/ Except(k) \/ Fail(k) PROVE FALSE
  <2>1. ~RunIsOver(k)
    BY <1>4, MayFail DEF RunIsOver, Quits
  <2>2. ~Fail(k)
    BY MayFail DEF Fail, Turn, LifeTypes, Rows
  <2>3. Except(k) => Go(k, "failing") \/ Go(k, "restored")
    BY <1>1, <1>2 DEF Except
  <2> QED
    BY <1>0, <1>4, <2>1, <2>2, <2>3
<1>5. ASSUME Planning(k) PROVE k = "provisional" /\ Park
  <2>1. ~(k = "provisional" /\ (StartProvisional \/ Save))
    BY <1>0 DEF StartProvisional, Save
  <2>2. ~(k = "research" /\ (StartResearch \/ Research))
    BY <1>0, Validates DEF StartResearch, Research
  <2>3. ~(k = "research" /\ Researched)
    BY <1>0, <1>3 DEF Researched
  <2>4. ~(k = "decompose" /\ StartDecompose)
    BY <1>0 DEF StartDecompose
  <2>5. ~Planned(k)
    BY <1>0, <1>3, Validates DEF Planned
  <2>6. ~Decompose(k) /\ ~RecordHash(k)
    BY <1>0, Validates DEF Decompose, RecordHash
  <2>7. ~Ready(k)
    BY MayFail DEF Ready, Turn, LifeTypes, Rows
  <2> QED
    BY <1>5, <2>1, <2>2, <2>3, <2>4, <2>5, <2>6, <2>7 DEF Planning
<1>6. ASSUME Implementing(k) PROVE Dispatch(k) /\ graph.state # "closed" /\ Go(k, "ended")
  <2>1. ~(k = "implementation" /\ (StartImplementation \/ Solo))
    BY <1>0, <1>3 DEF StartImplementation, Solo
  <2>2. ~(k = "work" /\ (StartWork \/ Work))
    BY <1>0 DEF StartWork, Work
  <2>3. ~(k = "merge" /\ StartMerge)
    <3>1. k = "merge" /\ StartMerge => Go(k, "except") \/ Go(k, "verify") \/ Go(k, "failing")
      BY <1>1, <1>2 DEF StartMerge
    <3> QED
      BY <1>0, <3>1
  <2>4. Dispatch(k)
    BY <1>6, <2>1, <2>2, <2>3 DEF Implementing
  <2>5. graph.state # "closed"
    <3>1. Dispatch(k) /\ graph.state = "closed" => Go(k, "failing")
      BY <1>1, <1>2 DEF Dispatch
    <3> QED
      BY <1>0, <2>4, <3>1
  <2> QED
    BY <2>4, <2>5 DEF Dispatch
<1>7. ~Applying(k)
  <2>1. ~(Verify(k) \/ Verifying(k) \/ Expand(k) \/ Repair(k) \/ Repaired(k) \/ Gate(k) \/ Apply(k)
          \/ CopySome(k) \/ CopyRest(k) \/ PostCheck(k) \/ CheckPasses(k) \/ CheckFails(k)
          \/ VerdictExpands(k) \/ VerdictFails(k))
    BY <1>0, Validates
       DEF Verify, Verifying, Expand, Repair, Repaired, Gate, Apply, CopySome, CopyRest, PostCheck,
           CheckPasses, CheckFails, VerdictExpands, VerdictFails
  <2>2. ~VerifiersReport(k) /\ ~VerdictPasses(k)
    BY <1>0, <1>3 DEF VerifiersReport, VerdictPasses
  <2>3. ~Complete(k) /\ ~Restored(k)
    BY MayFail DEF Complete, Restored, Turn, LifeTypes, Rows
  <2> QED
    BY <2>1, <2>2, <2>3 DEF Applying, Verdict
<1>8. ~Claim(k) /\ ~CallRaises(k) /\ ~Pause(k) /\ ~PauseRun(k) /\ ~Wait(k)
  <2>1. ~Claim(k) /\ ~CallRaises(k)
    BY <1>0 DEF Claim, CallRaises
  <2>2. ~Pause(k)
    BY <1>0 DEF Pause
  <2>3. ~PauseRun(k) /\ ~Wait(k)
    BY <1>0 DEF PauseRun, Wait, JobsKept, Paused
  <2> QED
    BY <2>1, <2>2, <2>3
<1> QED
  BY <1>4, <1>5, <1>6, <1>7, <1>8 DEF Step, Handler

LEMMA StepKeepsJobs ==
  ASSUME Turn, JobsKept, NEW k \in Handlers, Step(k)
  PROVE  JobsKept'
<1>0. /\ k \in Actors /\ \A a \in Actors : a # k => pc'[a] = pc[a]
      /\ \A l : Go(k, l) => pc'[k] = l
  BY StepFrame, Lands
<1> USE DEF Step, Handler, Claim, CallRaises, Pause, RunIsOver, Planning, Implementing, Applying,
            Edited, Except, Fail, PauseRun, Wait, StartProvisional, Save, Park, StartResearch,
            Research, Researched, StartDecompose, Planned, Decompose, RecordHash, Ready,
            StartImplementation, Solo, StartWork, Work, StartMerge, Dispatch, Verdict, Verify,
            Verifying, VerifiersReport, VerdictPasses, VerdictExpands, VerdictFails, Expand, Repair,
            Repaired, Gate, Apply, CopySome, CopyRest, PostCheck, CheckPasses, CheckFails, Complete,
            Restored, Finalize
<1>1. ASSUME NEW j \in Handlers, j # k
      PROVE  /\ job'[j] = "running" => job[j] = "running"
             /\ job[j] \in {"pending", "waiting"} => job'[j] \in {"pending", "waiting"}
  BY <1>1 DEF Enqueue, Turn, LifeTypes, JobsTyped
<1>2. job'[k] = "running" => pc'[k] # "idle"
  <2>1. CASE Claim(k) \/ Finalize(k) \/ Pause(k)
    BY <1>0, <2>1 DEF Turn, LifeTypes, JobsTyped
  <2>2. CASE PauseRun(k) \/ Wait(k)
    BY <2>2 DEF Turn, JobFits, Paused
  <2>3. CASE ~(Claim(k) \/ Finalize(k) \/ Pause(k) \/ PauseRun(k) \/ Wait(k))
    <3>1. \E l : Go(k, l) /\ l # "idle"
      BY <2>3, Validates
    <3> QED
      BY <1>0, <3>1
  <2> QED
    BY <2>1, <2>2, <2>3
<1>3. pc'[k] \in Paused => job'[k] \in {"pending", "waiting"}
  <2>1. CASE Pause(k)
    BY <2>1
  <2>2. CASE PauseRun(k) \/ Wait(k)
    BY <2>2 DEF JobsKept, Paused
  <2>3. CASE ~(Pause(k) \/ PauseRun(k) \/ Wait(k))
    <3>1. \E l : Go(k, l) /\ l \notin Paused
      BY <2>3, Validates DEF Paused
    <3> QED
      BY <1>0, <3>1
  <2> QED
    BY <2>1, <2>2, <2>3
<1>4. \A j \in Handlers : j # k => pc'[j] = pc[j]
  BY <1>0, TurnNames
<1>5. \A c \in Clients : pc'[c] = pc[c]
  BY <1>0, TurnNames
<1> QED
  BY <1>1, <1>2, <1>3, <1>4, <1>5 DEF JobsKept

LEMMA StepKeepsAttended ==
  ASSUME Turn, Served, NEW k \in Handlers, Step(k), ~Overtakes
  PROVE  Attended'
<1>0. /\ k \in Actors /\ \A a \in Actors : a # k => pc'[a] = pc[a]
      /\ Carries(k) \/ Finalize(k)
  BY StepFrame
<1>1. CASE Finalize(k)
  <2>1. \A j \in Handlers : Carries(j) => Carries(j)'
    <3>1. job[k] = "running"
      BY <1>1, FinalizeFrame DEF Turn, JobFits, Paused
    <3>2. \A j \in Handlers : j # k => job'[j] = job[j] /\ pc'[j] = pc[j]
      BY <1>0, <1>1, TurnNames DEF Finalize
    <3> QED
      BY <1>1, <3>1, <3>2 DEF Carries, Finalize
  <2>2. UNCHANGED run /\ \A c \in Clients : pc'[c] = pc[c]
    BY <1>0, <1>1, FinalizeFrame, TurnNames
  <2> QED
    BY <2>1, <2>2 DEF Served, Attended
<1>2. CASE ~Finalize(k)
  <2> SUFFICES ASSUME run'.status \in Active, ~Carries(k)'
               PROVE  \E j \in Handlers : Carries(j)'
    BY DEF Attended
  <2>1. ASSUME NEW j \in Handlers, j # k, Queues(j), Enqueue(j) PROVE Carries(j)'
    <3>1. pc[j] # "ended" /\ pc'[j] = pc[j]
      BY <1>0, <2>1, TurnNames DEF Overtakes
    <3> QED
      BY <2>1, <3>1, QueuedCarries DEF Served
  <2>2. CASE k = "provisional" /\ Park
    <3>1. pc["research"] # "ended" /\ pc'["research"] = pc["research"]
      BY <1>0, <2>2, TurnNames DEF Overtakes, Queues, Handlers, Actors
    <3>2. job'["research"] = IF job["research"] = "none" THEN "waiting" ELSE job["research"]
      BY <2>2 DEF Park, Turn, LifeTypes, JobsTyped, Handlers
    <3>3. job["research"] \in {"none", "pending", "running", "waiting"} /\ "research" \in Handlers
      BY DEF Turn, LifeTypes, JobsTyped, Handlers
    <3>4. Carries("research")'
      BY <3>1, <3>2, <3>3 DEF Served, JobsKept, Carries
    <3> QED
      BY <3>3, <3>4
  <2>3. CASE Edited(k)
    <3>1. Queues("decompose") /\ Enqueue("decompose") /\ "decompose" \in Handlers
      BY <1>0, <2>3 DEF Queues, Edited, Handlers
    <3>2. k # "decompose"
      BY <2>3 DEF Edited, Turn, Placed, StepsOf, Common, Handlers
    <3> QED
      BY <2>1, <3>1, <3>2
  <2>4. CASE Dispatch(k) /\ graph.state # "closed" /\ Go(k, "ended")
    <3>1. k \in {"implementation", "work"}
      BY <2>4 DEF Dispatch, Turn, Placed, StepsOf, AppliersSteps, Common, Paused, Handlers
    <3>2. /\ graph.state \in {"open", "done"}
          /\ k = "work" => graph.state = "done"
      <4>1. graph.state # "none"
        <5>1. k = "work" => Carries("work")
          BY <2>4 DEF Dispatch, Carries
        <5> QED
          BY <2>4, <3>1, <5>1 DEF Dispatch, Served, GraphThere
      <4> QED
        BY <2>4, <4>1 DEF Dispatch, Served, GraphThere, Turn, LifeTypes, WorldTyped
    <3>3. CASE graph.state = "open"
      <4>1. Queues("work") /\ Enqueue("work") /\ "work" \in Handlers /\ k # "work"
        BY <2>4, <3>2, <3>3 DEF Queues, Dispatch, Handlers
      <4> QED
        BY <2>1, <4>1
    <3>4. CASE graph.state = "done"
      <4>1. Queues("merge") /\ Enqueue("merge") /\ "merge" \in Handlers /\ k # "merge"
        BY <2>4, <3>1, <3>4 DEF Queues, Dispatch, Handlers
      <4> QED
        BY <2>1, <4>1
    <3> QED
      BY <3>2, <3>3, <3>4
  <2> QED
    BY <1>2, <2>2, <2>3, <2>4, Leaves DEF Served
<1> QED
  BY <1>1, <1>2

LEMMA StepKeepsGraph ==
  ASSUME Turn, GraphThere, NEW k \in Handlers, Step(k)
  PROVE  GraphThere'
<1>0. /\ k \in Actors /\ \A a \in Actors : a # k => pc'[a] = pc[a]
      /\ \A l : Go(k, l) => pc'[k] = l
      /\ Carries(k) \/ Finalize(k)
      /\ {"implementation", "work"} \subseteq Handlers /\ {"implementation", "work"} \subseteq Actors
  BY StepFrame, Lands, TurnNames DEF Handlers, Actors
<1> USE DEF Step, Handler, Claim, CallRaises, Pause, RunIsOver, Planning, Implementing, Applying,
            Edited, Except, Fail, PauseRun, Wait, StartProvisional, Save, Park, StartResearch,
            Research, Researched, StartDecompose, Planned, Decompose, RecordHash, Ready,
            StartImplementation, Solo, StartWork, Work, StartMerge, Dispatch, Verdict, Verify,
            Verifying, VerifiersReport, VerdictPasses, VerdictExpands, VerdictFails, Expand, Repair,
            Repaired, Gate, Apply, CopySome, CopyRest, PostCheck, CheckPasses, CheckFails, Complete,
            Restored
<1>1. CASE Finalize(k)
  BY <1>0, <1>1, FinalizeFrame DEF GraphThere
<1>2. CASE Edited(k) \/ Decompose(k)
  <2>1. k # "work" /\ Carries(k)
    BY <1>2 DEF Carries, Turn, Placed, StepsOf, Common, Paused, Handlers
  <2>2. ~Carries("work") /\ (k # "implementation" => ~Carries("implementation"))
    BY <1>0, <2>1 DEF Turn, OneTurn
  <2>3. pc'["work"] # "dispatch" /\ job'["work"] = job["work"] /\ ~Carries("work")'
    BY <1>0, <1>2, <2>1, <2>2 DEF Enqueue, Carries, Turn, LifeTypes, JobsTyped
  <2>4. pc'["implementation"] # "dispatch"
    BY <1>0, <1>2, <2>2 DEF Carries
  <2> QED
    BY <2>3, <2>4 DEF GraphThere
<1>3. CASE k = "work" /\ Work
  <2>1. graph.state # "none"
    BY <1>3 DEF GraphThere, Carries
  <2>2. graph'.state \notin {"none", "open"}
    BY <1>3, <2>1 DEF Turn, LifeTypes, WorldTyped
  <2> QED
    BY <2>2 DEF GraphThere
<1>4. CASE ~(Finalize(k) \/ Edited(k) \/ Decompose(k) \/ (k = "work" /\ Work))
  <2>1. UNCHANGED graph
    BY <1>4
  <2>2. pc'["work"] = "dispatch" => pc["work"] = "dispatch"
    <3>1. k = "work" => \E l : Go(k, l) /\ l # "dispatch"
      BY <1>4, Validates DEF Handlers, Appliers
    <3> QED
      BY <1>0, <3>1
  <2>3. pc'["implementation"] = "dispatch" => pc["implementation"] = "dispatch" \/ graph.state # "none"
    <3>1. k = "implementation" => graph.state # "none" \/ \E l : Go(k, l) /\ l # "dispatch"
      BY <1>4, Validates
    <3> QED
      BY <1>0, <3>1
  <2>4. Carries("work")' => Carries("work") \/ graph.state = "open"
    <3>1. SUFFICES ASSUME ~Carries("work"), graph.state # "open", Carries("work")' PROVE FALSE
      OBVIOUS
    <3>2. k # "work" /\ pc'["work"] = pc["work"]
      BY <1>0, <1>4, <3>1
    <3>3. job'["work"] = job["work"]
      BY <1>0, <1>4, <3>1, <3>2 DEF Enqueue, Carries, Turn, LifeTypes, JobsTyped
    <3> QED
      BY <3>1, <3>2, <3>3 DEF Carries
  <2> QED
    BY <2>1, <2>2, <2>3, <2>4 DEF GraphThere
<1> QED
  BY <1>1, <1>2, <1>3, <1>4

\* The one client: what it leaves active, it is about to queue a job for.
LEMMA ServedOfClient ==
  ASSUME OneByOne, "cancel" \notin Requests, Turn, Served, NEW c \in Clients,
         NewRequest(c) \/ Client(c), ~Overtakes
  PROVE  Attended' /\ JobsKept' /\ GraphThere'
<1>0. /\ c \in Actors /\ \A d \in Clients : d = c
      /\ ~RedoPlan(c) /\ ~Redo(c) /\ ~Redone(c)
      /\ \A k \in Handlers : pc'[k] = pc[k]
      /\ \A l : Go(c, l) => pc'[c] = l
      /\ {"research", "decompose", "implementation", "work"} \subseteq Handlers
  BY ClientFrame DEF Handlers
<1>1. ~Cancel(c) /\ ~CancelJobs(c) /\ ~CancelRun(c)
  BY DEF Served, NeverCancelled, JobsKept, Cancel, CancelJobs, CancelRun, Request
<1>2. \A k \in Handlers : job'[k] = job[k] \/ (job[k] = "none" /\ job'[k] = "pending")
  BY <1>0, <1>1
     DEF NewRequest, Client, Approve, EditPlan, EditProvisional, ResumeRun, RollbackRun, Stale,
         Snapshot, Approved, Edit, Edited, Resume, QueueJob, RollbackDone, Rollback, Enqueue,
         Turn, LifeTypes, JobsTyped
<1>3. \A k \in Handlers : Carries(k) => Carries(k)'
  BY <1>0, <1>2 DEF Carries
<1>4. JobsKept'
  <2>1. pc'[c] # "cancelled"
    <3>1. pc' = pc \/ \E l : Go(c, l) /\ l # "cancelled"
      BY <1>0, <1>1, Validates
         DEF NewRequest, Client, Approve, EditPlan, EditProvisional, ResumeRun, RollbackRun, Stale,
             Snapshot, Approved, Edit, Edited, Resume, QueueJob, RollbackDone, Rollback
    <3> QED
      BY <1>0, <3>1 DEF Served, JobsKept
  <2> QED
    BY <1>0, <1>2, <2>1 DEF Served, JobsKept
<1>5. GraphThere'
  <2>1. CASE Edited(c)
    <3>1. ~Carries("work") /\ ~Carries("implementation")
      BY <1>0, <2>1, NobodyAtWork DEF Edited, Deciding
    <3>2. job'["work"] = job["work"]
      BY <1>0, <2>1 DEF Edited, Enqueue
    <3> QED
      BY <1>0, <3>1, <3>2 DEF GraphThere, Carries
  <2>2. CASE ~Edited(c)
    <3>1. UNCHANGED graph
      BY <1>0, <1>1, <2>2
         DEF NewRequest, Client, Approve, EditPlan, EditProvisional, ResumeRun, RollbackRun, Stale,
             Snapshot, Approved, Edit, Resume, QueueJob, RollbackDone, Rollback
    <3>2. job'["work"] = job["work"]
      BY <1>0, <1>1, <2>2
         DEF NewRequest, Client, Approve, EditPlan, EditProvisional, ResumeRun, RollbackRun, Stale,
             Snapshot, Approved, Edit, Resume, QueueJob, RollbackDone, Rollback, Enqueue,
             Turn, LifeTypes, JobsTyped
    <3> QED
      BY <1>0, <3>1, <3>2 DEF Served, GraphThere, Carries
  <2> QED
    BY <2>1, <2>2
<1>6. Attended'
  <2>1. CASE pc[c] \in Queueing
    <3>1. \A k \in Handlers : pc'[k] = pc[k] /\ pc[k] # "idle" => pc[k] = "ended"
      BY <2>1, NobodyAtWork DEF Queueing, Deciding
    <3>2. PICK k \in Handlers : Queues(k) /\ Enqueue(k)
      <4>1. Edited(c) \/ QueueJob(c)
        BY <2>1
           DEF Queueing, NewRequest, Client, Approve, EditPlan, EditProvisional, RedoPlan, CancelRun,
               ResumeRun, RollbackRun, Request, Stale, Snapshot, Approved, Edit, Redo, Redone, Cancel,
               CancelJobs, Resume, RollbackDone, Rollback
      <4> QED
        BY <1>0, <4>1 DEF Edited, QueueJob, Queues
    <3>3. Carries(k)'
      BY <1>0, <3>2, QueuedCarries DEF Overtakes, Served
    <3> QED
      BY <3>3 DEF Attended
  <2>2. CASE pc[c] \notin Queueing
    <3>1. CASE Stale(c) \/ Edit(c) \/ Resume(c)
      <4>1. pc'[c] \in Queueing
        BY <1>0, <3>1 DEF Stale, Edit, Resume, Queueing
      <4> QED
        BY <4>1 DEF Attended
    <3>2. CASE Approved(c)
      <4>1. job["implementation"] = "none" => Carries("implementation")'
        BY <1>0, <3>2 DEF Approved, Carries, Turn, LifeTypes, JobsTyped
      <4>2. job["implementation"] # "none" => UNCHANGED run
        BY <3>2 DEF Approved
      <4> QED
        BY <1>0, <1>3, <2>2, <4>1, <4>2 DEF Served, Attended
    <3>3. CASE Rollback(c)
      BY <3>3, MayFail DEF Rollback, Attended, Turn, LifeTypes, Rows
    <3>4. CASE ~(Stale(c) \/ Edit(c) \/ Resume(c) \/ Approved(c) \/ Rollback(c))
      <4>1. run'.status = run.status
        BY <1>0, <1>1, <2>2, <3>4
           DEF NewRequest, Client, Approve, EditPlan, EditProvisional, ResumeRun, RollbackRun,
               Snapshot, Edited, QueueJob, RollbackDone, Turn, LifeTypes, Rows
      <4> QED
        BY <1>0, <1>3, <2>2, <4>1 DEF Served, Attended
    <3> QED
      BY <3>1, <3>2, <3>3, <3>4
  <2> QED
    BY <2>1, <2>2
<1> QED
  BY <1>4, <1>5, <1>6

LEMMA ServedOfMonitor ==
  ASSUME Turn, Served, Monitor
  PROVE  Attended' /\ JobsKept' /\ GraphThere'
<1>1. UNCHANGED graph /\ \A a \in Actors : a # "monitor" => pc'[a] = pc[a]
  BY Lands, TurnNames DEF Monitor, Recover, ResumeWaiting, Release
<1>2. \A k \in Handlers : job'[k] = job[k] \/ (job[k] = "waiting" /\ job'[k] = "pending")
  BY DEF Monitor, Recover, ResumeWaiting, Release
<1>3. \A k \in Handlers : pc'[k] = pc[k] /\ (Carries(k)' <=> Carries(k))
  BY <1>1, <1>2, TurnNames DEF Carries
<1>4. \A c \in Clients : pc'[c] = pc[c]
  BY <1>1, TurnNames
<1>5. Attended'
  <2>1. CASE ResumeWaiting
    <3>1. \E k \in Handlers : Carries(k)
      BY <2>1 DEF ResumeWaiting, Turn, PauseFits, Carries
    <3> QED
      BY <1>3, <3>1 DEF Attended
  <2>2. CASE Recover \/ Release
    <3>1. UNCHANGED run
      BY <2>2 DEF Recover, Release
    <3> QED
      BY <1>3, <1>4, <3>1 DEF Served, Attended
  <2> QED
    BY <2>1, <2>2 DEF Monitor
<1>6. JobsKept'
  BY <1>2, <1>3, <1>4 DEF Served, JobsKept
<1>7. GraphThere'
  BY <1>1, <1>3, TurnNames DEF Served, GraphThere
<1> QED
  BY <1>5, <1>6, <1>7

LEMMA ServedAtStart == ASSUME Init PROVE Served
<1>1. \A a \in Actors : pc[a] = "idle"
  BY DEF Init
<1>2. \E k \in Handlers : job[k] = "pending"
  BY DEF Init, Handlers
<1>3. \A k \in Handlers : job[k] \notin {"running", "waiting"}
  BY DEF Init
<1>4. run.status # "cancelled" /\ job["work"] = "none"
  BY DEF Init, Handlers
<1> QED
  BY <1>1, <1>2, <1>3, <1>4, TurnNames
     DEF Served, NeverCancelled, Attended, JobsKept, GraphThere, Carries, Paused

LEMMA ServedStep ==
  ASSUME Sequential, "cancel" \notin Requests, Turn, Served, [Next]_vars, [~Overtakes]_vars
  PROVE  Served'
<1>0. NeverCancelled'
  BY NeverCancelledStep DEF Served
<1>1. CASE UNCHANGED vars
  BY <1>1 DEF vars, Served, NeverCancelled, Attended, JobsKept, GraphThere, Carries
<1>2. CASE Next /\ ~Overtakes
  <2>1. ASSUME NEW k \in Handlers, Claim(k) \/ Handler(k) \/ CallRaises(k) \/ Pause(k)
        PROVE  Served'
    <3>1. Step(k)
      BY <2>1 DEF Step
    <3> QED
      BY <1>0, <1>2, <3>1, StepKeepsAttended, StepKeepsJobs, StepKeepsGraph DEF Served
  <2>2. ASSUME NEW c \in Clients, NewRequest(c) \/ Client(c) PROVE Served'
    BY <1>0, <1>2, <2>2, ServedOfClient DEF Served, Sequential
  <2>3. CASE Monitor
    BY <1>0, <2>3, ServedOfMonitor DEF Served
  <2>4. CASE UserEdits
    BY <1>0, <2>4 DEF UserEdits, Served, Attended, JobsKept, GraphThere, Carries
  <2>5. ~Restart
    BY DEF Restart, Count, Sequential, Turn, LifeTypes, WorldTyped, Counts
  <2> QED
    BY <1>2, <2>1, <2>2, <2>3, <2>4, <2>5 DEF Next
<1> QED
  BY <1>1, <1>2

LEMMA ServedIsNotStranded == ASSUME Turn, Served PROVE NoStranded
<1> SUFFICES ASSUME run.status \in Active, AtRest PROVE \E k \in Handlers : job[k] # "none"
  BY DEF NoStranded
<1>1. \A c \in Clients : pc[c] \notin Queueing
  BY TurnNames DEF AtRest, Queueing
<1>2. PICK k \in Handlers : Carries(k)
  BY <1>1 DEF Served, Attended
<1>3. pc[k] # "dead"
  BY DEF Turn, Placed, StepsOf, AppliersSteps, Common, Paused, Handlers
<1>4. job[k] \in {"pending", "waiting"}
  BY <1>2, <1>3, TurnNames DEF AtRest, Carries
<1> QED
  BY <1>4

\* Unless an enqueue overtakes the end of the previous job of its kind, an active
\* run always has a job in the queue, a thread at it or a request that is about to
\* queue one, whatever errors, outages, edits, resumes and expansions it meets and
\* however many drainers there are.
THEOREM OnlyOvertakingStrands ==
  ASSUME Sequential, "cancel" \notin Requests
  PROVE  Spec /\ [][~Overtakes]_vars => []NoStranded
<1>1. Init => Turn /\ Served
  BY TurnAtStart, ServedAtStart
<1>2. Turn /\ Served /\ [Next]_vars /\ [~Overtakes]_vars => (Turn /\ Served)'
  BY TurnStep, ServedStep
<1>3. Turn /\ Served => NoStranded
  BY ServedIsNotStranded
<1> QED
  BY <1>1, <1>2, <1>3, PTL DEF Spec

-----------------------------------------------------------------------------
(* One drainer, and a user who only approves and rolls back: then nothing  *)
(* can be overtaken.                                                       *)

Alone == \A j, k \in Handlers : pc[j] # "idle" /\ pc[k] # "idle" => j = k

\* Nobody is asked to queue anything but an approved run.
Calm ==
  \A c \in Clients :
    pc[c] \notin {"stale", "edit", "edited", "queue_research", "queue_implementation"}
                   \cup Resuming

LEMMA NothingToOvertake ==
  ASSUME Turn, Alone, Calm
  PROVE  ~Overtakes
<1> SUFFICES ASSUME NEW k \in Handlers, pc[k] = "ended", Queues(k) PROVE FALSE
  BY DEF Overtakes
<1>1. \A j \in Handlers : pc[j] \in {"idle", "ended"}
  BY DEF Alone
<1>2. ~Park
  BY <1>1 DEF Park, Handlers
<1>3. ASSUME NEW a \in Actors PROVE ~Edited(a)
  BY <1>1, <1>3 DEF Edited, Actors, Calm, Turn, Placed
<1>4. ASSUME NEW j \in Handlers PROVE ~Dispatch(j)
  BY <1>1, <1>4 DEF Dispatch
<1> QED
  BY <1>2, <1>3, <1>4 DEF Queues, Calm

\* With one drainer a job is claimed only when no other is executing.
LEMMA AloneStep ==
  ASSUME Sequential, Workers = 1, Turn, Alone, [Next]_vars
  PROVE  Alone'
<1>1. ASSUME NEW k \in Handlers, Step(k) PROVE Alone'
  <2>1. \A j \in Handlers : j # k => pc'[j] = pc[j]
    BY <1>1, StepFrame, TurnNames
  <2>2. CASE Claim(k)
    <3>1. IsFiniteSet(Executing) /\ Cardinality(Executing) < 1
      <4>1. IsFiniteSet(Handlers)
        <5>1. Handlers = {"provisional"} \cup {"research"} \cup {"decompose"}
                           \cup {"implementation"} \cup {"work"} \cup {"merge"}
          BY DEF Handlers
        <5> QED
          BY <5>1, FS_Singleton, FS_Union
      <4> QED
        BY <2>2, <4>1, FS_Subset DEF Executing, Claim
    <3>2. Executing = {}
      BY <3>1, FS_CardinalityType, FS_EmptySet
    <3> QED
      BY <2>1, <3>2 DEF Alone, Executing
  <2>3. CASE ~Claim(k)
    <3>1. pc[k] # "idle"
      BY <1>1, <2>3
         DEF Step, Handler, CallRaises, Pause, CallsOllama, Starts, RunIsOver, Planning, Implementing,
             Applying, Edited, Except, Fail, PauseRun, Wait, StartProvisional, Save, Park,
             StartResearch, Research, Researched, StartDecompose, Planned, Decompose, RecordHash,
             Ready, StartImplementation, Solo, StartWork, Work, StartMerge, Dispatch, Verdict, Verify,
             Verifying, VerifiersReport, VerdictPasses, VerdictExpands, VerdictFails, Expand, Repair,
             Repaired, Gate, Apply, CopySome, CopyRest, PostCheck, CheckPasses, CheckFails, Complete,
             Restored, Finalize
    <3> QED
      BY <2>1, <3>1 DEF Alone
  <2> QED
    BY <2>2, <2>3
<1>2. CASE \A k \in Handlers : ~Step(k)
  <2>1. \A k \in Handlers : pc'[k] = pc[k]
    <3>1. ASSUME NEW c \in Clients, NewRequest(c) \/ Client(c) PROVE \A k \in Handlers : pc'[k] = pc[k]
      BY <3>1, ClientFrame DEF Sequential
    <3>2. Monitor => \A k \in Handlers : pc'[k] = pc[k]
      BY Lands, TurnNames DEF Monitor, Recover, ResumeWaiting, Release
    <3>3. ~Restart
      BY DEF Restart, Count, Sequential, Turn, LifeTypes, WorldTyped, Counts
    <3>4. UserEdits \/ UNCHANGED vars => pc' = pc
      BY DEF UserEdits, vars
    <3> QED
      BY <1>2, <3>1, <3>2, <3>3, <3>4 DEF Next, Step
  <2> QED
    BY <2>1 DEF Alone
<1> QED
  BY <1>1, <1>2

\* While nobody edits the target, an approval finds what the plan was made for.
LEMMA CalmStep ==
  ASSUME Sequential, Requests \subseteq {"approve", "rollback"}, MaxEdits = 0,
         Turn, TargetFits, NeverCancelled, Calm, [Next]_vars
  PROVE  Calm'
<1>1. ASSUME NEW k \in Handlers, Step(k) PROVE Calm'
  BY <1>1, StepFrame, TurnNames DEF Calm
<1>2. ASSUME NEW c \in Clients, NewRequest(c) \/ Client(c) PROVE Calm'
  <2>1. (\A d \in Clients : d = c) /\ \A l : Go(c, l) => pc'[c] = l
    BY <1>2, ClientFrame DEF Sequential
  <2>2. CASE Approve(c)
    <3>1. \A k \in Appliers : ~Touching(k)
      <4>1. \A k \in Handlers : ~Carries(k)
        BY <2>2, Settled DEF Approve
      <4> QED
        BY <4>1, TurnNames DEF Touching, Whole, Carries
    <3>2. workspace.change = "none" /\ run.baseline.change = "none"
      BY <2>2, <3>1 DEF Approve, TargetFits, Dead
    <3>3. workspace \in Held /\ run.baseline \in Held /\ Revisions = {0}
      BY DEF Turn, LifeTypes, WorldTyped, Rows, Revisions
    <3>4. workspace = run.baseline
      BY <3>2, <3>3 DEF Held
    <3>5. pc'[c] \in {"reuse", "snapshot"}
      BY <2>1, <2>2, <3>4 DEF Approve
    <3> QED
      BY <2>1, <3>5 DEF Calm, Resuming
  <2>3. CASE ~Approve(c)
    <3>1. \E l \in {"rolling", "fresh", "rollback", "cancelled", "idle"} : Go(c, l)
      BY <1>2, <2>3, Validates
         DEF Calm, Resuming, NewRequest, Client, EditPlan, EditProvisional, RedoPlan, CancelRun,
             ResumeRun, RollbackRun, Request, Stale, Snapshot, Approved, Edit, Edited, Redo, Redone,
             Cancel, CancelJobs, Resume, QueueJob, RollbackDone, Rollback, Turn, Placed, Deciding,
             Approving, RollingBack
    <3> QED
      BY <2>1, <3>1 DEF Calm, Resuming
  <2> QED
    BY <2>2, <2>3
<1>3. CASE Monitor
  BY <1>3, Lands, TurnNames DEF Monitor, Recover, ResumeWaiting, Release, Calm
<1>4. ~Restart
  BY DEF Restart, Count, Sequential, Turn, LifeTypes, WorldTyped, Counts
<1>5. CASE UserEdits \/ UNCHANGED vars
  BY <1>5 DEF UserEdits, vars, Calm
<1> QED
  BY <1>1, <1>2, <1>3, <1>4, <1>5 DEF Next, Step

\* One drainer serves every run that is planned, approved and rolled back, through
\* any number of errors, outages, repairs and expansions, as long as the user
\* leaves the target alone.
THEOREM OneDrainerStrandsNobody ==
  ASSUME Sequential, Workers = 1, Requests \subseteq {"approve", "rollback"}, MaxEdits = 0
  PROVE  Spec => []NoStranded
<1> DEFINE All == Turn /\ TargetFits /\ Served /\ Alone /\ Calm
<1>1. Init => All
  <2>1. Init => \A a \in Actors : pc[a] = "idle"
    BY DEF Init
  <2> QED
    BY <2>1, TurnAtStart, TargetAtStart, ServedAtStart, TurnNames DEF Alone, Calm, Resuming
<1>2. All /\ [Next]_vars => All'
  <2> SUFFICES ASSUME All, [Next]_vars PROVE All'
    OBVIOUS
  <2>1. "cancel" \notin Requests /\ ~Overtakes
    BY NothingToOvertake
  <2>2. Turn' /\ TargetFits'
    BY TurnStep, TargetStep
  <2>3. Served'
    BY <2>1, ServedStep
  <2>4. Alone' /\ Calm'
    BY AloneStep, CalmStep DEF Served
  <2> QED
    BY <2>2, <2>3, <2>4
<1>3. All => NoStranded
  BY ServedIsNotStranded
<1> QED
  BY <1>1, <1>2, <1>3, PTL DEF Spec

-----------------------------------------------------------------------------
(* The first restart.  init_db recognises an interrupted apply by the      *)
(* error it writes, and it writes one only where there is none: what has   *)
(* to be shown is that a run that applies its change carries no older      *)
(* error.  It does where the target has drifted before, hence MaxEdits.    *)

ErrorFits ==
  /\ \A c \in Clients : pc[c] \notin {"stale", "renew"}
  /\ run.error # "none" =>
       /\ run.status \in {"failed", "rolled_back", "decomposing", "cancelled"}
       /\ \A k \in Handlers : Carries(k) => k = "decompose" \/ pc[k] = "edited"

LEMMA StepKeepsError ==
  ASSUME Turn, ErrorFits, NEW k \in Handlers, Step(k)
  PROVE  ErrorFits'
<1>0. /\ k \in Actors /\ \A a \in Actors : a # k => pc'[a] = pc[a]
      /\ \A l : Go(k, l) => pc'[k] = l
      /\ Carries(k) \/ Finalize(k)
  BY StepFrame, Lands
<1>1. \A c \in Clients : pc'[c] = pc[c]
  BY <1>0, TurnNames
<1> SUFFICES ASSUME run'.error # "none"
             PROVE  /\ run'.status \in {"failed", "rolled_back", "decomposing", "cancelled"}
                    /\ \A j \in Handlers : Carries(j)' => j = "decompose" \/ pc'[j] = "edited"
  BY <1>1 DEF ErrorFits
<1>2. CASE Fail(k) \/ Restored(k) \/ Expand(k)
  <2>1. pc[k] \notin {"idle", "ended", "pausing", "waiting"} /\ UNCHANGED job
    BY <1>2 DEF Fail, Restored, Expand
  <2>2. job[k] = "running" /\ \A j \in Handlers : j # k => ~Carries(j)
    BY <2>1, OnTurn
  <2>3. \A j \in Handlers : j # k => ~Carries(j)'
    BY <1>0, <2>1, <2>2, TurnNames DEF Carries
  <2>4. Carries(k)' => pc'[k] = "edited"
    BY <1>0, <1>2, <2>1, <2>2 DEF Carries, Fail, Restored, Expand
  <2>5. run'.status \in {"failed", "rolled_back", "decomposing"}
    BY <1>2 DEF Fail, Restored, Expand, Turn, LifeTypes, Rows
  <2> QED
    BY <2>3, <2>4, <2>5
<1>3. CASE ~(Fail(k) \/ Restored(k) \/ Expand(k)) /\ run.error = "none"
  BY <1>3
     DEF Step, Handler, Claim, CallRaises, Pause, RunIsOver, Planning, Implementing, Applying,
         Edited, Except, PauseRun, Wait, StartProvisional, Save, Park, StartResearch, Research,
         Researched, StartDecompose, Planned, Decompose, RecordHash, Ready, StartImplementation, Solo,
         StartWork, Work, StartMerge, Dispatch, Verdict, Verify, Verifying, VerifiersReport,
         VerdictPasses, VerdictExpands, VerdictFails, Repair, Repaired, Gate, Apply, CopySome,
         CopyRest, PostCheck, CheckPasses, CheckFails, Complete, Finalize, Turn, LifeTypes, Rows
<1>4. CASE ~(Fail(k) \/ Restored(k) \/ Expand(k)) /\ run.error # "none"
  <2>0. /\ run.status \in {"failed", "rolled_back", "decomposing", "cancelled"}
        /\ \A j \in Handlers : Carries(j) => j = "decompose" \/ pc[j] = "edited"
    BY <1>4 DEF ErrorFits
  <2>1. CASE Finalize(k)
    BY <1>0, <2>0, <2>1, FinalizeFrame, TurnNames
  <2>2. CASE pc[k] = "edited"
    <3>1. Edited(k)
      BY <1>4, <2>2
         DEF Step, Handler, Claim, CallRaises, Pause, CallsOllama, Starts, RunIsOver, Planning,
             Implementing, Applying, Except, PauseRun, Wait, StartProvisional, Save, Park,
             StartResearch, Research, Researched, StartDecompose, Planned, Decompose, RecordHash,
             Ready, StartImplementation, Solo, StartWork, Work, StartMerge, Dispatch, Verdict,
             Verify, Verifying, VerifiersReport, VerdictPasses, VerdictExpands, VerdictFails, Repair,
             Repaired, Gate, Apply, CopySome, CopyRest, PostCheck, CheckPasses, CheckFails,
             Complete, Finalize
    <3>2. job[k] = "running" /\ \A j \in Handlers : j # k => ~Carries(j)
      BY <2>2, OnTurn
    <3>3. \A j \in Handlers : j # "decompose" => job'[j] = job[j]
      BY <3>1 DEF Edited, Enqueue, Turn, LifeTypes, JobsTyped
    <3>4. UNCHANGED run /\ pc'[k] = "ended"
      BY <1>0, <3>1 DEF Edited
    <3>5. \A j \in Handlers : Carries(j)' => j = "decompose"
      BY <1>0, <3>2, <3>3, <3>4, TurnNames DEF Carries
    <3> QED
      BY <2>0, <3>4, <3>5
  <2>3. CASE k = "decompose" /\ ~Finalize(k) /\ pc[k] # "edited"
    <3>1. pc[k] \in {"idle", "start", "except", "failing", "ended", "decompose", "hash", "ready"}
      BY <2>3 DEF Turn, Placed, StepsOf, Common
    <3>2. ~Pause(k) /\ ~Ready(k)
      BY <2>3, <3>1 DEF Pause, CallsOllama, Ready, Turn, LifeTypes, Rows
    <3>3. run'.status = run.status
      BY <1>4, <2>3, <3>1, <3>2
         DEF Step, Handler, Claim, CallRaises, RunIsOver, Planning, Implementing, Applying, Edited,
             Except, PauseRun, Wait, Planned, StartDecompose, Decompose, RecordHash, Dispatch,
             Appliers, Turn, LifeTypes, Rows
    <3>4. \A j \in Handlers : j # k => job'[j] = job[j]
      BY <1>4, <2>3, <3>1, <3>2
         DEF Step, Handler, Claim, CallRaises, RunIsOver, Planning, Implementing, Applying, Edited,
             Except, PauseRun, Wait, Planned, StartDecompose, Decompose, RecordHash, Dispatch,
             Appliers, Turn, LifeTypes, JobsTyped
    <3>5. \A j \in Handlers : j # k => (Carries(j)' <=> Carries(j)) /\ pc'[j] = pc[j]
      BY <1>0, <3>4, TurnNames DEF Carries
    <3> QED
      BY <2>0, <2>3, <3>3, <3>5
  <2> QED
    BY <1>0, <2>0, <2>1, <2>2, <2>3
<1> QED
  BY <1>2, <1>3, <1>4

\* Nobody who looks at the target finds it changed, if nobody edits it.
LEMMA NoDrift ==
  ASSUME MaxEdits = 0, Turn, TargetFits, run.status \in {"awaiting_approval", "failed"}
  PROVE  workspace = run.baseline
<1>1. \A k \in Appliers : ~Touching(k)
  <2>1. \A k \in Handlers : ~Carries(k)
    BY Settled
  <2> QED
    BY <2>1, TurnNames DEF Touching, Whole, Carries
<1>2. workspace.change = "none" /\ run.baseline.change = "none"
  BY <1>1 DEF TargetFits, Dead
<1>3. workspace \in Held /\ run.baseline \in Held /\ Revisions = {0}
  BY DEF Turn, LifeTypes, WorldTyped, Rows, Revisions
<1> QED
  BY <1>2, <1>3 DEF Held

LEMMA ErrorOfClient ==
  ASSUME OneByOne, MaxEdits = 0, Turn, TargetFits, ErrorFits, NEW c \in Clients,
         NewRequest(c) \/ Client(c)
  PROVE  ErrorFits'
<1>0. /\ c \in Actors /\ \A d \in Clients : d = c
      /\ ~RedoPlan(c) /\ ~Redo(c) /\ ~Redone(c)
      /\ \A k \in Handlers : pc'[k] = pc[k]
      /\ \A l : Go(c, l) => pc'[c] = l
      /\ {"research", "decompose", "implementation"} \subseteq Handlers
  BY ClientFrame DEF Handlers
<1>1. pc'[c] \notin {"stale", "renew"}
  <2>1. CASE Approve(c) \/ ResumeRun(c)
    <3>1. workspace = run.baseline
      BY <2>1, NoDrift DEF Approve, ResumeRun
    <3>2. \E l : Go(c, l) /\ l \notin {"stale", "renew"}
      BY <2>1, <3>1, Validates DEF Approve, ResumeRun
    <3> QED
      BY <1>0, <3>2
  <2>2. CASE ~(Approve(c) \/ ResumeRun(c))
    <3>1. pc' = pc \/ \E l : Go(c, l) /\ l \notin {"stale", "renew"}
      BY <1>0, <2>2, Validates
         DEF NewRequest, Client, EditPlan, EditProvisional, CancelRun, RollbackRun, Stale, Snapshot,
             Approved, Edit, Edited, Cancel, CancelJobs, Resume, QueueJob, RollbackDone, Rollback
    <3> QED
      BY <1>0, <3>1 DEF ErrorFits
  <2> QED
    BY <2>1, <2>2
<1> SUFFICES ASSUME run'.error # "none"
             PROVE  /\ run'.status \in {"failed", "rolled_back", "decomposing", "cancelled"}
                    /\ \A j \in Handlers : Carries(j)' => j = "decompose" \/ pc'[j] = "edited"
  BY <1>0, <1>1 DEF ErrorFits
<1>2. ~Stale(c) /\ ~Edit(c) /\ ~EditProvisional(c) /\ ~Resume(c)
  BY DEF ErrorFits, Stale, Edit, EditProvisional, Resume, Turn, LifeTypes, Rows
<1>3. /\ run'.error = run.error \/ run'.error = "none"
      /\ run'.status \in {run.status, "cancelled", "rolled_back"} \/ Approved(c)
  BY <1>0, <1>2
     DEF NewRequest, Client, Approve, EditPlan, CancelRun, ResumeRun, RollbackRun, Snapshot, Approved,
         Edited, Cancel, CancelJobs, QueueJob, RollbackDone, Rollback, Turn, LifeTypes, Rows
<1>4. /\ run.status \in {"failed", "rolled_back", "decomposing", "cancelled"}
      /\ \A j \in Handlers : Carries(j) => j = "decompose" \/ pc[j] = "edited"
  BY <1>3 DEF ErrorFits
<1>5. ~Approved(c)
  BY <1>4 DEF Approved, Turn, ClientFits, Approving
<1>6. ASSUME NEW j \in Handlers, j # "decompose" PROVE job'[j] \in {job[j], "none"}
  <2>1. QueueJob(c) => FALSE
    BY <1>4 DEF QueueJob, Turn, ClientFits
  <2> QED
    BY <1>0, <1>2, <1>5, <1>6, <2>1
       DEF NewRequest, Client, Approve, EditPlan, CancelRun, ResumeRun, RollbackRun, Snapshot, Edited,
           Enqueue, Cancel, CancelJobs, RollbackDone, Rollback, Turn, LifeTypes, JobsTyped
<1>7. \A j \in Handlers : Carries(j)' /\ j # "decompose" => Carries(j)
  BY <1>0, <1>6 DEF Carries
<1> QED
  BY <1>0, <1>3, <1>4, <1>5, <1>7

LEMMA ErrorGoesOn ==
  ASSUME OneByOne, MaxEdits = 0, Turn, TargetFits, ErrorFits, [Next]_vars, ~Restart
  PROVE  ErrorFits'
<1>1. ASSUME NEW k \in Handlers, Claim(k) \/ Handler(k) \/ CallRaises(k) \/ Pause(k)
      PROVE  ErrorFits'
  BY <1>1, StepKeepsError DEF Step
<1>2. ASSUME NEW c \in Clients, NewRequest(c) \/ Client(c) PROVE ErrorFits'
  BY <1>2, ErrorOfClient
<1>3. CASE Monitor
  <2>1. \A a \in Actors : a # "monitor" => pc'[a] = pc[a]
    BY <1>3, Lands, TurnNames DEF Monitor, Recover, ResumeWaiting, Release
  <2>2. \A k \in Handlers : pc'[k] = pc[k] /\ (Carries(k)' <=> Carries(k))
    BY <1>3, <2>1, TurnNames DEF Monitor, Recover, ResumeWaiting, Release, Carries
  <2>3. run' = run \/ run'.error = "none"
    BY <1>3 DEF Monitor, Recover, ResumeWaiting, Release, Turn, LifeTypes, Rows
  <2> QED
    BY <2>1, <2>2, <2>3, TurnNames DEF ErrorFits
<1>4. CASE UserEdits \/ UNCHANGED vars
  BY <1>4 DEF UserEdits, vars, ErrorFits, Carries
<1> QED
  BY <1>1, <1>2, <1>3, <1>4 DEF Next

\* A restart is counted, and nothing else is counted as one.
LEMMA RestartIsCounted ==
  ASSUME LifeTypes, [Next]_vars
  PROVE  /\ count'.restarts = count.restarts \/ Restart
         /\ Restart => count'.restarts = count.restarts + 1 /\ count.restarts < MaxRestarts
         /\ count.restarts \in Nat
<1> USE DEF LifeTypes, WorldTyped, Counts, Count
<1>1. ASSUME NEW k \in Handlers, Claim(k) \/ Handler(k) \/ CallRaises(k) \/ Pause(k)
      PROVE  count'.restarts = count.restarts
  BY <1>1
     DEF Handler, Claim, CallRaises, Pause, RunIsOver, Planning, Implementing, Applying, Edited,
         Except, Fail, PauseRun, Wait, Finalize, StartProvisional, Save, Park, StartResearch,
         Research, Researched, StartDecompose, Planned, Decompose, RecordHash, Ready,
         StartImplementation, Solo, StartWork, Work, StartMerge, Dispatch, Verdict, Verify,
         Verifying, VerifiersReport, VerdictPasses, VerdictExpands, VerdictFails, Expand, Repair,
         Repaired, Gate, Apply, CopySome, CopyRest, PostCheck, CheckPasses, CheckFails, Complete,
         Restored
<1>2. ASSUME NEW c \in Clients, NewRequest(c) \/ Client(c) PROVE count'.restarts = count.restarts
  BY <1>2
     DEF NewRequest, Client, Approve, EditPlan, EditProvisional, RedoPlan, CancelRun, ResumeRun,
         RollbackRun, Request, Stale, Snapshot, Approved, Edit, Edited, Redo, Redone, Cancel,
         CancelJobs, Resume, QueueJob, RollbackDone, Rollback
<1>3. Monitor \/ UserEdits \/ UNCHANGED vars => count'.restarts = count.restarts
  BY DEF Monitor, Recover, ResumeWaiting, Release, UserEdits, vars
<1>4. Restart => count'.restarts = count.restarts + 1 /\ count.restarts < MaxRestarts
  BY DEF Restart
<1> QED
  BY <1>1, <1>2, <1>3, <1>4 DEF Next

\* Without outages only the research of a provisional plan is ever parked.
NothingParked == \A k \in Doers : job[k] # "waiting"

LEMMA ParkedStep ==
  ASSUME MaxOutages = 0, Turn, NothingParked, [Next]_vars, ~Restart
  PROVE  NothingParked'
<1>1. ASSUME NEW k \in Handlers, Claim(k) \/ Handler(k) \/ CallRaises(k) \/ Pause(k)
      PROVE  NothingParked'
  <2>1. ~Pause(k)
    BY DEF Pause, Count, Turn, LifeTypes, WorldTyped, Counts
  <2> QED
    BY <1>1, <2>1, TurnNames
       DEF Handler, Claim, CallRaises, RunIsOver, Planning, Implementing, Applying, Edited, Enqueue,
           Except, Fail, PauseRun, Wait, Finalize, StartProvisional, Save, Park, StartResearch,
           Research, Researched, StartDecompose, Planned, Decompose, RecordHash, Ready,
           StartImplementation, Solo, StartWork, Work, StartMerge, Dispatch, Verdict, Verify,
           Verifying, VerifiersReport, VerdictPasses, VerdictExpands, VerdictFails, Expand, Repair,
           Repaired, Gate, Apply, CopySome, CopyRest, PostCheck, CheckPasses, CheckFails, Complete,
           Restored, NothingParked, Doers, Turn, LifeTypes, JobsTyped
<1>2. ASSUME NEW c \in Clients, NewRequest(c) \/ Client(c) PROVE NothingParked'
  BY <1>2, TurnNames
     DEF NewRequest, Client, Approve, EditPlan, EditProvisional, RedoPlan, CancelRun, ResumeRun,
         RollbackRun, Stale, Snapshot, Approved, Edit, Edited, Enqueue, Redo, Redone, Cancel,
         CancelJobs, Resume, QueueJob, RollbackDone, Rollback, NothingParked, Doers, Turn, LifeTypes,
         JobsTyped
<1>3. CASE Monitor
  BY <1>3, TurnNames DEF Monitor, Recover, ResumeWaiting, Release, NothingParked
<1>4. CASE UserEdits \/ UNCHANGED vars
  BY <1>4 DEF UserEdits, vars, NothingParked
<1> QED
  BY <1>1, <1>2, <1>3, <1>4 DEF Next

\* The first restart that finds the run in an apply takes the job away, whatever
\* errors, expansions, cancellations and resumes came before: the change is not
\* applied again by itself.  (An outage in the post-check leaves the job parked
\* for a moment, and a restart in that moment does not take it away.)
THEOREM InterruptedApplyIsDropped ==
  ASSUME OneByOne, MaxEdits = 0, MaxOutages = 0, MaxRestarts = 1
  PROVE  Spec => InterruptedApplyNotRerun
<1> DEFINE Life == Turn /\ TargetFits /\ ErrorFits /\ NothingParked
           Before == LifeTypes /\ (count.restarts = 0 => Life)
           Dropped == \A k \in Appliers :
                        count'.restarts > count.restarts /\ run.status \in {"applying", "post_check"}
                          => job'[k] = "none"
<1>1. Init => Before
  <2>1. Init => ErrorFits /\ NothingParked
    BY TurnNames DEF Init, ErrorFits, NothingParked
  <2> QED
    BY <2>1, TurnAtStart, TargetAtStart, TypesAtStart
<1>2. Before /\ [Next]_vars => Before'
  <2> SUFFICES ASSUME Before, [Next]_vars, count'.restarts = 0 PROVE Life'
    BY TypesStep
  <2>1. count.restarts = 0 /\ ~Restart
    BY RestartIsCounted
  <2> QED
    BY <2>1, TurnGoesOn, TargetGoesOn, ErrorGoesOn, ParkedStep
<1>3. Before /\ [Next]_vars => [Dropped]_vars
  <2> SUFFICES ASSUME Before, [Next]_vars, count'.restarts > count.restarts,
                      run.status \in {"applying", "post_check"}, NEW k \in Appliers
               PROVE  job'[k] = "none"
    OBVIOUS
  <2>1. Restart /\ count.restarts = 0
    BY RestartIsCounted
  <2>2. run.error = "none"
    BY <2>1 DEF ErrorFits
  <2>3. job[k] \in {"none", "pending", "running"} /\ k \in Handlers
    BY <2>1, TurnNames DEF NothingParked, Turn, LifeTypes, JobsTyped
  <2> QED
    BY <2>1, <2>2, <2>3 DEF Restart, Interrupted
<1> QED
  BY <1>1, <1>2, <1>3, PTL DEF Spec, InterruptedApplyNotRerun

\* Up to and including the first restart, whenever it comes, nothing is left half
\* applied: a restart that finds half of a change in the target finds the run in
\* the apply, with a snapshot, and restores it.
THEOREM FirstRestartUndoes ==
  ASSUME OneByOne, "cancel" \notin Requests, MaxEdits = 0
  PROVE  Spec => [][count.restarts = 0 => NoHalfApplied']_vars
<1> DEFINE Life == Turn /\ TargetFits /\ ErrorFits /\ NeverCancelled
           Before == LifeTypes /\ (count.restarts = 0 => Life)
<1>1. Init => Before
  <2>1. Init => ErrorFits /\ NeverCancelled
    BY TurnNames DEF Init, ErrorFits, NeverCancelled
  <2> QED
    BY <2>1, TurnAtStart, TargetAtStart, TypesAtStart
<1>2. Before /\ [Next]_vars => Before'
  <2> SUFFICES ASSUME Before, [Next]_vars, count'.restarts = 0 PROVE Life'
    BY TypesStep
  <2>1. count.restarts = 0 /\ ~Restart
    BY RestartIsCounted
  <2> QED
    BY <2>1, TurnGoesOn, TargetGoesOn, ErrorGoesOn, NeverCancelledGoesOn
<1>3. TargetFits /\ NeverCancelled => NoHalfApplied
  <2> SUFFICES ASSUME TargetFits, NeverCancelled, AtRest PROVE workspace.change # "part"
    BY DEF NoHalfApplied
  <2>1. \A k \in Appliers : ~Touching(k)
    BY TurnNames DEF AtRest, Touching, Whole
  <2> QED
    BY <2>1 DEF TargetFits, NeverCancelled, Dead
<1>4. Life /\ Restart => NoHalfApplied'
  <2> SUFFICES ASSUME Life, Restart PROVE workspace'.change # "part"
    BY DEF NoHalfApplied
  <2>1. run.snapshot # NoContent => run.snapshot.change = "none"
    BY DEF TargetFits
  <2>2. CASE workspace.change # "part"
    BY <2>1, <2>2 DEF Restart, Restores
  <2>3. CASE workspace.change = "part"
    <3>1. PICK k \in Appliers : Touching(k) /\ pc[k] \notin Whole
      BY <2>3 DEF TargetFits, NeverCancelled, Dead
    <3>2. pc[k] \in {"copied", "except"} /\ k \in Doers /\ k \in Handlers
      BY <3>1, TurnNames DEF Touching
    <3>3. run.snapshot # NoContent /\ DoerStatus(k)
      BY <3>2, OnTurn
    <3>4. run.status \in {"applying", "post_check"}
      BY <3>1, <3>2, <3>3 DEF Touching, DoerStatus, NeverCancelled
    <3>5. run.error = "none"
      BY <3>4 DEF ErrorFits
    <3> QED
      BY <2>1, <3>3, <3>4, <3>5 DEF Restart, Restores, Interrupted
  <2> QED
    BY <2>2, <2>3
<1>5. Before /\ [Next]_vars => [count.restarts = 0 => NoHalfApplied']_vars
  <2> SUFFICES ASSUME Before, Next, count.restarts = 0 PROVE NoHalfApplied'
    OBVIOUS
  <2>1. CASE Restart
    BY <1>4, <2>1
  <2>2. CASE ~Restart
    <3>1. (TargetFits /\ NeverCancelled)'
      BY <2>2, TargetGoesOn, NeverCancelledGoesOn
    <3> QED
      BY <1>3, <3>1, PTL
  <2> QED
    BY <2>1, <2>2
<1> QED
  BY <1>1, <1>2, <1>5, PTL DEF Spec

=============================================================================
