------------------------------ MODULE Snapshots ------------------------------
(***************************************************************************)
(* The disk a run lives on: its working tree under jobs/, the snapshot     *)
(* archives with their rows, and the target directory they are restored    *)
(* to (backend/workspace.py), used by a run that is created, approved,     *)
(* applied, resumed and rolled back, by the snapshot endpoints of          *)
(* backend/main.py, by the cleanups and by the sweeper of job trees        *)
(* (backend/orchestrator.py).  A crash may come between any two steps.     *)
(*                                                                         *)
(* There is one run and one target; RunLifecycle has the run's statuses in *)
(* full.  A content of the target is a value, and an age is only whether   *)
(* the grace or the retention has passed.                                  *)
(***************************************************************************)
EXTENDS Naturals, FiniteSets, RunStates

CONSTANTS
  Clients,   \* concurrent API requests
  Snaps,     \* ids of snapshots
  NoSnap,
  Requests,  \* the kinds of request each client makes in an instance
  MaxRequests, MaxErrors, MaxRestarts   \* bounds

ASSUME SnapshotAssumption ==
  /\ NoSnap \notin Snaps
  /\ Clients \cap {"runner", "sweeper", "boot"} = {}
  /\ Requests \in [Clients -> SUBSET {"create", "approve", "cancel", "resume", "rollback",
                                      "save", "restore", "delete", "cleanup", "orphans"}]
  /\ {MaxRequests, MaxErrors, MaxRestarts} \subseteq Nat

VARIABLES
  run,      \* the row of the run; status "none" before it is inserted
  job,      \* the run's job
  tree,     \* jobs/<run>: missing, or there and younger or older than the grace
  target,   \* what the target directory holds
  archive,  \* per snapshot its file
  content,  \* per snapshot what the file holds, where there is one
  row,      \* per snapshot its row
  old,      \* snapshots older than retention and grace
  pc,       \* the next step of each actor
  mine,     \* the snapshots an actor has in hand, and what for
  gaps,     \* which unguarded windows of the code have been hit (see the end)
  count

vars == <<run, job, tree, target, archive, content, row, old, pc, mine, gaps, count>>
disk == <<tree, target, archive, content, row, old>>

Actors == Clients \cup {"runner", "sweeper", "boot"}
Nothing == [snaps |-> {}, why |-> "none"]

\* The steps of an actor, and what for it has snapshots in hand.
Steps == {"idle", "staged", "archiving", "published", "recorded", "listing", "unlinking",
          "marking", "wiping", "refilling", "planning", "working", "copying", "copied",
          "checking", "ended", "removing", "recovering", "cleaning"}
Reasons == {"none", "approve", "save", "discard", "delete", "orphans", "restore",
            "rollback", "undo", "recover"}

Init ==
  /\ run = [status |-> "none", snapshot |-> NoSnap, baseline |-> "base",
            interrupted |-> FALSE]
  /\ job = "none" /\ tree = "none" /\ target = "base"
  /\ archive = [s \in Snaps |-> "none"]
  /\ content = [s \in Snaps |-> "base"]
  /\ row = [s \in Snaps |-> "none"]
  /\ old = {}
  /\ pc = [a \in Actors |-> "idle"]
  /\ mine = [a \in Actors |-> Nothing]
  /\ gaps = {}
  /\ count = [requests |-> 0, errors |-> 0, restarts |-> 0]

-----------------------------------------------------------------------------
Go(a, label) == pc' = [pc EXCEPT ![a] = label]
Takes(a, snaps, why) == mine' = [mine EXCEPT ![a] = [snaps |-> snaps, why |-> why]]
Drops(a) == mine' = [mine EXCEPT ![a] = Nothing]
Count(what, max) == /\ count[what] < max
                    /\ count' = [count EXCEPT ![what] = @ + 1]
Moves(status) == run' = [run EXCEPT !.status = status]
Allowed(status) == ValidTransition(run.status, status)

Request(c, what) ==
  /\ pc[c] = "idle" /\ what \in Requests[c] /\ Count("requests", MaxRequests)

\* The runs the endpoints call active.
Active == run.status \notin TerminalRunStates \cup {"none"}

InHand(a) == CHOOSE s \in mine[a].snaps : TRUE

\* What a target holds between two steps of a copy or of a restore.
Halves == {"part", "wiped"}

\* Somebody is about to unlink s, or already has.
Doomed(s) ==
  \/ archive[s] # "ready"
  \/ \E c \in Clients : pc[c] \in {"unlinking", "marking"} /\ s \in mine[c].snaps

-----------------------------------------------------------------------------
(* The run.                                                                *)

\* create_run stages the tree first ...
StageRun(c) ==
  /\ Request(c, "create") /\ run.status = "none" /\ tree = "none"
  /\ tree' = "young"
  /\ Go(c, "staged")
  /\ UNCHANGED <<run, job, target, archive, content, row, old, mine, gaps>>

\* ... and inserts the row with its job in a transaction.
InsertRun(c) ==
  /\ pc[c] = "staged"
  /\ run' = [run EXCEPT !.status = "researching", !.baseline = target]
  /\ job' = "pending"
  /\ Go(c, "idle")
  /\ UNCHANGED <<disk, mine, gaps, count>>

\* approve_run holds _run_lock from the check to the transaction; another
\* snapshot may be asked for at any time.
BeginSnapshot(c, why) ==
  /\ Request(c, why)
  /\ why = "approve" => /\ run.status = "awaiting_approval" /\ target = run.baseline
                        /\ \A d \in Clients : mine[d].why # "approve"
  /\ \E s \in Snaps :
       /\ row[s] = "none" /\ archive[s] = "none" /\ \A d \in Clients : s \notin mine[d].snaps
       /\ archive' = [archive EXCEPT ![s] = "partial"]
       /\ content' = [content EXCEPT ![s] = target]
       /\ old' = old \ {s}
       /\ Takes(c, {s}, why)
  /\ Go(c, "archiving")
  /\ gaps' = gaps \cup (IF target \in Halves THEN {"crossed"} ELSE {})
  /\ UNCHANGED <<run, job, tree, target, row>>

\* The verified part file gets its name.
PublishSnapshot(c) ==
  /\ pc[c] = "archiving"
  /\ archive' = [archive EXCEPT ![InHand(c)] = "ready"]
  /\ Go(c, "published")
  /\ UNCHANGED <<run, job, tree, target, content, row, old, mine, gaps, count>>

RecordSnapshot(c) ==
  /\ pc[c] = "published"
  /\ row' = [row EXCEPT ![InHand(c)] = "ready"]
  /\ IF mine[c].why = "approve" THEN Go(c, "recorded") /\ UNCHANGED mine
     ELSE Go(c, "idle") /\ Drops(c)
  /\ UNCHANGED <<run, job, tree, target, archive, content, old, gaps, count>>

\* Writing, verifying or inserting fails: nothing is left on the disk.
SnapshotFails(c) ==
  /\ pc[c] \in {"archiving", "published"} /\ Count("errors", MaxErrors)
  /\ archive' = [archive EXCEPT ![InHand(c)] = "none"]
  /\ Go(c, "idle") /\ Drops(c)
  /\ UNCHANGED <<run, job, tree, target, content, row, old, gaps>>

\* The transaction of the approval looks neither at the run's status nor at the
\* snapshot again.
Approve(c) ==
  /\ pc[c] = "recorded"
  /\ run' = [run EXCEPT !.status = "implementing", !.snapshot = InHand(c)]
  /\ job' = IF job = "none" THEN "pending" ELSE job
  /\ gaps' = gaps \cup (IF run.status = "cancelled" THEN {"revived"} ELSE {})
                  \cup (IF Doomed(InHand(c)) THEN {"unguarded"} ELSE {})
  /\ Go(c, "idle") /\ Drops(c)
  /\ UNCHANGED <<disk, count>>

\* It fails, and discard_snapshot unlinks the file and deletes the row.
ApproveFails(c) ==
  /\ pc[c] = "recorded" /\ Count("errors", MaxErrors)
  /\ Takes(c, mine[c].snaps, "discard")
  /\ Go(c, "unlinking")
  /\ UNCHANGED <<run, job, disk, gaps>>

CancelRun(c) ==
  /\ Request(c, "cancel")
  /\ run.status \notin {"none", "completed", "rolled_back", "applying", "post_check"}
  /\ Moves("cancelled")
  /\ job' = IF job = "pending" THEN "none" ELSE job
  /\ UNCHANGED <<disk, pc, mine, gaps>>

\* A failed run goes on with the tree and the snapshot it has, unless the target
\* has changed.
ResumeRun(c) ==
  /\ Request(c, "resume") /\ run.status = "failed"
  /\ run' = IF target # run.baseline
              THEN [run EXCEPT !.status = "researching", !.snapshot = NoSnap,
                               !.baseline = target]
            ELSE IF run.snapshot # NoSnap THEN [run EXCEPT !.status = "implementing"]
            ELSE [run EXCEPT !.status = "researching"]
  /\ tree' = IF run'.status = "researching" THEN "young" ELSE tree
  /\ job' = IF job = "none" THEN "pending" ELSE job
  /\ gaps' = gaps \cup (IF run'.snapshot # NoSnap /\ Doomed(run'.snapshot)
                          THEN {"unguarded"} ELSE {})
  /\ UNCHANGED <<target, archive, content, row, old, pc, mine>>

-----------------------------------------------------------------------------
(* The thread that runs the job.                                           *)

Claim ==
  /\ job = "pending" /\ pc["runner"] = "idle"
  /\ job' = "running"
  /\ Go("runner", CASE run.status = "researching" -> "planning"
                    [] run.status = "implementing" -> "working"
                    [] OTHER -> "ended")
  /\ UNCHANGED <<run, disk, mine, gaps, count>>

\* A plan is made, or the run fails; a cancelled run is left alone.
EndPlanning ==
  /\ pc["runner"] = "planning"
  /\ \/ run.status = "researching" /\ Moves("awaiting_approval") /\ UNCHANGED count
     \/ run.status = "researching" /\ Moves("failed") /\ Count("errors", MaxErrors)
     \/ run.status # "researching" /\ UNCHANGED <<run, count>>
  /\ Go("runner", "ended")
  /\ UNCHANGED <<job, disk, mine, gaps>>

\* The work is verified, or fails; a changed target or a cancellation ends it.
EndWork ==
  /\ pc["runner"] = "working"
  /\ \/ /\ run.status = "implementing" /\ target = run.baseline
        /\ Moves("applying") /\ Go("runner", "copying") /\ UNCHANGED count
     \/ /\ run.status = "implementing"
        /\ Moves("failed") /\ Go("runner", "ended")
        /\ target = run.baseline => Count("errors", MaxErrors)
        /\ target # run.baseline => UNCHANGED count
     \/ run.status # "implementing" /\ Go("runner", "ended") /\ UNCHANGED <<run, count>>
  /\ UNCHANGED <<job, disk, mine, gaps>>

\* apply_stage: file after file.
ApplyFirst ==
  /\ pc["runner"] = "copying"
  /\ target' = "part"
  /\ Go("runner", "copied")
  /\ UNCHANGED <<run, job, tree, archive, content, row, old, mine, gaps, count>>

\* (A rollback may have moved the run meanwhile: update_run then raises, and so
\* does the handler when it wants to write that down.)
ApplyLast ==
  /\ pc["runner"] = "copied"
  /\ target' = IF target = "part" THEN "changed" ELSE "part"
  /\ IF Allowed("post_check") THEN Moves("post_check") /\ Go("runner", "checking")
     ELSE Go("runner", "ended") /\ UNCHANGED run
  /\ UNCHANGED <<job, tree, archive, content, row, old, mine, gaps, count>>

PostCheckPasses ==
  /\ pc["runner"] = "checking"
  /\ IF Allowed("completed") THEN Moves("completed") ELSE UNCHANGED run
  /\ Go("runner", "ended")
  /\ UNCHANGED <<job, disk, mine, gaps, count>>

\* An error while applying, or a post-check that fails: the snapshot is restored.
ApplyFails ==
  /\ pc["runner"] \in {"copying", "copied", "checking"} /\ Count("errors", MaxErrors)
  /\ IF run.status \in {"applying", "post_check"}
     THEN Takes("runner", {run.snapshot}, "undo") /\ Go("runner", "wiping")
     ELSE Go("runner", "ended") /\ UNCHANGED mine
  /\ UNCHANGED <<run, job, disk, gaps>>

FinalizeJob ==
  /\ pc["runner"] = "ended"
  /\ job' = IF job = "running" THEN "none" ELSE job
  /\ Go("runner", "idle")
  /\ UNCHANGED <<run, disk, mine, gaps, count>>

-----------------------------------------------------------------------------
(* Restoring a snapshot.                                                   *)

Idle(c) == c \in Clients /\ Go(c, "idle") /\ Drops(c)

\* rollback_run, and the endpoint that restores a snapshot.
Rollback(c) ==
  /\ Request(c, "rollback")
  /\ run.status \in {"completed", "failed", "rolled_back"} /\ run.snapshot # NoSnap
  /\ Takes(c, {run.snapshot}, "rollback")
  /\ Go(c, "wiping")
  /\ UNCHANGED <<run, job, disk, gaps>>

RestoreRequested(c) ==
  /\ Request(c, "restore") /\ ~Active
  /\ \E s \in Snaps : row[s] # "none" /\ Takes(c, {s}, "restore")
  /\ Go(c, "wiping")
  /\ UNCHANGED <<run, job, disk, gaps>>

\* The run's row after a restore that succeeded, or raised.  Only the one at the
\* start of the service does not validate the move.
Restored(a, worked) ==
  CASE ~worked /\ a = "boot"   -> [run EXCEPT !.interrupted = FALSE]
    [] ~worked /\ a = "runner" /\ Allowed("failed") -> [run EXCEPT !.status = "failed"]
    [] worked /\ mine[a].why # "restore" /\ (a = "boot" \/ Allowed("rolled_back"))
         -> [run EXCEPT !.status = "rolled_back", !.interrupted = FALSE]
    [] OTHER -> run

\* What an actor does after a restore.
AfterRestore(a) ==
  /\ Go(a, CASE a = "runner" -> "ended" [] a = "boot" -> "cleaning" [] OTHER -> "idle")
  /\ Drops(a)

\* Others that write the target.
Crossing(a) ==
  \E b \in Actors \ {a} : pc[b] \in {"copying", "copied", "refilling"}

\* The archive is unpacked beside the target; then the target is emptied ...
Wipe(a) ==
  /\ pc[a] = "wiping"
  /\ LET s == InHand(a)
     IN IF row[s] # "none" /\ archive[s] = "ready"
        THEN /\ target' = "wiped"
             /\ Go(a, "refilling")
             /\ gaps' = gaps \cup (IF Crossing(a) THEN {"crossed"} ELSE {})
             /\ UNCHANGED <<run, mine>>
        ELSE /\ run' = Restored(a, FALSE)
             /\ AfterRestore(a)
             /\ UNCHANGED <<target, gaps>>
  /\ UNCHANGED <<job, tree, archive, content, row, old, count>>

\* ... and filled again.
Refill(a) ==
  /\ pc[a] = "refilling"
  /\ target' = IF target = "wiped" THEN content[InHand(a)] ELSE "part"
  /\ \E worked \in {TRUE, target = "wiped"} : run' = Restored(a, worked)
  /\ AfterRestore(a)
  /\ UNCHANGED <<job, tree, archive, content, row, old, gaps, count>>

RefillFails(a) ==
  /\ pc[a] = "refilling" /\ Count("errors", MaxErrors)
  /\ target' = "part"
  /\ run' = Restored(a, FALSE)
  /\ AfterRestore(a)
  /\ gaps' = gaps \cup {"cut"}
  /\ UNCHANGED <<job, tree, archive, content, row, old>>

-----------------------------------------------------------------------------
(* Deleting snapshots: the file first, then the mark on the row.           *)

\* Mutant: whatever the run that uses it is doing.
ProtectsNothing(s) == FALSE

\* An active run protects the snapshot it would be rolled back to.
Protects(s) == Active /\ run.snapshot = s

DeleteRequested(c) ==
  /\ Request(c, "delete")
  /\ \E s \in Snaps : row[s] # "none" /\ ~Protects(s) /\ Takes(c, {s}, "delete")
  /\ Go(c, "unlinking")
  /\ UNCHANGED <<run, job, disk, gaps>>

\* The tracked snapshots past the retention.
Expired == {s \in Snaps : row[s] = "ready" /\ s \in old /\ ~Protects(s)}

CleanupSnapshots(c) ==
  /\ Request(c, "cleanup") /\ Expired # {}
  /\ Takes(c, Expired, "delete")
  /\ Go(c, "unlinking")
  /\ UNCHANGED <<run, job, disk, gaps>>

\* storage_report first reads the rows; what has none is an orphan ...
FindOrphans(c) ==
  /\ Request(c, "orphans")
  /\ Takes(c, {s \in Snaps : row[s] # "ready"}, "orphans")
  /\ Go(c, "listing")
  /\ UNCHANGED <<run, job, disk, gaps>>

\* Mutant: without the grace.
OrphansAnyAge(c) == {s \in mine[c].snaps : archive[s] = "ready"}

\* ... if its archive is there and older than the grace.
Orphans(c) == {s \in mine[c].snaps : archive[s] = "ready" /\ s \in old}

CleanupOrphans(c) ==
  /\ pc[c] = "listing"
  /\ IF Orphans(c) = {} THEN Idle(c)
     ELSE Takes(c, Orphans(c), "orphans") /\ Go(c, "unlinking")
  /\ UNCHANGED <<run, job, disk, gaps, count>>

\* The next of the snapshots in hand, if there is one.
OneLess(c) ==
  IF mine[c].snaps = {InHand(c)} THEN Idle(c)
  ELSE Takes(c, mine[c].snaps \ {InHand(c)}, mine[c].why) /\ Go(c, "unlinking")

Unlink(c) ==
  /\ pc[c] = "unlinking"
  /\ archive' = [archive EXCEPT ![InHand(c)] = "none"]
  /\ old' = old \ {InHand(c)}
  /\ IF mine[c].why = "orphans" THEN OneLess(c) ELSE Go(c, "marking") /\ UNCHANGED mine
  /\ UNCHANGED <<run, job, tree, target, content, row, gaps, count>>

Mark(c) ==
  /\ pc[c] = "marking"
  /\ row' = [row EXCEPT ![InHand(c)] =
                IF mine[c].why = "discard" THEN "none" ELSE "deleted"]
  /\ OneLess(c)
  /\ UNCHANGED <<run, job, tree, target, archive, content, old, gaps, count>>

-----------------------------------------------------------------------------
(* Ages, the sweeper of job trees, and a restart.                          *)

\* A request is far shorter than the grace of a tree or of an archive.
Quiet == \A c \in Clients : pc[c] = "idle"

TreeAges ==
  /\ Quiet /\ tree = "young"
  /\ tree' = "old"
  /\ UNCHANGED <<run, job, target, archive, content, row, old, pc, mine, gaps, count>>

SnapAges ==
  /\ Quiet
  /\ \E s \in Snaps \ old : archive[s] # "none" /\ old' = old \cup {s}
  /\ UNCHANGED <<run, job, tree, target, archive, content, row, pc, mine, gaps, count>>

\* Mutant: a cancelled run's handler is not waited for.
UselessThoughBusy == \/ run.status = "none" /\ tree = "old"
                     \/ run.status \in SweepableRunStates /\ tree # "none"

\* A tree nobody can need again: its run is gone, or over with no job left.
Useless ==
  \/ run.status = "none" /\ tree = "old"
  \/ run.status \in SweepableRunStates /\ job = "none" /\ tree # "none"

\* Mutant: trees without a row are left.
SweepCheckWithRow ==
  /\ pc["sweeper"] = "idle" /\ Useless /\ run.status # "none"
  /\ Go("sweeper", "removing")
  /\ UNCHANGED <<run, job, disk, mine, gaps, count>>

SweepCheck ==
  /\ pc["sweeper"] = "idle" /\ Useless
  /\ Go("sweeper", "removing")
  /\ UNCHANGED <<run, job, disk, mine, gaps, count>>

SweepRemove ==
  /\ pc["sweeper"] = "removing"
  /\ tree' = "none"
  /\ Go("sweeper", "idle")
  /\ UNCHANGED <<run, job, target, archive, content, row, old, mine, gaps, count>>

\* What a crash leaves for nobody to repair: a restore somebody asked for, a
\* deletion between its two steps, or the runner's restore of a run that an
\* overlapping rollback has already called rolled back.
Cut ==
  \/ \E c \in Clients : pc[c] \in {"refilling", "marking"}
  \/ pc["runner"] = "refilling" /\ run.status \notin {"applying", "post_check"}

\* The process dies, and init_db repairs the tables.  A run that was applying
\* has failed; an earlier error of its row may hide why (see RunLifecycle), and
\* then nothing is restored and its job is run again.
Restart ==
  /\ Count("restarts", MaxRestarts)
  /\ \E seen \in BOOLEAN :
       LET hit == run.status \in {"applying", "post_check"} IN
       /\ ~hit => seen
       /\ run' = IF hit THEN [run EXCEPT !.status = "failed", !.interrupted = seen] ELSE run
       /\ job' = IF job = "none" \/ run'.interrupted THEN "none" ELSE "pending"
       /\ gaps' = gaps \cup (IF Cut \/ ~seen THEN {"cut"} ELSE {})
  /\ pc' = [a \in Actors |-> IF a = "boot" THEN "recovering" ELSE "idle"]
  /\ mine' = [a \in Actors |-> Nothing]
  /\ UNCHANGED disk

\* Mutant: a restart does not look for an interrupted apply.
RecoverNothing ==
  /\ pc["boot"] = "recovering"
  /\ Go("boot", "cleaning")
  /\ UNCHANGED <<run, job, disk, mine, gaps, count>>

\* The interrupted run is restored from its snapshot.
Recover ==
  /\ pc["boot"] = "recovering"
  /\ IF run.status = "failed" /\ run.interrupted /\ run.snapshot # NoSnap
     THEN Takes("boot", {run.snapshot}, "recover") /\ Go("boot", "wiping")
     ELSE Go("boot", "cleaning") /\ UNCHANGED mine
  /\ UNCHANGED <<run, job, disk, gaps, count>>

\* The three cleanups, before any request is served.
BootCleanup ==
  /\ pc["boot"] = "cleaning"
  /\ archive' = [s \in Snaps |-> IF s \in Expired \/ (s \in old /\ archive[s] = "partial")
                                 THEN "none" ELSE archive[s]]
  /\ row' = [s \in Snaps |-> IF s \in Expired THEN "deleted" ELSE row[s]]
  /\ tree' = IF Useless THEN "none" ELSE tree
  /\ Go("boot", "idle")
  /\ UNCHANGED <<run, job, target, content, old, mine, gaps, count>>

-----------------------------------------------------------------------------
Boot == Recover \/ Wipe("boot") \/ Refill("boot") \/ RefillFails("boot") \/ BootCleanup

\* The next step of a request that has begun.
Continue(c) ==
  \/ InsertRun(c) \/ PublishSnapshot(c) \/ RecordSnapshot(c) \/ SnapshotFails(c)
  \/ Approve(c) \/ ApproveFails(c) \/ Wipe(c) \/ Refill(c) \/ RefillFails(c)
  \/ CleanupOrphans(c) \/ Unlink(c) \/ Mark(c)

Begin(c) ==
  \/ StageRun(c) \/ BeginSnapshot(c, "approve") \/ BeginSnapshot(c, "save")
  \/ CancelRun(c) \/ ResumeRun(c) \/ Rollback(c) \/ RestoreRequested(c)
  \/ DeleteRequested(c) \/ CleanupSnapshots(c) \/ FindOrphans(c)

Runner ==
  \/ Claim \/ EndPlanning \/ EndWork \/ ApplyFirst \/ ApplyLast \/ PostCheckPasses
  \/ ApplyFails \/ Wipe("runner") \/ Refill("runner") \/ RefillFails("runner")
  \/ FinalizeJob

Sweeper == SweepCheck \/ SweepRemove

\* Nothing is served before lifespan has yielded.
Serving == pc["boot"] = "idle"

Next ==
  \/ Serving /\ ((\E c \in Clients : Begin(c) \/ Continue(c)) \/ Runner \/ Sweeper)
  \/ Boot \/ TreeAges \/ SnapAges \/ Restart

Spec == Init /\ [][Next]_vars

\* Threads that run go on; time passes; a restart is bounded and comes back up.
FairSpec ==
  /\ Spec
  /\ WF_vars(Serving /\ Runner) /\ WF_vars(Serving /\ Sweeper)
  /\ WF_vars(Boot) /\ WF_vars(TreeAges)
  /\ \A c \in Clients : WF_vars(Serving /\ Continue(c))

-----------------------------------------------------------------------------
(* Properties.  The windows the code leaves open are named in gaps:        *)
(*   revived    an approval commits on a run cancelled since it was checked *)
(*   unguarded  a run becomes active with a snapshot that is deleted, or    *)
(*              that a deletion has already decided to unlink               *)
(*   cut        a restore or a deletion nobody repeats stopped half-way, or *)
(*              an interrupted apply was not recognised                     *)
(*   crossed    the target was read or emptied while another was writing it *)

\* Every variable has a value of its kind; what an actor has in hand are
\* snapshots, also when it takes them from the run's row.
TypeOK ==
  /\ run \in [status : RunStatuses \cup {"none"}, snapshot : Snaps \cup {NoSnap},
              baseline : {"base", "changed"} \cup Halves, interrupted : BOOLEAN]
  /\ job \in {"none", "pending", "running"}
  /\ tree \in {"none", "young", "old"}
  /\ target \in {"base", "changed"} \cup Halves
  /\ archive \in [Snaps -> {"none", "partial", "ready"}]
  /\ content \in [Snaps -> {"base", "changed"} \cup Halves]
  /\ row \in [Snaps -> {"none", "ready", "deleted"}]
  /\ old \subseteq Snaps
  /\ pc \in [Actors -> Steps]
  /\ mine \in [Actors -> [snaps : SUBSET Snaps, why : Reasons]]
  /\ gaps \subseteq {"revived", "unguarded", "cut", "crossed"}

\* The tree is there while the run can still need it: while it is active, while
\* it can be resumed, and while a handler of a run that is already over works in it.
WorkKeepsTree ==
  "revived" \notin gaps =>
    (Active \/ run.status = "failed" \/ pc["runner"] \in {"planning", "working"}
       => tree # "none")

\* A run that may write its target can be undone: the snapshot it would be
\* restored from is there, with its row, whatever is deleted or expires.
ActiveKeepsSnapshot ==
  "unguarded" \notin gaps =>
    (Active /\ run.snapshot # NoSnap
       => archive[run.snapshot] = "ready" /\ row[run.snapshot] = "ready")

\* A row that promises an archive has one, unless a deletion is between its steps.
TrackedIsPresent ==
  \A s \in Snaps :
    row[s] = "ready" /\ archive[s] # "ready"
      => "cut" \in gaps \/ \E c \in Clients : pc[c] = "marking" /\ s \in mine[c].snaps

\* Between two operations the target is whole: an apply that failed, or that a
\* restart interrupted, has been undone before anything else can run.
NothingHalfRestored ==
  Serving /\ gaps = {} /\ target \in Halves
    => \E a \in Actors : pc[a] \in {"copied", "wiping", "refilling"}

\* The disk does not fill with trees: one that is useless is reclaimed (unless
\* an approval revives its run).
TreeReclaimed == Useless ~> ~Useless
=============================================================================
