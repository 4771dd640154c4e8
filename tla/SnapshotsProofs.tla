--------------------------- MODULE SnapshotsProofs ---------------------------
(***************************************************************************)
(* What holds of the disk of a run (Snapshots) for any sets of clients and *)
(* snapshots and any number of requests, errors and restarts.  The         *)
(* invariants are proved in layers, each using those before it:            *)
(*   Control  who may be at which step, with what in hand                  *)
(*   Storage  archives and their rows, and who makes or deletes which      *)
(*   Guarded  the snapshot of the run                                      *)
(*   Trees    the working tree and its sweeper                             *)
(*   Target   what the target directory holds                              *)
(***************************************************************************)
EXTENDS Snapshots, TLAPS

-----------------------------------------------------------------------------
(* Control.                                                                *)

ClientSteps == {"idle", "staged", "archiving", "published", "recorded", "listing",
                "unlinking", "marking", "wiping", "refilling"}
RunnerSteps == {"idle", "planning", "working", "copying", "copied", "checking", "wiping",
                "refilling", "ended"}
BootSteps == {"idle", "recovering", "wiping", "refilling", "cleaning"}

\* The steps at which an actor has a snapshot in hand.
Holding == {"archiving", "published", "recorded", "listing", "unlinking", "marking",
            "wiping", "refilling"}

\* The statuses this abstraction of a run takes.
SnapStatuses == {"researching", "awaiting_approval", "implementing", "applying",
                 "post_check", "completed", "failed", "cancelled", "rolled_back"}

Placed ==
  /\ \A c \in Clients : pc[c] \in ClientSteps
  /\ pc["runner"] \in RunnerSteps
  /\ pc["sweeper"] \in {"idle", "removing"}
  /\ pc["boot"] \in BootSteps

\* What an actor has in hand fits the step it is at.
HandFits(step, hand) ==
  /\ step \notin Holding => hand = Nothing
  /\ step \in {"archiving", "published", "recorded", "wiping", "refilling"}
       => \E s \in Snaps : hand.snaps = {s}
  /\ step \in {"archiving", "published"} => hand.why \in {"approve", "save"}
  /\ step = "recorded" => hand.why = "approve"
  /\ step = "listing" => hand.why = "orphans"
  /\ step = "unlinking" => hand.why \in {"delete", "orphans", "discard"}
  /\ step = "marking" => hand.why \in {"delete", "discard"}
  /\ step \in {"unlinking", "marking"} => hand.snaps # {}
  /\ step \in {"wiping", "refilling"} => hand.why \in {"restore", "rollback", "undo", "recover"}
  /\ hand.why = "discard" => \E s \in Snaps : hand.snaps = {s}

Shaped == \A a \in Actors : HandFits(pc[a], mine[a])

\* Nobody is served while the service starts.
BootAlone == pc["boot"] # "idle" => \A a \in Actors \ {"boot"} : pc[a] = "idle"

\* A run that may be applied has a snapshot.
Backed == run.status \in {"implementing", "applying", "post_check"} => run.snapshot # NoSnap

\* Before its row is inserted a run has neither job nor snapshot; the handler
\* works on a job that is running.
Inserted ==
  /\ run.status \in SnapStatuses \cup {"none"}
  /\ run.status = "none" => job = "none" /\ run.snapshot = NoSnap
  /\ pc["runner"] # "idle" => job = "running"
  /\ \A a \in Actors :
       mine[a].why \in {"approve", "rollback", "undo", "recover"} => run.status # "none"

\* A request that has staged its tree is the only one, and nobody sweeps it.
Staging ==
  /\ \A c \in Clients : pc[c] = "staged" =>
       run.status = "none" /\ tree = "young" /\ \A d \in Clients \ {c} : pc[d] # "staged"
  /\ pc["sweeper"] = "removing" /\ run.status = "none" => tree = "old"

Control == TypeOK /\ Placed /\ Shaped /\ BootAlone /\ Backed /\ Inserted /\ Staging

-----------------------------------------------------------------------------
(* Storage.                                                                *)

\* A client that makes a snapshot, or discards the one it made.
Owns(c) == mine[c].why \in {"approve", "save", "discard"}

\* A client that makes, marks or unlinks what it has in hand.
Handling == {"archiving", "published", "recorded", "unlinking", "marking"}

Owned ==
  \A c, d \in Clients : c # d /\ Owns(c) /\ Owns(d) => mine[c].snaps \cap mine[d].snaps = {}

\* A snapshot in the making has no row, is young, and nobody else touches it.
Making ==
  \A c \in Clients, s \in Snaps :
    pc[c] \in {"archiving", "published"} /\ s \in mine[c].snaps =>
      /\ row[s] = "none" /\ s \notin old
      /\ pc[c] = "published" => archive[s] = "ready"
      /\ \A d \in Clients \ {c} : pc[d] \in Handling => s \notin mine[d].snaps

\* One that has been made has a row until it is discarded.
Recorded ==
  \A c \in Clients, s \in Snaps :
    (pc[c] = "recorded" \/ mine[c].why = "discard") /\ s \in mine[c].snaps => row[s] # "none"

\* Orphans are not tracked: an old one of the list has not become so since.
Orphaned ==
  \A c \in Clients, s \in Snaps :
    mine[c].why = "orphans" /\ s \in mine[c].snaps =>
      /\ pc[c] = "unlinking" => row[s] # "ready"
      /\ s \in old => row[s] # "ready"

\* A row is marked after its archive is gone.
Deleted ==
  /\ \A s \in Snaps : row[s] = "deleted" => archive[s] # "ready"
  /\ \A c \in Clients : pc[c] = "marking" => archive[InHand(c)] # "ready"

\* The excuse of TrackedIsPresent is the very snapshot to be marked next.
Tracked ==
  \A s \in Snaps :
    row[s] = "ready" /\ archive[s] # "ready"
      => "cut" \in gaps \/ \E c \in Clients : pc[c] = "marking" /\ s = InHand(c)

Storage == Owned /\ Making /\ Recorded /\ Orphaned /\ Deleted /\ Tracked

-----------------------------------------------------------------------------
(* Guarded.                                                                *)

\* The run's snapshot has a row, and nobody makes or discards it.
Attached ==
  run.snapshot # NoSnap =>
    /\ row[run.snapshot] # "none"
    /\ \A c \in Clients : Owns(c) => run.snapshot \notin mine[c].snaps

\* While the run is active nobody deletes it either.
Safe ==
  "unguarded" \notin gaps /\ Active /\ run.snapshot # NoSnap =>
    ~Doomed(run.snapshot) /\ row[run.snapshot] = "ready"

Guarded == Attached /\ Safe

-----------------------------------------------------------------------------
(* Trees.                                                                  *)

\* An approval under way: the run still waits for it, or has been cancelled.
Approving ==
  /\ \A c \in Clients : mine[c].why = "approve" =>
       run.status \in {"awaiting_approval", "cancelled"}
  /\ \A c, d \in Clients : mine[c].why = "approve" /\ mine[d].why = "approve" => c = d

\* What the sweeper removes stays useless until it has removed it.
Sweeping ==
  pc["sweeper"] = "removing" /\ "revived" \notin gaps =>
    run.status = "none" \/ (run.status \in SweepableRunStates /\ job = "none")

Trees == Approving /\ Sweeping /\ WorkKeepsTree

-----------------------------------------------------------------------------
(* Target.                                                                 *)

\* No archive holds half a target, and no approved run started from one.
WholeCopies ==
  /\ \A s \in Snaps : content[s] \notin Halves
  /\ run.snapshot # NoSnap \/ (\E c \in Clients : mine[c].why = "approve")
       => run.baseline \notin Halves

\* One actor at a time writes the target.
OneWriter ==
  /\ \A a \in Actors : pc[a] = "refilling" =>
       /\ target = "wiped"
       /\ pc["runner"] \notin {"copying", "copied"}
       /\ \A b \in Actors : pc[b] = "refilling" => a = b
  /\ pc["runner"] \in {"copying", "copied"} => run.status = "applying"
  /\ pc["runner"] = "copied" => target = "part"

\* The service starts by undoing an interrupted apply, which it can.
Repairing ==
  /\ pc["boot"] \in {"wiping", "refilling"} =>
       /\ run.status = "failed" /\ run.interrupted /\ run.snapshot # NoSnap
       /\ mine["boot"].snaps = {run.snapshot}
  /\ pc["boot"] \in {"recovering", "wiping", "refilling"} /\ target \in Halves =>
       /\ run.status = "failed" /\ run.interrupted /\ run.snapshot # NoSnap
       /\ archive[run.snapshot] = "ready" /\ row[run.snapshot] = "ready"

\* Half a target is in the hands of somebody who will finish it.
HalfInHand ==
  /\ pc["boot"] = "cleaning" => target \notin Halves
  /\ Serving /\ target = "wiped" => \E a \in Actors : pc[a] = "refilling"
  /\ Serving /\ target = "part" =>
       \/ pc["runner"] = "copied"
       \/ /\ pc["runner"] = "wiping" /\ run.status \in {"applying", "post_check"}
          /\ mine["runner"].snaps = {run.snapshot}

Target == gaps = {} => WholeCopies /\ OneWriter /\ Repairing /\ HalfInHand

-----------------------------------------------------------------------------
(* Lemmas about the pieces every step is made of.                          *)

RunRows == [status : RunStatuses \cup {"none"}, snapshot : Snaps \cup {NoSnap},
            baseline : {"base", "changed"} \cup Halves, interrupted : BOOLEAN]
Hands == [snaps : SUBSET Snaps, why : Reasons]

RunTyped ==
  /\ run \in RunRows /\ job \in {"none", "pending", "running"}
  /\ gaps \subseteq {"revived", "unguarded", "cut", "crossed"}

DiskTyped ==
  /\ tree \in {"none", "young", "old"}
  /\ target \in {"base", "changed"} \cup Halves
  /\ archive \in [Snaps -> {"none", "partial", "ready"}]
  /\ content \in [Snaps -> {"base", "changed"} \cup Halves]
  /\ row \in [Snaps -> {"none", "ready", "deleted"}]
  /\ old \subseteq Snaps

ActorsTyped == pc \in [Actors -> Steps] /\ mine \in [Actors -> Hands]

LEMMA TypeParts == TypeOK <=> RunTyped /\ DiskTyped /\ ActorsTyped
  BY DEF TypeOK, RunTyped, DiskTyped, ActorsTyped, RunRows, Hands

StepsOf(a) ==
  IF a \in Clients THEN ClientSteps
  ELSE [runner |-> RunnerSteps, sweeper |-> {"idle", "removing"}, boot |-> BootSteps][a]

\* The three service threads are no clients.
LEMMA Names ==
  ASSUME SnapshotAssumption
  PROVE  /\ \A c \in Clients : c # "runner" /\ c # "sweeper" /\ c # "boot" /\ c \in Actors
         /\ {"runner", "sweeper", "boot"} \subseteq Actors
         /\ \A a \in Actors : a \in Clients \/ a \in {"runner", "sweeper", "boot"}
  BY DEF SnapshotAssumption, Actors

\* The statuses of this abstraction, and where the table lets them move.
LEMMA StatusTable ==
  ASSUME run.status \in SnapStatuses
  PROVE  /\ SnapStatuses \subseteq RunStatuses /\ "none" \notin SnapStatuses
         /\ Allowed("failed") => run.status \in {"researching", "implementing", "applying",
                                                 "post_check", "failed"}
         /\ Allowed("post_check") => run.status \in {"applying", "post_check"}
         /\ Allowed("completed") => run.status \in {"post_check", "completed"}
         /\ Allowed("rolled_back") => run.status \in {"applying", "post_check", "completed",
                                                      "failed", "rolled_back"}
  BY DEF Allowed, ValidTransition, AllowedTransitions, RunStatuses, SnapStatuses

\* One actor moves and takes, drops or keeps what it has in hand.
LEMMA Move ==
  ASSUME SnapshotAssumption, Control, NEW a \in Actors, NEW l, NEW h \in Hands,
         pc' = [pc EXCEPT ![a] = l], mine' = [mine EXCEPT ![a] = h],
         l \in StepsOf(a), HandFits(l, h), a = "boot" <=> pc["boot"] # "idle"
  PROVE  ActorsTyped' /\ Placed' /\ Shaped' /\ BootAlone'
<1>1. /\ pc \in [Actors -> Steps] /\ mine \in [Actors -> Hands]
      /\ StepsOf(a) \subseteq Steps
  <2>1. StepsOf(a) \in {ClientSteps, RunnerSteps, {"idle", "removing"}, BootSteps}
    BY Names DEF StepsOf
  <2>2. /\ ClientSteps \subseteq Steps /\ RunnerSteps \subseteq Steps /\ BootSteps \subseteq Steps
        /\ {"idle", "removing"} \subseteq Steps
    BY DEF Steps, RunnerSteps, BootSteps, ClientSteps
  <2> QED
    BY <2>1, <2>2 DEF Control, TypeOK, Hands
<1>2. ActorsTyped'
  BY <1>1 DEF ActorsTyped
<1>3. /\ pc'[a] = l /\ mine'[a] = h
      /\ \A b \in Actors : b # a => pc'[b] = pc[b] /\ mine'[b] = mine[b]
  BY <1>1
<1>4. Placed'
  <2>1. ASSUME NEW c \in Clients PROVE pc'[c] \in ClientSteps
    BY <1>3, Names DEF Control, Placed, StepsOf
  <2>2. /\ pc'["runner"] \in RunnerSteps /\ pc'["sweeper"] \in {"idle", "removing"}
        /\ pc'["boot"] \in BootSteps
    BY <1>3, Names DEF Control, Placed, StepsOf
  <2> QED
    BY <2>1, <2>2 DEF Placed
<1>5. Shaped'
  BY <1>3 DEF Control, Shaped
<1>6. BootAlone'
  BY <1>3, Names DEF Control, BootAlone
<1> QED
  BY <1>2, <1>4, <1>5, <1>6

LEMMA HandsTyped ==
  /\ Nothing \in Hands /\ Nothing.snaps = {} /\ Nothing.why = "none"
  /\ \A S \in SUBSET Snaps, w \in Reasons : [snaps |-> S, why |-> w] \in Hands
  BY DEF Hands, Nothing, Reasons

LEMMA InHandIsHeld ==
  ASSUME Control, NEW a \in Actors
  PROVE  /\ mine[a].snaps \subseteq Snaps /\ mine[a].why \in Reasons /\ mine[a] \in Hands
         /\ mine[a].snaps # {} => InHand(a) \in mine[a].snaps
         /\ \A s : mine[a].snaps = {s} => InHand(a) = s
         /\ pc[a] \in {"archiving", "published", "recorded", "wiping", "refilling"}
              => InHand(a) \in Snaps /\ mine[a].snaps = {InHand(a)}
<1>1. mine[a] \in Hands
  BY DEF Control, TypeOK, Hands
<1>2. mine[a].snaps \subseteq Snaps /\ mine[a].why \in Reasons
  BY <1>1 DEF Hands
<1>3. /\ mine[a].snaps # {} => InHand(a) \in mine[a].snaps
      /\ \A s : mine[a].snaps = {s} => InHand(a) = s
  BY DEF InHand
<1>4. ASSUME pc[a] \in {"archiving", "published", "recorded", "wiping", "refilling"}
      PROVE  InHand(a) \in Snaps /\ mine[a].snaps = {InHand(a)}
  BY <1>3, <1>4 DEF Control, Shaped, HandFits
<1> QED
  BY <1>1, <1>2, <1>3, <1>4

\* A step at which the actor keeps what it has in hand.
LEMMA Keep ==
  ASSUME SnapshotAssumption, Control, NEW a \in Actors, NEW l,
         Go(a, l), UNCHANGED mine, l \in StepsOf(a), HandFits(l, mine[a]),
         a = "boot" <=> pc["boot"] # "idle"
  PROVE  ActorsTyped' /\ Placed' /\ Shaped' /\ BootAlone'
<1>1. mine[a] \in Hands /\ mine' = [mine EXCEPT ![a] = mine[a]]
  BY DEF Control, TypeOK, Hands
<1> QED
  BY <1>1, Move DEF Go

\* One at which it has nothing in hand any more.
LEMMA Leave ==
  ASSUME SnapshotAssumption, Control, NEW a \in Actors, NEW l,
         Go(a, l), Drops(a), l \in StepsOf(a), l \notin Holding,
         a = "boot" <=> pc["boot"] # "idle"
  PROVE  ActorsTyped' /\ Placed' /\ Shaped' /\ BootAlone'
<1>1. Nothing \in Hands /\ HandFits(l, Nothing)
  BY HandsTyped DEF HandFits, Holding
<1> QED
  BY <1>1, Move DEF Go, Drops

\* The rest of Control, which is about the run and the disk.
Settled == RunTyped /\ DiskTyped /\ Backed /\ Inserted /\ Staging

LEMMA ControlParts ==
  /\ Control <=> ActorsTyped /\ Placed /\ Shaped /\ BootAlone /\ Settled
  /\ Control' <=> (ActorsTyped /\ Placed /\ Shaped /\ BootAlone /\ Settled)'
<1>1. Control <=> ActorsTyped /\ Placed /\ Shaped /\ BootAlone /\ Settled
  BY TypeParts DEF Control, Settled
<1>2. TypeOK' <=> RunTyped' /\ DiskTyped' /\ ActorsTyped'
  BY DEF TypeOK, RunTyped, DiskTyped, ActorsTyped, RunRows, Hands
<1> QED
  BY <1>1, <1>2 DEF Control, Settled
LEMMA RestoredRun ==
  ASSUME SnapshotAssumption, Control, NEW a \in Actors, pc[a] \in {"wiping", "refilling"},
         NEW worked \in BOOLEAN, NEW r, r = Restored(a, worked)
  PROVE  /\ r \in RunRows /\ r.snapshot = run.snapshot /\ r.baseline = run.baseline
         /\ r.status = run.status \/ (run.status # "none" /\ r.status \in {"failed", "rolled_back"})
         /\ a # "boot" =>
              \/ r = run
              \/ /\ ~worked /\ a = "runner" /\ r.status = "failed"
                 /\ run.status \in {"researching", "implementing", "applying", "post_check",
                                    "failed"}
              \/ /\ worked /\ r.status = "rolled_back"
                 /\ run.status \in {"applying", "post_check", "completed", "failed",
                                    "rolled_back"}
<1>1. run \in RunRows /\ run.status \in SnapStatuses \cup {"none"}
  BY DEF Control, TypeOK, RunRows, Inserted
<1>2. /\ "failed" \in RunStatuses /\ "rolled_back" \in RunStatuses
  BY DEF RunStatuses, AllowedTransitions
<1>3. a = "runner" => run.status # "none"
  BY DEF Control, Inserted
<1>4. mine[a].why # "restore" => run.status # "none"
  BY DEF Control, Inserted, Shaped, HandFits
<1>5. CASE a = "boot"
  <2>1. r = [run EXCEPT !.interrupted = FALSE] \/ r = run
          \/ (r = [run EXCEPT !.status = "rolled_back", !.interrupted = FALSE]
              /\ mine[a].why # "restore")
    BY <1>5 DEF Restored
  <2> QED
    BY <1>1, <1>2, <1>4, <1>5, <2>1 DEF RunRows
<1>6. CASE a # "boot"
  <2>1. \/ r = run
        \/ /\ ~worked /\ a = "runner" /\ Allowed("failed")
           /\ r = [run EXCEPT !.status = "failed"]
        \/ /\ worked /\ mine[a].why # "restore" /\ Allowed("rolled_back")
           /\ r = [run EXCEPT !.status = "rolled_back", !.interrupted = FALSE]
    BY <1>6 DEF Restored
  <2>2. CASE r = run
    BY <1>1, <2>2
  <2>3. CASE /\ ~worked /\ a = "runner" /\ Allowed("failed")
             /\ r = [run EXCEPT !.status = "failed"]
    BY <1>1, <1>2, <1>3, <2>3, StatusTable, <1>6 DEF RunRows
  <2>4. CASE /\ worked /\ mine[a].why # "restore" /\ Allowed("rolled_back")
             /\ r = [run EXCEPT !.status = "rolled_back", !.interrupted = FALSE]
    BY <1>1, <1>2, <1>4, <2>4, StatusTable, <1>6 DEF RunRows
  <2> QED
    BY <2>1, <2>2, <2>3, <2>4
<1> QED
  BY <1>5, <1>6

-----------------------------------------------------------------------------
(* Control is kept.                                                        *)

\* The settled part when neither the run nor the tree changes, nor who sweeps,
\* stages or works.
LEMMA SettledStays ==
  ASSUME SnapshotAssumption, Control, ActorsTyped', DiskTyped',
         UNCHANGED <<run, job, tree>>,
         gaps' \subseteq {"revived", "unguarded", "cut", "crossed"},
         pc'["runner"] = pc["runner"] \/ pc["runner"] # "idle" \/ pc'["runner"] = "idle",
         pc'["sweeper"] = pc["sweeper"],
         \A c \in Clients : pc'[c] = "staged" => pc[c] = "staged",
         \A a \in Actors : mine'[a].why \in {"approve", "rollback", "undo", "recover"}
                             => run.status # "none" \/ mine[a].why = mine'[a].why
  PROVE  Settled'
<1>1. RunTyped'
  BY DEF Control, TypeOK, RunTyped, RunRows
<1>2. Backed' /\ Inserted'
  BY DEF Control, Backed, Inserted
<1>3. Staging'
  BY DEF Control, Staging
<1> QED
  BY <1>1, <1>2, <1>3 DEF Settled

LEMMA ActorsStay ==
  ASSUME Control, UNCHANGED <<pc, mine>>
  PROVE  ActorsTyped' /\ Placed' /\ Shaped' /\ BootAlone'
  BY ControlParts DEF ActorsTyped, Placed, Shaped, BootAlone

LEMMA BeginKeepsControl ==
  ASSUME SnapshotAssumption, Control, Serving, NEW c \in Clients, Begin(c)
  PROVE  Control'
<1> USE DEF Request
<1>0. /\ c \in Actors /\ c # "boot" /\ c # "runner" /\ c # "sweeper"
      /\ StepsOf(c) = ClientSteps /\ pc["boot"] = "idle"
      /\ RunTyped /\ DiskTyped /\ pc \in [Actors -> Steps] /\ mine \in [Actors -> Hands]
  BY Names, TypeParts DEF StepsOf, Serving, Control, ActorsTyped
<1>1. CASE StageRun(c)
  <2>1. ActorsTyped' /\ Placed' /\ Shaped' /\ BootAlone'
    <3>1. pc[c] = "idle" /\ mine[c] = Nothing
      BY <1>0, <1>1 DEF StageRun, Control, Shaped, HandFits, Holding
    <3> QED
      BY <1>0, <1>1, <3>1, Keep, HandsTyped DEF StageRun, HandFits, Holding, ClientSteps
  <2>2. RunTyped' /\ DiskTyped' /\ Backed' /\ Inserted'
    BY <1>0, <1>1 DEF StageRun, RunTyped, DiskTyped, Control, Backed, Inserted, Go
  <2>3. Staging'
    BY <1>0, <1>1, Names DEF StageRun, Control, Staging, Go
  <2> QED
    BY <2>1, <2>2, <2>3, ControlParts DEF Settled
<1>2. ASSUME NEW why \in {"approve", "save"}, BeginSnapshot(c, why) PROVE Control'
  <2>1. PICK s \in Snaps : /\ archive' = [archive EXCEPT ![s] = "partial"]
                           /\ content' = [content EXCEPT ![s] = target]
                           /\ old' = old \ {s} /\ Takes(c, {s}, why)
    BY <1>2 DEF BeginSnapshot
  <2>2. ActorsTyped' /\ Placed' /\ Shaped' /\ BootAlone'
    <3>1. /\ [snaps |-> {s}, why |-> why] \in Hands
          /\ HandFits("archiving", [snaps |-> {s}, why |-> why])
          /\ "archiving" \in ClientSteps
      BY HandsTyped DEF HandFits, Holding, Reasons, ClientSteps
    <3> QED
      BY <1>0, <1>2, <2>1, <3>1, Move DEF BeginSnapshot, Go, Takes
  <2>3. DiskTyped' /\ gaps' \subseteq {"revived", "unguarded", "cut", "crossed"}
    BY <1>0, <1>2, <2>1 DEF BeginSnapshot, DiskTyped, RunTyped
  <2>4. /\ UNCHANGED <<run, job, tree>>
        /\ \A b \in Actors : b # c => pc'[b] = pc[b] /\ mine'[b] = mine[b]
        /\ pc'[c] = "archiving" /\ mine'[c].why = why
        /\ why = "approve" => run.status # "none"
    BY <1>0, <1>2, <2>1 DEF BeginSnapshot, Go, Takes
  <2>5. Settled'
    BY <1>0, <2>2, <2>3, <2>4, Names, SettledStays
  <2> QED
    BY <2>2, <2>5, ControlParts
<1>3. CASE CancelRun(c)
  <2>1. ActorsTyped' /\ Placed' /\ Shaped' /\ BootAlone'
    BY <1>3, ActorsStay DEF CancelRun
  <2>2. /\ run' = [run EXCEPT !.status = "cancelled"] /\ run.status # "none"
        /\ job' = IF job = "pending" THEN "none" ELSE job
        /\ UNCHANGED <<disk, pc, mine, gaps>>
    BY <1>3 DEF CancelRun, Moves
  <2>3. RunTyped' /\ DiskTyped' /\ run'.status = "cancelled"
    BY <1>0, <2>2 DEF disk, RunTyped, DiskTyped, RunRows, RunStatuses, AllowedTransitions
  <2>4. Backed' /\ Inserted' /\ Staging'
    BY <2>2, <2>3 DEF Control, Backed, Inserted, Staging, SnapStatuses
  <2> QED
    BY <2>1, <2>3, <2>4, ControlParts DEF Settled
<1>4. CASE ResumeRun(c)
  <2>1. ActorsTyped' /\ Placed' /\ Shaped' /\ BootAlone'
    BY <1>4, ActorsStay DEF ResumeRun
  <2>2. /\ run' \in RunRows /\ run'.status \in {"researching", "implementing"}
        /\ run'.status = "implementing" => run'.snapshot # NoSnap
        /\ run.status = "failed"
    BY <1>0, <1>4 DEF ResumeRun, RunTyped, DiskTyped, RunRows, RunStatuses, AllowedTransitions
  <2>3. /\ tree' \in {tree, "young"} /\ job' = IF job = "none" THEN "pending" ELSE job
        /\ UNCHANGED <<target, archive, content, row, old, pc, mine>>
        /\ gaps' \subseteq gaps \cup {"unguarded"}
    BY <1>4 DEF ResumeRun
  <2>4. RunTyped' /\ DiskTyped'
    BY <1>0, <2>2, <2>3 DEF RunTyped, DiskTyped
  <2>5. Backed' /\ Inserted' /\ Staging'
    BY <2>2, <2>3 DEF Control, Backed, Inserted, Staging, SnapStatuses
  <2> QED
    BY <2>1, <2>4, <2>5, ControlParts DEF Settled
<1>5. ASSUME NEW S \in SUBSET Snaps, NEW what \in {"rollback", "restore", "delete", "orphans"},
             NEW l \in {"wiping", "unlinking", "listing"},
             pc[c] = "idle", Takes(c, S, what), Go(c, l), UNCHANGED <<run, job, disk, gaps>>,
             what = "rollback" => run.status # "none",
             l = "wiping" => what \in {"rollback", "restore"} /\ \E s \in Snaps : S = {s},
             l = "unlinking" => what = "delete" /\ S # {},
             l = "listing" => what = "orphans"
      PROVE  Control'
  <2>1. /\ [snaps |-> S, why |-> what] \in Hands
        /\ HandFits(l, [snaps |-> S, why |-> what]) /\ l \in ClientSteps
    BY <1>5, HandsTyped DEF HandFits, Holding, Reasons, ClientSteps
  <2>2. ActorsTyped' /\ Placed' /\ Shaped' /\ BootAlone'
    BY <1>0, <1>5, <2>1, Move DEF Go, Takes
  <2>3. DiskTyped' /\ gaps' \subseteq {"revived", "unguarded", "cut", "crossed"} /\ UNCHANGED tree
    BY <1>0, <1>5 DEF DiskTyped, disk, RunTyped
  <2>4. /\ \A b \in Actors : b # c => pc'[b] = pc[b] /\ mine'[b] = mine[b]
        /\ pc'[c] = l /\ mine'[c].why = what
    BY <1>0, <1>5 DEF Go, Takes
  <2>5. Settled'
    BY <1>0, <1>5, <2>2, <2>3, <2>4, Names, SettledStays
  <2> QED
    BY <2>2, <2>5, ControlParts
<1>6. CASE Rollback(c)
  BY <1>0, <1>5, <1>6 DEF Rollback, RunTyped, RunRows
<1>7. CASE RestoreRequested(c)
  <2>1. PICK s \in Snaps : Takes(c, {s}, "restore")
    BY <1>7 DEF RestoreRequested
  <2> QED
    BY <1>5, <1>7, <2>1 DEF RestoreRequested
<1>8. CASE DeleteRequested(c)
  <2>1. PICK s \in Snaps : Takes(c, {s}, "delete")
    BY <1>8 DEF DeleteRequested
  <2> QED
    BY <1>5, <1>8, <2>1 DEF DeleteRequested
<1>9. CASE CleanupSnapshots(c)
  <2>1. Expired \subseteq Snaps
    BY DEF Expired
  <2> QED
    BY <1>5, <1>9, <2>1 DEF CleanupSnapshots
<1>10. CASE FindOrphans(c)
  <2>1. {s \in Snaps : row[s] # "ready"} \subseteq Snaps
    OBVIOUS
  <2> QED
    BY <1>5, <1>10, <2>1 DEF FindOrphans
<1> QED
  BY <1>1, <1>2, <1>3, <1>4, <1>6, <1>7, <1>8, <1>9, <1>10 DEF Begin

\* The settled part when the run moves, but neither its job nor its tree.
LEMMA SettledMoves ==
  ASSUME SnapshotAssumption, Control, ActorsTyped', DiskTyped',
         UNCHANGED <<job, tree>>, run' \in RunRows, run'.snapshot = run.snapshot,
         \/ run'.status = run.status
         \/ /\ run.status # "none" /\ run'.status \in SnapStatuses
            /\ run'.status \in {"applying", "post_check"} => run.snapshot # NoSnap
            /\ run'.status # "implementing",
         gaps' \subseteq {"revived", "unguarded", "cut", "crossed"},
         pc'["runner"] = pc["runner"] \/ pc["runner"] # "idle" \/ pc'["runner"] = "idle",
         pc'["sweeper"] = pc["sweeper"],
         \A c \in Clients : pc'[c] = "staged" => pc[c] = "staged",
         \A a \in Actors : mine'[a].why \in {"approve", "rollback", "undo", "recover"}
                             => run.status # "none" \/ mine[a].why = mine'[a].why
  PROVE  Settled'
<1>1. RunTyped'
  BY DEF Control, TypeOK, RunTyped
<1>2. Backed' /\ Inserted'
  BY DEF Control, Backed, Inserted, SnapStatuses
<1>3. Staging'
  BY DEF Control, Staging, SnapStatuses
<1> QED
  BY <1>1, <1>2, <1>3 DEF Settled

\* Emptying, refilling, or failing to.
LEMMA RestoreKeepsControl ==
  ASSUME SnapshotAssumption, Control, NEW a \in Actors, Wipe(a) \/ Refill(a) \/ RefillFails(a),
         a = "boot" \/ Serving
  PROVE  Control'
<1>0. /\ RunTyped /\ DiskTyped /\ pc \in [Actors -> Steps] /\ mine \in [Actors -> Hands]
      /\ pc[a] \in {"wiping", "refilling"} /\ (a = "boot" <=> pc["boot"] # "idle")
      /\ InHand(a) \in Snaps /\ UNCHANGED <<job, tree>>
  <2>1. pc[a] \in {"wiping", "refilling"} /\ UNCHANGED <<job, tree>>
    BY DEF Wipe, Refill, RefillFails
  <2>2. a = "boot" <=> pc["boot"] # "idle"
    BY <2>1 DEF Serving
  <2> QED
    BY <2>1, <2>2, ControlParts, InHandIsHeld DEF ActorsTyped, Settled
<1>1. a = "sweeper" => FALSE
  BY <1>0 DEF Control, Placed
<1>2. DiskTyped' /\ gaps' \subseteq {"revived", "unguarded", "cut", "crossed"}
  <2>1. /\ target' \in {target, "wiped", "part", content[InHand(a)]}
        /\ gaps' \subseteq gaps \cup {"crossed", "cut"}
        /\ UNCHANGED <<archive, content, row, old>>
    BY DEF Wipe, Refill, RefillFails
  <2> QED
    BY <1>0, <2>1 DEF DiskTyped, RunTyped, Halves
<1>3. CASE AfterRestore(a)
  <2>1. PICK l \in {"ended", "cleaning", "idle"} :
          /\ Go(a, l) /\ Drops(a) /\ l \in StepsOf(a)
          /\ l = IF a = "runner" THEN "ended" ELSE IF a = "boot" THEN "cleaning" ELSE "idle"
    BY <1>0, <1>1, <1>3, Names
       DEF AfterRestore, StepsOf, ClientSteps, RunnerSteps, BootSteps
  <2>2. ActorsTyped' /\ Placed' /\ Shaped' /\ BootAlone'
    BY <1>0, <2>1, Leave DEF Holding
  <2>3. run' \in RunRows /\ run'.snapshot = run.snapshot
        /\ \/ run'.status = run.status
           \/ run.status # "none" /\ run'.status \in {"failed", "rolled_back"}
    <3>1. \E w \in BOOLEAN : run' = Restored(a, w)
      BY <1>0, <1>3 DEF Wipe, Refill, RefillFails, AfterRestore, Go
    <3> QED
      BY <1>0, <3>1, RestoredRun
  <2>4. /\ \A b \in Actors : b # a => pc'[b] = pc[b] /\ mine'[b] = mine[b]
        /\ pc'[a] = l /\ mine'[a].why = "none" /\ pc'[a] # "staged"
    BY <1>0, <2>1, HandsTyped DEF Go, Drops
  <2>5. Settled'
    <3>1. pc'["runner"] = pc["runner"] \/ pc["runner"] # "idle"
      BY <1>0, <2>4, Names
    <3>2. \A c \in Clients : pc'[c] = "staged" => pc[c] = "staged"
      BY <2>4, Names
    <3>3. \A b \in Actors : mine'[b].why \in {"approve", "rollback", "undo", "recover"}
                              => mine[b].why = mine'[b].why
      BY <2>4
    <3>4. pc'["sweeper"] = pc["sweeper"]
      BY <1>1, <2>4, Names
    <3> QED
      BY <1>0, <1>2, <2>2, <2>3, <3>1, <3>2, <3>3, <3>4, SettledMoves DEF SnapStatuses
  <2> QED
    BY <2>2, <2>5, ControlParts
<1>4. CASE Go(a, "refilling") /\ UNCHANGED <<run, mine>>
  <2>1. HandFits("refilling", mine[a]) /\ "refilling" \in StepsOf(a)
    <3>1. HandFits(pc[a], mine[a])
      BY DEF Control, Shaped
    <3> QED
      BY <1>0, <1>1, <3>1, Names
         DEF HandFits, Holding, StepsOf, ClientSteps, RunnerSteps, BootSteps
  <2>2. ActorsTyped' /\ Placed' /\ Shaped' /\ BootAlone'
    BY <1>0, <1>4, <2>1, Keep
  <2>3. pc'[a] = "refilling" /\ \A b \in Actors : b # a => pc'[b] = pc[b]
    BY <1>0, <1>4 DEF Go
  <2>4. Settled'
    BY <1>0, <1>1, <1>2, <1>4, <2>2, <2>3, Names, SettledStays
  <2> QED
    BY <2>2, <2>4, ControlParts
<1> QED
  BY <1>3, <1>4 DEF Wipe, Refill, RefillFails

\* The next step of a request.
LEMMA ContinueKeepsControl ==
  ASSUME SnapshotAssumption, Control, Serving, NEW c \in Clients, Continue(c)
  PROVE  Control'
<1>0. /\ c \in Actors /\ c # "boot" /\ c # "runner" /\ c # "sweeper"
      /\ StepsOf(c) = ClientSteps /\ pc["boot"] = "idle"
      /\ RunTyped /\ DiskTyped /\ pc \in [Actors -> Steps] /\ mine \in [Actors -> Hands]
      /\ HandFits(pc[c], mine[c])
  BY Names, ControlParts DEF StepsOf, Serving, Control, ActorsTyped, Shaped, Settled
\* Steps that touch neither the run nor the tree.
<1>1. ASSUME NEW l \in ClientSteps \ {"staged"}, Go(c, l), UNCHANGED <<run, job, tree, gaps>>,
             DiskTyped',
             \/ UNCHANGED mine /\ HandFits(l, mine[c])
             \/ Drops(c) /\ l \notin Holding
             \/ \E S \in SUBSET Snaps, what \in Reasons \ {"approve", "rollback", "undo", "recover"} :
                  Takes(c, S, what) /\ HandFits(l, [snaps |-> S, why |-> what])
      PROVE  Control'
  <2>1. ActorsTyped' /\ Placed' /\ Shaped' /\ BootAlone'
    <3>1. CASE UNCHANGED mine /\ HandFits(l, mine[c])
      BY <1>0, <1>1, <3>1, Keep
    <3>2. CASE Drops(c) /\ l \notin Holding
      BY <1>0, <1>1, <3>2, Leave
    <3>3. ASSUME NEW S \in SUBSET Snaps, NEW what \in Reasons, Takes(c, S, what),
                 HandFits(l, [snaps |-> S, why |-> what])
          PROVE  ActorsTyped' /\ Placed' /\ Shaped' /\ BootAlone'
      BY <1>0, <1>1, <3>3, HandsTyped, Move DEF Go, Takes
    <3> QED
      BY <1>1, <3>1, <3>2, <3>3
  <2>2. /\ \A b \in Actors : b # c => pc'[b] = pc[b] /\ mine'[b] = mine[b]
        /\ pc'[c] = l
        /\ mine'[c].why \in {"approve", "rollback", "undo", "recover"}
             => mine'[c].why = mine[c].why
    <3>1. pc'[c] = l /\ \A b \in Actors : b # c => pc'[b] = pc[b]
      BY <1>0, <1>1 DEF Go
    <3>2. CASE UNCHANGED mine
      BY <3>1, <3>2
    <3>3. CASE Drops(c)
      BY <1>0, <3>1, <3>3, HandsTyped DEF Drops
    <3>4. ASSUME NEW S \in SUBSET Snaps,
                 NEW what \in Reasons \ {"approve", "rollback", "undo", "recover"},
                 Takes(c, S, what)
          PROVE  /\ \A b \in Actors : b # c => mine'[b] = mine[b]
                 /\ mine'[c].why = what
      BY <1>0, <3>4 DEF Takes
    <3> QED
      BY <1>1, <3>1, <3>2, <3>3, <3>4
  <2>3. Settled'
    BY <1>0, <1>1, <2>1, <2>2, Names, SettledStays DEF RunTyped
  <2> QED
    BY <2>1, <2>3, ControlParts
<1>2. CASE InsertRun(c)
  <2>1. pc[c] = "staged" /\ mine[c] = Nothing /\ run.status = "none" /\ tree = "young"
    BY <1>0, <1>2 DEF InsertRun, Control, Staging, HandFits, Holding
  <2>2. ActorsTyped' /\ Placed' /\ Shaped' /\ BootAlone'
    BY <1>0, <1>2, <2>1, Keep, HandsTyped DEF InsertRun, HandFits, Holding, ClientSteps
  <2>3. RunTyped' /\ DiskTyped' /\ run'.status = "researching" /\ job' = "pending"
    BY <1>0, <1>2 DEF InsertRun, RunTyped, DiskTyped, disk, RunRows, RunStatuses,
                      AllowedTransitions
  <2>4. /\ \A b \in Actors : b # c => pc'[b] = pc[b] /\ mine'[b] = mine[b]
        /\ pc'[c] = "idle" /\ pc["runner"] = "idle"
    BY <1>0, <1>2, <2>1 DEF InsertRun, Go, Control, Inserted
  <2>5. Backed' /\ Inserted' /\ Staging'
    BY <1>0, <2>1, <2>3, <2>4, Names DEF Control, Backed, Inserted, Staging, SnapStatuses
  <2> QED
    BY <2>2, <2>3, <2>5, ControlParts DEF Settled
<1>3. CASE PublishSnapshot(c)
  <2>1. DiskTyped'
    BY <1>0, <1>3 DEF PublishSnapshot, DiskTyped
  <2>2. HandFits("published", mine[c])
    BY <1>0, <1>3 DEF PublishSnapshot, HandFits, Holding
  <2> QED
    BY <1>1, <1>3, <2>1, <2>2 DEF PublishSnapshot, ClientSteps
<1>4. CASE RecordSnapshot(c)
  <2>1. DiskTyped'
    BY <1>0, <1>4 DEF RecordSnapshot, DiskTyped
  <2>2. mine[c].why = "approve" => HandFits("recorded", mine[c])
    BY <1>0, <1>4 DEF RecordSnapshot, HandFits, Holding
  <2> QED
    BY <1>1, <1>4, <2>1, <2>2 DEF RecordSnapshot, ClientSteps, Holding
<1>5. CASE SnapshotFails(c)
  <2>1. DiskTyped'
    BY <1>0, <1>5 DEF SnapshotFails, DiskTyped
  <2> QED
    BY <1>1, <1>5, <2>1 DEF SnapshotFails, ClientSteps, Holding
<1>6. CASE Approve(c)
  <2>1. InHand(c) \in Snaps /\ mine[c].why = "approve" /\ run.status # "none"
    BY <1>0, <1>6, InHandIsHeld DEF Approve, HandFits, Control, Inserted
  <2>2. ActorsTyped' /\ Placed' /\ Shaped' /\ BootAlone'
    BY <1>0, <1>6, Leave DEF Approve, Holding, ClientSteps
  <2>3. /\ run' = [run EXCEPT !.status = "implementing", !.snapshot = InHand(c)]
        /\ job' = IF job = "none" THEN "pending" ELSE job
        /\ UNCHANGED disk /\ gaps' \subseteq gaps \cup {"revived", "unguarded"}
        /\ Go(c, "idle") /\ Drops(c)
    BY <1>6 DEF Approve
  <2>4. RunTyped' /\ DiskTyped' /\ run'.status = "implementing" /\ run'.snapshot \in Snaps
    BY <1>0, <2>1, <2>3 DEF RunTyped, DiskTyped, disk, RunRows, RunStatuses,
                            AllowedTransitions
  <2>5. /\ \A b \in Actors : b # c => pc'[b] = pc[b] /\ mine'[b] = mine[b]
        /\ pc'[c] = "idle" /\ mine'[c] = Nothing
    BY <1>0, <2>3 DEF Go, Drops
  <2>6. Backed' /\ Inserted' /\ Staging'
    BY <1>0, <2>1, <2>3, <2>4, <2>5, Names
       DEF Control, Backed, Inserted, Staging, SnapStatuses, SnapshotAssumption
  <2> QED
    BY <2>2, <2>4, <2>6, ControlParts DEF Settled
<1>7. CASE ApproveFails(c)
  <2>1. DiskTyped' /\ UNCHANGED tree
    BY <1>0, <1>7 DEF ApproveFails, disk, DiskTyped
  <2>2. /\ mine[c].snaps \subseteq Snaps /\ "discard" \in Reasons
        /\ HandFits("unlinking", [snaps |-> mine[c].snaps, why |-> "discard"])
    BY <1>0, <1>7, InHandIsHeld DEF ApproveFails, HandFits, Holding, Reasons
  <2> QED
    BY <1>1, <1>7, <2>1, <2>2 DEF ApproveFails, ClientSteps
<1>8. CASE Wipe(c) \/ Refill(c) \/ RefillFails(c)
  BY <1>0, <1>8, RestoreKeepsControl
<1>9. CASE CleanupOrphans(c)
  <2>1. DiskTyped' /\ UNCHANGED tree
    BY <1>0, <1>9 DEF CleanupOrphans, disk, DiskTyped
  <2>2. CASE Orphans(c) = {}
    BY <1>1, <1>9, <2>1, <2>2 DEF CleanupOrphans, Idle, ClientSteps, Holding
  <2>3. CASE Orphans(c) # {}
    <3>1. /\ Orphans(c) \subseteq Snaps /\ "orphans" \in Reasons
          /\ HandFits("unlinking", [snaps |-> Orphans(c), why |-> "orphans"])
      BY <1>0, <2>3, InHandIsHeld DEF Orphans, HandFits, Holding, Reasons
    <3> QED
      BY <1>1, <1>9, <2>1, <2>3, <3>1 DEF CleanupOrphans, ClientSteps
  <2> QED
    BY <2>2, <2>3
<1>10. ASSUME OneLess(c), DiskTyped', UNCHANGED <<run, job, tree, gaps>>,
              pc[c] \in {"unlinking", "marking"}
       PROVE  Control'
  <2>1. CASE mine[c].snaps = {InHand(c)}
    BY <1>1, <1>10, <2>1 DEF OneLess, Idle, ClientSteps, Holding
  <2>2. CASE mine[c].snaps # {InHand(c)}
    <3>1. /\ mine[c].snaps \ {InHand(c)} \subseteq Snaps
          /\ mine[c].why \in {"delete", "orphans"}
      BY <1>0, <1>10, <2>2, InHandIsHeld DEF HandFits
    <3>2. HandFits("unlinking", [snaps |-> mine[c].snaps \ {InHand(c)}, why |-> mine[c].why])
      BY <1>0, <1>10, <2>2, <3>1, InHandIsHeld DEF HandFits, Holding
    <3> QED
      BY <1>1, <1>10, <2>2, <3>1, <3>2 DEF OneLess, ClientSteps, Reasons
  <2> QED
    BY <2>1, <2>2
<1>11. CASE Unlink(c)
  <2>1. DiskTyped'
    BY <1>0, <1>11 DEF Unlink, DiskTyped
  <2>2. CASE mine[c].why = "orphans"
    BY <1>10, <1>11, <2>1, <2>2 DEF Unlink
  <2>3. CASE mine[c].why # "orphans"
    <3>1. HandFits("marking", mine[c])
      BY <1>0, <1>11, <2>3 DEF Unlink, HandFits, Holding
    <3> QED
      BY <1>1, <1>11, <2>1, <2>3, <3>1 DEF Unlink, ClientSteps
  <2> QED
    BY <2>2, <2>3
<1>12. CASE Mark(c)
  <2>1. DiskTyped'
    BY <1>0, <1>12 DEF Mark, DiskTyped
  <2> QED
    BY <1>10, <1>12, <2>1 DEF Mark
<1> QED
  BY <1>2, <1>3, <1>4, <1>5, <1>6, <1>7, <1>8, <1>9, <1>11, <1>12 DEF Continue

\* The thread that runs the job.
LEMMA RunnerKeepsControl ==
  ASSUME SnapshotAssumption, Control, Serving, Runner
  PROVE  Control'
<1>0. /\ "runner" \in Actors /\ "runner" \notin Clients /\ StepsOf("runner") = RunnerSteps
      /\ pc["boot"] = "idle" /\ RunTyped /\ DiskTyped
      /\ pc \in [Actors -> Steps] /\ mine \in [Actors -> Hands]
      /\ HandFits(pc["runner"], mine["runner"])
      /\ run.status \in SnapStatuses \cup {"none"}
      /\ pc["runner"] # "idle" => run.status # "none" /\ run.status \in SnapStatuses
  BY Names, ControlParts
     DEF StepsOf, Serving, Control, ActorsTyped, Shaped, Settled, Inserted
\* It goes on from a step without a snapshot in hand to another, and may move the run.
<1>1. ASSUME NEW l \in RunnerSteps, Go("runner", l), UNCHANGED <<mine, gaps, tree, job>>,
             DiskTyped', pc["runner"] \notin Holding, l \notin Holding,
             pc["runner"] # "idle",
             \/ UNCHANGED run
             \/ \E st \in SnapStatuses \ {"implementing"} :
                  /\ Moves(st)
                  /\ st \in {"applying", "post_check"} => run.snapshot # NoSnap
      PROVE  Control'
  <2>1. HandFits(l, mine["runner"])
    BY <1>0, <1>1, HandsTyped DEF HandFits, Holding
  <2>2. ActorsTyped' /\ Placed' /\ Shaped' /\ BootAlone'
    BY <1>0, <1>1, <2>1, Keep
  <2>3. /\ run' \in RunRows /\ run'.snapshot = run.snapshot
        /\ \/ run'.status = run.status
           \/ /\ run'.status \in SnapStatuses \ {"implementing"}
              /\ run'.status \in {"applying", "post_check"} => run.snapshot # NoSnap
    <3>1. SnapStatuses \subseteq RunStatuses
      BY DEF SnapStatuses, RunStatuses, AllowedTransitions
    <3> QED
      BY <1>0, <1>1, <3>1 DEF Moves, RunTyped, RunRows
  <2>4. pc'["runner"] = l /\ \A b \in Actors : b # "runner" => pc'[b] = pc[b]
    BY <1>0, <1>1 DEF Go
  <2>5. Settled'
    BY <1>0, <1>1, <2>2, <2>3, <2>4, Names, SettledMoves DEF RunTyped
  <2> QED
    BY <2>2, <2>5, ControlParts
<1>2. ASSUME UNCHANGED disk PROVE DiskTyped' /\ UNCHANGED tree
  BY <1>0, <1>2 DEF disk, DiskTyped
<1>3. CASE Claim
  <2>1. mine["runner"] = Nothing /\ run.status # "none"
    BY <1>0, <1>3 DEF Claim, HandFits, Holding, Control, Inserted
  <2>2. PICK l \in {"planning", "working", "ended"} : Go("runner", l)
    BY <1>3 DEF Claim
  <2>3. ActorsTyped' /\ Placed' /\ Shaped' /\ BootAlone'
    BY <1>0, <1>3, <2>1, <2>2, Keep, HandsTyped DEF Claim, HandFits, Holding, RunnerSteps
  <2>4. pc'["runner"] = l /\ \A b \in Actors : b # "runner" => pc'[b] = pc[b]
    BY <1>0, <2>2 DEF Go
  <2>5. RunTyped' /\ Backed' /\ Inserted'
    BY <1>0, <1>3, <2>1, <2>4 DEF Claim, RunTyped, Control, Backed, Inserted
  <2>6. Staging'
    BY <1>2, <1>3, <2>4, Names DEF Claim, Control, Staging
  <2> QED
    BY <1>2, <1>3, <2>3, <2>5, <2>6, ControlParts DEF Settled, Claim
<1>4. CASE EndPlanning
  <2>1. \/ UNCHANGED run \/ Moves("awaiting_approval") \/ Moves("failed")
    BY <1>4 DEF EndPlanning
  <2> QED
    BY <1>1, <1>2, <1>4, <2>1 DEF EndPlanning, SnapStatuses, Holding, RunnerSteps
<1>5. CASE EndWork
  <2>1. /\ \/ UNCHANGED run \/ Moves("failed")
           \/ Moves("applying") /\ run.snapshot # NoSnap
        /\ \E l \in {"copying", "ended"} : Go("runner", l)
    BY <1>5 DEF EndWork, Control, Backed
  <2> QED
    BY <1>1, <1>2, <1>5, <2>1 DEF EndWork, SnapStatuses, Holding, RunnerSteps
<1>6. CASE ApplyFirst
  <2>1. DiskTyped' /\ UNCHANGED tree
    BY <1>0, <1>6 DEF ApplyFirst, DiskTyped, Halves
  <2> QED
    BY <1>1, <1>6, <2>1 DEF ApplyFirst, Holding, RunnerSteps
<1>7. CASE ApplyLast
  <2>1. DiskTyped' /\ UNCHANGED tree
    BY <1>0, <1>7 DEF ApplyLast, DiskTyped, Halves
  <2>2. \/ UNCHANGED run /\ Go("runner", "ended")
        \/ Moves("post_check") /\ run.snapshot # NoSnap /\ Go("runner", "checking")
    <3>1. Allowed("post_check") => run.snapshot # NoSnap
      BY <1>0, <1>7, StatusTable DEF ApplyLast, Control, Backed
    <3> QED
      BY <1>7, <3>1 DEF ApplyLast
  <2> QED
    BY <1>1, <1>7, <2>1, <2>2 DEF ApplyLast, SnapStatuses, Holding, RunnerSteps
<1>8. CASE PostCheckPasses
  <2>1. UNCHANGED run \/ Moves("completed")
    BY <1>8 DEF PostCheckPasses
  <2> QED
    BY <1>1, <1>2, <1>8, <2>1 DEF PostCheckPasses, SnapStatuses, Holding, RunnerSteps
<1>9. CASE ApplyFails
  <2>1. CASE UNCHANGED mine /\ Go("runner", "ended")
    BY <1>1, <1>2, <1>9, <2>1 DEF ApplyFails, Holding, RunnerSteps
  <2>2. CASE /\ run.status \in {"applying", "post_check"}
             /\ Takes("runner", {run.snapshot}, "undo") /\ Go("runner", "wiping")
    <3>1. run.snapshot \in Snaps
      BY <1>0, <2>2 DEF Control, Backed, RunTyped, RunRows
    <3>2. /\ [snaps |-> {run.snapshot}, why |-> "undo"] \in Hands
          /\ HandFits("wiping", [snaps |-> {run.snapshot}, why |-> "undo"])
      BY <3>1, HandsTyped DEF HandFits, Holding, Reasons
    <3>3. ActorsTyped' /\ Placed' /\ Shaped' /\ BootAlone'
      BY <1>0, <2>2, <3>2, Move DEF Go, Takes, RunnerSteps
    <3>4. /\ \A b \in Actors : b # "runner" => pc'[b] = pc[b] /\ mine'[b] = mine[b]
          /\ pc'["runner"] = "wiping" /\ run.status # "none" /\ pc["runner"] # "idle"
      BY <1>0, <1>9, <2>2 DEF Go, Takes, ApplyFails
    <3>5. Settled'
      BY <1>0, <1>2, <1>9, <3>3, <3>4, Names, SettledStays DEF ApplyFails, RunTyped
    <3> QED
      BY <3>3, <3>5, ControlParts
  <2> QED
    BY <1>9, <2>1, <2>2 DEF ApplyFails
<1>10. CASE Wipe("runner") \/ Refill("runner") \/ RefillFails("runner")
  BY <1>0, <1>10, RestoreKeepsControl
<1>11. CASE FinalizeJob
  <2>1. ActorsTyped' /\ Placed' /\ Shaped' /\ BootAlone'
    BY <1>0, <1>11, Keep, HandsTyped DEF FinalizeJob, HandFits, Holding, RunnerSteps
  <2>2. pc'["runner"] = "idle" /\ \A b \in Actors : b # "runner" => pc'[b] = pc[b]
    BY <1>0, <1>11 DEF Go, FinalizeJob
  <2>3. RunTyped' /\ Backed' /\ Inserted'
    BY <1>0, <1>11, <2>2 DEF FinalizeJob, RunTyped, Control, Backed, Inserted
  <2>4. Staging'
    BY <1>2, <1>11, <2>2, Names DEF FinalizeJob, Control, Staging
  <2> QED
    BY <1>2, <1>11, <2>1, <2>3, <2>4, ControlParts DEF Settled, FinalizeJob
<1> QED
  BY <1>3, <1>4, <1>5, <1>6, <1>7, <1>8, <1>9, <1>10, <1>11 DEF Runner

\* The sweeper, the passing of time, and what runs while the service starts.
LEMMA ServiceKeepsControl ==
  ASSUME SnapshotAssumption, Control,
         (Serving /\ Sweeper) \/ Boot \/ TreeAges \/ SnapAges \/ Restart
  PROVE  Control'
<1>0. /\ {"sweeper", "boot"} \subseteq Actors \ Clients /\ "runner" \in Actors
      /\ StepsOf("sweeper") = {"idle", "removing"} /\ StepsOf("boot") = BootSteps
      /\ RunTyped /\ DiskTyped
      /\ pc \in [Actors -> Steps] /\ mine \in [Actors -> Hands]
      /\ \A a \in Actors : HandFits(pc[a], mine[a])
  BY Names, ControlParts DEF StepsOf, Control, ActorsTyped, Shaped, Settled
<1>1. CASE Serving /\ SweepCheck
  <2>1. ActorsTyped' /\ Placed' /\ Shaped' /\ BootAlone'
    BY <1>0, <1>1, Keep, HandsTyped DEF SweepCheck, Serving, HandFits, Holding
  <2>2. /\ \A b \in Actors : b # "sweeper" => pc'[b] = pc[b]
        /\ UNCHANGED <<run, job, disk, mine, gaps>>
        /\ run.status = "none" => tree = "old"
    BY <1>0, <1>1 DEF SweepCheck, Go, Useless, SweepableRunStates, TerminalRunStates
  <2>3. RunTyped' /\ DiskTyped' /\ Backed' /\ Inserted'
    BY <1>0, <2>2, Names DEF disk, RunTyped, DiskTyped, Control, Backed, Inserted
  <2>4. Staging'
    BY <1>0, <2>2, Names DEF disk, Control, Staging
  <2> QED
    BY <2>1, <2>3, <2>4, ControlParts DEF Settled
<1>2. CASE Serving /\ SweepRemove
  <2>1. ActorsTyped' /\ Placed' /\ Shaped' /\ BootAlone'
    BY <1>0, <1>2, Keep, HandsTyped DEF SweepRemove, Serving, HandFits, Holding
  <2>2. /\ \A b \in Actors : b # "sweeper" => pc'[b] = pc[b]
        /\ pc["sweeper"] = "removing" /\ pc'["sweeper"] = "idle" /\ tree' = "none"
        /\ UNCHANGED <<run, job, target, archive, content, row, old, mine, gaps>>
    BY <1>0, <1>2 DEF SweepRemove, Go
  <2>3. RunTyped' /\ DiskTyped' /\ Backed' /\ Inserted'
    BY <1>0, <2>2, Names DEF RunTyped, DiskTyped, Control, Backed, Inserted
  <2>4. Staging'
    BY <1>0, <2>2, Names DEF Control, Staging
  <2> QED
    BY <2>1, <2>3, <2>4, ControlParts DEF Settled
<1>3. CASE TreeAges \/ SnapAges
  <2>1. ActorsTyped' /\ Placed' /\ Shaped' /\ BootAlone'
    BY <1>3, ActorsStay DEF TreeAges, SnapAges
  <2>2. /\ UNCHANGED <<run, job, target, archive, content, row, pc, mine, gaps>>
        /\ tree' \in {tree, "old"} /\ old' \subseteq old \cup Snaps
        /\ \A c \in Clients : pc[c] # "staged"
    BY <1>3 DEF TreeAges, SnapAges, Quiet
  <2>3. RunTyped' /\ DiskTyped' /\ Backed' /\ Inserted' /\ Staging'
    BY <1>0, <2>2 DEF RunTyped, DiskTyped, Control, Backed, Inserted, Staging
  <2> QED
    BY <2>1, <2>3, ControlParts DEF Settled
<1>4. CASE Restart
  <2>0. PICK seen \in BOOLEAN :
          LET hit == run.status \in {"applying", "post_check"} IN
          /\ run' = IF hit THEN [run EXCEPT !.status = "failed", !.interrupted = seen] ELSE run
          /\ job' = IF job = "none" \/ run'.interrupted THEN "none" ELSE "pending"
          /\ gaps' = gaps \cup (IF Cut \/ ~seen THEN {"cut"} ELSE {})
    BY <1>4 DEF Restart
  <2>1. /\ run'.snapshot = run.snapshot /\ run' \in RunRows
        /\ run'.status = run.status \/ (run.status # "none" /\ run'.status = "failed")
    BY <1>0, <2>0 DEF RunTyped, RunRows, RunStatuses, AllowedTransitions
  <2>5. job' \in {"none", "pending"} /\ (job = "none" => job' = "none")
    BY <2>0
  <2>6. /\ pc' = [a \in Actors |-> IF a = "boot" THEN "recovering" ELSE "idle"]
        /\ mine' = [a \in Actors |-> Nothing] /\ UNCHANGED disk
    BY <1>4 DEF Restart
  <2>2. ActorsTyped' /\ Placed' /\ Shaped' /\ BootAlone'
    <3>1. /\ pc'["boot"] = "recovering"
          /\ \A a \in Actors : a # "boot" => pc'[a] = "idle"
          /\ \A a \in Actors : mine'[a] = Nothing /\ pc'[a] \notin Holding /\ pc'[a] \in Steps
          /\ HandFits("idle", Nothing) /\ HandFits("recovering", Nothing)
      BY <1>0, <2>6, HandsTyped DEF HandFits, Holding, Steps
    <3>2. ActorsTyped' /\ Shaped' /\ BootAlone'
      BY <2>6, <3>1, HandsTyped DEF ActorsTyped, Shaped, BootAlone, Steps
    <3>3. Placed'
      BY <3>1, Names DEF Placed, ClientSteps, RunnerSteps, BootSteps
    <3> QED
      BY <3>2, <3>3
  <2>3. RunTyped'
    BY <1>0, <2>0, <2>1, <2>5 DEF RunTyped
  <2>4. DiskTyped'
    BY <1>0, <2>6 DEF DiskTyped, disk
  <2>7. /\ pc'["runner"] = "idle" /\ pc'["sweeper"] = "idle"
        /\ \A c \in Clients : pc'[c] = "idle"
        /\ \A a \in Actors : mine'[a].why = "none"
    BY <1>0, <2>6, HandsTyped, Names
  <2>8. Backed' /\ Inserted'
    BY <2>1, <2>5, <2>7 DEF Control, Backed, Inserted, SnapStatuses
  <2>9. Staging'
    BY <2>7 DEF Staging
  <2> QED
    BY <2>2, <2>3, <2>4, <2>8, <2>9, ControlParts DEF Settled
<1>5. CASE Recover
  <2>1. /\ pc["boot"] = "recovering" /\ UNCHANGED <<run, job, disk, gaps>>
    BY <1>5 DEF Recover
  <2>2. CASE Go("boot", "cleaning") /\ UNCHANGED mine
    <3>1. ActorsTyped' /\ Placed' /\ Shaped' /\ BootAlone'
      BY <1>0, <2>1, <2>2, Keep, HandsTyped DEF HandFits, Holding, BootSteps
    <3>2. \A b \in Actors : b # "boot" => pc'[b] = pc[b]
      BY <1>0, <2>2 DEF Go
    <3> QED
      BY <1>0, <2>1, <2>2, <3>1, <3>2, Names, SettledStays, ControlParts
         DEF disk, DiskTyped, RunTyped
  <2>3. CASE /\ run.status = "failed" /\ run.snapshot # NoSnap
             /\ Takes("boot", {run.snapshot}, "recover") /\ Go("boot", "wiping")
    <3>1. /\ [snaps |-> {run.snapshot}, why |-> "recover"] \in Hands
          /\ HandFits("wiping", [snaps |-> {run.snapshot}, why |-> "recover"])
      BY <1>0, <2>3, HandsTyped DEF HandFits, Holding, Reasons, RunTyped, RunRows
    <3>2. ActorsTyped' /\ Placed' /\ Shaped' /\ BootAlone'
      BY <1>0, <2>1, <2>3, <3>1, Move DEF Go, Takes, BootSteps
    <3>3. \A b \in Actors : b # "boot" => pc'[b] = pc[b] /\ mine'[b] = mine[b]
      BY <1>0, <2>3 DEF Go, Takes
    <3> QED
      BY <1>0, <2>1, <2>3, <3>2, <3>3, Names, SettledStays, ControlParts
         DEF disk, DiskTyped, RunTyped
  <2> QED
    BY <1>5, <2>2, <2>3 DEF Recover
<1>6. CASE Wipe("boot") \/ Refill("boot") \/ RefillFails("boot")
  BY <1>0, <1>6, RestoreKeepsControl
<1>7. CASE BootCleanup
  <2>1. ActorsTyped' /\ Placed' /\ Shaped' /\ BootAlone'
    BY <1>0, <1>7, Keep, HandsTyped DEF BootCleanup, HandFits, Holding, BootSteps
  <2>2. /\ \A b \in Actors : b # "boot" => pc'[b] = pc[b] /\ pc[b] = "idle"
        /\ UNCHANGED <<run, job, target, content, old, mine, gaps>>
        /\ tree' \in {tree, "none"}
    BY <1>0, <1>7 DEF BootCleanup, Go, Control, BootAlone
  <2>3. DiskTyped'
    <3>1. archive' \in [Snaps -> {"none", "partial", "ready"}]
      BY <1>0, <1>7 DEF BootCleanup, DiskTyped
    <3>2. row' \in [Snaps -> {"none", "ready", "deleted"}]
      BY <1>0, <1>7 DEF BootCleanup, DiskTyped
    <3> QED
      BY <1>0, <2>2, <3>1, <3>2 DEF DiskTyped
  <2>4. RunTyped' /\ Backed' /\ Inserted'
    BY <1>0, <2>2 DEF RunTyped, Control, Backed, Inserted
  <2>5. Staging'
    BY <1>0, <2>2, Names DEF Control, Staging
  <2> QED
    BY <2>1, <2>3, <2>4, <2>5, ControlParts DEF Settled
<1> QED
  BY <1>1, <1>2, <1>3, <1>4, <1>5, <1>6, <1>7 DEF Sweeper, Boot

LEMMA ControlInit == ASSUME SnapshotAssumption, Init PROVE Control
<1>1. /\ \A a \in Actors : pc[a] = "idle" /\ mine[a] = Nothing
      /\ "idle" \in Steps /\ Nothing \in Hands /\ HandFits("idle", Nothing)
  BY HandsTyped DEF Init, Steps, HandFits, Holding
<1>2. ActorsTyped /\ Shaped /\ BootAlone
  BY <1>1, Names DEF Init, ActorsTyped, Shaped, BootAlone
<1>3. Placed
  BY <1>1, Names DEF Placed, ClientSteps, RunnerSteps, BootSteps
<1>4. RunTyped /\ DiskTyped
  BY DEF Init, RunTyped, DiskTyped, RunRows
<1>5. Backed /\ Inserted /\ Staging
  BY <1>1, Names, HandsTyped DEF Init, Backed, Inserted, Staging
<1> QED
  BY <1>2, <1>3, <1>4, <1>5, ControlParts DEF Settled

LEMMA ControlStep == ASSUME SnapshotAssumption, Control, [Next]_vars PROVE Control'
<1>1. CASE UNCHANGED vars
  <2>1. ActorsTyped' /\ Placed' /\ Shaped' /\ BootAlone'
    BY <1>1, ActorsStay DEF vars
  <2>2. Settled'
    BY <1>1, ControlParts DEF vars, Settled, RunTyped, DiskTyped, Backed, Inserted, Staging
  <2> QED
    BY <2>1, <2>2, ControlParts
<1>2. ASSUME NEW c \in Clients, Serving, Begin(c) \/ Continue(c) PROVE Control'
  BY <1>2, BeginKeepsControl, ContinueKeepsControl
<1> QED
  BY <1>1, <1>2, RunnerKeepsControl, ServiceKeepsControl DEF Next

\* Every variable always has a value of its kind, whoever interrupts whom: what a
\* restore or a deletion has in hand is a snapshot, never a run without one.
THEOREM SnapshotTypes == Spec => []TypeOK
<1>1. Init => Control
  BY ControlInit, SnapshotAssumption
<1>2. Control /\ [Next]_vars => Control'
  BY ControlStep, SnapshotAssumption
<1>3. Control => TypeOK
  BY DEF Control
<1> QED
  BY <1>1, <1>2, <1>3, PTL DEF Spec

-----------------------------------------------------------------------------
(* Storage is kept.                                                        *)

LEMMA SameHand ==
  ASSUME NEW d, mine'[d] = mine[d]
  PROVE  InHand(d)' = InHand(d)
  BY DEF InHand

\* A client with none of these reasons neither owns nor handles a snapshot.
LEMMA NeutralHands ==
  ASSUME SnapshotAssumption, Control, NEW c \in Clients,
         pc[c] \in {"idle", "staged", "wiping", "refilling"}
  PROVE  ~Owns(c) /\ mine[c].why \notin {"orphans", "discard"} /\ pc[c] \notin Handling
<1>1. HandFits(pc[c], mine[c])
  BY Names DEF Control, Shaped
<1> QED
  BY <1>1, HandsTyped DEF HandFits, Holding, Owns, Handling

\* A step that leaves the storage alone, and after which whoever moved neither
\* owns nor handles a snapshot.
LEMMA StorageFrame ==
  ASSUME SnapshotAssumption, Control, Control', Storage,
         UNCHANGED <<archive, row, old>>, gaps \subseteq gaps',
         \A c \in Clients :
           \/ pc'[c] = pc[c] /\ mine'[c] = mine[c]
           \/ pc[c] # "marking" /\ pc'[c] \in {"idle", "staged", "wiping", "refilling"}
  PROVE  Storage'
<1>1. ASSUME NEW c \in Clients, pc'[c] \in {"idle", "staged", "wiping", "refilling"}
      PROVE  /\ mine'[c].why \notin {"approve", "save", "discard", "orphans"}
             /\ pc'[c] \notin Handling
  <2>1. HandFits(pc'[c], mine'[c])
    BY Names DEF Control, Shaped
  <2> QED
    BY <1>1, <2>1, HandsTyped DEF HandFits, Holding, Handling
<1>2. Owned'
  BY <1>1 DEF Storage, Owned, Owns
<1>3. Making'
  BY <1>1 DEF Storage, Making, Handling
<1>4. Recorded'
  BY <1>1 DEF Storage, Recorded, Handling
<1>5. Orphaned'
  BY <1>1 DEF Storage, Orphaned
<1>6. \A c \in Clients : pc[c] = "marking" => pc'[c] = "marking" /\ InHand(c)' = InHand(c)
  BY SameHand
<1>7. \A c \in Clients : pc'[c] = "marking" => pc[c] = "marking" /\ InHand(c)' = InHand(c)
  BY SameHand
<1>8. Deleted'
  BY <1>7 DEF Storage, Deleted
<1>9. Tracked'
  BY <1>6 DEF Storage, Tracked
<1> QED
  BY <1>2, <1>3, <1>4, <1>5, <1>8, <1>9 DEF Storage

\* When no client is at work only the rows and their archives matter.
LEMMA StorageAtRest ==
  ASSUME SnapshotAssumption, Control', \A c \in Clients : pc'[c] = "idle",
         \A s \in Snaps : row'[s] = "deleted" => archive'[s] # "ready",
         \A s \in Snaps : row'[s] = "ready" /\ archive'[s] # "ready" => "cut" \in gaps'
  PROVE  Storage'
<1>1. ASSUME NEW c \in Clients PROVE mine'[c] = Nothing
  <2>1. HandFits(pc'[c], mine'[c])
    BY Names DEF Control, Shaped
  <2> QED
    BY <2>1 DEF HandFits, Holding
<1>2. \A c \in Clients : mine'[c].snaps = {} /\ mine'[c].why = "none" /\ pc'[c] = "idle"
  BY <1>1, HandsTyped
<1> QED
  BY <1>2 DEF Storage, Owned, Owns, Making, Recorded, Orphaned, Deleted, Tracked

\* Most of what a client does leaves the archives and the rows alone.
LEMMA BeginKeepsStorage ==
  ASSUME SnapshotAssumption, Control, Control', Storage, Serving, NEW c \in Clients, Begin(c)
  PROVE  Storage'
<1>0. /\ c \in Actors /\ pc \in [Actors -> Steps] /\ mine \in [Actors -> Hands]
      /\ archive \in [Snaps -> {"none", "partial", "ready"}]
      /\ row \in [Snaps -> {"none", "ready", "deleted"}]
      /\ \A d \in Clients : d \in Actors
  BY Names DEF Control, TypeOK, Hands
<1>1. CASE StageRun(c) \/ CancelRun(c) \/ ResumeRun(c) \/ Rollback(c) \/ RestoreRequested(c)
  <2>1. UNCHANGED <<archive, row, old>> /\ gaps \subseteq gaps'
    BY <1>1 DEF StageRun, CancelRun, ResumeRun, Rollback, RestoreRequested, disk
  <2>2. \/ UNCHANGED <<pc, mine>>
        \/ /\ pc[c] = "idle" /\ \E l \in {"staged", "wiping"} : Go(c, l)
           /\ \A d \in Clients : d # c => mine'[d] = mine[d]
    BY <1>0, <1>1
       DEF StageRun, CancelRun, ResumeRun, Rollback, RestoreRequested, Request, Takes
  <2>3. \A d \in Clients : \/ pc'[d] = pc[d] /\ mine'[d] = mine[d]
                           \/ pc[d] # "marking" /\ pc'[d] \in {"idle", "staged", "wiping", "refilling"}
    BY <1>0, <2>2 DEF Go
  <2> QED
    BY <2>1, <2>3, StorageFrame
<1>2. ASSUME NEW S \in SUBSET Snaps, NEW what \in {"delete", "orphans"},
             NEW l \in {"unlinking", "listing"}, pc[c] = "idle", Takes(c, S, what), Go(c, l),
             UNCHANGED <<archive, row, old, gaps>>,
             what = "delete" => \A s \in S : row[s] # "none",
             what = "orphans" => l = "listing" /\ \A s \in S : row[s] # "ready",
             l = "listing" => what = "orphans"
      PROVE  Storage'
  <2>1. /\ pc'[c] = l /\ mine'[c].snaps = S /\ mine'[c].why = what
        /\ \A d \in Clients : d # c => pc'[d] = pc[d] /\ mine'[d] = mine[d]
    BY <1>0, <1>2 DEF Go, Takes
  <2>2. Owned'
    BY <2>1 DEF Storage, Owned, Owns
  <2>3. Making'
    BY <1>2, <2>1 DEF Storage, Making, Handling
  <2>4. Recorded'
    BY <1>2, <2>1 DEF Storage, Recorded
  <2>5. Orphaned'
    BY <1>2, <2>1 DEF Storage, Orphaned
  <2>6. Deleted' /\ Tracked'
    <3>1. \A d \in Clients : pc[d] = "marking" => pc'[d] = "marking" /\ InHand(d)' = InHand(d)
      BY <1>2, <2>1, SameHand
    <3>2. \A d \in Clients : pc'[d] = "marking" => pc[d] = "marking" /\ InHand(d)' = InHand(d)
      BY <1>2, <2>1, SameHand
    <3> QED
      BY <1>2, <3>1, <3>2 DEF Storage, Deleted, Tracked
  <2> QED
    BY <2>2, <2>3, <2>4, <2>5, <2>6 DEF Storage
<1>3. CASE DeleteRequested(c)
  <2>1. PICK s \in Snaps : row[s] # "none" /\ Takes(c, {s}, "delete")
    BY <1>3 DEF DeleteRequested
  <2> QED
    BY <1>2, <1>3, <2>1 DEF DeleteRequested, Request, disk
<1>4. CASE CleanupSnapshots(c)
  <2>1. Expired \subseteq Snaps /\ \A s \in Expired : row[s] # "none"
    BY DEF Expired
  <2> QED
    BY <1>2, <1>4, <2>1 DEF CleanupSnapshots, Request, disk
<1>5. CASE FindOrphans(c)
  <2>1. {s \in Snaps : row[s] # "ready"} \subseteq Snaps
    OBVIOUS
  <2> QED
    BY <1>2, <1>5, <2>1 DEF FindOrphans, Request, disk
<1>6. ASSUME NEW why \in {"approve", "save"}, BeginSnapshot(c, why) PROVE Storage'
  <2>1. PICK s \in Snaps :
          /\ row[s] = "none" /\ archive[s] = "none"
          /\ \A d \in Clients : s \notin mine[d].snaps
          /\ archive' = [archive EXCEPT ![s] = "partial"] /\ old' = old \ {s}
          /\ Takes(c, {s}, why)
    BY <1>6 DEF BeginSnapshot
  <2>2. /\ pc[c] = "idle" /\ pc'[c] = "archiving"
        /\ mine'[c].snaps = {s} /\ mine'[c].why = why
        /\ \A d \in Clients : d # c => pc'[d] = pc[d] /\ mine'[d] = mine[d]
        /\ UNCHANGED row /\ gaps \subseteq gaps'
        /\ archive'[s] = "partial" /\ \A r \in Snaps : r # s => archive'[r] = archive[r]
    BY <1>0, <1>6, <2>1 DEF BeginSnapshot, Request, Go, Takes
  <2>3. Owned'
    BY <2>1, <2>2 DEF Storage, Owned, Owns
  <2>4. Making'
    BY <2>1, <2>2 DEF Storage, Making
  <2>5. Recorded' /\ Orphaned'
    BY <1>6, <2>1, <2>2 DEF Storage, Recorded, Orphaned
  <2>6. Deleted' /\ Tracked'
    <3>1. \A d \in Clients : pc[d] = "marking" => pc'[d] = "marking" /\ InHand(d)' = InHand(d)
      BY <2>2, SameHand
    <3>2. \A d \in Clients : pc'[d] = "marking" => pc[d] = "marking" /\ InHand(d)' = InHand(d)
      BY <2>2, SameHand
    <3>3. Deleted'
      BY <2>1, <2>2, <3>2 DEF Storage, Deleted
    <3>4. Tracked'
      BY <2>1, <2>2, <3>1 DEF Storage, Tracked
    <3> QED
      BY <3>3, <3>4
  <2> QED
    BY <2>3, <2>4, <2>5, <2>6 DEF Storage
<1> QED
  BY <1>1, <1>3, <1>4, <1>5, <1>6 DEF Begin

LEMMA ContinueKeepsStorage ==
  ASSUME SnapshotAssumption, Control, Control', Storage, Serving, NEW c \in Clients, Continue(c)
  PROVE  Storage'
<1>0. /\ c \in Actors /\ pc \in [Actors -> Steps] /\ mine \in [Actors -> Hands]
      /\ archive \in [Snaps -> {"none", "partial", "ready"}]
      /\ row \in [Snaps -> {"none", "ready", "deleted"}]
      /\ \A d \in Clients : d \in Actors
      /\ mine[c].snaps \subseteq Snaps /\ HandFits(pc[c], mine[c])
  BY Names, InHandIsHeld DEF Control, TypeOK, Hands, Shaped
<1>1. CASE InsertRun(c) \/ Approve(c) \/ Wipe(c) \/ Refill(c) \/ RefillFails(c)
  <2>1. UNCHANGED <<archive, row, old>> /\ gaps \subseteq gaps'
    BY <1>1 DEF InsertRun, Approve, Wipe, Refill, RefillFails, disk
  <2>2. /\ pc[c] # "marking" /\ \E l \in {"idle", "refilling"} : Go(c, l)
        /\ \A d \in Clients : d # c => mine'[d] = mine[d]
    <3>1. c # "runner" /\ c # "boot"
      BY Names
    <3> QED
      BY <1>0, <1>1, <3>1 DEF InsertRun, Approve, Wipe, Refill, RefillFails, AfterRestore, Drops
  <2>3. \A d \in Clients : \/ pc'[d] = pc[d] /\ mine'[d] = mine[d]
                           \/ pc[d] # "marking" /\ pc'[d] \in {"idle", "staged", "wiping", "refilling"}
    BY <1>0, <2>2 DEF Go
  <2> QED
    BY <2>1, <2>3, StorageFrame
\* The hands of those who mark are the same, except c's.
<1>2. ASSUME \A d \in Clients : d # c => pc'[d] = pc[d] /\ mine'[d] = mine[d]
      PROVE  /\ \A d \in Clients : d # c /\ pc[d] = "marking"
                  => pc'[d] = "marking" /\ InHand(d)' = InHand(d)
             /\ \A d \in Clients : d # c /\ pc'[d] = "marking"
                  => pc[d] = "marking" /\ InHand(d)' = InHand(d)
  BY <1>2, SameHand
<1>3. CASE PublishSnapshot(c) \/ SnapshotFails(c)
  <2>1. PICK s \in Snaps : mine[c].snaps = {s} /\ InHand(c) = s
    BY <1>0, <1>3, InHandIsHeld DEF PublishSnapshot, SnapshotFails
  <2>2. /\ pc[c] \in {"archiving", "published"} /\ UNCHANGED <<row, old, gaps>>
        /\ archive'[s] \in {"ready", "none"} /\ pc'[c] \in {"published", "idle"}
        /\ pc'[c] = "published" => archive'[s] = "ready" /\ mine'[c] = mine[c]
        /\ pc'[c] = "idle" => mine'[c] = Nothing
        /\ \A r \in Snaps : r # s => archive'[r] = archive[r]
        /\ \A d \in Clients : d # c => pc'[d] = pc[d] /\ mine'[d] = mine[d]
    BY <1>0, <1>3, <2>1 DEF PublishSnapshot, SnapshotFails, Go, Drops
  <2>3. /\ row[s] = "none" /\ s \notin old
        /\ \A d \in Clients \ {c} : pc[d] \in Handling => s \notin mine[d].snaps
    BY <2>1, <2>2 DEF Storage, Making
  <2>4. Owned'
    BY <2>2, HandsTyped DEF Storage, Owned, Owns
  <2>5. Making'
    <3>1. ASSUME NEW d \in Clients, NEW r \in Snaps, d # c,
                 pc[d] \in {"archiving", "published"}, r \in mine[d].snaps
          PROVE  r # s
      BY <2>3, <3>1 DEF Handling
    <3>2. "idle" \notin Handling /\ "published" \in Handling /\ pc[c] \in Handling
      BY <2>2 DEF Handling
    <3> QED
      BY <2>1, <2>2, <2>3, <3>1, <3>2, HandsTyped DEF Storage, Making
  <2>6. Recorded' /\ Orphaned'
    BY <2>2, HandsTyped DEF Storage, Recorded, Orphaned
  <2>7. Deleted'
    <3>1. ASSUME NEW d \in Clients, pc'[d] = "marking"
          PROVE  archive'[InHand(d)'] # "ready"
      <4>1. pc[d] = "marking" /\ InHand(d)' = InHand(d) /\ d # c
        BY <1>2, <2>2, <3>1
      <4>2. InHand(d) # s /\ InHand(d) \in Snaps
        <5>1. HandFits(pc[d], mine[d]) /\ mine[d].snaps # {}
          BY <1>0, <4>1 DEF Control, Shaped, HandFits
        <5> QED
          BY <1>0, <2>3, <4>1, <5>1, InHandIsHeld DEF Handling
      <4> QED
        BY <2>2, <4>1, <4>2 DEF Storage, Deleted
    <3> QED
      BY <2>2, <2>3, <3>1 DEF Storage, Deleted
  <2>8. Tracked'
    BY <1>2, <2>2, <2>3 DEF Storage, Tracked
  <2> QED
    BY <2>4, <2>5, <2>6, <2>7, <2>8 DEF Storage
<1>4. CASE RecordSnapshot(c)
  <2>1. PICK s \in Snaps : mine[c].snaps = {s} /\ InHand(c) = s
    BY <1>0, <1>4, InHandIsHeld DEF RecordSnapshot
  <2>2. /\ pc[c] = "published" /\ UNCHANGED <<archive, old, gaps>>
        /\ row'[s] = "ready" /\ \A r \in Snaps : r # s => row'[r] = row[r]
        /\ pc'[c] \in {"recorded", "idle"}
        /\ pc'[c] = "recorded" => mine'[c] = mine[c] /\ mine[c].why = "approve"
        /\ pc'[c] = "idle" => mine'[c] = Nothing
        /\ \A d \in Clients : d # c => pc'[d] = pc[d] /\ mine'[d] = mine[d]
    BY <1>0, <1>4, <2>1 DEF RecordSnapshot, Go, Drops
  <2>3. /\ row[s] = "none" /\ s \notin old /\ archive[s] = "ready"
        /\ \A d \in Clients \ {c} : pc[d] \in Handling => s \notin mine[d].snaps
    BY <2>1, <2>2 DEF Storage, Making
  <2>4. Owned'
    BY <2>2, HandsTyped DEF Storage, Owned, Owns
  <2>5. Making'
    <3>1. ASSUME NEW d \in Clients, NEW r \in Snaps, d # c,
                 pc[d] \in {"archiving", "published"}, r \in mine[d].snaps
          PROVE  r # s
      BY <2>3, <3>1 DEF Handling
    <3>2. "idle" \notin Handling /\ "recorded" \in Handling /\ pc[c] \in Handling
      BY <2>2 DEF Handling
    <3> QED
      BY <2>1, <2>2, <2>3, <3>1, <3>2, HandsTyped DEF Storage, Making
  <2>6. Recorded'
    BY <2>1, <2>2, HandsTyped DEF Storage, Recorded
  <2>7. Orphaned'
    BY <2>2, <2>3, HandsTyped DEF Storage, Orphaned, Handling
  <2>8. Deleted' /\ Tracked'
    BY <1>2, <2>2, <2>3 DEF Storage, Deleted, Tracked
  <2> QED
    BY <2>4, <2>5, <2>6, <2>7, <2>8 DEF Storage
<1>5. CASE ApproveFails(c)
  <2>1. /\ pc[c] = "recorded" /\ pc'[c] = "unlinking" /\ mine[c].why = "approve"
        /\ mine'[c].snaps = mine[c].snaps /\ mine'[c].why = "discard"
        /\ UNCHANGED <<archive, row, old, gaps>>
        /\ \A d \in Clients : d # c => pc'[d] = pc[d] /\ mine'[d] = mine[d]
    BY <1>0, <1>5 DEF ApproveFails, Go, Takes, disk, HandFits
  <2>2. Owned' /\ Recorded' /\ Orphaned'
    BY <2>1 DEF Storage, Owned, Owns, Recorded, Orphaned
  <2>3. Making'
    BY <2>1 DEF Storage, Making, Handling
  <2>4. Deleted' /\ Tracked'
    BY <1>2, <2>1 DEF Storage, Deleted, Tracked
  <2> QED
    BY <2>2, <2>3, <2>4 DEF Storage
<1>6. CASE CleanupOrphans(c)
  <2>1. /\ pc[c] = "listing" /\ UNCHANGED <<archive, row, old, gaps>>
        /\ mine[c].why = "orphans" /\ pc'[c] \in {"idle", "unlinking"}
        /\ pc'[c] = "idle" => mine'[c] = Nothing
        /\ pc'[c] = "unlinking" =>
             /\ mine'[c].why = "orphans" /\ mine'[c].snaps \subseteq mine[c].snaps
             /\ \A s \in mine'[c].snaps : s \in old
        /\ \A d \in Clients : d # c => pc'[d] = pc[d] /\ mine'[d] = mine[d]
    BY <1>0, <1>6 DEF CleanupOrphans, Idle, Go, Takes, Drops, disk, HandFits, Orphans
  <2>2. Owned' /\ Recorded'
    BY <2>1, HandsTyped DEF Storage, Owned, Owns, Recorded
  <2>3. Orphaned'
    BY <2>1, HandsTyped DEF Storage, Orphaned
  <2>4. Making'
    BY <2>1, HandsTyped DEF Storage, Making, Handling
  <2>5. Deleted' /\ Tracked'
    BY <1>2, <2>1 DEF Storage, Deleted, Tracked
  <2> QED
    BY <2>2, <2>3, <2>4, <2>5 DEF Storage
<1>7. ASSUME pc[c] \in {"unlinking", "marking"}
      PROVE  /\ InHand(c) \in mine[c].snaps /\ InHand(c) \in Snaps /\ pc[c] \in Handling
             /\ \A d \in Clients, r \in Snaps :
                  pc[d] \in {"archiving", "published"} /\ r \in mine[d].snaps
                    => r \notin mine[c].snaps
             /\ OneLess(c) =>
                  /\ pc'[c] \in {"idle", "unlinking"} /\ mine'[c].snaps \subseteq mine[c].snaps
                  /\ mine'[c].why \in {mine[c].why, "none"}
                  /\ pc'[c] = "idle" => mine'[c] = Nothing
                  /\ mine[c].why = "discard" => pc'[c] = "idle"
                  /\ \A d \in Clients : d # c => pc'[d] = pc[d] /\ mine'[d] = mine[d]
  <2>1. mine[c].snaps # {}
    BY <1>0, <1>7 DEF HandFits
  <2>2. InHand(c) \in mine[c].snaps /\ \A s : mine[c].snaps = {s} => InHand(c) = s
    BY <1>0, <2>1, InHandIsHeld
  <2>3. \A d \in Clients, r \in Snaps :
          pc[d] \in {"archiving", "published"} /\ r \in mine[d].snaps => r \notin mine[c].snaps
    BY <1>7 DEF Storage, Making, Handling
  <2>4. OneLess(c) =>
          /\ pc'[c] \in {"idle", "unlinking"} /\ mine'[c].snaps \subseteq mine[c].snaps
          /\ mine'[c].why \in {mine[c].why, "none"}
          /\ pc'[c] = "idle" => mine'[c] = Nothing
          /\ \A d \in Clients : d # c => pc'[d] = pc[d] /\ mine'[d] = mine[d]
    BY <1>0, HandsTyped DEF OneLess, Idle, Go, Takes, Drops
  <2>5. OneLess(c) /\ mine[c].why = "discard" => pc'[c] = "idle"
    BY <1>0, <2>2 DEF OneLess, Idle, Go, HandFits
  <2> QED
    BY <1>0, <1>7, <2>2, <2>3, <2>4, <2>5 DEF Handling
<1>8. CASE Unlink(c)
  <2> DEFINE s == InHand(c)
  <2>1. /\ pc[c] = "unlinking" /\ UNCHANGED <<row, gaps>>
        /\ archive'[s] = "none" /\ \A r \in Snaps : r # s => archive'[r] = archive[r]
        /\ old' = old \ {s}
        /\ mine[c].why = "orphans" => OneLess(c)
        /\ mine[c].why # "orphans" => /\ pc'[c] = "marking" /\ UNCHANGED mine
                                      /\ \A d \in Clients : d # c => pc'[d] = pc[d]
    BY <1>0, <1>7, <1>8 DEF Unlink, Go
  <2>2. /\ \A d \in Clients : d # c => pc'[d] = pc[d] /\ mine'[d] = mine[d]
        /\ pc'[c] \in {"idle", "unlinking", "marking"}
        /\ mine'[c].snaps \subseteq mine[c].snaps /\ mine'[c].why \in {mine[c].why, "none"}
        /\ pc'[c] = "marking" => mine[c].why # "orphans" /\ InHand(c)' = s
    BY <1>0, <1>7, <2>1, SameHand
  <2>3. s \in Snaps /\ s \in mine[c].snaps /\ (mine[c].why = "orphans" => row[s] # "ready")
    BY <1>7, <2>1 DEF Storage, Orphaned
  <2>4. Owned' /\ Recorded'
    BY <2>1, <2>2 DEF Storage, Owned, Owns, Recorded
  <2>5. Orphaned'
    BY <2>1, <2>2 DEF Storage, Orphaned
  <2>6. Making'
    <3>1. ASSUME NEW d \in Clients, NEW r \in Snaps,
                 pc'[d] \in {"archiving", "published"}, r \in mine'[d].snaps
          PROVE  /\ row'[r] = "none" /\ r \notin old'
                 /\ pc'[d] = "published" => archive'[r] = "ready"
                 /\ \A e \in Clients \ {d} : pc'[e] \in Handling => r \notin mine'[e].snaps
      <4>1. d # c /\ pc[d] = pc'[d] /\ r \in mine[d].snaps /\ r \notin mine[c].snaps /\ r # s
        BY <1>7, <2>1, <2>2, <2>3, <3>1
      <4> QED
        BY <2>1, <2>2, <3>1, <4>1 DEF Storage, Making
    <3> QED
      BY <3>1 DEF Making
  <2>7. Deleted'
    <3>1. \A d \in Clients : pc'[d] = "marking" => archive'[InHand(d)'] # "ready"
      <4>1. ASSUME NEW d \in Clients, pc'[d] = "marking", d # c
            PROVE  archive'[InHand(d)'] # "ready"
        <5>1. pc[d] = "marking" /\ InHand(d)' = InHand(d)
          BY <1>2, <2>2, <4>1
        <5>2. InHand(d) \in Snaps
          <6>1. mine[d].snaps # {}
            BY <1>0, <5>1 DEF Control, Shaped, HandFits
          <6> QED
            BY <1>0, <6>1, InHandIsHeld
        <5> QED
          BY <2>1, <5>1, <5>2 DEF Storage, Deleted
      <4> QED
        BY <2>1, <2>2, <4>1
    <3> QED
      BY <2>1, <3>1 DEF Storage, Deleted
  <2>8. Tracked'
    <3>1. ASSUME NEW r \in Snaps, row'[r] = "ready", archive'[r] # "ready"
          PROVE  "cut" \in gaps' \/ \E d \in Clients : pc'[d] = "marking" /\ r = InHand(d)'
      <4>1. CASE r = s
        BY <2>1, <2>2, <2>3, <3>1, <4>1
      <4>2. CASE r # s
        BY <1>2, <2>1, <2>2, <3>1, <4>2 DEF Storage, Tracked
      <4> QED
        BY <4>1, <4>2
    <3> QED
      BY <3>1 DEF Tracked
  <2> QED
    BY <2>4, <2>5, <2>6, <2>7, <2>8 DEF Storage
<1>9. CASE Mark(c)
  <2> DEFINE s == InHand(c)
  <2>1. /\ pc[c] = "marking" /\ UNCHANGED <<archive, old, gaps>> /\ OneLess(c)
        /\ row'[s] = IF mine[c].why = "discard" THEN "none" ELSE "deleted"
        /\ \A r \in Snaps : r # s => row'[r] = row[r]
    BY <1>0, <1>7, <1>9 DEF Mark
  <2>2. /\ \A d \in Clients : d # c => pc'[d] = pc[d] /\ mine'[d] = mine[d]
        /\ pc'[c] \in {"idle", "unlinking"}
        /\ mine'[c].snaps \subseteq mine[c].snaps /\ mine'[c].why \in {mine[c].why, "none"}
        /\ mine[c].why = "discard" => mine'[c] = Nothing
        /\ mine[c].why \in {"delete", "discard"}
    BY <1>0, <1>7, <2>1 DEF HandFits
  <2>3. s \in Snaps /\ s \in mine[c].snaps /\ archive[s] # "ready"
    BY <1>7, <2>1 DEF Storage, Deleted
  <2>4. Owned'
    BY <2>2 DEF Storage, Owned, Owns
  <2>5. Recorded'
    <3>1. ASSUME NEW d \in Clients, NEW r \in Snaps, r \in mine'[d].snaps,
                 pc'[d] = "recorded" \/ mine'[d].why = "discard"
          PROVE  row'[r] # "none"
      <4>1. d # c /\ r \in mine[d].snaps /\ (pc[d] = "recorded" \/ mine[d].why = "discard")
        BY <2>2, <3>1, HandsTyped
      <4>2. Owns(d)
        BY <1>0, <4>1 DEF Control, Shaped, HandFits, Owns
      <4>3. r = s => mine[c].why # "discard"
        BY <2>3, <4>1, <4>2 DEF Storage, Owned, Owns
      <4> QED
        BY <2>1, <4>1, <4>3 DEF Storage, Recorded
    <3> QED
      BY <3>1 DEF Recorded
  <2>6. Orphaned'
    BY <2>1, <2>2 DEF Storage, Orphaned
  <2>7. Making'
    <3>1. ASSUME NEW d \in Clients, NEW r \in Snaps,
                 pc'[d] \in {"archiving", "published"}, r \in mine'[d].snaps
          PROVE  /\ row'[r] = "none" /\ r \notin old'
                 /\ pc'[d] = "published" => archive'[r] = "ready"
                 /\ \A e \in Clients \ {d} : pc'[e] \in Handling => r \notin mine'[e].snaps
      <4>1. d # c /\ pc[d] = pc'[d] /\ r \in mine[d].snaps /\ r \notin mine[c].snaps /\ r # s
        BY <1>7, <2>1, <2>2, <2>3, <3>1
      <4> QED
        BY <2>1, <2>2, <3>1, <4>1 DEF Storage, Making
    <3> QED
      BY <3>1 DEF Making
  <2>8. Deleted' /\ Tracked'
    <3>1. Deleted'
      BY <1>2, <2>1, <2>2, <2>3 DEF Storage, Deleted
    <3>2. ASSUME NEW r \in Snaps, row'[r] = "ready", archive'[r] # "ready"
          PROVE  "cut" \in gaps' \/ \E d \in Clients : pc'[d] = "marking" /\ r = InHand(d)'
      <4>1. r # s
        BY <2>1, <3>2
      <4> QED
        BY <1>2, <2>1, <2>2, <3>2, <4>1 DEF Storage, Tracked
    <3> QED
      BY <3>1, <3>2 DEF Tracked
  <2> QED
    BY <2>4, <2>5, <2>6, <2>7, <2>8 DEF Storage
<1> QED
  BY <1>1, <1>3, <1>4, <1>5, <1>6, <1>8, <1>9 DEF Continue

LEMMA ServiceKeepsStorage ==
  ASSUME SnapshotAssumption, Control, Control', Storage,
         (Serving /\ (Runner \/ Sweeper)) \/ Boot \/ TreeAges \/ SnapAges \/ Restart
  PROVE  Storage'
<1>0. /\ pc \in [Actors -> Steps] /\ mine \in [Actors -> Hands]
      /\ archive \in [Snaps -> {"none", "partial", "ready"}]
      /\ row \in [Snaps -> {"none", "ready", "deleted"}]
      /\ \A c \in Clients : c \in Actors /\ c # "runner" /\ c # "sweeper" /\ c # "boot"
  BY Names DEF Control, TypeOK, Hands
<1>1. CASE (Serving /\ (Runner \/ Sweeper)) \/ (Boot /\ ~BootCleanup) \/ TreeAges
  <2>1. UNCHANGED <<archive, row, old>> /\ gaps \subseteq gaps'
    BY <1>1 DEF Runner, Claim, EndPlanning, EndWork, ApplyFirst, ApplyLast, PostCheckPasses,
                ApplyFails, FinalizeJob, Wipe, Refill, RefillFails, Sweeper, SweepCheck,
                SweepRemove, Boot, Recover, TreeAges, disk
  <2>2. \A c \in Clients : pc'[c] = pc[c] /\ mine'[c] = mine[c]
    <3>1. \/ UNCHANGED pc
          \/ \E a \in {"runner", "sweeper", "boot"} : \E l : Go(a, l)
      BY <1>1 DEF Runner, Claim, EndPlanning, EndWork, ApplyFirst, ApplyLast, PostCheckPasses,
                  ApplyFails, FinalizeJob, Wipe, Refill, RefillFails, AfterRestore, Sweeper,
                  SweepCheck, SweepRemove, Boot, Recover, TreeAges
    <3>2. \/ UNCHANGED mine
          \/ \E a \in {"runner", "boot"} : \E S, w : Takes(a, S, w)
          \/ \E a \in {"runner", "boot"} : Drops(a)
      BY <1>1 DEF Runner, Claim, EndPlanning, EndWork, ApplyFirst, ApplyLast, PostCheckPasses,
                  ApplyFails, FinalizeJob, Wipe, Refill, RefillFails, AfterRestore, Sweeper,
                  SweepCheck, SweepRemove, Boot, Recover, TreeAges
    <3> QED
      BY <1>0, <3>1, <3>2 DEF Go, Takes, Drops
  <2> QED
    BY <2>1, <2>2, StorageFrame
<1>2. CASE SnapAges
  <2>1. /\ UNCHANGED <<archive, row, pc, gaps>> /\ \A c \in Clients : pc[c] = "idle"
    BY <1>2 DEF SnapAges, Quiet
  <2> QED
    BY <2>1, StorageAtRest DEF Storage, Deleted, Tracked
<1>3. CASE Restart
  <2>1. /\ UNCHANGED <<archive, row>> /\ gaps \subseteq gaps'
        /\ \A c \in Clients : pc'[c] = "idle"
        /\ Cut => "cut" \in gaps'
    BY <1>0, <1>3 DEF Restart, disk
  <2>2. \A s \in Snaps : row'[s] = "ready" /\ archive'[s] # "ready" => "cut" \in gaps'
    BY <2>1 DEF Storage, Tracked, Cut
  <2> QED
    BY <2>1, <2>2, StorageAtRest DEF Storage, Deleted
<1>4. CASE BootCleanup
  <2>1. \A c \in Clients : pc[c] = "idle" /\ pc'[c] = "idle"
    BY <1>0, <1>4 DEF BootCleanup, Go, Control, BootAlone
  <2>2. /\ \A s \in Snaps : archive'[s] = IF s \in Expired \/ (s \in old /\ archive[s] = "partial")
                                          THEN "none" ELSE archive[s]
        /\ \A s \in Snaps : row'[s] = IF s \in Expired THEN "deleted" ELSE row[s]
        /\ UNCHANGED gaps
    BY <1>4 DEF BootCleanup
  <2>3. \A s \in Snaps : row'[s] = "deleted" => archive'[s] # "ready"
    BY <2>2 DEF Storage, Deleted
  <2>4. \A s \in Snaps : row'[s] = "ready" /\ archive'[s] # "ready" => "cut" \in gaps'
    BY <2>1, <2>2 DEF Storage, Tracked
  <2> QED
    BY <2>1, <2>3, <2>4, StorageAtRest
<1> QED
  BY <1>1, <1>2, <1>3, <1>4

LEMMA StorageStep ==
  ASSUME SnapshotAssumption, Control, Control', Storage, [Next]_vars
  PROVE  Storage'
<1>1. CASE UNCHANGED vars
  BY <1>1, StorageFrame DEF vars
<1>2. ASSUME NEW c \in Clients, Serving, Begin(c) \/ Continue(c) PROVE Storage'
  BY <1>2, BeginKeepsStorage, ContinueKeepsStorage
<1> QED
  BY <1>1, <1>2, ServiceKeepsStorage DEF Next

LEMMA StorageInit == ASSUME SnapshotAssumption, Init PROVE Storage
<1>1. /\ \A c \in Clients : c \in Actors /\ pc[c] = "idle" /\ mine[c] = Nothing
      /\ \A s \in Snaps : row[s] = "none"
  BY Names DEF Init
<1> QED
  BY <1>1, HandsTyped DEF Storage, Owned, Owns, Making, Recorded, Orphaned, Deleted, Tracked

LEMMA ControlAndStorage == Spec => [](Control /\ Storage)
<1>1. Init => Control /\ Storage
  BY ControlInit, StorageInit, SnapshotAssumption
<1>2. Control /\ Storage /\ [Next]_vars => (Control /\ Storage)'
  BY ControlStep, StorageStep, SnapshotAssumption
<1> QED
  BY <1>1, <1>2, PTL DEF Spec

\* A snapshot whose row says it is ready has its archive, through every request,
\* cleanup and crash, unless a deletion is between its two steps or was cut there.
THEOREM TrackedArePresent == Spec => []TrackedIsPresent
<1>1. Control /\ Storage => TrackedIsPresent
  <2> SUFFICES ASSUME Control, Storage, NEW s \in Snaps, row[s] = "ready", archive[s] # "ready",
                      "cut" \notin gaps
               PROVE  \E c \in Clients : pc[c] = "marking" /\ s \in mine[c].snaps
    BY DEF TrackedIsPresent
  <2>1. PICK c \in Clients : pc[c] = "marking" /\ s = InHand(c)
    BY DEF Storage, Tracked
  <2>2. c \in Actors /\ mine[c].snaps # {}
    BY <2>1, Names, SnapshotAssumption DEF Control, Shaped, HandFits
  <2> QED
    BY <2>1, <2>2, InHandIsHeld
<1> QED
  BY <1>1, ControlAndStorage, PTL

-----------------------------------------------------------------------------
(* The run's snapshot is kept.                                             *)

\* Nobody makes, discards or dooms the run's snapshot who did not before, and its
\* file and row stay.
LEMMA GuardedFrame ==
  ASSUME Guarded, run'.snapshot \in {run.snapshot, NoSnap}, gaps \subseteq gaps',
         run'.snapshot # NoSnap /\ Active' => Active,
         run.snapshot # NoSnap => row'[run.snapshot] # "none",
         \A c \in Clients : Owns(c)' /\ run.snapshot \in mine'[c].snaps
                              => Owns(c) /\ run.snapshot \in mine[c].snaps,
         Active /\ "unguarded" \notin gaps /\ run.snapshot # NoSnap =>
           /\ archive'[run.snapshot] = archive[run.snapshot]
           /\ row'[run.snapshot] = row[run.snapshot]
           /\ \A c \in Clients :
                pc'[c] \in {"unlinking", "marking"} /\ run.snapshot \in mine'[c].snaps
                  => pc[c] \in {"unlinking", "marking"} /\ run.snapshot \in mine[c].snaps
  PROVE  Guarded'
<1>1. Attached'
  BY DEF Guarded, Attached
<1>2. Safe'
  BY DEF Guarded, Safe, Doomed
<1> QED
  BY <1>1, <1>2 DEF Guarded

LEMMA BeginKeepsGuarded ==
  ASSUME SnapshotAssumption, Control, Control', Storage, Guarded, Serving,
         NEW c \in Clients, Begin(c)
  PROVE  Guarded'
<1>0. /\ c \in Actors /\ pc \in [Actors -> Steps] /\ mine \in [Actors -> Hands]
      /\ archive \in [Snaps -> {"none", "partial", "ready"}]
      /\ row \in [Snaps -> {"none", "ready", "deleted"}]
      /\ \A d \in Clients : d \in Actors
      /\ run \in RunRows
  BY Names DEF Control, TypeOK, Hands, RunRows
<1>1. CASE StageRun(c) \/ CancelRun(c)
  <2>1. /\ UNCHANGED <<archive, row, mine, gaps>> /\ run'.snapshot = run.snapshot
        /\ Active' => Active
        /\ \A d \in Clients : pc'[d] \in {"unlinking", "marking"} => pc[d] = pc'[d]
    BY <1>0, <1>1 DEF StageRun, CancelRun, Go, Moves, RunRows, Active, TerminalRunStates, disk
  <2> QED
    BY <2>1, GuardedFrame DEF Guarded, Attached, Owns
<1>2. CASE ResumeRun(c)
  <2>1. /\ UNCHANGED <<archive, row, pc, mine>> /\ gaps \subseteq gaps'
        /\ run'.snapshot \in {run.snapshot, NoSnap}
        /\ run'.snapshot # NoSnap /\ Doomed(run'.snapshot) => "unguarded" \in gaps'
    BY <1>0, <1>2 DEF ResumeRun, RunRows
  <2>2. Attached'
    BY <2>1 DEF Guarded, Attached, Owns
  <2>3. Safe'
    <3> SUFFICES ASSUME "unguarded" \notin gaps', run'.snapshot # NoSnap
                 PROVE  (~Doomed(run.snapshot))' /\ row'[run'.snapshot] = "ready"
      BY DEF Safe
    <3>1. ~Doomed(run.snapshot) /\ run'.snapshot = run.snapshot /\ run.snapshot \in Snaps
      BY <1>0, <2>1 DEF RunRows
    <3>2. row[run.snapshot] = "ready"
      BY <1>0, <3>1 DEF Doomed, Guarded, Attached, Storage, Deleted
    <3> QED
      BY <2>1, <3>1, <3>2 DEF Doomed
  <2> QED
    BY <2>2, <2>3 DEF Guarded
<1>3. ASSUME NEW S \in SUBSET Snaps, NEW what \in Reasons \ {"approve", "save", "discard"},
             NEW l, Takes(c, S, what), Go(c, l), UNCHANGED <<run, archive, row, gaps>>,
             l \in {"unlinking", "marking"} => \A s \in S : ~Protects(s)
      PROVE  Guarded'
  <2>1. /\ pc'[c] = l /\ mine'[c].snaps = S /\ mine'[c].why = what
        /\ \A d \in Clients : d # c => pc'[d] = pc[d] /\ mine'[d] = mine[d]
    BY <1>0, <1>3 DEF Go, Takes
  <2>2. Active' = Active
    BY <1>3 DEF Active
  <2> QED
    BY <1>3, <2>1, <2>2, GuardedFrame DEF Guarded, Attached, Owns, Protects
<1>4. CASE Rollback(c)
  BY <1>0, <1>3, <1>4 DEF Rollback, Reasons, RunRows, disk
<1>5. CASE RestoreRequested(c)
  <2>1. PICK s \in Snaps : Takes(c, {s}, "restore")
    BY <1>5 DEF RestoreRequested
  <2> QED
    BY <1>3, <1>5, <2>1 DEF RestoreRequested, Reasons, disk
<1>6. CASE DeleteRequested(c)
  <2>1. PICK s \in Snaps : ~Protects(s) /\ Takes(c, {s}, "delete")
    BY <1>6 DEF DeleteRequested
  <2> QED
    BY <1>3, <1>6, <2>1 DEF DeleteRequested, Reasons, disk
<1>7. CASE CleanupSnapshots(c)
  <2>1. Expired \subseteq Snaps /\ \A s \in Expired : ~Protects(s)
    BY DEF Expired
  <2> QED
    BY <1>3, <1>7, <2>1 DEF CleanupSnapshots, Reasons, disk
<1>8. CASE FindOrphans(c)
  <2>1. {s \in Snaps : row[s] # "ready"} \subseteq Snaps
    OBVIOUS
  <2> QED
    BY <1>3, <1>8, <2>1 DEF FindOrphans, Reasons, disk
<1>9. ASSUME NEW why \in {"approve", "save"}, BeginSnapshot(c, why) PROVE Guarded'
  <2>1. PICK s \in Snaps : row[s] = "none" /\ Takes(c, {s}, why)
                           /\ archive' = [archive EXCEPT ![s] = "partial"]
    BY <1>9 DEF BeginSnapshot
  <2>2. /\ pc'[c] = "archiving" /\ mine'[c].snaps = {s}
        /\ \A d \in Clients : d # c => pc'[d] = pc[d] /\ mine'[d] = mine[d]
        /\ UNCHANGED <<run, row>> /\ gaps \subseteq gaps'
        /\ \A r \in Snaps : r # s => archive'[r] = archive[r]
    BY <1>0, <1>9, <2>1 DEF BeginSnapshot, Go, Takes
  <2>3. run.snapshot # NoSnap => run.snapshot \in Snaps /\ run.snapshot # s
    BY <1>0, <2>1 DEF Guarded, Attached, RunRows
  <2>4. Active' = Active
    BY <2>2 DEF Active
  <2>5. Attached'
    BY <2>1, <2>2, <2>3 DEF Guarded, Attached, Owns
  <2>6. Safe'
    BY <2>2, <2>3, <2>4 DEF Guarded, Safe, Doomed
  <2> QED
    BY <2>5, <2>6 DEF Guarded
<1> QED
  BY <1>1, <1>2, <1>4, <1>5, <1>6, <1>7, <1>8, <1>9 DEF Begin

LEMMA RestoreKeepsGuarded ==
  ASSUME SnapshotAssumption, Control, Guarded, NEW a \in Actors,
         Wipe(a) \/ Refill(a) \/ RefillFails(a)
  PROVE  Guarded'
<1>0. /\ pc \in [Actors -> Steps] /\ mine \in [Actors -> Hands]
      /\ pc[a] \in {"wiping", "refilling"} /\ \A d \in Clients : d \in Actors
  BY Names DEF Control, TypeOK, Hands, Wipe, Refill, RefillFails
<1>1. /\ UNCHANGED <<archive, row>> /\ gaps \subseteq gaps'
      /\ \E l \in {"refilling", "ended", "cleaning", "idle"} : Go(a, l)
      /\ UNCHANGED mine \/ Drops(a)
      /\ run' = run \/ \E w \in BOOLEAN : run' = Restored(a, w)
  BY DEF Wipe, Refill, RefillFails, AfterRestore
<1>2. \A d \in Clients : /\ mine'[d] = mine[d] \/ mine'[d] = Nothing
                         /\ pc'[d] \in {"unlinking", "marking"} => pc[d] = pc'[d]
  BY <1>0, <1>1 DEF Go, Drops
<1>3. /\ run'.snapshot = run.snapshot
      /\ run'.status = run.status \/ run'.status \in {"failed", "rolled_back"}
  <2>1. ASSUME NEW w \in BOOLEAN, run' = Restored(a, w)
        PROVE  /\ run'.snapshot = run.snapshot
               /\ run'.status = run.status \/ run'.status \in {"failed", "rolled_back"}
    BY <1>0, <2>1, RestoredRun
  <2> QED
    BY <1>1, <2>1
<1>4. Active' => Active
  BY <1>3 DEF Active, TerminalRunStates
<1> QED
  BY <1>1, <1>2, <1>3, <1>4, GuardedFrame, HandsTyped DEF Guarded, Attached, Owns

LEMMA ContinueKeepsGuarded ==
  ASSUME SnapshotAssumption, Control, Control', Storage, Guarded, Serving,
         NEW c \in Clients, Continue(c)
  PROVE  Guarded'
<1>0. /\ c \in Actors /\ pc \in [Actors -> Steps] /\ mine \in [Actors -> Hands]
      /\ archive \in [Snaps -> {"none", "partial", "ready"}]
      /\ row \in [Snaps -> {"none", "ready", "deleted"}]
      /\ \A d \in Clients : d \in Actors
      /\ mine[c].snaps \subseteq Snaps /\ HandFits(pc[c], mine[c])
      /\ run \in RunRows
  BY Names, InHandIsHeld DEF Control, TypeOK, Hands, Shaped, RunRows
<1>1. CASE InsertRun(c)
  <2>1. /\ UNCHANGED <<archive, row, mine, gaps>> /\ run'.snapshot = NoSnap
    BY <1>0, <1>1 DEF InsertRun, disk, RunRows, Control, Staging, Inserted
  <2> QED
    BY <2>1 DEF Guarded, Attached, Safe
<1>2. CASE Wipe(c) \/ Refill(c) \/ RefillFails(c)
  BY <1>0, <1>2, RestoreKeepsGuarded
\* What is in the making is not the run's.
<1>3. ASSUME pc[c] \in {"archiving", "published", "recorded"}
      PROVE  /\ InHand(c) \in Snaps /\ mine[c].snaps = {InHand(c)} /\ Owns(c)
             /\ InHand(c) # run.snapshot
  <2>1. InHand(c) \in Snaps /\ mine[c].snaps = {InHand(c)} /\ Owns(c)
    BY <1>0, <1>3, InHandIsHeld DEF HandFits, Owns
  <2>2. InHand(c) # run.snapshot
    <3>1. InHand(c) # NoSnap
      BY <2>1, SnapshotAssumption DEF SnapshotAssumption
    <3> QED
      BY <2>1, <3>1 DEF Guarded, Attached
  <2> QED
    BY <2>1, <2>2
<1>4. CASE PublishSnapshot(c) \/ SnapshotFails(c) \/ RecordSnapshot(c)
  <2>1. /\ pc[c] \in {"archiving", "published"} /\ UNCHANGED <<run, gaps>>
        /\ mine'[c] = mine[c] \/ mine'[c] = Nothing
        /\ pc'[c] \in {"published", "recorded", "idle"}
        /\ \A d \in Clients : d # c => pc'[d] = pc[d] /\ mine'[d] = mine[d]
    BY <1>0, <1>4 DEF PublishSnapshot, SnapshotFails, RecordSnapshot, Go, Drops
  <2>2. \A r \in Snaps \ {InHand(c)} : archive'[r] = archive[r] /\ row'[r] = row[r]
    BY <1>0, <1>4 DEF PublishSnapshot, SnapshotFails, RecordSnapshot
  <2>3. run.snapshot # NoSnap => run.snapshot \in Snaps \ {InHand(c)}
    BY <1>0, <1>3, <2>1 DEF RunRows
  <2>4. Active' = Active
    BY <2>1 DEF Active
  <2> QED
    BY <2>1, <2>2, <2>3, <2>4, GuardedFrame, HandsTyped DEF Guarded, Attached, Owns
<1>5. CASE Approve(c)
  <2> DEFINE s == InHand(c)
  <2>1. /\ pc[c] = "recorded" /\ UNCHANGED <<archive, row>> /\ run'.snapshot = s
        /\ pc'[c] = "idle" /\ mine'[c] = Nothing /\ gaps \subseteq gaps'
        /\ Doomed(s) => "unguarded" \in gaps'
        /\ \A d \in Clients : d # c => pc'[d] = pc[d] /\ mine'[d] = mine[d]
    BY <1>0, <1>5 DEF Approve, Go, Drops, disk, RunRows
  <2>2. s \in Snaps /\ mine[c].snaps = {s} /\ Owns(c) /\ row[s] # "none"
    BY <1>3, <2>1 DEF Storage, Recorded
  <2>3. Attached'
    BY <2>1, <2>2, HandsTyped DEF Attached, Storage, Owned, Owns
  <2>4. Safe'
    <3>1. ~Doomed(s) => row[s] = "ready"
      BY <1>0, <2>2 DEF Doomed, Storage, Deleted
    <3>2. ~Doomed(s) => (~Doomed(run.snapshot))'
      BY <2>1 DEF Doomed
    <3> QED
      BY <2>1, <3>1, <3>2 DEF Safe
  <2> QED
    BY <2>3, <2>4 DEF Guarded
<1>6. CASE ApproveFails(c)
  <2>1. /\ pc[c] = "recorded" /\ UNCHANGED <<archive, row, run, gaps>>
        /\ pc'[c] = "unlinking" /\ mine'[c].snaps = mine[c].snaps
        /\ \A d \in Clients : d # c => pc'[d] = pc[d] /\ mine'[d] = mine[d]
    BY <1>0, <1>6 DEF ApproveFails, Go, Takes, disk
  <2>2. Active' = Active /\ run.snapshot \notin mine[c].snaps
    BY <1>3, <2>1 DEF Active
  <2> QED
    BY <2>1, <2>2, GuardedFrame DEF Guarded, Attached, Owns
<1>7. CASE CleanupOrphans(c)
  <2>1. /\ pc[c] = "listing" /\ UNCHANGED <<archive, row, run, gaps>>
        /\ mine[c].why = "orphans" /\ pc'[c] \in {"idle", "unlinking"}
        /\ mine'[c].why \in {"orphans", "none"}
        /\ pc'[c] = "unlinking" =>
             /\ mine'[c].snaps \subseteq mine[c].snaps
             /\ \A s \in mine'[c].snaps : s \in old
        /\ \A d \in Clients : d # c => pc'[d] = pc[d] /\ mine'[d] = mine[d]
    BY <1>0, <1>7, HandsTyped
       DEF CleanupOrphans, Idle, Go, Takes, Drops, disk, HandFits, Orphans
  <2>2. pc'[c] = "unlinking" => \A s \in mine'[c].snaps : row[s] # "ready"
    BY <1>0, <2>1 DEF Storage, Orphaned
  <2>3. Active' = Active
    BY <2>1 DEF Active
  <2> QED
    BY <2>1, <2>2, <2>3, GuardedFrame DEF Guarded, Attached, Safe, Owns
<1>8. CASE Unlink(c) \/ Mark(c)
  <2>1. InHand(c) \in mine[c].snaps
    <3>1. mine[c].snaps # {}
      BY <1>0, <1>8 DEF Unlink, Mark, HandFits
    <3> QED
      BY <1>0, <3>1, InHandIsHeld
  <2>2. /\ pc[c] \in {"unlinking", "marking"} /\ UNCHANGED <<run, gaps>>
        /\ \A r \in Snaps \ {InHand(c)} : archive'[r] = archive[r] /\ row'[r] = row[r]
    BY <1>0, <1>8 DEF Unlink, Mark
  <2>3. /\ mine'[c].snaps \subseteq mine[c].snaps /\ mine'[c].why \in {mine[c].why, "none"}
        /\ \A d \in Clients : d # c => pc'[d] = pc[d] /\ mine'[d] = mine[d]
    BY <1>0, <1>8, HandsTyped DEF Unlink, Mark, OneLess, Idle, Go, Takes, Drops
  <2>4. Active' = Active
    BY <2>2 DEF Active
  <2>5. row'[InHand(c)] = "none" => row[InHand(c)] = "none" \/ Owns(c)
    BY <1>0, <1>8, <2>1 DEF Unlink, Mark, Owns
  <2>6. run.snapshot # NoSnap => run.snapshot \in Snaps /\ row'[run.snapshot] # "none"
    BY <1>0, <2>1, <2>2, <2>5 DEF RunRows, Guarded, Attached
  <2>7. Active /\ "unguarded" \notin gaps /\ run.snapshot # NoSnap
          => run.snapshot \notin mine[c].snaps
    BY <2>2 DEF Guarded, Safe, Doomed
  <2> QED
    BY <2>1, <2>2, <2>3, <2>4, <2>6, <2>7, GuardedFrame DEF Owns
<1> QED
  BY <1>1, <1>2, <1>4, <1>5, <1>6, <1>7, <1>8 DEF Continue

LEMMA ServiceKeepsGuarded ==
  ASSUME SnapshotAssumption, Control, Control', Storage, Guarded,
         (Serving /\ (Runner \/ Sweeper)) \/ Boot \/ TreeAges \/ SnapAges \/ Restart
  PROVE  Guarded'
<1>0. /\ pc \in [Actors -> Steps] /\ mine \in [Actors -> Hands] /\ run \in RunRows
      /\ \A c \in Clients : c \in Actors /\ c # "runner" /\ c # "sweeper" /\ c # "boot"
      /\ "runner" \in Actors /\ "boot" \in Actors
  BY Names DEF Control, TypeOK, Hands, RunRows
<1>1. CASE (Serving /\ Sweeper) \/ TreeAges \/ SnapAges \/ Recover \/ Claim \/ ApplyFirst
             \/ FinalizeJob
  <2>1. /\ UNCHANGED <<run, archive, row, gaps>>
        /\ UNCHANGED mine \/ \E S, w : Takes("boot", S, w)
        /\ UNCHANGED pc \/ \E a \in {"runner", "sweeper", "boot"} : \E l : Go(a, l)
    BY <1>1 DEF Sweeper, SweepCheck, SweepRemove, TreeAges, SnapAges, Recover, Claim,
                ApplyFirst, FinalizeJob, disk
  <2>2. \A c \in Clients : pc'[c] = pc[c] /\ mine'[c] = mine[c]
    BY <1>0, <2>1 DEF Go, Takes
  <2>3. Active' = Active
    BY <2>1 DEF Active
  <2> QED
    BY <2>1, <2>2, <2>3, GuardedFrame DEF Guarded, Attached, Owns
<1>2. CASE EndPlanning \/ EndWork \/ ApplyLast \/ PostCheckPasses \/ ApplyFails
  <2>1. /\ UNCHANGED <<archive, row, gaps>>
        /\ UNCHANGED mine \/ \E S, w : Takes("runner", S, w)
        /\ \E l : Go("runner", l)
        /\ UNCHANGED run \/ \E st : Moves(st)
    BY <1>2 DEF EndPlanning, EndWork, ApplyLast, PostCheckPasses, ApplyFails, disk
  <2>2. \A c \in Clients : pc'[c] = pc[c] /\ mine'[c] = mine[c]
    BY <1>0, <2>1 DEF Go, Takes
  <2>3. run'.snapshot = run.snapshot
    BY <1>0, <2>1 DEF Moves, RunRows
  <2>4. Active' => Active
    <3>1. pc["runner"] # "idle" => run.status \in SnapStatuses
      BY DEF Control, Inserted
    <3>2. CASE UNCHANGED run
      BY <3>2 DEF Active
    <3>3. CASE EndPlanning /\ run.status = "researching"
      BY <3>3 DEF Active, TerminalRunStates
    <3>4. CASE EndWork /\ run.status = "implementing"
      BY <3>4 DEF Active, TerminalRunStates
    <3>5. CASE ApplyLast /\ Allowed("post_check")
      BY <3>1, <3>5, StatusTable DEF ApplyLast, Active, TerminalRunStates
    <3>6. CASE PostCheckPasses /\ Moves("completed")
      BY <1>0, <3>6 DEF Moves, RunRows, Active, TerminalRunStates
    <3> QED
      BY <1>2, <3>2, <3>3, <3>4, <3>5, <3>6
         DEF EndPlanning, EndWork, ApplyLast, PostCheckPasses, ApplyFails
  <2> QED
    BY <2>1, <2>2, <2>3, <2>4, GuardedFrame DEF Guarded, Attached, Owns
<1>3. ASSUME NEW a \in {"runner", "boot"}, Wipe(a) \/ Refill(a) \/ RefillFails(a)
      PROVE  Guarded'
  BY <1>0, <1>3, RestoreKeepsGuarded
<1>4. CASE BootCleanup
  <2>1. /\ \A s \in Snaps : archive'[s] = IF s \in Expired \/ (s \in old /\ archive[s] = "partial")
                                          THEN "none" ELSE archive[s]
        /\ \A s \in Snaps : row'[s] = IF s \in Expired THEN "deleted" ELSE row[s]
        /\ UNCHANGED <<run, mine, gaps>>
        /\ \A c \in Clients : pc'[c] = pc[c]
    BY <1>0, <1>4 DEF BootCleanup, Go
  <2>2. /\ run.snapshot # NoSnap => run.snapshot \in Snaps
        /\ Active /\ run.snapshot # NoSnap => run.snapshot \notin Expired
    BY <1>0 DEF RunRows, Expired, Protects
  <2>3. Active /\ "unguarded" \notin gaps /\ run.snapshot # NoSnap
          => archive[run.snapshot] = "ready"
    BY DEF Guarded, Safe, Doomed
  <2>4. Active' = Active
    BY <2>1 DEF Active
  <2> QED
    BY <2>1, <2>2, <2>3, <2>4, GuardedFrame DEF Guarded, Attached, Owns
<1>5. CASE Restart
  <2>1. /\ UNCHANGED <<archive, row>> /\ gaps \subseteq gaps'
        /\ \A c \in Clients : pc'[c] = "idle" /\ mine'[c] = Nothing
        /\ run'.snapshot = run.snapshot
        /\ run'.status = run.status \/ run'.status = "failed"
    BY <1>0, <1>5 DEF Restart, disk, RunRows
  <2>2. Active' => Active
    BY <2>1 DEF Active, TerminalRunStates
  <2> QED
    BY <2>1, <2>2, GuardedFrame, HandsTyped DEF Guarded, Attached, Owns
<1> QED
  BY <1>1, <1>2, <1>3, <1>4, <1>5 DEF Runner, Boot

LEMMA GuardedStep ==
  ASSUME SnapshotAssumption, Control, Control', Storage, Guarded, [Next]_vars
  PROVE  Guarded'
<1>1. CASE UNCHANGED vars
  BY <1>1 DEF vars, Guarded, Attached, Safe, Active, Doomed, Owns
<1>2. ASSUME NEW c \in Clients, Serving, Begin(c) \/ Continue(c) PROVE Guarded'
  BY <1>2, BeginKeepsGuarded, ContinueKeepsGuarded
<1> QED
  BY <1>1, <1>2, ServiceKeepsGuarded DEF Next

LEMMA GuardedAlways == Spec => [](Control /\ Storage /\ Guarded)
<1>1. Init => Guarded
  BY DEF Init, Guarded, Attached, Safe
<1>2. Control /\ Control' /\ Storage /\ Guarded /\ [Next]_vars => Guarded'
  BY GuardedStep, SnapshotAssumption
<1> QED
  BY <1>1, <1>2, ControlAndStorage, PTL DEF Spec

\* A run that may write its target can be undone: whatever is deleted, expires or
\* fails, the archive and the row it would be restored from are there while it is
\* active, unless it became active with a snapshot somebody was deleting.
THEOREM ActiveKeepsItsSnapshot == Spec => []ActiveKeepsSnapshot
<1>1. Guarded => ActiveKeepsSnapshot
  BY DEF Guarded, Safe, Doomed, ActiveKeepsSnapshot
<1> QED
  BY <1>1, GuardedAlways, PTL

-----------------------------------------------------------------------------
(* The working tree is kept.                                               *)

\* The statuses of a run whose tree somebody can still need.
Going == {"researching", "implementing", "applying", "post_check", "failed"}

LEMMA TreesFrame ==
  ASSUME Trees, \A c \in Clients : mine'[c].why = "approve" => mine[c].why = "approve",
         \/ run'.status = run.status
         \/ run.status \in Going
         \/ run.status \in {"completed", "rolled_back"} /\ run'.status = "rolled_back",
         pc'["sweeper"] = "removing" => pc["sweeper"] = "removing",
         job = "none" /\ run.status \in SweepableRunStates => job' = "none",
         tree' = tree \/ tree' # "none",
         pc'["runner"] \in {"planning", "working"} => pc["runner"] = pc'["runner"] \/ Active,
         gaps \subseteq gaps'
  PROVE  Trees'
<1>1. Approving'
  BY DEF Trees, Approving, Going
<1>2. Sweeping'
  BY DEF Trees, Sweeping, Going, SweepableRunStates, TerminalRunStates
<1>3. WorkKeepsTree'
  <2>1. (Active \/ run.status = "failed")' => Active \/ run.status = "failed"
    BY DEF Active, TerminalRunStates, Going
  <2> QED
    BY <2>1 DEF Trees, WorkKeepsTree
<1> QED
  BY <1>1, <1>2, <1>3 DEF Trees

LEMMA BeginKeepsTrees ==
  ASSUME SnapshotAssumption, Control, Trees, Serving, NEW c \in Clients, Begin(c)
  PROVE  Trees'
<1>0. /\ c \in Actors /\ pc \in [Actors -> Steps] /\ mine \in [Actors -> Hands]
      /\ \A d \in Clients : d \in Actors
      /\ run \in RunRows /\ c # "runner" /\ c # "sweeper"
      /\ {"runner", "sweeper"} \subseteq Actors
  BY Names DEF Control, TypeOK, Hands, RunRows
<1>1. pc'["runner"] = pc["runner"] /\ pc'["sweeper"] = pc["sweeper"]
  <2>1. UNCHANGED pc \/ \E l : Go(c, l)
    BY DEF Begin, StageRun, BeginSnapshot, CancelRun, ResumeRun, Rollback,
           RestoreRequested, DeleteRequested, CleanupSnapshots, FindOrphans
  <2> QED
    BY <1>0, <2>1 DEF Go
<1>2. CASE StageRun(c)
  BY <1>1, <1>2, TreesFrame DEF StageRun
<1>3. CASE CancelRun(c)
  <2>1. /\ run'.status = "cancelled" /\ UNCHANGED <<tree, mine, gaps>>
        /\ run.status \notin {"none", "completed", "rolled_back"}
        /\ job = "none" => job' = "none"
    BY <1>0, <1>3 DEF CancelRun, Moves, RunRows, disk
  <2>2. Approving'
    BY <2>1 DEF Trees, Approving
  <2>3. Sweeping'
    BY <1>1, <2>1 DEF Trees, Sweeping, SweepableRunStates, TerminalRunStates
  <2>4. WorkKeepsTree'
    BY <1>1, <2>1 DEF Trees, WorkKeepsTree, Active, TerminalRunStates
  <2> QED
    BY <2>2, <2>3, <2>4 DEF Trees
<1>4. CASE ResumeRun(c)
  <2>1. /\ run.status = "failed" /\ UNCHANGED mine /\ tree' \in {tree, "young"}
        /\ gaps \subseteq gaps'
    BY <1>4 DEF ResumeRun
  <2> QED
    BY <1>1, <2>1, TreesFrame DEF Going, SweepableRunStates, TerminalRunStates
<1>5. ASSUME NEW S, NEW w, w # "approve", Takes(c, S, w), UNCHANGED <<run, job, tree>>,
             gaps \subseteq gaps'
      PROVE  Trees'
  <2>1. \A d \in Clients : mine'[d].why = "approve" => mine[d].why = "approve"
    BY <1>0, <1>5 DEF Takes
  <2> QED
    BY <1>1, <1>5, <2>1, TreesFrame
<1>6. CASE Rollback(c) \/ RestoreRequested(c) \/ DeleteRequested(c) \/ CleanupSnapshots(c)
             \/ FindOrphans(c) \/ BeginSnapshot(c, "save")
  <2>1. /\ UNCHANGED <<run, job, tree>> /\ gaps \subseteq gaps'
        /\ \E S, w : w # "approve" /\ Takes(c, S, w)
    BY <1>6 DEF Rollback, RestoreRequested, DeleteRequested, CleanupSnapshots,
                FindOrphans, BeginSnapshot, disk
  <2> QED
    BY <1>5, <2>1
<1>7. CASE BeginSnapshot(c, "approve")
  <2>1. /\ UNCHANGED <<run, job, tree>> /\ gaps \subseteq gaps'
        /\ run.status = "awaiting_approval" /\ \A d \in Clients : mine[d].why # "approve"
        /\ \E S : Takes(c, S, "approve")
    BY <1>7 DEF BeginSnapshot
  <2>2. \A d \in Clients : d # c => mine'[d].why # "approve"
    BY <1>0, <2>1 DEF Takes
  <2>3. Approving'
    BY <2>1, <2>2 DEF Approving
  <2>4. Sweeping' /\ WorkKeepsTree'
    BY <1>1, <2>1 DEF Trees, Sweeping, WorkKeepsTree, Active
  <2> QED
    BY <2>3, <2>4 DEF Trees
<1> QED
  BY <1>2, <1>3, <1>4, <1>6, <1>7 DEF Begin

LEMMA RestoreKeepsTrees ==
  ASSUME SnapshotAssumption, Control, Trees, NEW a \in Actors,
         Wipe(a) \/ Refill(a) \/ RefillFails(a), a = "boot" \/ Serving
  PROVE  Trees'
<1>0. /\ pc \in [Actors -> Steps] /\ mine \in [Actors -> Hands]
      /\ pc[a] \in {"wiping", "refilling"} /\ \A d \in Clients : d \in Actors
      /\ {"runner", "sweeper", "boot"} \subseteq Actors
  BY Names DEF Control, TypeOK, Hands, Wipe, Refill, RefillFails
<1>1. /\ UNCHANGED <<job, tree>> /\ gaps \subseteq gaps'
      /\ \E l \in {"refilling", "ended", "cleaning", "idle"} : Go(a, l)
      /\ UNCHANGED mine \/ Drops(a)
      /\ run' = run \/ \E w \in BOOLEAN : run' = Restored(a, w)
  BY DEF Wipe, Refill, RefillFails, AfterRestore
<1>2. /\ \A d \in Clients : mine'[d] = mine[d] \/ mine'[d] = Nothing
      /\ pc'["sweeper"] = "removing" => pc["sweeper"] = "removing"
      /\ pc'["runner"] \in {"planning", "working"} => pc["runner"] = pc'["runner"]
  BY <1>0, <1>1 DEF Go, Drops
<1>3. CASE a # "boot"
  <2>1. \/ run'.status = run.status
        \/ run.status \in Going
        \/ run.status \in {"completed", "rolled_back"} /\ run'.status = "rolled_back"
    <3>1. ASSUME NEW w \in BOOLEAN, run' = Restored(a, w)
          PROVE  \/ run'.status = run.status
                 \/ run.status \in Going
                 \/ run.status \in {"completed", "rolled_back"} /\ run'.status = "rolled_back"
      BY <1>0, <1>3, <3>1, RestoredRun DEF Going
    <3> QED
      BY <1>1, <3>1
  <2> QED
    BY <1>1, <1>2, <2>1, TreesFrame, HandsTyped
<1>4. CASE a = "boot"
  <2>1. \A b \in Actors : b # "boot" => pc[b] = "idle" /\ pc'[b] = "idle"
    BY <1>0, <1>1, <1>4 DEF Control, BootAlone, Go
  <2>2. \A d \in Clients : mine'[d] = Nothing
    <3>1. ASSUME NEW d \in Clients PROVE mine[d] = Nothing
      <4>1. HandFits(pc[d], mine[d]) /\ pc[d] = "idle"
        BY <1>0, <2>1, Names DEF Control, Shaped
      <4> QED
        BY <4>1 DEF HandFits, Holding
    <3> QED
      BY <1>2, <3>1
  <2>3. run'.status = run.status \/ (run.status # "none" /\ run'.status \in {"failed", "rolled_back"})
    <3>1. ASSUME NEW w \in BOOLEAN, run' = Restored(a, w)
          PROVE  run'.status = run.status
                   \/ (run.status # "none" /\ run'.status = "rolled_back")
      <4>1. run \in RunRows
        BY DEF Control, TypeOK, RunRows
      <4>2. mine[a].why # "restore" => run.status # "none"
        BY <1>0 DEF Control, Inserted, Shaped, HandFits
      <4> QED
        BY <1>4, <3>1, <4>1, <4>2 DEF Restored, RunRows
    <3> QED
      BY <1>1, <3>1
  <2>4. run'.status = "failed" => run.status = "failed"
    <3>1. ASSUME NEW w \in BOOLEAN, run' = Restored(a, w)
          PROVE  run'.status = run.status \/ run'.status = "rolled_back"
      <4>1. run \in RunRows
        BY DEF Control, TypeOK, RunRows
      <4> QED
        BY <1>4, <3>1, <4>1 DEF Restored, RunRows
    <3> QED
      BY <1>1, <3>1
  <2>5. Approving' /\ Sweeping'
    BY <1>0, <2>1, <2>2, Names, HandsTyped DEF Approving, Sweeping
  <2>6. WorkKeepsTree'
    BY <1>0, <1>1, <2>1, <2>3, <2>4, Names
       DEF Trees, WorkKeepsTree, Active, TerminalRunStates
  <2> QED
    BY <2>5, <2>6 DEF Trees
<1> QED
  BY <1>3, <1>4

LEMMA ContinueKeepsTrees ==
  ASSUME SnapshotAssumption, Control, Trees, Serving, NEW c \in Clients, Continue(c)
  PROVE  Trees'
<1>0. /\ c \in Actors /\ pc \in [Actors -> Steps] /\ mine \in [Actors -> Hands]
      /\ \A d \in Clients : d \in Actors
      /\ run \in RunRows /\ c # "runner" /\ c # "sweeper" /\ c # "boot"
      /\ HandFits(pc[c], mine[c])
  BY Names DEF Control, TypeOK, Hands, RunRows, Shaped
<1>1. CASE InsertRun(c)
  <2>1. /\ run.status = "none" /\ tree = "young" /\ pc["sweeper"] # "removing"
        /\ run'.status = "researching" /\ UNCHANGED <<tree, mine>>
        /\ pc'["sweeper"] = pc["sweeper"]
    <3>1. run.status = "none" /\ tree = "young"
      BY <1>1 DEF InsertRun, Control, Staging
    <3>2. pc["sweeper"] # "removing"
      BY <3>1 DEF Control, Staging
    <3> QED
      BY <1>0, <1>1, <3>1, <3>2 DEF InsertRun, disk, Go, RunRows
  <2>2. Approving'
    BY <2>1 DEF Trees, Approving
  <2> QED
    BY <2>1, <2>2 DEF Trees, Sweeping, WorkKeepsTree
<1>2. CASE Approve(c)
  <2>1. /\ mine[c].why = "approve" /\ run'.status = "implementing" /\ UNCHANGED tree
        /\ \A d \in Clients : d # c => mine'[d] = mine[d]
        /\ mine'[c] = Nothing /\ gaps \subseteq gaps'
        /\ run.status = "cancelled" => "revived" \in gaps'
        /\ pc'["sweeper"] = pc["sweeper"] /\ pc'["runner"] = pc["runner"]
    BY <1>0, <1>2 DEF Approve, Drops, Go, HandFits, disk, RunRows
  <2>2. run.status \in {"awaiting_approval", "cancelled"} /\ \A d \in Clients : mine'[d].why # "approve"
    BY <2>1, HandsTyped DEF Trees, Approving
  <2>3. Approving'
    BY <2>2 DEF Approving
  <2>4. Sweeping'
    BY <2>1, <2>2 DEF Trees, Sweeping, SweepableRunStates, TerminalRunStates
  <2>5. WorkKeepsTree'
    BY <2>1, <2>2 DEF Trees, WorkKeepsTree, Active, TerminalRunStates
  <2> QED
    BY <2>3, <2>4, <2>5 DEF Trees
<1>3. CASE Wipe(c) \/ Refill(c) \/ RefillFails(c)
  BY <1>0, <1>3, RestoreKeepsTrees
<1>4. CASE \/ PublishSnapshot(c) \/ RecordSnapshot(c) \/ SnapshotFails(c) \/ ApproveFails(c)
           \/ CleanupOrphans(c) \/ Unlink(c) \/ Mark(c)
  <2>1. /\ UNCHANGED <<run, job, tree, gaps>> /\ \E l : Go(c, l)
        /\ \/ UNCHANGED mine \/ Drops(c)
           \/ \E S, w : Takes(c, S, w) /\ w \in {mine[c].why, "orphans", "discard"}
    BY <1>4 DEF PublishSnapshot, RecordSnapshot, SnapshotFails, ApproveFails, CleanupOrphans,
                Unlink, Mark, OneLess, Idle, disk
  <2>2. /\ pc'["runner"] = pc["runner"] /\ pc'["sweeper"] = pc["sweeper"]
        /\ \A d \in Clients : mine'[d].why = "approve" => mine[d].why = "approve"
    <3>1. pc'["runner"] = pc["runner"] /\ pc'["sweeper"] = pc["sweeper"]
      BY <1>0, <2>1 DEF Go
    <3>2. \A d \in Clients : mine'[d].why = "approve" => mine[d].why = "approve"
      BY <1>0, <2>1, HandsTyped DEF Drops, Takes
    <3> QED
      BY <3>1, <3>2
  <2> QED
    BY <2>1, <2>2, TreesFrame
<1> QED
  BY <1>1, <1>2, <1>3, <1>4 DEF Continue

LEMMA ServiceKeepsTrees ==
  ASSUME SnapshotAssumption, Control, Control', Trees,
         (Serving /\ (Runner \/ Sweeper)) \/ Boot \/ TreeAges \/ SnapAges \/ Restart
  PROVE  Trees'
<1>0. /\ pc \in [Actors -> Steps] /\ mine \in [Actors -> Hands] /\ run \in RunRows
      /\ \A c \in Clients : c \in Actors /\ c # "runner" /\ c # "sweeper" /\ c # "boot"
      /\ {"runner", "sweeper", "boot"} \subseteq Actors
      /\ pc["runner"] # "idle" => job = "running" /\ run.status \in SnapStatuses
  BY Names DEF Control, TypeOK, Hands, RunRows, Inserted
<1>1. CASE Claim \/ EndPlanning \/ EndWork \/ ApplyFirst \/ ApplyLast \/ PostCheckPasses
             \/ ApplyFails \/ FinalizeJob
  <2>1. /\ \/ UNCHANGED mine \/ \E S : Takes("runner", S, "undo")
        /\ \E l : Go("runner", l) /\ UNCHANGED <<tree, gaps>>
    BY <1>1 DEF Claim, EndPlanning, EndWork, ApplyFirst, ApplyLast, PostCheckPasses,
                ApplyFails, FinalizeJob, disk
  <2>2. /\ \A c \in Clients : mine'[c] = mine[c]
        /\ pc'["sweeper"] = pc["sweeper"]
    BY <1>0, <2>1 DEF Go, Takes
  <2>3. pc'["runner"] \in {"planning", "working"} => Active
    <3>1. CASE Claim
      <4>1. pc'["runner"] = CASE run.status = "researching" -> "planning"
                               [] run.status = "implementing" -> "working"
                               [] OTHER -> "ended"
        BY <1>0, <3>1 DEF Claim, Go
      <4> QED
        BY <4>1 DEF Active, TerminalRunStates
    <3>2. CASE ~Claim
      <4>1. \E l : l \notin {"planning", "working"} /\ Go("runner", l)
        BY <1>1, <3>2 DEF EndPlanning, EndWork, ApplyFirst, ApplyLast, PostCheckPasses,
                          ApplyFails, FinalizeJob
      <4> QED
        BY <1>0, <4>1 DEF Go
    <3> QED
      BY <3>1, <3>2
  <2>4. \/ run'.status = run.status
        \/ run.status \in Going
        \/ run.status \in {"completed", "rolled_back"} /\ run'.status = "rolled_back"
    <3>1. CASE EndPlanning \/ EndWork
      BY <3>1 DEF EndPlanning, EndWork, Going
    <3>2. CASE ApplyLast
      BY <1>0, <3>2, StatusTable DEF ApplyLast, Going
    <3>3. CASE PostCheckPasses
      <4>1. UNCHANGED run \/ (Allowed("completed") /\ Moves("completed"))
        BY <3>3 DEF PostCheckPasses
      <4> QED
        BY <1>0, <3>3, <4>1, StatusTable DEF PostCheckPasses, Moves, RunRows, Going
    <3>4. CASE Claim \/ ApplyFirst \/ ApplyFails \/ FinalizeJob
      BY <3>4 DEF Claim, ApplyFirst, ApplyFails, FinalizeJob
    <3> QED
      BY <1>1, <3>1, <3>2, <3>3, <3>4
  <2>5. job = "none" => job' = "none"
    BY <1>0, <1>1 DEF Claim, EndPlanning, EndWork, ApplyFirst, ApplyLast, PostCheckPasses,
                      ApplyFails, FinalizeJob
  <2> QED
    BY <2>1, <2>2, <2>3, <2>4, <2>5, TreesFrame
<1>2. ASSUME NEW a \in {"runner", "boot"}, Wipe(a) \/ Refill(a) \/ RefillFails(a),
             a = "boot" \/ Serving
      PROVE  Trees'
  BY <1>0, <1>2, RestoreKeepsTrees
<1>3. CASE SweepCheck
  <2>1. /\ UNCHANGED <<run, job, tree, mine, gaps>> /\ Useless
        /\ pc'["runner"] = pc["runner"]
    BY <1>0, <1>3 DEF SweepCheck, Go, disk
  <2> QED
    BY <2>1 DEF Trees, Approving, Sweeping, WorkKeepsTree, Active, Useless
<1>4. CASE SweepRemove
  <2>1. /\ UNCHANGED <<run, job, mine, gaps>> /\ pc["sweeper"] = "removing"
        /\ pc'["runner"] = pc["runner"] /\ pc'["sweeper"] = "idle"
    BY <1>0, <1>4 DEF SweepRemove, Go
  <2>2. "revived" \notin gaps =>
          ~(Active \/ run.status = "failed" \/ pc["runner"] \in {"planning", "working"})
    <3>1. "revived" \notin gaps => run.status = "none" \/ (run.status \in SweepableRunStates /\ job = "none")
      BY <2>1 DEF Trees, Sweeping
    <3>2. run.status = "none" => job = "none"
      BY DEF Control, Inserted
    <3> QED
      BY <1>0, <3>1, <3>2 DEF Active, SweepableRunStates, TerminalRunStates
  <2> QED
    BY <2>1, <2>2 DEF Trees, Approving, Sweeping, WorkKeepsTree, Active
<1>5. CASE TreeAges \/ SnapAges \/ Recover
  <2>1. /\ UNCHANGED <<run, job, gaps>> /\ (tree' = tree \/ tree' # "none")
        /\ UNCHANGED mine \/ \E S : Takes("boot", S, "recover")
        /\ UNCHANGED pc \/ \E l : Go("boot", l)
    BY <1>5 DEF TreeAges, SnapAges, Recover, disk
  <2>2. /\ \A c \in Clients : mine'[c] = mine[c]
        /\ pc'["runner"] = pc["runner"] /\ pc'["sweeper"] = pc["sweeper"]
    BY <1>0, <2>1 DEF Go, Takes
  <2> QED
    BY <2>1, <2>2, TreesFrame
<1>6. CASE BootCleanup
  <2>1. /\ UNCHANGED <<run, job, mine, gaps>> /\ tree' = IF Useless THEN "none" ELSE tree
        /\ pc["runner"] = "idle" /\ pc'["runner"] = "idle" /\ pc'["sweeper"] = "idle"
    BY <1>0, <1>6 DEF BootCleanup, Go, Control, BootAlone
  <2> QED
    BY <2>1 DEF Trees, Approving, Sweeping, WorkKeepsTree, Active, Useless,
                SweepableRunStates, TerminalRunStates
<1>7. CASE Restart
  <2>1. /\ UNCHANGED tree /\ gaps \subseteq gaps'
        /\ \A c \in Clients : mine'[c] = Nothing
        /\ pc'["runner"] = "idle" /\ pc'["sweeper"] = "idle"
        /\ run'.status = run.status
             \/ (run.status \in {"applying", "post_check"} /\ run'.status = "failed")
    BY <1>0, <1>7 DEF Restart, disk, RunRows
  <2>2. Approving' /\ Sweeping'
    BY <2>1, HandsTyped DEF Approving, Sweeping
  <2>3. WorkKeepsTree'
    BY <2>1 DEF Trees, WorkKeepsTree, Active, TerminalRunStates
  <2> QED
    BY <2>2, <2>3 DEF Trees
<1> QED
  BY <1>1, <1>2, <1>3, <1>4, <1>5, <1>6, <1>7 DEF Runner, Boot, Sweeper

LEMMA TreesStep ==
  ASSUME SnapshotAssumption, Control, Control', Trees, [Next]_vars
  PROVE  Trees'
<1>1. CASE UNCHANGED vars
  BY <1>1 DEF vars, Trees, Approving, Sweeping, WorkKeepsTree, Active
<1>2. ASSUME NEW c \in Clients, Serving, Begin(c) \/ Continue(c) PROVE Trees'
  BY <1>2, BeginKeepsTrees, ContinueKeepsTrees
<1> QED
  BY <1>1, <1>2, ServiceKeepsTrees DEF Next

LEMMA TreesAlways == Spec => [](Control /\ Storage /\ Guarded /\ Trees)
<1>1. Init => Trees
  <2>1. ASSUME Init PROVE \A c \in Clients : mine[c] = Nothing /\ pc["sweeper"] = "idle"
                                             /\ pc["runner"] = "idle"
    BY <2>1, Names, SnapshotAssumption DEF Init
  <2>2. ASSUME Init PROVE pc["sweeper"] = "idle" /\ pc["runner"] = "idle" /\ run.status = "none"
    BY <2>2, Names, SnapshotAssumption DEF Init
  <2> QED
    BY <2>1, <2>2, HandsTyped DEF Trees, Approving, Sweeping, WorkKeepsTree, Active
<1>2. Control /\ Control' /\ Trees /\ [Next]_vars => Trees'
  BY TreesStep, SnapshotAssumption
<1> QED
  BY <1>1, <1>2, GuardedAlways, PTL DEF Spec

\* The sweeper and the cleanup at the start never take a tree somebody can still
\* need: the run's while it is active or can be resumed, and the one a handler of
\* a run that is over still works in, unless an approval revived a cancelled run.
THEOREM WorkKeepsItsTree == Spec => []WorkKeepsTree
<1>1. Trees => WorkKeepsTree
  BY DEF Trees
<1> QED
  BY <1>1, TreesAlways, PTL

-----------------------------------------------------------------------------
(* The target is kept whole.                                               *)

\* A step while the service runs that neither writes the target nor moves anybody
\* to or from writing it.
LEMMA TargetFrame ==
  ASSUME Target, gaps \subseteq gaps', Serving, Serving', UNCHANGED <<target, content>>,
         gaps = {} /\ (run'.snapshot # NoSnap \/ \E c \in Clients : mine'[c].why = "approve")
           => run'.baseline \notin Halves,
         \A a \in Actors : pc'[a] = "refilling" <=> pc[a] = "refilling",
         pc["runner"] \in {"copying", "copied", "wiping"} /\ run.status \in {"applying", "post_check"}
           => run'.status = run.status /\ run'.snapshot = run.snapshot
                /\ pc'["runner"] = pc["runner"] /\ mine'["runner"] = mine["runner"],
         pc'["runner"] \in {"copying", "copied"} => pc["runner"] = pc'["runner"]
  PROVE  Target'
<1> SUFFICES ASSUME gaps' = {} PROVE (WholeCopies /\ OneWriter /\ Repairing /\ HalfInHand)'
  BY DEF Target
<1>1. gaps = {} /\ WholeCopies /\ OneWriter /\ Repairing /\ HalfInHand
  BY DEF Target
<1>2. WholeCopies'
  BY <1>1 DEF WholeCopies
<1>3. OneWriter'
  BY <1>1 DEF OneWriter
<1>4. Repairing'
  BY DEF Repairing, Serving
<1>5. HalfInHand'
  BY <1>1 DEF HalfInHand, OneWriter, Serving
<1> QED
  BY <1>2, <1>3, <1>4, <1>5

\* What a client begins, and the steps on archives and rows.
LEMMA ClientKeepsTarget ==
  ASSUME SnapshotAssumption, Control, Control', Trees, Target, Serving, NEW c \in Clients,
         Begin(c) \/ Continue(c), ~Wipe(c), ~Refill(c), ~RefillFails(c)
  PROVE  Target'
<1>0. /\ c \in Actors /\ pc \in [Actors -> Steps] /\ mine \in [Actors -> Hands]
      /\ \A d \in Clients : d \in Actors
      /\ run \in RunRows /\ c # "runner" /\ c # "boot"
      /\ {"runner", "boot"} \subseteq Actors
      /\ HandFits(pc[c], mine[c])
  BY Names DEF Control, TypeOK, Hands, RunRows, Shaped
<1>1. /\ gaps \subseteq gaps' /\ UNCHANGED target
      /\ UNCHANGED pc \/ \E l : l # "refilling" /\ Go(c, l)
      /\ UNCHANGED mine \/ Drops(c) \/ \E S, w : Takes(c, S, w)
      /\ pc[c] # "refilling"
  <2>1. CASE Begin(c)
    <3>1. UNCHANGED pc \/ pc[c] # "refilling"
      BY <2>1 DEF Begin, StageRun, BeginSnapshot, CancelRun, ResumeRun, Rollback, Request,
                  RestoreRequested, DeleteRequested, CleanupSnapshots, FindOrphans
    <3> QED
      BY <2>1, <3>1 DEF Begin, StageRun, BeginSnapshot, CancelRun, ResumeRun, Rollback, Request,
                  RestoreRequested, DeleteRequested, CleanupSnapshots, FindOrphans, disk
  <2>2. CASE Continue(c)
    BY <2>2 DEF Continue, InsertRun, PublishSnapshot, RecordSnapshot, SnapshotFails, Approve,
                ApproveFails, CleanupOrphans, Unlink, Mark, OneLess, Idle, disk
  <2> QED
    BY <2>1, <2>2
<1>2. /\ pc'["runner"] = pc["runner"] /\ pc'["boot"] = pc["boot"]
      /\ \A a \in Actors : pc'[a] = "refilling" <=> pc[a] = "refilling"
  BY <1>0, <1>1 DEF Go
<1>3. mine'["runner"] = mine["runner"] /\ \A d \in Clients : d # c => mine'[d] = mine[d]
  BY <1>0, <1>1 DEF Drops, Takes
<1>4. Serving'
  BY <1>2 DEF Serving
<1>5. run.status \in {"applying", "post_check"}
        => run'.status = run.status /\ run'.snapshot = run.snapshot
  <2>1. UNCHANGED run \/ InsertRun(c) \/ Approve(c) \/ CancelRun(c) \/ ResumeRun(c)
    BY DEF Begin, StageRun, BeginSnapshot, Rollback, RestoreRequested, DeleteRequested,
           CleanupSnapshots, FindOrphans, Continue, PublishSnapshot, RecordSnapshot,
           SnapshotFails, ApproveFails, CleanupOrphans, Unlink, Mark
  <2>2. CASE InsertRun(c)
    BY <2>2 DEF InsertRun, Control, Staging
  <2>3. CASE Approve(c)
    BY <1>0, <2>3 DEF Approve, HandFits, Trees, Approving
  <2> QED
    BY <2>1, <2>2, <2>3 DEF CancelRun, ResumeRun
\* The baseline of a run with a snapshot, or with an approval under way, is whole.
<1>6. ASSUME gaps = {}, gaps' = {},
             run'.snapshot # NoSnap \/ \E d \in Clients : mine'[d].why = "approve"
      PROVE  run'.baseline \notin Halves
  <2>0. WholeCopies
    BY <1>6 DEF Target
  <2>1. CASE InsertRun(c)
    <3>1. run'.snapshot = run.snapshot /\ UNCHANGED mine /\ run.status = "none"
      BY <1>0, <2>1 DEF InsertRun, RunRows, Control, Staging
    <3> QED
      BY <1>6, <3>1 DEF Control, Inserted, Trees, Approving
  <2>2. CASE Approve(c)
    <3>1. mine[c].why = "approve" /\ run'.baseline = run.baseline
      BY <1>0, <2>2 DEF Approve, HandFits, RunRows
    <3> QED
      BY <2>0, <3>1 DEF WholeCopies
  <2>3. CASE ResumeRun(c)
    <3>1. run.status = "failed" /\ UNCHANGED mine
      BY <2>3 DEF ResumeRun
    <3>2. run'.snapshot # NoSnap
      BY <1>6, <3>1 DEF Trees, Approving
    <3>3. run.snapshot # NoSnap /\ run'.baseline = run.baseline
      BY <1>0, <2>3, <3>2 DEF ResumeRun, RunRows
    <3> QED
      BY <2>0, <3>3 DEF WholeCopies
  <2>4. CASE CancelRun(c)
    BY <1>0, <1>6, <2>0, <2>4 DEF CancelRun, Moves, RunRows, WholeCopies
  <2>5. CASE BeginSnapshot(c, "approve")
    BY <1>6, <2>5 DEF BeginSnapshot
  <2>6. CASE UNCHANGED run /\ ~BeginSnapshot(c, "approve")
    <3>1. \A d \in Clients : mine'[d].why = "approve" => mine[d].why = "approve"
      <4>1. UNCHANGED mine \/ Drops(c)
              \/ \E S, w : Takes(c, S, w) /\ w \in {"save", "restore", "rollback", "delete",
                                                    "orphans", "discard", mine[c].why}
        BY <2>6 DEF Begin, StageRun, BeginSnapshot, CancelRun, ResumeRun, Rollback,
               RestoreRequested, DeleteRequested, CleanupSnapshots, FindOrphans,
               Continue, InsertRun, PublishSnapshot, RecordSnapshot, SnapshotFails, Approve,
               ApproveFails, CleanupOrphans, Unlink, Mark, OneLess, Idle
      <4> QED
        BY <1>0, <4>1, HandsTyped DEF Drops, Takes
    <3> QED
      BY <1>6, <2>0, <2>6, <3>1 DEF WholeCopies
  <2>7. UNCHANGED run \/ InsertRun(c) \/ Approve(c) \/ CancelRun(c) \/ ResumeRun(c)
    BY DEF Begin, StageRun, BeginSnapshot, Rollback, RestoreRequested, DeleteRequested,
           CleanupSnapshots, FindOrphans, Continue, PublishSnapshot, RecordSnapshot,
           SnapshotFails, ApproveFails, CleanupOrphans, Unlink, Mark
  <2> QED
    BY <2>1, <2>2, <2>3, <2>4, <2>5, <2>6, <2>7
<1>7. CASE BeginSnapshot(c, "approve") \/ BeginSnapshot(c, "save")
  <2> SUFFICES ASSUME gaps' = {} PROVE (WholeCopies /\ OneWriter /\ Repairing /\ HalfInHand)'
    BY DEF Target
  <2>1. /\ gaps = {} /\ target \notin Halves /\ UNCHANGED run
        /\ \E s \in Snaps : content' = [content EXCEPT ![s] = target]
    BY <1>1, <1>7 DEF BeginSnapshot
  <2>2. WholeCopies /\ OneWriter
    BY <2>1 DEF Target
  <2>3. WholeCopies'
    <3>1. \A s \in Snaps : content'[s] \notin Halves
      BY <2>1, <2>2 DEF WholeCopies, Control, TypeOK
    <3> QED
      BY <1>6, <2>1, <3>1 DEF WholeCopies
  <2>4. OneWriter'
    BY <1>1, <1>2, <2>1, <2>2 DEF OneWriter
  <2>5. Repairing' /\ HalfInHand'
    BY <1>1, <1>4, <2>1 DEF Repairing, HalfInHand, Serving, Halves
  <2> QED
    BY <2>3, <2>4, <2>5
<1>8. CASE ~BeginSnapshot(c, "approve") /\ ~BeginSnapshot(c, "save")
  <2>1. UNCHANGED content
    BY <1>8 DEF Begin, StageRun, CancelRun, ResumeRun, Rollback,
           RestoreRequested, DeleteRequested, CleanupSnapshots, FindOrphans,
           Continue, InsertRun, PublishSnapshot, RecordSnapshot, SnapshotFails, Approve,
           ApproveFails, CleanupOrphans, Unlink, Mark, disk
  <2>2. CASE gaps' = {}
    <3>1. gaps = {}
      BY <1>1, <2>2
    <3> QED
      BY <1>1, <1>2, <1>3, <1>4, <1>5, <1>6, <2>1, <2>2, <3>1, TargetFrame
  <2> QED
    BY <2>2 DEF Target
<1> QED
  BY <1>7, <1>8

\* What a restore, while the service runs or starts, does to the run and to those
\* who have an approval under way.
LEMMA RestoreMoves ==
  ASSUME SnapshotAssumption, Control, NEW a \in Actors,
         Wipe(a) \/ Refill(a) \/ RefillFails(a)
  PROVE  /\ UNCHANGED <<content, archive, row>> /\ gaps \subseteq gaps'
         /\ run'.snapshot = run.snapshot /\ run'.baseline = run.baseline
         /\ \A b \in Actors : b # a => pc'[b] = pc[b] /\ mine'[b] = mine[b]
         /\ \A c \in Clients : mine'[c].why = "approve" => mine[c].why = "approve"
         /\ a \in Actors /\ a # "sweeper" /\ pc[a] \in {"wiping", "refilling"}
         /\ mine[a].snaps = {InHand(a)} /\ InHand(a) \in Snaps
         /\ pc'[a] = "refilling" \/ pc'[a] = IF a = "runner" THEN "ended"
                                            ELSE IF a = "boot" THEN "cleaning" ELSE "idle"
<1>0. /\ pc \in [Actors -> Steps] /\ mine \in [Actors -> Hands]
      /\ pc[a] \in {"wiping", "refilling"} /\ \A d \in Clients : d \in Actors
  BY Names DEF Control, TypeOK, Hands, Wipe, Refill, RefillFails
<1>1. /\ UNCHANGED <<content, archive, row>> /\ gaps \subseteq gaps'
      /\ Go(a, "refilling") \/ Go(a, IF a = "runner" THEN "ended"
                                     ELSE IF a = "boot" THEN "cleaning" ELSE "idle")
      /\ UNCHANGED mine \/ Drops(a)
      /\ run' = run \/ \E w \in BOOLEAN : run' = Restored(a, w)
  BY DEF Wipe, Refill, RefillFails, AfterRestore
<1>2. run'.snapshot = run.snapshot /\ run'.baseline = run.baseline
  <2>1. ASSUME NEW w \in BOOLEAN, run' = Restored(a, w)
        PROVE  run'.snapshot = run.snapshot /\ run'.baseline = run.baseline
    BY <1>0, <2>1, RestoredRun
  <2> QED
    BY <1>1, <2>1
<1>3. \A b \in Actors : b # a => pc'[b] = pc[b] /\ mine'[b] = mine[b]
  BY <1>0, <1>1 DEF Go, Drops
<1>4. \A c \in Clients : mine'[c].why = "approve" => mine[c].why = "approve"
  BY <1>0, <1>1, HandsTyped DEF Drops
<1>5. a # "sweeper"
  BY <1>0 DEF Control, Placed
<1>6. mine[a].snaps = {InHand(a)} /\ InHand(a) \in Snaps
  BY <1>0, InHandIsHeld
<1>7. pc'[a] = "refilling" \/ pc'[a] = IF a = "runner" THEN "ended"
                                       ELSE IF a = "boot" THEN "cleaning" ELSE "idle"
  BY <1>0, <1>1 DEF Go
<1> QED
  BY <1>0, <1>1, <1>2, <1>3, <1>4, <1>5, <1>6, <1>7

LEMMA RestoreKeepsTarget ==
  ASSUME SnapshotAssumption, Control, Control', Storage, Guarded, Target, NEW a \in Actors,
         Wipe(a) \/ Refill(a) \/ RefillFails(a), a = "boot" \/ Serving
  PROVE  Target'
<1> SUFFICES ASSUME gaps' = {} PROVE (WholeCopies /\ OneWriter /\ Repairing /\ HalfInHand)'
  BY DEF Target
<1>0. /\ UNCHANGED <<content, archive, row>> /\ gaps = {}
      /\ run'.snapshot = run.snapshot /\ run'.baseline = run.baseline
      /\ \A b \in Actors : b # a => pc'[b] = pc[b] /\ mine'[b] = mine[b]
      /\ \A c \in Clients : mine'[c].why = "approve" => mine[c].why = "approve"
      /\ a \in Actors /\ a # "sweeper" /\ pc[a] \in {"wiping", "refilling"}
      /\ mine[a].snaps = {InHand(a)} /\ InHand(a) \in Snaps
      /\ pc'[a] = "refilling" \/ pc'[a] = IF a = "runner" THEN "ended"
                                         ELSE IF a = "boot" THEN "cleaning" ELSE "idle"
      /\ \A d \in Clients : d \in Actors
      /\ {"runner", "boot", "sweeper"} \subseteq Actors
      /\ a = "boot" <=> pc["boot"] # "idle"
  <2>1. a = "boot" <=> pc["boot"] # "idle"
    BY RestoreMoves DEF Serving
  <2> QED
    BY <2>1, RestoreMoves, Names
<1>1. WholeCopies /\ OneWriter /\ Repairing /\ HalfInHand
  BY <1>0 DEF Target
<1>2. WholeCopies'
  BY <1>0, <1>1 DEF WholeCopies
<1>3. CASE Wipe(a) /\ pc'[a] = "refilling"
  <2>1. /\ target' = "wiped" /\ run' = run /\ mine' = mine /\ ~Crossing(a)
        /\ row[InHand(a)] # "none" /\ archive[InHand(a)] = "ready" /\ pc[a] = "wiping"
    BY <1>0, <1>3 DEF Wipe, AfterRestore, Go, Control, TypeOK
  <2>2. \A b \in Actors : b # a => pc[b] \notin {"copying", "copied", "refilling"}
    BY <2>1 DEF Crossing
  <2>3. OneWriter'
    BY <1>0, <1>3, <2>1, <2>2 DEF OneWriter
  <2>4. HalfInHand'
    BY <1>0, <1>1, <1>3, <2>1 DEF HalfInHand, Serving, Halves
  <2>5. Repairing'
    <3>1. CASE a = "boot"
      <4>1. /\ run.status = "failed" /\ run.interrupted /\ run.snapshot # NoSnap
            /\ mine["boot"].snaps = {run.snapshot}
        BY <1>1, <2>1, <3>1 DEF Repairing
      <4>2. InHand(a) = run.snapshot /\ row[run.snapshot] = "ready"
        <5>1. InHand(a) = run.snapshot
          BY <1>0, <3>1, <4>1
        <5>2. row[InHand(a)] \in {"none", "ready", "deleted"}
          BY <1>0 DEF Control, TypeOK
        <5> QED
          BY <1>0, <2>1, <5>1, <5>2 DEF Storage, Deleted
      <4> QED
        BY <1>0, <2>1, <4>1, <4>2 DEF Repairing
    <3>2. CASE a # "boot"
      BY <1>0, <3>2 DEF Repairing
    <3> QED
      BY <3>1, <3>2
  <2> QED
    BY <1>2, <2>3, <2>4, <2>5
\* The archive is there whenever half a target has to be restored.
<1>4. CASE Wipe(a) /\ pc'[a] # "refilling"
  <2>1. /\ target' = target /\ run' = Restored(a, FALSE) /\ pc[a] = "wiping"
        /\ ~(row[InHand(a)] # "none" /\ archive[InHand(a)] = "ready")
        /\ pc'[a] = IF a = "runner" THEN "ended" ELSE IF a = "boot" THEN "cleaning" ELSE "idle"
    <3>1. ~Go(a, "refilling")
      BY <1>0, <1>4 DEF Go, Control, TypeOK
    <3> QED
      BY <1>0, <1>4, <3>1 DEF Wipe
  <2>2. a = "boot" \/ run' = run \/ a = "runner"
    BY <2>1 DEF Restored
  <2>3. a = "boot" => target \notin Halves
    BY <1>0, <1>1, <2>1 DEF Repairing
  <2>4. a = "runner" =>
          target # "part" \/ ~(run.status \in {"applying", "post_check"}
                               /\ mine["runner"].snaps = {run.snapshot})
    <3>1. ASSUME a = "runner", run.status \in {"applying", "post_check"},
                 mine["runner"].snaps = {run.snapshot}
          PROVE  FALSE
      <4>1. Active /\ run.snapshot # NoSnap /\ InHand(a) = run.snapshot
        BY <1>0, <3>1 DEF Active, TerminalRunStates, Control, Backed
      <4>2. archive[run.snapshot] = "ready" /\ row[run.snapshot] = "ready"
        BY <1>0, <4>1 DEF Guarded, Safe, Doomed
      <4> QED
        BY <2>1, <4>1, <4>2
    <3> QED
      BY <3>1
  <2>5. OneWriter'
    <3>1. \A b \in Actors : pc'[b] = "refilling" => pc[b] = "refilling"
      BY <1>0, <2>1
    <3>2. pc'["runner"] \in {"copying", "copied"} => run' = run /\ pc["runner"] = pc'["runner"]
      <4>1. a = "boot" => pc["runner"] = "idle"
        BY <1>0 DEF Control, BootAlone
      <4> QED
        BY <1>0, <2>1, <2>2, <4>1
    <3> QED
      BY <1>1, <2>1, <3>1, <3>2 DEF OneWriter
  <2>6. Repairing'
    BY <1>0, <2>1 DEF Repairing
  <2>7. HalfInHand'
    <3>1. CASE a = "boot"
      BY <1>0, <2>1, <2>3, <3>1 DEF HalfInHand, Serving
    <3>2. CASE a = "runner"
      <4>1. target # "part"
        BY <1>0, <1>1, <2>1, <2>4, <3>2 DEF HalfInHand, Serving
      <4> QED
        BY <1>0, <1>1, <2>1, <3>2, <4>1 DEF HalfInHand, Serving
    <3>3. CASE a # "boot" /\ a # "runner"
      BY <1>0, <1>1, <2>1, <2>2, <3>3 DEF HalfInHand, Serving
    <3> QED
      BY <3>1, <3>2, <3>3
  <2> QED
    BY <1>2, <2>5, <2>6, <2>7
<1>5. CASE Refill(a)
  <2>1. /\ target = "wiped" /\ pc[a] = "refilling"
        /\ \A b \in Actors : b # a => pc[b] # "refilling"
        /\ pc["runner"] \notin {"copying", "copied"}
    BY <1>0, <1>1, <1>5 DEF Refill, OneWriter
  <2>2. target' \notin Halves /\ pc'[a] # "refilling"
        /\ pc'[a] = IF a = "runner" THEN "ended" ELSE IF a = "boot" THEN "cleaning" ELSE "idle"
    BY <1>0, <1>1, <1>5, <2>1 DEF Refill, AfterRestore, Go, WholeCopies, Control, TypeOK
  <2>3. OneWriter'
    BY <1>0, <2>1, <2>2 DEF OneWriter
  <2>4. Repairing' /\ HalfInHand'
    BY <1>0, <2>2 DEF Repairing, HalfInHand, Halves
  <2> QED
    BY <1>2, <2>3, <2>4
<1>6. CASE RefillFails(a)
  BY <1>6 DEF RefillFails
<1> QED
  BY <1>3, <1>4, <1>5, <1>6

LEMMA RunnerKeepsTarget ==
  ASSUME SnapshotAssumption, Control, Control', Storage, Guarded, Target, Serving,
         Runner \/ Sweeper
  PROVE  Target'
<1>0. /\ pc \in [Actors -> Steps] /\ mine \in [Actors -> Hands] /\ run \in RunRows
      /\ \A c \in Clients : c \in Actors /\ c # "runner" /\ c # "sweeper" /\ c # "boot"
      /\ {"runner", "sweeper", "boot"} \subseteq Actors
      /\ pc["runner"] # "idle" => run.status \in SnapStatuses
      /\ pc["boot"] = "idle"
  BY Names DEF Control, TypeOK, Hands, RunRows, Inserted, Serving
<1>1. CASE Wipe("runner") \/ Refill("runner") \/ RefillFails("runner")
  BY <1>0, <1>1, RestoreKeepsTarget
<1>2. CASE Sweeper \/ Claim \/ EndPlanning \/ EndWork \/ ApplyFirst \/ ApplyLast
             \/ PostCheckPasses \/ ApplyFails \/ FinalizeJob
  <2> SUFFICES ASSUME gaps' = {} PROVE (WholeCopies /\ OneWriter /\ Repairing /\ HalfInHand)'
    BY DEF Target
  <2>1. /\ UNCHANGED <<content, gaps>> /\ run'.snapshot = run.snapshot
        /\ run'.baseline = run.baseline
        /\ \E a \in {"runner", "sweeper"} : \E l : l # "refilling" /\ Go(a, l)
        /\ UNCHANGED mine \/ \E S : Takes("runner", S, "undo")
    <3>1. /\ UNCHANGED <<content, gaps>> /\ (UNCHANGED run \/ \E st : Moves(st))
          /\ \E a \in {"runner", "sweeper"} : \E l : l # "refilling" /\ Go(a, l)
          /\ UNCHANGED mine \/ \E S : Takes("runner", S, "undo")
      BY <1>2 DEF Sweeper, SweepCheck, SweepRemove, Claim, EndPlanning, EndWork, ApplyFirst,
                  ApplyLast, PostCheckPasses, ApplyFails, FinalizeJob, disk
    <3> QED
      BY <1>0, <3>1 DEF Moves, RunRows
  <2>2. /\ \A b \in Clients : pc'[b] = pc[b] /\ mine'[b] = mine[b]
        /\ pc'["boot"] = "idle" /\ Serving'
    BY <1>0, <2>1 DEF Go, Takes, Serving
  <2>3. WholeCopies /\ OneWriter /\ Repairing /\ HalfInHand
    BY <2>1 DEF Target
  <2>4. WholeCopies'
    BY <2>1, <2>2, <2>3 DEF WholeCopies
  <2>5. Repairing'
    BY <2>2 DEF Repairing
  <2>6. /\ \A a \in Actors : a # "runner" => (pc'[a] = "refilling" <=> pc[a] = "refilling")
        /\ pc["runner"] # pc'["runner"] => pc["runner"] # "refilling" /\ pc'["runner"] # "refilling"
        /\ pc["sweeper"] # "refilling"
    <3>1. pc["sweeper"] # "refilling"
      BY DEF Control, Placed
    <3>2. Sweeper \/ pc["runner"] # "refilling"
      BY <1>2 DEF Claim, EndPlanning, EndWork, ApplyFirst, ApplyLast, PostCheckPasses,
                  ApplyFails, FinalizeJob
    <3>3. Sweeper => \E l : l # "refilling" /\ Go("sweeper", l)
      BY DEF Sweeper, SweepCheck, SweepRemove
    <3> QED
      BY <1>0, <2>1, <3>1, <3>2, <3>3 DEF Go
  <2>7. \A a \in Actors : pc'[a] = "refilling" <=> pc[a] = "refilling"
    BY <1>0, <2>6
  <2>8. CASE EndWork /\ pc'["runner"] = "copying"
    <3>1. /\ pc["runner"] = "working" /\ target = run.baseline /\ UNCHANGED target
          /\ run.status = "implementing" /\ run'.status = "applying"
      BY <1>0, <2>8 DEF EndWork, Go, Moves, RunRows, disk
    <3>2. target \notin Halves
      BY <2>3, <3>1 DEF WholeCopies, Control, Backed
    <3>3. \A a \in Actors : pc'[a] # "refilling"
      BY <2>3, <2>7, <3>2 DEF OneWriter, Halves
    <3> QED
      BY <2>2, <2>4, <2>5, <2>8, <3>1, <3>2, <3>3 DEF OneWriter, HalfInHand, Halves
  <2>9. CASE ApplyFirst
    <3>1. /\ pc["runner"] = "copying" /\ pc'["runner"] = "copied" /\ target' = "part"
          /\ UNCHANGED run
      BY <1>0, <2>9 DEF ApplyFirst, Go
    <3>2. \A a \in Actors : pc'[a] # "refilling"
      BY <2>3, <2>7, <3>1 DEF OneWriter
    <3> QED
      BY <2>2, <2>3, <2>4, <2>5, <3>1, <3>2 DEF OneWriter, HalfInHand
  <2>10. CASE ApplyLast
    <3>1. /\ pc["runner"] = "copied" /\ target = "part" /\ run.status = "applying"
          /\ target' = "changed" /\ \A a \in Actors : pc'[a] # "refilling"
      BY <2>3, <2>7, <2>10 DEF ApplyLast, OneWriter
    <3>2. pc'["runner"] \in {"checking", "ended"}
      BY <1>0, <2>10 DEF ApplyLast, Go
    <3> QED
      BY <2>2, <2>4, <2>5, <3>1, <3>2 DEF OneWriter, HalfInHand, Halves
  <2>11. CASE ApplyFails
    <3>1. /\ pc["runner"] \in {"copying", "copied", "checking"} /\ UNCHANGED <<run, target>>
          /\ IF run.status \in {"applying", "post_check"}
             THEN pc'["runner"] = "wiping" /\ mine'["runner"].snaps = {run.snapshot}
             ELSE pc'["runner"] = "ended"
      BY <1>0, <2>11 DEF ApplyFails, Go, Takes, disk
    <3>2. OneWriter'
      BY <2>3, <2>7, <3>1 DEF OneWriter
    <3>3. HalfInHand'
      BY <2>2, <2>3, <2>7, <3>1 DEF OneWriter, HalfInHand
    <3> QED
      BY <2>4, <2>5, <3>2, <3>3
  <2>12. CASE Sweeper
    <3>1. UNCHANGED <<run, target, mine>> /\ pc'["runner"] = pc["runner"]
      BY <1>0, <2>12 DEF Sweeper, SweepCheck, SweepRemove, Go, disk
    <3> QED
      BY <2>2, <2>3, <2>4, <2>5, <2>7, <3>1 DEF OneWriter, HalfInHand, Serving
  <2>13. CASE Claim \/ EndPlanning \/ (EndWork /\ pc'["runner"] # "copying") \/ PostCheckPasses
                \/ FinalizeJob
    <3>1. /\ pc["runner"] \notin {"copying", "copied", "wiping"}
          /\ pc'["runner"] \notin {"copying", "copied", "wiping"}
          /\ UNCHANGED <<target, mine>>
      BY <1>0, <2>13 DEF Claim, EndPlanning, EndWork, PostCheckPasses, FinalizeJob, Go, disk
    <3> QED
      BY <2>2, <2>3, <2>4, <2>5, <2>7, <3>1 DEF OneWriter, HalfInHand, Serving
  <2> QED
    BY <1>2, <2>8, <2>9, <2>10, <2>11, <2>12, <2>13
<1> QED
  BY <1>1, <1>2 DEF Runner

LEMMA RestartKeepsTarget ==
  ASSUME SnapshotAssumption, Control, Guarded, Target, Restart
  PROVE  Target'
<1> SUFFICES ASSUME gaps' = {} PROVE (WholeCopies /\ OneWriter /\ Repairing /\ HalfInHand)'
  BY DEF Target
<1>0. /\ pc \in [Actors -> Steps] /\ run \in RunRows
      /\ \A c \in Clients : c \in Actors /\ c # "runner" /\ c # "sweeper" /\ c # "boot"
      /\ {"runner", "sweeper", "boot"} \subseteq Actors
      /\ \A a \in Actors : a \in Clients \/ a \in {"runner", "sweeper", "boot"}
  BY Names DEF Control, TypeOK, RunRows
<1>1. /\ gaps = {} /\ ~Cut /\ UNCHANGED <<target, content, archive, row>>
      /\ IF run.status \in {"applying", "post_check"}
         THEN run' = [run EXCEPT !.status = "failed", !.interrupted = TRUE]
         ELSE run' = run
      /\ \A a \in Actors : mine'[a] = Nothing
      /\ \A a \in Actors : pc'[a] = IF a = "boot" THEN "recovering" ELSE "idle"
  BY DEF Restart, disk
<1>2. /\ run'.snapshot = run.snapshot /\ run'.baseline = run.baseline
      /\ run.status \in {"applying", "post_check"} => run'.status = "failed" /\ run'.interrupted
  <2>1. CASE run.status \in {"applying", "post_check"}
    <3>1. run' = [run EXCEPT !.status = "failed", !.interrupted = TRUE]
      BY <1>1, <2>1
    <3> QED
      BY <1>0, <3>1 DEF RunRows
  <2>2. CASE run.status \notin {"applying", "post_check"}
    BY <1>1, <2>2
  <2> QED
    BY <2>1, <2>2
<1>3. WholeCopies /\ OneWriter /\ Repairing /\ HalfInHand
  BY <1>1 DEF Target
<1>4. WholeCopies'
  BY <1>0, <1>1, <1>2, <1>3 DEF WholeCopies, Nothing
<1>5. OneWriter' /\ HalfInHand'
  BY <1>0, <1>1 DEF OneWriter, HalfInHand, Serving
\* Half a target was in the hands of the handler, or of the service that started.
<1>6. ASSUME target \in Halves
      PROVE  /\ run'.status = "failed" /\ run'.interrupted /\ run.snapshot # NoSnap
             /\ archive[run.snapshot] = "ready" /\ row[run.snapshot] = "ready"
  <2>1. CASE Serving
    <3>1. run.status \in {"applying", "post_check"}
      <4>1. CASE target = "part"
        BY <1>3, <2>1, <4>1 DEF HalfInHand, OneWriter
      <4>2. CASE target = "wiped"
        <5>1. PICK a \in Actors : pc[a] = "refilling"
          BY <1>3, <2>1, <4>2 DEF HalfInHand
        <5>2. a = "runner"
          BY <1>0, <1>1, <2>1, <5>1 DEF Cut, Serving, Control, Placed
        <5> QED
          BY <1>1, <5>1, <5>2 DEF Cut
      <4> QED
        BY <1>6, <4>1, <4>2 DEF Halves
    <3>2. run.snapshot # NoSnap /\ Active
      BY <3>1 DEF Control, Backed, Active, TerminalRunStates
    <3>3. archive[run.snapshot] = "ready" /\ row[run.snapshot] = "ready"
      BY <1>1, <3>2 DEF Guarded, Safe, Doomed
    <3> QED
      BY <1>2, <3>1, <3>2, <3>3
  <2>2. CASE ~Serving
    <3>1. pc["boot"] \in {"recovering", "wiping", "refilling"}
      BY <1>3, <1>6, <2>2 DEF HalfInHand, Serving, Control, Placed, BootSteps
    <3>2. /\ run.status = "failed" /\ run.interrupted /\ run.snapshot # NoSnap
          /\ archive[run.snapshot] = "ready" /\ row[run.snapshot] = "ready"
      BY <1>3, <1>6, <3>1 DEF Repairing
    <3> QED
      BY <1>1, <3>2
  <2> QED
    BY <2>1, <2>2
<1>7. Repairing'
  BY <1>0, <1>1, <1>2, <1>6 DEF Repairing
<1> QED
  BY <1>4, <1>5, <1>7

\* The start of the service, and the passing of time.
LEMMA ServiceKeepsTarget ==
  ASSUME SnapshotAssumption, Control, Control', Storage, Guarded, Target,
         Boot \/ TreeAges \/ SnapAges
  PROVE  Target'
<1>0. /\ pc \in [Actors -> Steps] /\ mine \in [Actors -> Hands]
      /\ \A c \in Clients : c \in Actors /\ c # "runner" /\ c # "sweeper" /\ c # "boot"
      /\ {"runner", "sweeper", "boot"} \subseteq Actors
  BY Names DEF Control, TypeOK, Hands
<1>1. CASE Wipe("boot") \/ Refill("boot") \/ RefillFails("boot")
  BY <1>0, <1>1, RestoreKeepsTarget
<1>2. CASE TreeAges \/ SnapAges
  <2>1. UNCHANGED <<run, target, archive, content, row, pc, mine, gaps>>
    BY <1>2 DEF TreeAges, SnapAges
  <2> QED
    BY <2>1 DEF Target, WholeCopies, OneWriter, Repairing, HalfInHand, Serving
<1>3. CASE Recover \/ BootCleanup
  <2> SUFFICES ASSUME gaps' = {} PROVE (WholeCopies /\ OneWriter /\ Repairing /\ HalfInHand)'
    BY DEF Target
  <2>1. /\ UNCHANGED <<run, target, content, gaps>> /\ pc["boot"] \in {"recovering", "cleaning"}
        /\ UNCHANGED mine \/ \E S : Takes("boot", S, "recover")
        /\ \E l : l # "refilling" /\ Go("boot", l)
    BY <1>3 DEF Recover, BootCleanup, disk
  <2>2. /\ \A a \in Actors : a # "boot" => pc'[a] = pc[a] /\ mine'[a] = mine[a]
        /\ pc'["boot"] # "refilling"
    BY <1>0, <2>1 DEF Go, Takes
  <2>3. WholeCopies /\ OneWriter /\ Repairing /\ HalfInHand
    BY <2>1 DEF Target
  <2>4. WholeCopies'
    BY <1>0, <2>1, <2>2, <2>3 DEF WholeCopies
  <2>5. OneWriter'
    BY <1>0, <2>1, <2>2, <2>3 DEF OneWriter
  <2>6. CASE Recover
    <3>1. UNCHANGED <<archive, row>> /\ pc["boot"] = "recovering"
      BY <2>6 DEF Recover, disk
    <3>2. CASE run.status = "failed" /\ run.interrupted /\ run.snapshot # NoSnap
      <4>1. pc'["boot"] = "wiping" /\ mine'["boot"].snaps = {run.snapshot}
        BY <1>0, <2>6, <3>2 DEF Recover, Go, Takes
      <4> QED
        BY <2>1, <2>3, <2>4, <2>5, <3>1, <3>2, <4>1 DEF Repairing, HalfInHand, Serving
    <3>3. CASE ~(run.status = "failed" /\ run.interrupted /\ run.snapshot # NoSnap)
      <4>1. pc'["boot"] = "cleaning" /\ target \notin Halves
        BY <1>0, <2>3, <2>6, <3>1, <3>3 DEF Recover, Go, Repairing
      <4> QED
        BY <2>1, <2>4, <2>5, <4>1 DEF Repairing, HalfInHand, Serving
    <3> QED
      BY <3>2, <3>3
  <2>7. CASE BootCleanup
    <3>1. pc'["boot"] = "idle" /\ target \notin Halves
      BY <1>0, <2>3, <2>7 DEF BootCleanup, Go, HalfInHand
    <3> QED
      BY <2>1, <2>4, <2>5, <3>1 DEF Repairing, HalfInHand, Halves
  <2> QED
    BY <1>3, <2>6, <2>7
<1> QED
  BY <1>1, <1>2, <1>3 DEF Boot

LEMMA TargetStep ==
  ASSUME SnapshotAssumption, Control, Control', Storage, Guarded, Trees, Target, [Next]_vars
  PROVE  Target'
<1>1. CASE UNCHANGED vars
  BY <1>1 DEF vars, Target, WholeCopies, OneWriter, Repairing, HalfInHand, Serving
<1>2. ASSUME NEW c \in Clients, Serving, Begin(c) \/ Continue(c) PROVE Target'
  <2>1. c \in Actors
    BY Names
  <2> QED
    BY <1>2, <2>1, ClientKeepsTarget, RestoreKeepsTarget
<1> QED
  BY <1>1, <1>2, RunnerKeepsTarget, ServiceKeepsTarget, RestartKeepsTarget DEF Next

\* Unless one of the named windows of the code was hit, a target that holds half
\* of something is in the hands of an actor that is writing it: an apply that
\* failed or that a restart interrupted has been undone before anything else runs.
THEOREM NothingIsHalfRestored == Spec => []NothingHalfRestored
<1>1. Init => Target
  <2>1. ASSUME Init
        PROVE  /\ \A a \in Actors : pc[a] = "idle" /\ mine[a] = Nothing
               /\ target = "base" /\ run.snapshot = NoSnap
               /\ \A s \in Snaps : content[s] = "base"
    BY <2>1 DEF Init
  <2>2. /\ \A c \in Clients : c \in Actors
        /\ {"runner", "sweeper", "boot"} \subseteq Actors
    BY Names, SnapshotAssumption
  <2>3. ASSUME Init PROVE \A c \in Clients : mine[c].why # "approve"
    BY <2>1, <2>2, <2>3 DEF Nothing
  <2> QED
    BY <2>1, <2>2, <2>3 DEF Target, WholeCopies, OneWriter, Repairing, HalfInHand, Halves
<1>2. /\ Control /\ Storage /\ Guarded /\ Trees /\ Target /\ [Next]_vars /\ Control' => Target'
  BY TargetStep, SnapshotAssumption
<1>3. Target => NothingHalfRestored
  <2> SUFFICES ASSUME Target, Serving, gaps = {}, target \in Halves
               PROVE  \E a \in Actors : pc[a] \in {"copied", "wiping", "refilling"}
    BY DEF NothingHalfRestored
  <2>1. HalfInHand /\ "runner" \in Actors
    BY DEF Target, Actors
  <2> QED
    BY <2>1 DEF HalfInHand, Halves
<1> QED
  BY <1>1, <1>2, <1>3, TreesAlways, PTL DEF Spec
=============================================================================
