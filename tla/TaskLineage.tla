----------------------------- MODULE TaskLineage -----------------------------
(***************************************************************************)
(* What becomes of the files of a run: its task graph is drafted and       *)
(* edited, every task works in a worktree of its own made from the base    *)
(* stage and the changes of its ancestors, the changes are merged into the *)
(* stage, verified, repaired and judged by the checks (backend/workspace,  *)
(* backend/orchestrator, backend/verification_policy).                     *)
(*                                                                         *)
(* A tree is a function from Files to contents, which is what a manifest   *)
(* tells apart.  SubtaskScheduler shows when a task may start, RunLifecycle *)
(* what apply does to the target; here a run ends when its stage is        *)
(* applied.                                                                *)
(***************************************************************************)
EXTENDS TaskGraph

CONSTANTS
  Files, Versions,
  PythonFiles,   \* files whose presence selects ruff and pytest
  NodeFiles,     \* files whose presence selects npm test
  BaseTree,      \* the stage a run starts with
  Drafts,        \* the graphs the Brain may draft
  RepairCycles,  \* verification cycles of _verify_and_apply (3 in the code)
  MaxWrites,     \* files one call of a worker changes
  MaxEdits,
  MaxTurns       \* restarts, resumes and scope expansions together

Absent == "absent"
Contents == Versions \cup {Absent}
Trees == [Files -> Contents]
Unknown == 0   \* an id no node has

ASSUME LineageAssumption ==
  /\ Absent \notin Versions /\ BaseTree \in Trees
  /\ PythonFiles \subseteq Files /\ NodeFiles \subseteq Files
  /\ RepairCycles \in Nat \ {0}
  /\ {MaxWrites, MaxEdits, MaxTurns} \subseteq Nat

VARIABLES
  rows,      \* the subtasks table: the graph
  node,      \* per node its status, input manifest and worktree
  stage,     \* jobs/<run>/workspace
  phase,     \* where the run is
  at,        \* nodes merged or checks run so far in this pass
  cycle,     \* repair of _verify_and_apply
  judged,    \* the tree the Brain's last verdict passed
  evidence,  \* the check_evidence rows
  conflict,  \* the MergeConflict that failed the run: a node and files
  count

vars == <<rows, node, stage, phase, at, cycle, judged, evidence, conflict, count>>

Fresh == [status |-> "pending", input |-> BaseTree, tree |-> BaseTree]
NoConflict == [node |-> Unknown, files |-> {}]

Init ==
  /\ rows = << >> /\ node = << >>
  /\ stage = BaseTree
  /\ phase = "drafting"
  /\ at = 0 /\ cycle = 0
  /\ judged = {}
  /\ evidence = << >>
  /\ conflict = NoConflict
  /\ count = [edits |-> 0, restarts |-> 0, resumes |-> 0, expansions |-> 0]

Edit == /\ count.edits < MaxEdits
        /\ count' = [count EXCEPT !.edits = @ + 1]
Turn(what) == /\ count.restarts + count.resumes + count.expansions < MaxTurns
              /\ count' = [count EXCEPT ![what] = @ + 1]
Moves(to) == phase' = to

\* What a worker with write tools may make of a tree.
Rewritten(tree) ==
  { t \in Trees : Cardinality({ f \in Files : t[f] # tree[f] }) <= MaxWrites }

-----------------------------------------------------------------------------
(* The graph: decompose_plan and edit_task_graph.                          *)

\* A draft that fails validation fails the run.
DecomposePlan ==
  /\ phase = "drafting"
  /\ \E items \in Drafts :
       IF Decomposable(items)
         THEN /\ rows' = Stored(items)
              /\ node' = [n \in Ids(items) |-> Fresh]
              /\ Moves("awaiting_approval")
         ELSE /\ Moves("failed")
              /\ UNCHANGED <<rows, node>>
  /\ UNCHANGED <<stage, at, cycle, judged, evidence, conflict, count>>

Items(table) ==
  LET order == SetToSortSeq(DOMAIN table, <)
  IN [i \in DOMAIN order |-> [id |-> order[i], deps |-> table[order[i]].deps,
                              scope |-> table[order[i]].scope,
                              role |-> table[order[i]].role]]

Rewired(table, deps) == [n \in DOMAIN table |-> [table[n] EXCEPT !.deps = deps[n]]]

\* Mutant: the overlap of the edited graph is a warning only.
EditTaskGraphWarns ==
  /\ phase = "awaiting_approval" /\ Edit
  /\ \E deps \in [DOMAIN rows -> SUBSET (DOMAIN rows \cup {Unknown})] :
       /\ ValidGraph(Items(Rewired(rows, deps)))
       /\ rows' = Rewired(rows, deps)
  /\ node' = [n \in DOMAIN rows |-> Fresh]
  /\ UNCHANGED <<stage, phase, at, cycle, judged, evidence, conflict>>

\* One request rewires any nodes; a graph it makes invalid is refused whole.
EditTaskGraph ==
  /\ phase = "awaiting_approval" /\ Edit
  /\ \E deps \in [DOMAIN rows -> SUBSET (DOMAIN rows \cup {Unknown})] :
       /\ ValidGraph(Items(Rewired(rows, deps)))
       /\ IndependentPairsSharingGlobs(Rewired(rows, deps)) = {}
       /\ rows' = Rewired(rows, deps)
  /\ node' = [n \in DOMAIN rows |-> Fresh]
  /\ UNCHANGED <<stage, phase, at, cycle, judged, evidence, conflict>>

Approve ==
  /\ phase = "awaiting_approval"
  /\ Moves("implementing")
  /\ UNCHANGED <<rows, node, stage, at, cycle, judged, evidence, conflict, count>>

-----------------------------------------------------------------------------
(* The changes of a node, replayed on another tree.                        *)

Changed(n) == { f \in Files : node[n].tree[f] # node[n].input[f] }

\* Mutant: a file that is no longer what the node started from is overwritten.
ClashesNever(target, n) == {}

\* apply_worktree_delta: the target must hold what the node started from or
\* what it ended with.
Clashes(target, n) ==
  { f \in Changed(n) : target[f] \notin {node[n].input[f], node[n].tree[f]} }

Replayed(target, n) ==
  [f \in Files |-> IF f \in Changed(n) THEN node[n].tree[f] ELSE target[f]]

\* The input of a node: the base stage with its ancestors' changes.
Staged(n) ==
  FoldLeft(LAMBDA made, m :
             IF made.conflict # NoConflict THEN made
             ELSE IF Clashes(made.tree, m) # {}
               THEN [made EXCEPT !.conflict = [node |-> m, files |-> Clashes(made.tree, m)]]
               ELSE [made EXCEPT !.tree = Replayed(made.tree, m)],
           [tree |-> stage, conflict |-> NoConflict], AncestorRows(n, rows))

-----------------------------------------------------------------------------
(* A subtask: _run_subtask.                                                *)

\* The scheduler starts a node whose dependencies are done.  A conflict among
\* its ancestors fails the node, and with it the run.
StartSubtask(n) ==
  /\ phase = "implementing" /\ node[n].status = "pending"
  /\ \A d \in rows[n].deps : node[d].status = "done"
  /\ IF Staged(n).conflict = NoConflict
       THEN /\ node' = [node EXCEPT ![n] = [status |-> "running", input |-> Staged(n).tree,
                                            tree |-> Staged(n).tree]]
            /\ UNCHANGED <<phase, conflict>>
       ELSE /\ node' = [node EXCEPT ![n].status = "failed"]
            /\ conflict' = Staged(n).conflict
            /\ Moves("failed")
  /\ UNCHANGED <<rows, stage, at, cycle, judged, evidence, count>>

WritesExpected(n) == rows[n].role = "implementation" \/ rows[n].scope # {}

\* The worker ends with some tree: a node that is to write has written, one
\* without write tools has not.  Nothing keeps a worker to its scope.
FinishSubtask(n) ==
  /\ phase \in {"implementing", "failed"} /\ node[n].status = "running"
  /\ \E tree \in Rewritten(node[n].input) :
       /\ WritesExpected(n) <=> tree # node[n].input
       /\ node' = [node EXCEPT ![n].status = "done", ![n].tree = tree]
  /\ UNCHANGED <<rows, stage, phase, at, cycle, judged, evidence, conflict, count>>

\* An error, an empty delta or the Brain's refusal.
FailSubtask(n) ==
  /\ phase \in {"implementing", "failed"} /\ node[n].status = "running"
  /\ node' = [node EXCEPT ![n].status = "failed"]
  /\ Moves("failed")
  /\ UNCHANGED <<rows, stage, at, cycle, judged, evidence, conflict, count>>

-----------------------------------------------------------------------------
(* The merge job: _merge_and_verify and merge_task_lineage.                *)

Done == \A n \in DOMAIN rows : node[n].status = "done"

StartMerge ==
  /\ phase = "implementing" /\ Done
  /\ Moves("merging") /\ at' = 0
  /\ UNCHANGED <<rows, node, stage, cycle, judged, evidence, conflict, count>>

\* A graph with a failed node is closed: the run fails again.
FailClosed ==
  /\ phase = "implementing" /\ \E n \in DOMAIN rows : node[n].status = "failed"
  /\ Moves("failed")
  /\ UNCHANGED <<rows, node, stage, at, cycle, judged, evidence, conflict, count>>

\* The next node's changes go into the stage.  A conflict fails the run and
\* leaves the changes of the nodes before it where they are.
MergeNode ==
  /\ phase = "merging" /\ at < Cardinality(DOMAIN rows)
  /\ LET n == TopologicalRows(rows)[at + 1] IN
       IF Clashes(stage, n) = {}
         THEN /\ stage' = Replayed(stage, n)
              /\ at' = at + 1
              /\ UNCHANGED <<phase, conflict>>
         ELSE /\ conflict' = [node |-> n, files |-> Clashes(stage, n)]
              /\ Moves("failed")
              /\ UNCHANGED <<stage, at>>
  /\ UNCHANGED <<rows, node, cycle, judged, evidence, count>>

StartVerification ==
  /\ phase = "merging" /\ at = Cardinality(DOMAIN rows)
  /\ Moves("verifying") /\ cycle' = 1
  /\ UNCHANGED <<rows, node, stage, at, judged, evidence, conflict, count>>

-----------------------------------------------------------------------------
(* _verify_and_apply: the Brain's verdict on the stage, then the checks.   *)

VerdictPasses ==
  /\ phase = "verifying"
  /\ judged' = {stage}
  /\ Moves("checking") /\ at' = 0
  /\ UNCHANGED <<rows, node, stage, cycle, evidence, conflict, count>>

\* The repair agent writes in the stage itself.
Repair ==
  /\ phase = "verifying" /\ cycle < RepairCycles
  /\ stage' \in Rewritten(stage)
  /\ judged' = {} /\ cycle' = cycle + 1
  /\ UNCHANGED <<rows, node, phase, at, evidence, conflict, count>>

GiveUp ==
  /\ phase = "verifying" /\ cycle = RepairCycles
  /\ judged' = {}
  /\ Moves("failed")
  /\ UNCHANGED <<rows, node, stage, at, cycle, evidence, conflict, count>>

\* A scope expansion deletes the graph; the next one starts from the stage as
\* it is.
ExpandScope ==
  /\ phase = "verifying" /\ Turn("expansions")
  /\ rows' = << >> /\ node' = << >>
  /\ judged' = {}
  /\ Moves("drafting")
  /\ UNCHANGED <<stage, at, cycle, evidence, conflict>>

Present(tree) == { f \in Files : tree[f] # Absent }

QualifyingChecksFor(tree) ==
  IF Present(tree) \cap PythonFiles # {} THEN <<"ruff", "pytest">>
  ELSE IF Present(tree) \cap NodeFiles # {} THEN <<"npm">>
  ELSE <<"workspace-nonempty">>

\* A check passes, fails or cannot be reached, which counts as a failure.
RunQualifyingCheck ==
  /\ phase = "checking" /\ at < Len(QualifyingChecksFor(stage))
  /\ \E ok \in BOOLEAN :
       LET check == QualifyingChecksFor(stage)[at + 1] IN
         /\ check = "workspace-nonempty" => ok = (Present(stage) # {})
         /\ evidence' = Append(evidence, [tree |-> stage, check |-> check, ok |-> ok])
  /\ at' = at + 1
  /\ UNCHANGED <<rows, node, stage, phase, cycle, judged, conflict, count>>

\* Mutant: the latest row decides.
GateAllowsLatest(rowsSoFar, brainPassed) == Last(rowsSoFar).ok /\ brainPassed

\* evaluate_apply_gate: the rows that share the latest row's tree decide.
GateAllows(rowsSoFar, brainPassed) ==
  LET current == { i \in DOMAIN rowsSoFar : rowsSoFar[i].tree = Last(rowsSoFar).tree }
  IN brainPassed /\ current # {} /\ \A i \in current : rowsSoFar[i].ok

EvaluateGate ==
  /\ phase = "checking" /\ at = Len(QualifyingChecksFor(stage))
  /\ Moves(IF GateAllows(evidence, judged # {}) THEN "applied" ELSE "failed")
  /\ UNCHANGED <<rows, node, stage, at, cycle, judged, evidence, conflict, count>>

-----------------------------------------------------------------------------
(* What starts a handler over, and the user's resume.                      *)

\* A restart, or an Ollama outage, queues the jobs at work again: a subtask is
\* staged anew, a merge job starts with the merge.
StartOver ==
  /\ phase \in {"implementing", "merging", "verifying", "checking"}
  /\ Turn("restarts")
  /\ node' = [n \in DOMAIN node |->
                IF node[n].status = "running" THEN [node[n] EXCEPT !.status = "pending"]
                ELSE node[n]]
  /\ Moves("implementing")
  /\ UNCHANGED <<rows, stage, at, cycle, judged, evidence, conflict>>

Resume ==
  /\ phase = "failed" /\ rows # << >>
  /\ Turn("resumes")
  /\ Moves("implementing")
  /\ conflict' = NoConflict
  /\ UNCHANGED <<rows, node, stage, at, cycle, judged, evidence>>

Next ==
  \/ DecomposePlan \/ EditTaskGraph \/ Approve
  \/ \E n \in DOMAIN rows : StartSubtask(n) \/ FinishSubtask(n) \/ FailSubtask(n)
  \/ StartMerge \/ FailClosed \/ MergeNode \/ StartVerification
  \/ VerdictPasses \/ Repair \/ GiveUp \/ ExpandScope
  \/ RunQualifyingCheck \/ EvaluateGate
  \/ StartOver \/ Resume

Spec == Init /\ [][Next]_vars

-----------------------------------------------------------------------------
(* Properties.                                                             *)

NodeIds == UNION { Ids(items) : items \in Drafts }

\* The variables keep their types.
TypeOK ==
  /\ DOMAIN rows \subseteq NodeIds /\ DOMAIN node = DOMAIN rows
  /\ \A n \in DOMAIN rows :
       /\ rows[n].deps \subseteq DOMAIN rows \ {n} /\ rows[n].scope \subseteq Files
       /\ node[n] \in [status : {"pending", "running", "done", "failed"},
                       input : Trees, tree : Trees]
  /\ stage \in Trees /\ judged \subseteq Trees
  /\ phase \in {"drafting", "awaiting_approval", "implementing", "merging",
                "verifying", "checking", "failed", "applied"}
  /\ at \in 0..Cardinality(NodeIds) + 2 /\ cycle \in 0..RepairCycles
  /\ conflict.node \in NodeIds \cup {Unknown} /\ conflict.files \subseteq Files

\* b depends on a, directly or not: a is in every set of nodes that holds b and
\* the dependencies of its members.
Precedes(a, b) ==
  a # b /\ \A S \in SUBSET DOMAIN rows :
             b \in S /\ (\A m \in S : rows[m].deps \subseteq S) => a \in S

\* Of some nodes, those nobody else of them wrote a file after.
LastWriters(nodes, f) ==
  { n \in nodes : f \in Changed(n) /\
                  \A m \in nodes : f \in Changed(m) => ~ Precedes(n, m) }

\* Nodes neither of which depends on the other.
Beside(a, b) == a # b /\ ~ Precedes(a, b) /\ ~ Precedes(b, a)

\* The replay compares contents only, so it cannot tell that n wrote f when a node
\* beside it started from the content n ended with, or ended with it too: two
\* contents that coincide let the later of two parallel changes through.
Coincides(n, f, nodes) ==
  \E m \in nodes : /\ Beside(n, m) /\ f \in Changed(m)
                  /\ node[n].tree[f] \in {node[m].input[f], node[m].tree[f]}

Holds(tree, nodes) ==
  \A f \in Files : \A n \in LastWriters(nodes, f) :
    tree[f] = node[n].tree[f] \/ Coincides(n, f, nodes)

\* A node at work started from everything its ancestors did, direct or not, and
\* from the last of them where one rewrote another's file.
InputHoldsAncestors ==
  \A n \in DOMAIN rows : node[n].status \in {"running", "done"} =>
    Holds(node[n].input, { m \in DOMAIN rows : Precedes(m, n) })

\* What is handed to verification holds every node's changes: of a file several
\* nodes wrote, the last one's, and no node's work is lost under another's
\* (Coincides names the exception), however often the merge was started over.
MergedIsLineage ==
  phase = "verifying" /\ cycle = 1 => Holds(stage, DOMAIN rows)

\* As long as every worker keeps to its scope, a graph the user could approve
\* never ends in a conflict: the scopes of nodes that run side by side are
\* disjoint.  (A merge that is started over may conflict with itself.)
ScopedNodesNeverConflict ==
  conflict # NoConflict /\ count.restarts = 0 /\ count.resumes = 0 =>
    \E n \in DOMAIN rows : ~ (Changed(n) \subseteq rows[n].scope)

\* What is applied is the tree the Brain passed, and every check that
\* qualifies for it ran on exactly this tree and never failed on it.
AppliedIsVerified ==
  phase = "applied" =>
    /\ judged = {stage}
    /\ LET on == { i \in DOMAIN evidence : evidence[i].tree = stage } IN
         /\ \A i \in on : evidence[i].ok
         /\ Range(QualifyingChecksFor(stage)) \subseteq { evidence[i].check : i \in on }
=============================================================================
