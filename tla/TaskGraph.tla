------------------------------ MODULE TaskGraph ------------------------------
(***************************************************************************)
(* The task graph of a plan (backend/plan_graph.py and the helpers of      *)
(* backend/orchestrator.py that read it back from the subtasks table).     *)
(*                                                                         *)
(* A drafted graph is a sequence of items [id, deps, scope, role] in the   *)
(* Brain's order.  A stored graph (the rows of a run) is a function from   *)
(* node ids to records with the same fields.  An id is a number, because   *)
(* the code sorts ids; a scope is the set of paths its patterns select.    *)
(***************************************************************************)
EXTENDS Naturals, Sequences, FiniteSets, SequencesExt

CONSTANT MaxSubtasks

ASSUME GraphAssumption == MaxSubtasks \in Nat \ {0}

Ids(items) == { items[i].id : i \in DOMAIN items }

\* The nodes of rest that wait for no other node of rest.
ReadyIn(rows, rest) == { n \in rest : rows[n].deps \cap rest = {} }

\* Kahn's algorithm in rounds; a cycle leaves the order short.
KahnRounds(rows, order) ==
  LET from[rest \in SUBSET DOMAIN rows] ==
        LET ready == ReadyIn(rows, rest)
        IN IF ready = {} THEN <<>>
           ELSE SelectSeq(order, LAMBDA n : n \in ready) \o from[rest \ ready]
  IN from[DOMAIN rows]

HasCycle(rows) == Len(KahnRounds(rows, SetToSeq(DOMAIN rows))) < Cardinality(DOMAIN rows)

Stored(items) ==
  [n \in Ids(items) |->
     LET i == CHOOSE j \in DOMAIN items : items[j].id = n
     IN [deps |-> items[i].deps, scope |-> items[i].scope, role |-> items[i].role]]

\* validate_graph: every violation raises GraphError.
ValidGraph(items) ==
  /\ Len(items) \in 1..MaxSubtasks
  /\ \A i, j \in DOMAIN items : items[i].id = items[j].id => i = j
  /\ \A i \in DOMAIN items : items[i].deps \subseteq Ids(items) \ {items[i].id}
  /\ ~ HasCycle(Stored(items))

\* _topological_rows: rounds in the order of the ids.
TopologicalRows(rows) == KahnRounds(rows, SetToSortSeq(DOMAIN rows, <))

\* Mutant: a node's own dependencies only.
DirectDeps(rows) == [n \in DOMAIN rows |-> rows[n].deps]

\* _reachability and _transitive_deps: all a node depends on, step by step.
Reachability(rows) ==
  LET Further(S) == S \cup UNION { rows[m].deps : m \in S \cap DOMAIN rows }
      within[k \in 0..Cardinality(DOMAIN rows)] ==
        [n \in DOMAIN rows |->
           IF k = 0 THEN rows[n].deps ELSE Further(within[k - 1][n])]
  IN within[Cardinality(DOMAIN rows)]

\* _ancestor_rows: in the order their changes are replayed.
AncestorRows(n, rows) ==
  LET wanted == Reachability(rows)[n]
  IN SelectSeq(TopologicalRows(rows), LAMBDA m : m \in wanted)

\* _globs_overlap, which is exact on the paths of the model.
GlobsOverlap(a, b) == a.scope \cap b.scope # {}

IndependentPairsSharingGlobs(rows) ==
  LET reachable == Reachability(rows)
  IN { pair \in (DOMAIN rows) \X (DOMAIN rows) :
         LET a == pair[1]
             b == pair[2]
         IN /\ a < b /\ b \notin reachable[a] /\ a \notin reachable[b]
            /\ GlobsOverlap(rows[a], rows[b]) }

\* decompose_plan: an implementation node names its files, and nodes that may
\* run side by side share none.
Decomposable(items) ==
  /\ ValidGraph(items)
  /\ \A i \in DOMAIN items : items[i].role = "implementation" => items[i].scope # {}
  /\ IndependentPairsSharingGlobs(Stored(items)) = {}
=============================================================================
