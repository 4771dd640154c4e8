---------------------------- MODULE MCTaskLineage ----------------------------
(* Small instances of the files of a run for TLC.                          *)
EXTENDS TaskLineage

CONSTANTS old, new

Task(id, deps, scope) ==
  [id |-> id, deps |-> deps, scope |-> scope, role |-> "implementation"]
Study(id, deps) == [id |-> id, deps |-> deps, scope |-> {}, role |-> "research"]

PyFiles == {"a.py"}
TwoFiles == {"a.py", "b.md"}
OneOfThem == [f \in TwoFiles |-> IF f = "a.py" THEN old ELSE Absent]

\* A chain on one file beside a task that should keep to another one.
ChainBesideTask ==
  { <<Task(1, {}, {"a.py"}), Task(2, {1}, {"a.py"}), Task(3, {}, {"b.md"})>> }

\* That one, a chain on one file, a fork, a join, and drafts that are refused: a
\* cycle, a task twice, an unknown dependency, files shared side by side, no files.
ThreeTaskDrafts ==
  { <<Task(2, {1}, {"a.py"}), Task(1, {}, {"a.py"})>>,
    <<Task(1, {}, {"a.py"}), Task(2, {1}, {"b.md"}), Task(3, {1, 2}, TwoFiles)>>,
    <<Task(3, {}, {"a.py"}), Task(1, {}, {"b.md"}), Study(2, {1, 3})>>,
    <<Task(1, {2}, {"a.py"}), Task(2, {1}, {"b.md"})>>,
    <<Task(1, {}, {"a.py"}), Task(1, {}, {"b.md"})>>,
    <<Task(1, {Unknown}, {"a.py"})>>,
    <<Task(1, {}, {"a.py"}), Task(2, {}, TwoFiles)>>,
    <<Task(1, {}, {})>> } \cup ChainBesideTask
=============================================================================
