CONSTANTS
  old = old  new = new
  Files <- TwoFiles
  Versions = {old, new}
  PythonFiles <- PyFiles
  NodeFiles = {}
  BaseTree <- OneOfThem
  Drafts <- ThreeTaskDrafts
  MaxSubtasks = 3
  RepairCycles = 2
  MaxWrites = 1
  MaxEdits = 1
  MaxTurns = 1
SPECIFICATION Spec
INVARIANT InputHoldsAncestors
INVARIANT MergedIsLineage
INVARIANT ScopedNodesNeverConflict
INVARIANT AppliedIsVerified
CHECK_DEADLOCK FALSE
