\* battle_commit is read after the iterations: an edit or a checkout meanwhile falsifies it.
SPECIFICATION SafetySpec
CONSTANTS
  Cells = 1
  Gated = {}
  Commits = {c1, c2}
  GitCommit = "nil"
  MaxRounds = 1
INVARIANT CommitIsUsed
CHECK_DEADLOCK FALSE
