\* An output.json that is not UTF-8 ends the whole bench.
SPECIFICATION SafetySpec
CONSTANTS
  Cells = 2
  Gated = {1, 2}
  Commits = {c1}
  GitCommit = "nil"
  MaxRounds = 1
INVARIANT IterationNeverRaises
CHECK_DEADLOCK FALSE
