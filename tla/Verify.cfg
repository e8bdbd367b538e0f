\* Two invocations in any mode, at two commits, with tight and loose tolerances, over
\* two-iteration results that agree, that differ around the tolerances, or that all failed.
SPECIFICATION Spec
CONSTANTS
  Keys = {k1, k2}
  Iterations = 2
  Results <- Succeeding
  Overrides <- TightAndLoose
  Commits = {c1, c2}
  Claim = c1
  Modes = {"source", "keep", "temp", "both"}
  MaxAttempts = 2
INVARIANT TypeOK CloneRunsClaim NeverLoosened TempRemoved KeptIsKept ExitZeroIsMatch
  VerdictIsRight
PROPERTY VerifyEnds
