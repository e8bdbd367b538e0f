\* verify.py says that different success rates refute a claim.
SPECIFICATION SafetySpec
CONSTANTS
  Keys = {k1}
  Iterations = 2
  Results <- Failing
  Overrides <- TightAndLoose
  Commits = {c1}
  Claim = c1
  Modes = {"source"}
  MaxAttempts = 1
INVARIANT RefutedIsMismatch
CHECK_DEADLOCK FALSE
