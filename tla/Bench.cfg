\* Two invocations on one battle directory of two cells, one of them gated.
SPECIFICATION Spec
CONSTANTS
  Cells = 2
  Gated = {1}
  Commits = {c1}
  GitCommit = c1
  MaxRounds = 2
INVARIANT TypeOK ResultMatchesLogs NoStaleResult FixturesAccounted
PROPERTY ImplementsResults AllOrNothing TeardownFollows RoundEnds
