\* A pool of five, a task of 30 s, sessions gone after 45 s at most; 15 s to a tick.
SPECIFICATION Spec
CONSTANTS
  MaxSessions = 5
  Reap = 3
  Timeout = 2
  MaxGhosts = 1
INVARIANT TypeOK TimeoutsLeaveRoom SuccessIsRight DiagnosticLeft
PROPERTY CellEnds
CHECK_DEADLOCK FALSE
