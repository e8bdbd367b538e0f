\* One call of run_constrained against a daemon that owes nothing.
SPECIFICATION Spec
CONSTANT MaxSamples = 2
INVARIANT TypeOK SuccessIsEarned LeakIsExplained
PROPERTY NoLineIsLost CallEnds PollerEnds ImplementsContract
\* The call ends and its threads stop.
CHECK_DEADLOCK FALSE
