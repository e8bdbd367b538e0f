\* exec.py says the daemon reaps what the cleanup leaves behind.
SPECIFICATION ServingSpec
CONSTANT MaxSamples = 0
PROPERTY StrayIsReaped
CHECK_DEADLOCK FALSE
