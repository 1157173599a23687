SPECIFICATION Spec
CONSTANT Programs <- MCPrograms
INVARIANT EveryWaitIsSignalled
CHECK_DEADLOCK FALSE
