SPECIFICATION Spec
CONSTANT Programs <- MCPrograms
INVARIANT ResolvableProgramsAreLowered
CHECK_DEADLOCK FALSE
