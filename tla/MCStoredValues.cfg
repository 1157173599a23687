SPECIFICATION Spec
CONSTANT Funcs <- MCFuncs
INVARIANT StoredValuesCanBeLoaded
CHECK_DEADLOCK FALSE
