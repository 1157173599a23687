SPECIFICATION Spec
CONSTANT Funcs <- MCFuncs
INVARIANTS
  TypeOK
  UsesKeepTheirData
  InputsKeepTheirOrder
  ParametersAreInOrder
  SlotsSurviveInOrder
CHECK_DEADLOCK FALSE
