SPECIFICATION Spec
CONSTANTS
  Harts = {0, 1, 2}
  L1Limit = 200
  Align = 4
  L2Base = 64
  L2End = 192
  L2Bulk = 16
  Programs <- PiecedPrograms
INVARIANTS
  OutputsTiled
CHECK_DEADLOCK FALSE
