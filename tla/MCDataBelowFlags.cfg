SPECIFICATION LayoutSpec
CONSTANTS
  Harts = {0, 1, 2}
  L1Limit = 120
  Align = 4
  L2Base = 64
  L2End = 400
  L2Bulk = 16
  AliasSlices = 3
  AliasSlots = 2
  FifoHeader = 8
  RingState = 4
  SlotMeta = 4
  SlotOffset = 4
  PayloadRing = 4
  Programs <- PlainPrograms
INVARIANTS
  DataBelowReadyFlags
CHECK_DEADLOCK FALSE
