SPECIFICATION LayoutSpec
CONSTANTS
  Harts = {0, 1, 2}
  L1Limit = 400
  Align = 4
  L2Base = 64
  L2End = 192
  L2Bulk = 16
  AliasSlices = 3
  AliasSlots = 2
  FifoHeader = 8
  RingState = 4
  SlotMeta = 4
  SlotOffset = 4
  PayloadRing = 4
  Programs <- ApplicationPrograms
INVARIANTS
  TypeOK
  SlicesApart
  BuffersApart
  SendsMeetReceives
  OperandsFilledOnce
  OutputsTiled
  ReadsInsideTheirTensor
  GatheredWhenTiled
  AliasTableHolds
  PayloadsFillTheFifo
PROPERTIES
  MemoryRefinement
CHECK_DEADLOCK FALSE
