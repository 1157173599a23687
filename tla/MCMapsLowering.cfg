SPECIFICATION Spec
CONSTANT Programs <- MCPrograms
INVARIANTS
  TypeOK
  NoTileIsLost
  ErasedTilesHaveSent
  DefinedBeforeUse
  NothingErasedIsRead
  ChannelsCarryTheirValues
  WaitsComeAfterTheirSignal
  OrderedProgramsAreLowered
PROPERTIES
  LowersInDependencyOrder
  LoweringEnds
CHECK_DEADLOCK FALSE
