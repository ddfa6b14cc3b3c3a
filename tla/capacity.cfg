SPECIFICATION FairSpec
CONSTANTS
  HighWater = 2
  HardLimit = 4
  Reserve = 1
  Floor = 1
  WalNotReady = 2
  DeleteBatch = 1
  VacuumBatch = 1
  MaxPressure = 2
  MaxGrow = 2
  MaxFrames = 2
  DiskSize = 5
  MaxOthers = 4
  NoReader = NoReader
INVARIANTS FileBounded
PROPERTIES EvictsOnlyForRoom RoomReturns
