SPECIFICATION Spec
CONSTANTS
  ChannelCapacity = 1
  SlotSize = 4
  ChunkSize = 2
  Image = {2, 3}
  Endings = {}
  FlashFaults = {"setState"}
  RollbackBootloader = FALSE
INVARIANT
  FailureLeavesSelection
