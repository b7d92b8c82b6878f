SPECIFICATION Spec
CONSTANTS
  ChannelCapacity = 1
  SlotSize = 4
  ChunkSize = 2
  Image = {2, 3, 5}
  Endings = {"reset", "timeout", "fin"}
  FlashFaults = {"writing", "activate"}
  RollbackBootloader = TRUE
INVARIANTS
  TypeOK
  SelectedIsComplete
  OnlyLostStateSwitches
PROPERTIES
  UpdateIsAtomic
  SuccessBootsNewImage
  TransferEnds
