SPECIFICATION Spec
CONSTANTS
  ChannelCapacity = 1
  SlotSize = 1
  ChunkSize = 1
  Image = {1}
  Endings = {"timeout", "fin"}
  OtherCommand = {"SetEnabled(true)"}
PROPERTY
  YellowWhileConnecting
