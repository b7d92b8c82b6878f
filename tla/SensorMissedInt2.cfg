SPECIFICATION Spec
CONSTANTS
  ChannelCapacity = 1
  InactivityTicks = 3
  None = None
PROPERTY
  AssertedInt2IsServiced
