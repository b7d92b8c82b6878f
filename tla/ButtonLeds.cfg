SPECIFICATION CubeSpec
CONSTANTS
  ChannelCapacity = 1
  MaxLag = 2
INVARIANTS
  TypeOK
  StripMatchesMode
  ButtonTypeOK
PROPERTIES
  StatusHeld
  NoCatchUpBurst
  SendersUnblocked
  StripSettles
  OnePressOneReaction
  SeenPressIsAnswered
  TapChangesEffect
