SPECIFICATION PolicySpec
CONSTANTS
  ChannelCapacity = 1
  InactivityTicks = 3
  None = None
INVARIANTS
  TypeOK
  CountdownNeedsInactivity
  MotionCanWake
  WifiTypeOK
  RunningRadioIsFlagged
  WifiFollowsPresses
PROPERTIES
  MotionWakes
  SleepNeverCutsRadio
  SleepFollowsWifiOff
  PressIsTaken
  PressTurnsOff
  ReconnectsAfterDrop
