SPECIFICATION SetupSpec
CONSTANTS
  Rates = {"Hz100"}
  Ranges = {"G2", "G8"}
  Noises = {"Normal", "LowNoise"}
  ActThresholds = {200}
  InactThresholds = {50}
  ActTimes = {3}
  InactTimes = {300}
  IntMaps = {{"act", "inact"}}
INVARIANTS
  TypeOK
  RunningIsConfigured
  NeverMeasuresHalfConfigured
PROPERTY SettingsAreIndependent
