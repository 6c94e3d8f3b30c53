SPECIFICATION FairSpec
CONSTANTS
  Wrap = 16
  LoopInterval = 1
  MinOnTime = 4
  MaxBusy = 2
  UpperThreshold = 25
  LowerThreshold = 15
  DefaultSwitch = TRUE
  TypedCommands = {}
  FridgeWindow = 4
  MeasureWindow = 1
  FridgeGain = 10
  MeasureGain = 10
  RawMax = 3
  RawLevels = {1, 3}
  ToneLength = 1
INVARIANTS
  TimerWithinAge
PROPERTIES
  MinimumOnTime
  AverageRefreshed
  DischargedTurnsOffAwayFromWrap
  OnTunePlayedWhole
  BuzzerFallsSilent
