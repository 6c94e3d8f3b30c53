SPECIFICATION FairSpec
CONSTANTS
  Wrap = 20
  LoopInterval = 1
  MinOnTime = 5
  MaxBusy = 2
  UpperThreshold = 25
  LowerThreshold = 15
  DefaultSwitch = TRUE
  TypedCommands = {}
  FridgeWindow = 3
  MeasureWindow = 1
  FridgeGain = 10
  MeasureGain = 10
  RawMax = 3
  RawLevels = {1, 3}
  ToneLength = 1
PROPERTIES
  DischargedTurnsOff
