SPECIFICATION FairSpec
CONSTANTS
  Wrap = 8
  LoopInterval = 1
  MinOnTime = 2
  MaxBusy = 1
  UpperThreshold = 25
  LowerThreshold = 15
  DefaultSwitch = TRUE
  TypedCommands = {"fridge", "stop"}
  FridgeWindow = 3
  MeasureWindow = 1
  FridgeGain = 10
  MeasureGain = 10
  RawMax = 3
  RawLevels = {1, 3}
  ToneLength = 1
PROPERTIES
  InputEventuallyRead
