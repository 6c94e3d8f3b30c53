SPECIFICATION FairSpec
CONSTANTS
  Wrap = 3
  LoopInterval = 1
  MinOnTime = 1
  MaxBusy = 1
  UpperThreshold = 1
  LowerThreshold = 1
  DefaultSwitch = FALSE
  TypedCommands = {"fridge", "measure", "idle", "stop"}
  FridgeWindow = 3
  MeasureWindow = 1
  FridgeGain = 2
  MeasureGain = 3
  RawMax = 1
  RawLevels = {0, 1}
  ToneLength = 1
INVARIANTS
  TypeOK
  AverageWithinSamples
  BuzzerConsistent
PROPERTIES
  ImplementsSwitch
  InputEventuallyRead
