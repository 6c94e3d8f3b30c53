SPECIFICATION Spec
CONSTANTS
  ByteBits = 8
  ValueBits = 32
  IntBits = 16
  MaxBuffer = 32
  Values <- SomeValues
  Samples <- SomeSamples
  Chips <- SomeChips
  MaxCalls = 4
  MaxFaults = 1
  MaxRestarts = 1
  Unknown = Unknown
  NoCall = NoCall
INVARIANTS
  TypeOK
  SettingsHeld
  ReadBack
  OnlyRightChip
  FailureVisible
CHECK_DEADLOCK FALSE
