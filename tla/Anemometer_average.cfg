SPECIFICATION FairSpec
CONSTANTS
  Wrap = 20
  DetachWorks = TRUE
  MinGap = 2
  MaxIteration = 2
  MaxCount = 2
  TimeCap = 6
  dataLoopLength = 6
  MaxSetup = 2
  MaxIdle = 1
INVARIANTS
  TypeOK
  MeanOfThisWindow
PROPERTIES
  ReportsSpacedBeforeWrap
  ReportsKeepComing
  Reattached
