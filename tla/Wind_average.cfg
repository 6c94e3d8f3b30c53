SPECIFICATION FairSpec
CONSTANTS
  Wrap = 7
  DetachWorks = TRUE
  MinGap = 2
  MaxIteration = 2
  MaxCount = 2
  TimeCap = 6
  ReportLength = 3
INVARIANTS
  TypeOK
PROPERTIES
  ReportsAtOnce
  ReportsSpaced
  ReportsKeepComing
