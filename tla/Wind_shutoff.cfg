SPECIFICATION Spec
CONSTANTS
  Wrap = 8
  DetachWorks = FALSE
  MinGap = 2
  MaxIteration = 2
  MaxCount = 2
  TimeCap = 6
  ReportLength = 3
PROPERTIES
  ShutOffWhileReporting
