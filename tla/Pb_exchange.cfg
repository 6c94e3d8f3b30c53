SPECIFICATION Spec
CONSTANTS
  GroupBits = 3
  W32 = 8
  W64 = 16
  SizeMax = 100
  MaxRequired = 8
  Null = Null
  Types <- SampleTypes
  CallbackText <- MessageText
  EnableMalloc = TRUE
  Samples <- SampleMessages
  Foreign <- OtherEncodings
  ReadAs <- Versions
  Rooms <- Short
  Framings = {"plain", "delimited", "nullterminated"}
  Sources <- AllSources
  HeapLimits = {1, 2, 4, 1000}
  FieldReaders = {"none", "all", "byte", "fail"}
INVARIANTS
  TypeOK
  EncodedExactly
  RoundTrip
  HandedOver
  BlocksAccountedFor
  CutIsSeen
  MergeIsConcatenation
