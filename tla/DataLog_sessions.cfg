SPECIFICATION Spec
CONSTANTS
  NameLimit = 3
  MaxSessions = 6
INVARIANTS
  TypeOK
  LogInOrder
CHECK_DEADLOCK FALSE
