SPECIFICATION Spec
CONSTANTS
  BUILTIN = 1
  MAX_SERVICES = 2
  MAX_RESTARTS_BEFORE_BACKOFF = 1
  MAX_TASKS = 5
  NO_TASK = 0
INVARIANTS
  OneTaskPerService
  
PROPERTIES
  ExitsAreDealtWith
CHECK_DEADLOCK FALSE
