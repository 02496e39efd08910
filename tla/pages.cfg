SPECIFICATION Spec
CONSTANTS
  N_PAGES = 17
  N_PROCESSES = 3
  MAX_PROCESS_PAGES = 3
  CODE_PAGES = 3
  LEVELS = 2
  MAX_FILES_PER_PROCESS = 2
  MAX_HEAP = 2
  PREEMPTIVE = FALSE
INVARIANTS TypeOK OwnedOnce  
PROPERTIES ForkCopiesAll
CHECK_DEADLOCK FALSE
