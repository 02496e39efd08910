SPECIFICATION Spec
CONSTANTS
  N = 3
  MAX_MESSAGES_PER_PROCESS = 2
  PREEMPTIVE = FALSE
  LINKS <- MCLinks
  SIGNAL_TARGETS = {2}
  MAX_SENDS = 3
INVARIANTS Delivery NobodySleepsInVain
