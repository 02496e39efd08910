SPECIFICATION Spec
CONSTANTS
  N_PROCESSES = 3
  ALGORITHMS = {"mlq", "mlfq"}
  QUANTUM = 2
  N_LEVELS = 3
  ML_QUANTUM <- MCQuantum
  BOOST_PERIOD = 4
  INIT_TICKETS = 1
  SIGNALS = {"STOP"}
  SIGNAL_TARGETS = {2}
  WAIT_TARGETS = {1}
  PRIORITIES = {}
  TICKETS = {}
  QUEUE_PRIORITIES = {1, 3}
  OUT_OF_MEMORY = FALSE
  MAX_LEAKS = 0
  MAX_OVERRUN = 1
  MAX_BURST = 0
INVARIANTS LevelsAgree
PROPERTIES StrictPriority
