SPECIFICATION Spec
CONSTANTS
  N_PROCESSES = 4
  ALGORITHMS = {"fcfs", "sjf"}
  QUANTUM = 1
  N_LEVELS = 2
  ML_QUANTUM <- MCQuantum
  BOOST_PERIOD = 3
  INIT_TICKETS = 1
  SIGNALS = {"STOP", "RESUME"}
  SIGNAL_TARGETS = {2}
  WAIT_TARGETS = {1}
  PRIORITIES = {}
  TICKETS = {}
  QUEUE_PRIORITIES = {}
  OUT_OF_MEMORY = FALSE
  MAX_LEAKS = 0
  MAX_OVERRUN = 1
  MAX_BURST = 2
INVARIANTS WaitersWoken ShortestFirst
