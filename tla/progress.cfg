SPECIFICATION FairSpec
CONSTANTS
  N_PROCESSES = 3
  ALGORITHMS = {"round_robin", "priority_aging", "mlfq", "fcfs"}
  QUANTUM = 1
  N_LEVELS = 3
  ML_QUANTUM <- MCQuantum
  BOOST_PERIOD = 4
  INIT_TICKETS = 1
  SIGNALS = {"KILL"}
  SIGNAL_TARGETS = {2}
  WAIT_TARGETS = {1, 2}
  PRIORITIES = {}
  TICKETS = {}
  QUEUE_PRIORITIES = {}
  OUT_OF_MEMORY = FALSE
  MAX_LEAKS = 0
  MAX_OVERRUN = 1
  MAX_BURST = 0
INVARIANTS PreemptionBalanced
PROPERTIES NoStarvation KillTakesEffect IdleEnds
