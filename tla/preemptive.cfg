SPECIFICATION Spec
CONSTANTS
  N_PROCESSES = 3
  ALGORITHMS = {"round_robin", "lottery", "priority_aging"}
  QUANTUM = 2
  N_LEVELS = 2
  ML_QUANTUM <- MCQuantum
  BOOST_PERIOD = 3
  INIT_TICKETS = 1
  SIGNALS = {"KILL", "STOP"}
  SIGNAL_TARGETS = {2}
  WAIT_TARGETS = {1}
  PRIORITIES = {2}
  TICKETS = {2}
  QUEUE_PRIORITIES = {}
  OUT_OF_MEMORY = TRUE
  MAX_LEAKS = 1
  MAX_OVERRUN = 1
  MAX_BURST = 0
INVARIANTS TypeOK RunningIsCurrent ReadyIsQueuedOnce ProportionalDraw AgingCapped
PROPERTIES IdleOnlyWhenNobodyReady 
