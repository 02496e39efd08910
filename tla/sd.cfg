SPECIFICATION FairSpec
CONSTANTS
  BLOCKS = 2
  BLOCK_SIZE = 512
  MAX_NUM = 2
  VALUES = {"x", "y"}
  COUNTDOWN = 2
  TRIES = 2
  MAX_FAULTS = 2
INVARIANTS ReadsRight WritesStay CleanBetweenCalls
PROPERTY CallsReturn
CHECK_DEADLOCK FALSE
