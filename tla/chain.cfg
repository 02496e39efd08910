SPECIFICATION FairSpec
CONSTANTS
  CLUST_CNT = 6
  ITEMS = 2
  MIRROR = TRUE
  FILES <- MCFiles
  MAX_FAULTS = 2
INVARIANTS FilesIntact HandleInChain CopiesAgree
PROPERTIES FullMeansFull CallsReturn
CHECK_DEADLOCK FALSE
