SPECIFICATION Spec
CONSTANTS
  NAMES = {"long", "lone", "txt"}
  PATHS <- MCPaths
  Lfns <- MCLfns
  Short <- MCShort
  SLOTS = 4
  N_DIRS = 2
  POOL = 3
  ROOTS <- MCRoots
  MAX_FAULTS = 1
INVARIANTS LookupExact TreeSound
PROPERTY ListingComplete
CHECK_DEADLOCK FALSE
