SPECIFICATION Spec
CONSTANTS
  CLUSTERS = {c1, c2, c3}
  SECT_PER_CLUST = 2
  SECT_SIZE = 2
  FILES = {f1, f2}
  HANDLES = {h1, h2}
  LENGTHS = {1, 3}
  MAX_OFFSET = 5
  MAX_WRITES = 2
  MAX_FAULTS = 1
SYMMETRY Symm
INVARIANTS InOwnChain PositionAgrees 
CHECK_DEADLOCK FALSE
