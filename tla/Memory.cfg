SPECIFICATION Spec
CONSTANTS
  WORD = 4
  WORDS_PER_FRAME = 4
  MAP_SHARE = 4
  MAX_RECLAIM = 1
  Tasks = {t1, t2}
  Objects = {o1, o2}
  Drivers = {t1, t2}
  MemoryMaps <- MCMaps
  PAGES = {2}
  DMA_PAGES = {2}
  SPAN = 2
  USER_PAGES = 1
  USER_MMAP_BASE = 4
  BAR <- MCBar
  MAX_MAPPINGS = 2
  MAX_BIRTHS = 5
  None = None
CONSTRAINT Unspoiled
SYMMETRY Symmetry
INVARIANTS
  
  MappingsAreBacked
CHECK_DEADLOCK FALSE
