SPECIFICATION Spec
CONSTANTS
  ALIGN = 16
  HEADER = 32
  MAX_REGIONS = 3
  Callers = {k1, irq}
  Interrupts = {irq}
  Sizes = {1, 60}
  Aligns = {16, 64}
  PAGE = 96
  HEAP_START = 192
  HEAP_AT_BOOT = 96
  HEAP_RESERVE = 384
  HEAP_GROW_MIN = 96
  HEAP_GROW_MAX = 192
  MAX_LIVE = 2
  None = None
INVARIANTS
  BlocksTileTheHeap
  PayloadsAreTheirOwn
  
