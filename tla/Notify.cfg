\* Three tasks that wait, one of which also signals, and a device interrupt.
SPECIFICATION FairSpec
CONSTANTS
  a = a
  b = b
  c = c
  Irq = Irq
  None = None
  Tasks = {a, b, c}
  Signallers = {c}
  Victims = {a, c}
  Modes <- AllModes
  Counts <- MCCounts
  MAX_PENDING = 2
  MAX_SIGNALS = 2
INVARIANTS
  EverySignalAccounted
  NoWakeupLost
  WaitersAreBlocked
PROPERTIES
  PendingSignalsAreTaken
CHECK_DEADLOCK FALSE
