\* Two CPUs; senders that are moved between them, time out and are kicked.
SPECIFICATION FairSpec
CONSTANTS
  c1 = c1
  c2 = c2
  c3 = c3
  s1 = s1
  s2 = s2
  r1 = r1
  r2 = r2
  None = None
  Cpus = {c1, c2}
  Senders = {s1, s2}
  Ranges = {r1, r2}
  MAX_REQUESTS = 2
INVARIANTS
  TargetsAreFlushed
  AcksAreForTakenRequests

  
CHECK_DEADLOCK FALSE
