\* One CPU, every operation.
SPECIFICATION FairSpec
CONSTANTS
  c1 = c1
  c2 = c2
  t1 = t1
  t2 = t2
  t3 = t3
  Cpus = {c1}
  Tasks = {t1, t2, t3}
  Supervisor = t1
  Boot <- BootOneCpu
  Ops <- AllOps
  NoTask = NoTask
  NoCpu = NoCpu
  Idle = Idle
INVARIANTS
  OnePlaceAtATime
  NoTaskLost
  

  
