\* Two CPUs, tasks that block and are woken from the other CPU.
SPECIFICATION Spec
CONSTANTS
  c1 = c1
  c2 = c2
  t1 = t1
  t2 = t2
  t3 = t3
  Cpus = {c1, c2}
  Tasks = {t1, t2}
  Supervisor = NoTask
  Boot <- BootSplit
  Ops <- WakeOps
  NoTask = NoTask
  NoCpu = NoCpu
  Idle = Idle
INVARIANTS NoTaskLost DoublePlacementIsReported
