SPECIFICATION Spec
CONSTANTS
  c1 = c1
  c2 = c2
  NPROC = 3
  CPUs <- TwoCpus
  MaxPid = 4
  Workload = {"fork", "exit", "wait", "kill"}
  KillTargets = {0, 2, 3}
  PauseArgs = {}
  RejectsPidZero = TRUE
SYMMETRY CpuSymmetry
INVARIANTS
  TypeOK
  NoLostWakeup
  SleeperHasChild
  ParentAlive
  ScanIsSnapshot
  FreshSlot
  OnlyTargetsKilled
  OneCpuEach
  NoPanic
PROPERTIES
  ReapedByParent
  ImplementsTree
