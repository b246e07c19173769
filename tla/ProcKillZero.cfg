SPECIFICATION Spec
CONSTANTS
  c1 = c1
  c2 = c2
  NPROC = 2
  CPUs <- TwoCpus
  MaxPid = 3
  Workload = {"fork", "wait", "kill"}
  KillTargets = {0}
  PauseArgs = {}
  RejectsPidZero = FALSE
INVARIANT
  OnlyTargetsKilled
