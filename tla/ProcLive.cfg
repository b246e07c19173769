SPECIFICATION LiveSpec
CONSTANTS
  c1 = c1
  c2 = c2
  NPROC = 3
  CPUs <- OneCpu
  MaxPid = 3
  Workload = {"fork", "wait", "kill", "pause", "fault"}
  KillTargets = {2}
  PauseArgs <- Pauses
  RejectsPidZero = TRUE
INVARIANT
  NoLostTick
PROPERTIES
  OrphansReaped
  WaitReturns
  PauseEnds
  KilledLeavesPause
