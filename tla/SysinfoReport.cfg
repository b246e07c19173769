SPECIFICATION SSpec
CONSTANTS
  c1 = c1
  c2 = c2
  NPROC = 3
  CPUs <- TwoCpus
  MaxPid = 3
  Workload = {"fork", "exit", "wait"}
  KillTargets = {}
  PauseArgs = {}
  RejectsPidZero = FALSE
  NPAGES = 2
  KernelPages = 1
SYMMETRY CpuSymmetry
INVARIANT
  ReportRegular
