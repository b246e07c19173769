SPECIFICATION Spec
CONSTANTS
  NPROC = 2
  PGSIZE = 2
  MAXPAGES = 2
  USYSCALL = 3
  WORD = 32
  Bases = {0, 2, 3, 30}
  Counts = {0, 1, 2, 3}
INVARIANTS
  NoPanic
  MaskExact
