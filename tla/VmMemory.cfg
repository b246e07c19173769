SPECIFICATION Spec
CONSTANTS
  NPROC = 3
  NPAGES = 31
  HeldPages = {0, 1, 2, 3, 4, 5, 6, 7}
  PGSIZE = 2
  FAN = 3
  MAXVA = 12
  WORD = 128
  MaxPid = 3
  SbrkArgs <- Increments
  TouchedVa = {1, 3, 9}
INVARIANTS
  TypeOK
  PagesAccounted
  NoPanic
  NoForeignData
  MappedBelowSz
  UsyscallTrue
  VmprintExact
PROPERTY ForkCopies
