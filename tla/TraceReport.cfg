SPECIFICATION Spec
CONSTANTS
  NPROC = 2
  MaxPid = 3
  NameArgs = {"fork", "kill", "trace", "halt"}
PROPERTY
  ReportExact
