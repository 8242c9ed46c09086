SPECIFICATION Spec
CONSTANTS
  a = a
  b = b
  c = c
  Procs = {a, b}
  Foreign = {}
  Pids = {i, j}
  Known <- TwoKnown
PROPERTY FinishedJobsStay
CHECK_DEADLOCK FALSE
