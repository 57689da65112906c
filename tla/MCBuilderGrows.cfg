SPECIFICATION Spec
CONSTANTS
  FirstProcs = 16
  FirstInstrs = 32
  Instrs <- MCInstrs
  Garbage = Garbage
  Texts = {}
  MaxTmps = 0
  MaxProcs = 17
  MaxInstrs = 0
INVARIANT EveryProcKept
CHECK_DEADLOCK FALSE
