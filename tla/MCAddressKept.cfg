SPECIFICATION Spec
CONSTANTS
  None = None
  Initial <- MCInitial
  Scalars = {"z"}
  Arrays = {"a"}
  Lits = {1, 3}
  Sizes = {2}
  Procs <- MCProcs
  TmpName <- MCTmpName
  Word = 4
  IR_MAX_ARGS = 2
  IR_MAX_RETS = 8
  MaxNodes = 6
INVARIANT AddressKept
CHECK_DEADLOCK FALSE
