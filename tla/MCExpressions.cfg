SPECIFICATION Spec
CONSTANTS
  None = None
  Initial <- MCInitial
  Scalars = {"z"}
  Arrays = {"a"}
  Lits = {0}
  Sizes = {1}
  Procs <- MCProcs
  TmpName <- MCTmpName
  Word = 4
  IR_MAX_ARGS = 2
  IR_MAX_RETS = 8
  MaxNodes = 7
INVARIANTS ValuesKept OperandsReady
CHECK_DEADLOCK FALSE
