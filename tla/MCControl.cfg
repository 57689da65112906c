SPECIFICATION Spec
CONSTANTS
  Literal = Literal
  StringLit = StringLit
  None = None
  Params <- NoNames
  Outs <- NoNames
  Globals <- NoNames
  Stmts <- ControlStmts
  Opens <- ControlOpens
  Arms <- ControlArms
  TmpName <- MCTmpName
  Width <- MCWidth
  MaxLen = 7
  MaxDepth = 3
INVARIANTS ControlExact
PROPERTY Implements
