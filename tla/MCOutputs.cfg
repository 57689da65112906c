SPECIFICATION Spec
CONSTANTS
  Literal = Literal
  StringLit = StringLit
  None = None
  Params <- OneParam
  Outs <- OneOut
  Globals <- NoNames
  Stmts <- OutStmts
  Opens <- NoOpens
  Arms <- NoArms
  TmpName <- MCTmpName
  Width <- MCWidth
  MaxLen = 2
  MaxDepth = 2
INVARIANT OutputsHaveStorage
