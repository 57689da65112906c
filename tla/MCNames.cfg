SPECIFICATION Spec
CONSTANTS
  Literal = Literal
  StringLit = StringLit
  None = None
  Params <- OneParam
  Outs <- NoNames
  Globals <- OneGlobal
  Stmts <- NameStmts
  Opens <- NameOpens
  Arms <- NameArms
  TmpName <- MCTmpName
  Width <- MCWidth
  MaxLen = 6
  MaxDepth = 2
INVARIANTS PassesAgree AbortsExplained LexicalReads
