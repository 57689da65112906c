SPECIFICATION Spec
CONSTANTS
  FirstProcs = 2
  FirstInstrs = 2
  Instrs <- MCInstrs
  Garbage = Garbage
  Texts = {"a", "b"}
  MaxTmps = 3
  MaxProcs = 3
  MaxInstrs = 5
INVARIANTS CurrentKept KeptWithinFirst LiteralsKept
CHECK_DEADLOCK FALSE
