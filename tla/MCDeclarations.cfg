\* All files of three declarations of two kinds of sets, records of at most five
\* fields, and bodies of one expression in a file with every kind of declaration.
\* An int of 8 bits, and array lengths around its bounds.
SPECIFICATION Spec
CONSTANTS
  IntBits = 8
  Value <- MCValue
  Files <- MCFiles
INVARIANTS
  RegisteredInOrder SeenAs BlocksClosed ArmsAgree SignaturesAgree AccessesApart SizesTrue
CHECK_DEADLOCK FALSE
