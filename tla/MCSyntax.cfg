\* All bodies of one statement of at most 4 nodes or two of 3, all files of two
\* small declarations, and procedures around all sequences of at most 3 tokens.
SPECIFICATION Spec
CONSTANTS
  NLIST_MAX = 3
  MaxTokens = 3
  Inputs <- MCInputs
INVARIANTS RoundTrip RefusedFor
PROPERTY Terminates
CHECK_DEADLOCK FALSE
