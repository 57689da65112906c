\* All texts of at most 3 characters, all pairs of lexemes with and without a
\* blank, comments and parentheses around more; strings of at most 2 characters.
SPECIFICATION Spec
CONSTANTS
  StringRoom = 4
  MaxChars = 3
  Inputs <- MCInputs
INVARIANTS LongestTokens Located SniffAgrees
PROPERTY Terminates
CHECK_DEADLOCK FALSE
