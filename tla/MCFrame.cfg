SPECIFICATION Spec
CONSTANTS
  Names <- MCNames
  NoName = NoName
  Codes <- MCCodes
  MaxCode = 3
  INT_MAX = 131071
INVARIANTS
  SlotsDisjoint
  SlotsInFrame
  ScratchReserved
  EveryDstHasASlot
  FirstRequestFits
  EnterCoversFrame
PROPERTIES
  SlotsStable
