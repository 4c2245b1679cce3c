\* rxMessage() on every single-section message and every pair of small
\* sections, after an empty mirror or one leaf set earlier
CONSTANTS
  Names <- MCNames
  Indexes <- MCIndexes
  Texts <- MCTexts
  DevNames <- MCDevNames
  VarNames <- MCVarNames
  IndexVals <- MCIndexVals
  EnumVals <- MCEnumVals
  VarFields <- MCFields
  Misordered = FALSE
  ErrorTexts <- MCErrorTexts
INIT Init
NEXT Next
INVARIANTS TypeOK MessageMatchesSpec EncodeRoundTrip
CHECK_DEADLOCK FALSE
