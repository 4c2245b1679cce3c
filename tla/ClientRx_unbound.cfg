\* reproduction: a device whose variable comes before its <name>
CONSTANTS
  Names <- MCNames
  Indexes <- MCIndexes
  Texts <- MCTexts
  DevNames <- MCDevNames
  VarNames <- MCVarNames
  IndexVals <- MCIndexVals
  EnumVals <- MCEnumVals
  VarFields <- MCFields
  Misordered = TRUE
  ErrorTexts <- MCErrorTexts
INIT Init
NEXT Next
INVARIANT MessageMatchesSpec
CHECK_DEADLOCK FALSE
