\* reproduction: variable descriptions holding <perInstance>
CONSTANTS
  Names <- MCNames
  Indexes <- MCIndexes
  Texts <- MCTexts
  DevNames <- MCDevNames
  VarNames <- MCVarNames
  IndexVals <- MCIndexVals
  EnumVals <- MCEnumVals
  VarFields <- MCFieldsPerInstance
  Misordered = FALSE
  ErrorTexts <- MCErrorTexts
INIT Init
NEXT Next
INVARIANT MessageMatchesSpec
CHECK_DEADLOCK FALSE
