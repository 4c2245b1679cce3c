\* reproduction: an element below a category named like a category
CONSTANTS
  Names <- MCNamesCategory
  Indexes <- MCIndexes
  Texts <- MCTexts
  DevNames <- MCDevNames
  VarNames <- MCVarNames
  IndexVals <- MCIndexVals
  EnumVals <- MCEnumVals
  VarFields <- MCFields
  Misordered = FALSE
  ErrorTexts <- MCErrorTexts
INIT Init
NEXT Next
INVARIANT MessageMatchesSpec
CHECK_DEADLOCK FALSE
