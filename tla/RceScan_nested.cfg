\* Register blocks that hold a block of their own name: a leaf below both
\* is reported once for each.
CONSTANTS
  Names <- MCNames
  Indexes <- MCIndexes
  Texts <- MCTexts
  Hosts <- MCHosts
  RceList <- MCRceList
  HostArgs <- MCHostArgs
  SPort = 8090
  DevicePorts <- MCDevicePorts
  VarList <- MCVarList
  Docs <- MCAllDocs
  Trailing = TRUE
  PeerFaults = TRUE
  PeerCloses = FALSE
SPECIFICATION Spec
INVARIANT ReportMatchesDevice
CHECK_DEADLOCK FALSE
