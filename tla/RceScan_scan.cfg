\* Both scripts against two hosts whose devices may be out of the scan's
\* range, may send the next frame's first bytes, or may stall mid-frame.
CONSTANTS
  Names <- MCNames
  Indexes <- MCIndexes
  Texts <- MCTexts
  Hosts <- MCHosts
  RceList <- MCRceList
  HostArgs <- MCHostArgs
  SPort = 8090
  DevicePorts <- MCDevicePorts
  VarList <- MCVarList
  Docs <- MCDocs
  Trailing = TRUE
  PeerFaults = TRUE
  PeerCloses = FALSE
SPECIFICATION Spec
INVARIANT TypeOK
INVARIANT ReportMatchesDevice
PROPERTY ScriptEnds
CHECK_DEADLOCK FALSE
