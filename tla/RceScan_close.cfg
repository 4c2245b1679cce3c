\* A device that closes the connection mid-frame: recv() returns "" and
\* the loop spins.
CONSTANTS
  Names <- MCNames
  Indexes <- MCIndexes
  Texts <- MCTexts
  Hosts <- MCHosts
  RceList <- MCRceList
  HostArgs <- MCHostArgs
  SPort = 8090
  DevicePorts <- MCDevicePorts
  VarList <- MCVarList
  Docs <- MCDocs
  Trailing = TRUE
  PeerFaults = TRUE
  PeerCloses = TRUE
SPECIFICATION Spec
PROPERTY ScriptEnds
CHECK_DEADLOCK FALSE
