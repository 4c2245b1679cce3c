\* get_rce_status.py given CERN-1 while rce_talk also lists CERN-10.
CONSTANTS
  Names <- MCNames
  Indexes <- MCIndexes
  Texts <- MCTexts
  Hosts <- MCHosts
  RceList <- MCRceList
  HostArgs <- MCHostArgsPrefix
  SPort = 8090
  DevicePorts <- MCDevicePorts
  VarList <- MCVarList
  Docs <- MCDocs
  Trailing = TRUE
  PeerFaults = TRUE
  PeerCloses = FALSE
SPECIFICATION Spec
INVARIANT ScansNamedRces
CHECK_DEADLOCK FALSE
