\* Does every message handed to rxMessage consist of one whole frame?
CONSTANTS
  Callers = {}
  MaxFrames <- MCMaxFrames
  MaxConnects <- MCMaxConnects
  BasePort <- MCBasePort
  DevicePorts <- MCDevicePorts
  SendCanFail = FALSE
  NoHolder = NoHolder
  None = None
SPECIFICATION Spec
INVARIANT NoCorruptFrame
CHECK_DEADLOCK FALSE
