\* An application thread that sends, on a socket that never fails once open:
\* does disable() return?
CONSTANTS
  Callers = {c1}
  MaxFrames <- MCMaxFrames
  MaxConnects <- MCMaxConnects
  BasePort <- MCBasePort
  DevicePorts <- MCDevicePorts
  SendCanFail = FALSE
  NoHolder = NoHolder
  None = None
SPECIFICATION Spec
PROPERTY ShutdownCompletes
CHECK_DEADLOCK FALSE
