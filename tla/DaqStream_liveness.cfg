\* A read-only client (no application thread sends): buffered frames are
\* delivered and disable() returns. The thread really stops after disable().
CONSTANTS
  Callers = {}
  MaxFrames <- MCMaxFrames
  MaxConnects <- MCMaxConnects
  BasePort <- MCBasePort
  DevicePorts <- MCDevicePorts
  SendCanFail = FALSE
  NoHolder = NoHolder
  None = None
SPECIFICATION Spec
PROPERTY BufferedFrameDelivered
PROPERTY ShutdownCompletes
CHECK_DEADLOCK FALSE
