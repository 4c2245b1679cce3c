\* Frame order under every interleaving of reads, stalls, reconnects and
\* sends, sends that raise included. The code can hang (a send that raises
\* keeps _sLock), so a state with no successor is not an error here.
CONSTANTS
  Callers = {c1}
  MaxFrames <- MCMaxFrames
  MaxConnects <- MCMaxConnects
  BasePort <- MCBasePort
  DevicePorts <- MCDevicePorts
  SendCanFail = TRUE
  NoHolder = NoHolder
  None = None
SPECIFICATION Spec
INVARIANT TypeOK
PROPERTY ImplementsFrameChannel
CHECK_DEADLOCK FALSE
