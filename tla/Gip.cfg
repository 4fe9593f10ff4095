SPECIFICATION Spec
CONSTANTS
  CHANNEL_BUFFER_SIZE = 2
  MAINLOOP_MAX_WR_BUFS = 2
  MaxKeys = 1
  MaxCmds = 2
INVARIANTS FramesWhole RequestsExact
PROPERTY InputIsRead
CHECK_DEADLOCK FALSE
