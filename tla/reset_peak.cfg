CONSTANTS
  r1 = r1  r2 = r2  w1 = w1  w2 = w2  p1 = p1  c1 = c1  c2 = c2
  Readers = {r1}
  Writers = {w1}
  Pollers = {}
  Ctls = {c1}
  NoThread = NoThread
  KBUF_MAX_NUM_BUFFERS = 2
  KBUF_MAX_BUFFER_SIZE = 2
  KBUF_DEFAULT_NUM_BUFFERS = 1
  KBUF_DEFAULT_BUFFER_SIZE = 2
  IdxMod = 4
  NumBuffersReqs = {}
  BufferSizeReqs = {}
  ReadCounts = {1}
  WriteCounts = {1}
  NonblockReqs = {FALSE}
  Ops = {"RESET"}
  InitModes = {"spsc"}
  MaxMsgs = 2
  Quiesce = TRUE
  ResizeApart = TRUE
SPECIFICATION Spec
PROPERTY ResetPeakIsDepth
