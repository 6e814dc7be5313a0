CONSTANTS
  r1 = r1  r2 = r2  w1 = w1  w2 = w2  p1 = p1  c1 = c1  c2 = c2
  Readers = {r1}
  Writers = {w1}
  Pollers = {}
  Ctls = {c1, c2}
  NoThread = NoThread
  KBUF_MAX_NUM_BUFFERS = 3
  KBUF_MAX_BUFFER_SIZE = 2
  KBUF_DEFAULT_NUM_BUFFERS = 1
  KBUF_DEFAULT_BUFFER_SIZE = 2
  IdxMod = 4
  NumBuffersReqs = {2, 3}
  BufferSizeReqs = {2}
  ReadCounts = {2}
  WriteCounts = {2}
  NonblockReqs = {FALSE}
  Ops = {"RESIZE", "SMODE"}
  InitModes = {"blocking"}
  MaxMsgs = 1
  Quiesce = TRUE
  ResizeApart = TRUE
SPECIFICATION Spec
INVARIANT SpscPowerOfTwo
