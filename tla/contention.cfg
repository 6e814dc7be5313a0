CONSTANTS
  r1 = r1  r2 = r2  w1 = w1  w2 = w2  p1 = p1  c1 = c1  c2 = c2
  Readers = {r1, r2}
  Writers = {w1, w2}
  Pollers = {}
  Ctls = {c1}
  NoThread = NoThread
  KBUF_MAX_NUM_BUFFERS = 2
  KBUF_MAX_BUFFER_SIZE = 2
  KBUF_DEFAULT_NUM_BUFFERS = 1
  KBUF_DEFAULT_BUFFER_SIZE = 2
  IdxMod = 4
  NumBuffersReqs = {}
  BufferSizeReqs = {}
  ReadCounts = {1}
  WriteCounts = {3}
  NonblockReqs = {FALSE}
  Ops = {"RESET", "GSTATS"}
  InitModes = {"blocking"}
  MaxMsgs = 3
  Quiesce = TRUE
  ResizeApart = TRUE
SPECIFICATION Spec
SYMMETRY Symmetry
INVARIANTS MutexDiscipline NoLostWakeup FifoOrder PeakBounds StatsAccount
