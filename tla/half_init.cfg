CONSTANTS
  p1 = p1  p2 = p2
  Procs = {p1}
  NoProc = NoProc
  KBUF_MAX_NDEVICES = 1
  KBUF_DYN_MAX = 1
  NdevicesReqs = {1}
  StaticOpens = {0}
  MaxCreates = 0
  EarlyOpen = TRUE
SPECIFICATION Spec
INVARIANT DeviceNamed
