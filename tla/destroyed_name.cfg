CONSTANTS
  p1 = p1  p2 = p2
  Procs = {p1, p2}
  NoProc = NoProc
  KBUF_MAX_NDEVICES = 1
  KBUF_DYN_MAX = 1
  NdevicesReqs = {1}
  StaticOpens = {0}
  MaxCreates = 1
  EarlyOpen = FALSE
SPECIFICATION Spec
INVARIANT DeviceNamed
