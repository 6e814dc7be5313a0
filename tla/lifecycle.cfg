CONSTANTS
  p1 = p1  p2 = p2
  Procs = {p1, p2}
  NoProc = NoProc
  KBUF_MAX_NDEVICES = 2
  KBUF_DYN_MAX = 2
  NdevicesReqs = {0, 2, 3}
  StaticOpens = {0}
  MaxCreates = 2
  EarlyOpen = FALSE
SPECIFICATION Spec
SYMMETRY Symmetry
INVARIANTS LifeInv RefBalance HeldAlive MinorExclusive NothingLost TeardownExact NothingLeft ExitAlone ReachableReady
PROPERTY OpensListedOnly
