CONSTANTS
  KBUF_MMAP_CAPACITY = 4
  PAGE_SIZE = 2
  IdxMod = 8
  SizeSets = {{2}}
  Total = 4
  ResetFirst = FALSE
SPECIFICATION FairSpec
PROPERTY RunMovesTotal
