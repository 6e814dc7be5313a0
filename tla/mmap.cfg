CONSTANTS
  KBUF_MMAP_CAPACITY = 8
  PAGE_SIZE = 2
  IdxMod = 16
  SizeSets = {{2}, {9}, {1, 3, 5}}
  Total = 20
  ResetFirst = TRUE
SPECIFICATION FairSpec
INVARIANTS StreamInv CopiesApart WholeRecords
PROPERTIES ImplementsByteFifo RunMovesTotal
