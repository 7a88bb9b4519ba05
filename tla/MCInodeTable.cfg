SPECIFICATION Spec
CONSTANTS
  Proc = {p1, p2}
  NR_INODE = 4
  NrBlocks = 1
  INODES_PER_BLOCK = 3
  Special = {3}
  Data = {0, 1}
SYMMETRY Symmetry
INVARIANTS TypeOK OneSlotPerInode HolderHasItsInode CountIsReferences FreeIsIdle
PROPERTIES ImplementsFiles
