SPECIFICATION Spec
CONSTANTS
  N_DBLOCKS = 1
  N_IBLOCKS = 1
  IntsInBlock = 2
  BLOCK_SIZE = 2
  DataBlocks = 28
  SwapBlocks = 4
  HeadBlocks = 2
  data_offset = 1
  num_inode = 2
  Sizes = {0, 3, 7}
  Strides = {1, 11, 27}
  Sources <- Images
INVARIANTS
  FreeListEnds
\* The program ends.
CHECK_DEADLOCK FALSE
