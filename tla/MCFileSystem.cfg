SPECIFICATION Spec
CONSTANTS
  a = a
  ab = ab
  MAX_INODES = 3
  DATA_BLOCKS = 3
  BLOCK_SIZE = 4
  INODE_NDIRECT = 2
  Procs = {p1, p2}
  MAX_OPEN_FILES = 1
  Names <- TestNames
  Longer <- TestLonger
  Sizes = {3}
  Offsets = {0, 5}
  MaxLinks = 4
  MaxCalls = 6
  Faults = {"notdir"}
SYMMETRY Symmetry
INVARIANTS
  BlocksExact
  SizeMatchesBlocks
  TreeExact
  Saved
  PowerFailureSpares
PROPERTY
  OthersUntouched
CHECK_DEADLOCK FALSE
