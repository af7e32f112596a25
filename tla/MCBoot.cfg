SPECIFICATION Spec
CONSTANTS
  SECTOR_SIZE = 3
  OS_SIZE_LOC = 1
  AL = 4
  BootFiles <- TestBootFiles
  Kernels <- TestKernels
  MaxBuilds = 3
  BITMAP_ENTRIES = 256
  BITMAP_BLOCKS = 2
  INODE_BLOCKS = 32
  FS_BLOCKS = 514
  InodesPerBlock = 16
INVARIANTS
  KernelComplete
  DriveDisjoint
  FileSystemWhole
PROPERTY
  UpdateKeepsFiles
CHECK_DEADLOCK FALSE
