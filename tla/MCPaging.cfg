SPECIFICATION FairSpec
CONSTANTS
  p1 = p1
  p2 = p2
  p3 = p3
  t1 = t1
  Loads <- TestLoads
  Threads = {t1}
  PAGE_N_ENTRIES = 8
  SECTORS_PER_PAGE = 2
  N_KERNEL_PTS = 3
  PAGEABLE_PAGES = 17
  MEM_START = 2
  SCREEN_ADDR = 1
  PROCESS_ENTRY = 48
  PROCESS_STACK = 79
  Devices <- TestDevices
  swap_loc <- TestLoc
  swap_size <- TestSize
  data_of <- TestData
  Kernel = Kernel
INVARIANTS
  AddressSpaces
  NoLostWrite
PROPERTIES
  PinnedStay
  FaultServed
CHECK_DEADLOCK FALSE
