CONSTANTS
  AddressSpace = 64
  PageSize = 4
  Slots = 4
  KernelStart = 12
  EndOfKernel = 21
  MemoryMaps <- OrdinaryMaps
  Beyond <- NothingAvailable
SPECIFICATION Spec
INVARIANTS
  TypeOK
  Inv
  SelectedIsLargest
  ManagedMemoryIsAvailable
  KernelStaysMapped
  TablesHavePagesOfTheirOwn
PROPERTIES
  BootEnds
CHECK_DEADLOCK FALSE
