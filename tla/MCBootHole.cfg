CONSTANTS
  AddressSpace = 64
  PageSize = 4
  Slots = 4
  KernelStart = 12
  EndOfKernel = 21
  MemoryMaps <- MapsWithAHole
  Beyond <- NothingAvailable
SPECIFICATION Spec
INVARIANTS
  ManagedMemoryIsAvailable
CHECK_DEADLOCK FALSE
