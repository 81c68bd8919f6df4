SPECIFICATION Spec
CONSTANTS
  SIZE_T_SIZE = 4
  SIZE_T_BITSIZE = 16
  TREEBIN_SHIFT = 6
  NTREEBINS = 8
  page_size = 256
  DEFAULT_GRANULARITY = 256
  DEFAULT_MMAP_THRESHOLD = 600
  DEFAULT_TRIM_THRESHOLD = 700
  MAX_RELEASE_CHECK_RATE = 2
  MmapPages <- MCMmapPages
  Slots <- MCSlots
  OldSlots <- MCOldSlots
  Programs <- SystemPrograms
  s1 = s1
  s2 = s2
  s3 = s3
  o1 = o1
  o2 = o2
  o3 = o3
  o4 = o4
  k1 = k1
  k2 = k2
  k3 = k3
  k4 = k4
SYMMETRY Symmetry
INVARIANTS
  HeapIsConsistent
  BlocksStayIntact
  PromisesAreKept
  RegionsAreGranted
  FootprintIsExact
PROPERTIES
  LimitIsEnforced
