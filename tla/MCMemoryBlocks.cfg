CONSTANTS
  RegionSize <- EightPages
  Requests <- SmallRequests
SPECIFICATION Spec
INVARIANTS
  TypeOK
  PagesHaveOneOwner
  TreesWellFormed
  SearchOrder
  Coalesced
  FreeSpaceExact
  CursorIsFree
  IInv
PROPERTIES
  CallersMemoryUntouched
  CallReturns
  PoolSpec
