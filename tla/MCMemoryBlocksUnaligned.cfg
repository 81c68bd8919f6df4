CONSTANTS
  RegionSize <- ThreePagesAndABit
  Requests <- SmallRequests
SPECIFICATION Spec
INVARIANTS
  AllocatedWithinRegion
