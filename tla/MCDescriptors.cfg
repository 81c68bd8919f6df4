CONSTANTS
  Values <- Patterns
SPECIFICATION Spec
INVARIANTS
  SegmentReadsWhatWasSet
  GateHoldsWhatWasSet
  GettersReturnWhatWasSet
