CONSTANTS
  num_of_parameters = 2
  Sizes <- SmallSizes
  shared_mem_size = 26
  MaxCalls = 4
SPECIFICATION Spec
INVARIANTS
  TypeOK
  ValuesSurvive
  Inv
CHECK_DEADLOCK FALSE
