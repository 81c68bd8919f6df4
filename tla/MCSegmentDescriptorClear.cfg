CONSTANTS
  Values <- Patterns
SPECIFICATION FullSpec
INVARIANTS
  ProcessorReadsWhatWasSet
