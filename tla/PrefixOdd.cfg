SPECIFICATION Spec
CONSTANTS
  MaxBatch = 2
  Prompts <- OddPrompts
  Tokens = {1, 2}
  Sampled = {1}
  SpanSize = 2
  MaxLength = 7
  MinGen = 1
  GpuBlocks = 5
  CpuUnits = 4
  CpuRest = FALSE
  MaxStarts = 4
  MaxFaulty = 3
INVARIANTS
  TypeOK
  RequestReadsItsKv
  NodesHoldTheirPrefix
  BlocksConserved
  RefsCounted
  NoOrphans
  NothingImpossible
PROPERTIES
  ReferredStays
CHECK_DEADLOCK FALSE
