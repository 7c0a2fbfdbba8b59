SPECIFICATION Spec
CONSTANTS
  MaxBatch = 2
  Prompts <- OddPrompts
  Tokens = {1, 2}
  Sampled = {1}
  SpanSize = 2
  MaxLength = 7
  MinGen = 1
  GpuBlocks = 5
  CpuUnits = 4
  CpuRest = TRUE
  MaxStarts = 4
  MaxFaulty = 3
INVARIANTS
  RequestReadsItsKv
CHECK_DEADLOCK FALSE
