SPECIFICATION Spec
CONSTANTS
  MaxBatch = 2
  Prompts <- WholeSpanPrompts
  Tokens = {1}
  Sampled = {1}
  SpanSize = 2
  MaxLength = 8
  MinGen = 1
  GpuBlocks = 5
  CpuUnits = 4
  CpuRest = FALSE
  MaxStarts = 4
  MaxFaulty = 3
INVARIANTS
  RequestReadsItsKv
CHECK_DEADLOCK FALSE
