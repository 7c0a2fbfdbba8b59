SPECIFICATION Spec
CONSTANTS
  None = None
  r1 = r1
  r2 = r2
  r3 = r3
  c1 = c1
  c2 = c2
  s1 = s1
  s2 = s2
  l1 = l1
  Requests <- ThreeRequests
  Clients = {c1, c2}
  Stoppers = {}
  UsersOf <- OwnClient
  ClientOps = {"Release", "Sync", "Unload"}
  Loras = {l1}
  LoraOf <- AllLora
  InputLen <- MCInputLen
  MaxLength <- MCMaxLength
  ModelMaxLength = 8
  MaxBatch = 2
  MaxPrefill = 2
  MinGenLength = 1
  SpanSize = 2
  TotalSpans = 4
  ContextPriority = FALSE
  EvictMaxLength = FALSE
  MaxFaults = 1
  StatusFaults = TRUE
INVARIANTS
  TokensDelivered
  OneTokenPerElement
  LoraStaysLoaded
CHECK_DEADLOCK FALSE
