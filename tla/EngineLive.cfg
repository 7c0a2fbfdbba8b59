SPECIFICATION LiveSpec
CONSTANTS
  None = None
  r1 = r1
  r2 = r2
  r3 = r3
  c1 = c1
  c2 = c2
  s1 = s1
  s2 = s2
  l1 = l1
  Requests <- TwoRequests
  Clients = {c1}
  Stoppers = {s1}
  UsersOf <- OneClient
  ClientOps = {"Release", "Sync", "SyncAll"}
  Loras = {}
  LoraOf <- NoLora
  InputLen <- MCInputLen
  MaxLength <- ShortLength
  ModelMaxLength = 8
  MaxBatch = 2
  MaxPrefill = 2
  MinGenLength = 1
  SpanSize = 2
  TotalSpans = 4
  ContextPriority = TRUE
  EvictMaxLength = TRUE
  MaxFaults = 1
  StatusFaults = TRUE
PROPERTIES
  ApiCallReturns
  RequestEnds
  StopModelReturns
CHECK_DEADLOCK FALSE
