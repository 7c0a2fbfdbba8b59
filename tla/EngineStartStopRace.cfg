SPECIFICATION Spec
CONSTANTS
  None = None
  r1 = r1
  r2 = r2
  r3 = r3
  c1 = c1
  c2 = c2
  s1 = s1
  s2 = s2
  l1 = l1
  Requests <- TwoRequests
  Clients = {c1}
  Stoppers = {s1}
  UsersOf <- OneClient
  ClientOps = {}
  Loras = {}
  LoraOf <- NoLora
  InputLen <- MCInputLen
  MaxLength <- MCMaxLength
  ModelMaxLength = 8
  MaxBatch = 2
  MaxPrefill = 2
  MinGenLength = 1
  SpanSize = 2
  TotalSpans = 5
  ContextPriority = TRUE
  EvictMaxLength = TRUE
  MaxFaults = 0
  StatusFaults = FALSE
INVARIANTS
  AcceptedIsServed
CHECK_DEADLOCK FALSE
