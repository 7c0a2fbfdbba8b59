SPECIFICATION Spec
CONSTANTS
  None = None
  r1 = r1
  r2 = r2
  r3 = r3
  c1 = c1
  c2 = c2
  s1 = s1
  s2 = s2
  l1 = l1
  Requests <- TwoRequests
  Clients = {c1, c2}
  Stoppers = {s1}
  UsersOf <- OwnClient
  ClientOps = {"Stop", "Release", "Sync", "SyncAll", "Load", "Unload"}
  Loras = {l1}
  LoraOf <- AllLora
  InputLen <- MCInputLen
  MaxLength <- MCMaxLength
  ModelMaxLength = 8
  MaxBatch = 2
  MaxPrefill = 2
  MinGenLength = 1
  SpanSize = 2
  TotalSpans = 5
  ContextPriority = TRUE
  EvictMaxLength = TRUE
  MaxFaults = 1
  StatusFaults = TRUE
INVARIANTS
  TypeOK
  FramesNeverOverdrawn
  FrameConservation
  VictimExists
  UnfinishedExact
  OnePlace
  StoppedMeansIdle
  ReleasedIsGone
  EngineInv
PROPERTIES
  TerminalIsFinal
  SyncReplyMeansDone
CHECK_DEADLOCK FALSE
