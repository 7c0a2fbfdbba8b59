SPECIFICATION FairSpec
CONSTANTS
  nranks = 3
  MaxInserts = 1
  MaxOps = 3
INVARIANTS
  TypeOK
  WorkerZeroQuiet
PROPERTIES
  ImplementsRendezvous
  EngineReturns
  PoolEnds
CHECK_DEADLOCK FALSE
