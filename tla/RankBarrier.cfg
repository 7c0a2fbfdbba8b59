SPECIFICATION FairSpec
CONSTANTS
  nranks = 2
  MaxInserts = 2
  MaxOps = 1
PROPERTY AllProceed
CHECK_DEADLOCK FALSE
