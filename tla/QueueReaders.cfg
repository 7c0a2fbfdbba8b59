SPECIFICATION LiveSpec
CONSTANTS
  q1 = q1
  q2 = q2
  Readers = {q1, q2}
  ReaderOps = {"Get", "GetTimeout", "GetNoWait"}
  MaxTokens = 3
  Junk = {7}
INVARIANTS
  TypeOK
  ReadOnce
  EndMeansAll
  CountedReadersSafe
PROPERTIES
  GetReturns
CHECK_DEADLOCK FALSE
