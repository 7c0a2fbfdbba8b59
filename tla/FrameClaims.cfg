SPECIFICATION Spec
CONSTANTS
  Threads = {t1, t2, t3}
  Frames = {f1, f2, f3}
  MaxClaim = 3
INVARIANTS
  TypeOK
  FrameInOnePlace
  CounterAccounts
PROPERTIES
  ImplementsPool
  ShortOnlyWhenScarce
