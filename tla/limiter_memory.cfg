SPECIFICATION Spec
CONSTANTS
  t1 = t1  t2 = t2  t3 = t3
  Threads <- ThreeThreads
  Limit = 2
  WindowSeconds = 2
  PerSecond = 2
  Delay = 1
  MaxTime = 9
INVARIANTS
  TypeOK
  BucketInv
PROPERTIES
  ImplementsWindow
  RetryAfterIsEnough
