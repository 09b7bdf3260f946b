SPECIFICATION Spec
CONSTANTS
  s1 = s1  s2 = s2
  c1 = c1  c2 = c2
  Servers <- TwoServers
  Calls <- TwoCalls
  Offset <- TickApart
  Skew = 1
  Limit = 2
  WindowSeconds = 2
  PerSecond = 2
  Delay = 1
  Outages = TRUE
  MaxTime = 7
INVARIANTS
  TypeOK
  SetInv
PROPERTIES
  ImplementsWindow
  RetryAfterIsEnough
