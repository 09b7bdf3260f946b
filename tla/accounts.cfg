SPECIFICATION Spec
CONSTANTS
  e1 = e1
  p1 = p1  p2 = p2
  w1 = w1  w2 = w2
  s1 = s1  s2 = s2  s3 = s3
  k1 = k1  k2 = k2
  t1 = t1
  Employees  <- OneEmployee
  Passwords  <- TwoPasswords
  Workspaces <- TwoWorkspaces
  Servers    <- ThreeServers
  Tabs       <- OneTab
  Calls      <- TwoCalls
  Backend    <- TwoShareOneAlone
  Configs    <- WithOrWithoutAdmin
  SignupWorkspace = w1
  TTL = 1
  PerSecond = 2
  Offset <- SecondAhead
  Skew = 1
  MaxTime = 5
  MaxCrashes = 1
INVARIANTS
  TypeOK
  OneOwner
  AccountsAreKept
  SessionsAreTrue
  LivesItsTime
PROPERTY ImplementsAccountBook
CHECK_DEADLOCK FALSE
