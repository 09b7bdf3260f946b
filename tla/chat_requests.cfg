SPECIFICATION FairSpec
CONSTANTS
  r1 = r1  r2 = r2
  s1 = s1  s2 = s2
  A = A  B = B
  manual = manual  payroll = payroll  other = other
  c1 = c1  c2 = c2  c3 = c3  c4 = c4
  Requests <- TwoRequests
  Servers <- TwoServers
  Questions <- Shapes
  Workspaces = {A, B}
  Documents <- Corpus
  Collections <- FullOrNot
  Chunks <- Points
  About <- AboutCorpus
  DocumentOf <- CutFrom
  Dense <- Similarity
  Lexical <- Words
  Settings <- BothSettings
  Scale = 10
  DenseWeight = 7
  LexicalWeight = 3
  CandidateLimit = 2
  RetrievalLimit = 1
  TopK = 2
  MinRelevance = 20
  MaxRetries = 1
  Markers = {0, 1, 2}
  MaxChanges = 1
  Faults = {"call_error", "llm_transient", "llm_permanent", "audit_error",
            "audit_lost_reply", "crash", "gateway_timeout"}
INVARIANTS
  TypeOK
  OnlyAllowedContext
  NothingMissed
  AnswersAreRecorded
PROPERTY EveryRequestEnds
CHECK_DEADLOCK FALSE
