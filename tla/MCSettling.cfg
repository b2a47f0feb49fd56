SPECIFICATION Spec
CONSTANTS
  Messages = {m1, m2}
  LoopSteps = 2
  Clients = {p1, p2}
  Lives = 1
  StoredLog = 1
  MaxCalls = 2
  MaxFaults = 1
  CreatedAgents = {a}
  Resumed = {b}
  Plains = {}
  Listeners = 1
  SessionLog = 1
  RetryAgents = {a}
  Normal = {n}
  Always = {w}
  MaxRetries = 1
  MaxFailures = 2
  MaxSteps = 2
  MaxLoads = 2
  MaxRounds = 1
  MaxOps = 2
  MaxPrompts = 1
  MaxUpsets = 1
  MaxRecords = 1
  Delays = {2}
  Period = 1
  MaxDelay = 1
  MaxTime = 2
  MaxTurns = 1
  ToolCalls = 1
PROPERTIES
  CancelConverges
  LatchReplayed
  CallsReturn
  CloseCompletes
  DisposalDrains
  
  DueReminded
\* each component may come to rest
CHECK_DEADLOCK FALSE
