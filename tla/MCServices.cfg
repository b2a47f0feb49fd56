SPECIFICATION Spec
CONSTANTS
  MaxAttempts = 1
  Calls = {c1, c2}
  RepairLog = 12
  MaxAsk = 2
  CreatedAgents = {a}
  Resumed = {b}
  Plains = {s}
  Listeners = 2
  SessionLog = 2
  Questions = {a1, a2}
  Installs = {a1, a2}
  AutoApprove = TRUE
  MaxSwitches = 2
  RetryAgents = {a}
  Normal = {n, m}
  Always = {w}
  MaxRetries = 2
  MaxFailures = 3
  MaxSteps = 2
  MaxLoads = 2
  MaxRounds = 1
  MaxOps = 3
  MaxPrompts = 2
  MaxUpsets = 1
  MaxRecords = 2
  Delays = {2}
  Period = 1
  MaxDelay = 1
  MaxTime = 2
  MaxTurns = 1
  MaxCalls = 2
INVARIANTS
  BeforeDispatchHonest
  RepairedLegal
  AnsweredOnce
  RepairConverges
  EventsInOrder
  PairedEdges
  RegistriesSound
  DecisionsHonest
  ChainExact
  RoundsFresh
PROPERTIES
  CancelledNeverSucceeds
  WithdrawnWritesNothing
  CancelHolds
  RemindedOnce
\* each component may come to rest
CHECK_DEADLOCK FALSE
