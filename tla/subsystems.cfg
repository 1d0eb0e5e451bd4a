SPECIFICATION FairSpec
CONSTANTS
  Callers = {"a", "b"}
  MaxTime = 3
  Chain <- TwoProviders
  Standard <- TwoCooldowns
  Billing <- TwoCooldowns
  FailureWindow = 2
  Errors <- ErrorsOfAllKinds
  Models <- ThreeModels
  Threshold = 2
  Window = 1
  TTL = 1
  MaxRetries = 1
  Ids = {1}
  MaxChunks = 3
  MaxPending = 1
  MaxSessions = 1
  Pollers = {"exec", "tool"}
  PolicyTimeout = TRUE
  ToolCalls <- FiveToolCalls
  Safe = {"read", "write"}
  ReadOnlyTools = {"read"}
  Serial = {}
  Forced = {}
  Modes = {"all", "read_only_only", "off"}
  MaxConcurrency = 2
  Frozen = {"exec"}
  Restricted = {"write"}
  Denied = {}
  FailClosed = TRUE
  Confirmed = {"exec"}
  Servers = {1}
  MaxReloads = 2
  Refs = {1, 2}
  Paths = {"p", "q"}
  Scopes = {"s", "t"}
  MaxAge = 1
  MaxLines = 2
  MaxBackups = 2
  MaxEvents = 7
  Requests = {"a", "b"}
  DefaultPlans = {TRUE, FALSE}
  GroupPlans = {TRUE, FALSE}
  PeerKinds = {"direct", "group"}
  MaxFailures = 2
INVARIANTS
  TypeOK ModesEarned OutputOnce Retention OneAtATime OneManagerOpen KeptAreReturned
  AnswersStay FilesFollowRefs AnswersCurrent AuditTail RoutedRight RequestsKeep
PROPERTIES
  BackoffStands LimitsKept WorkEnds
CHECK_DEADLOCK FALSE
