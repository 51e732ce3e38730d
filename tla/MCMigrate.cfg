SPECIFICATION MigrateSpec
CONSTANTS
  a1 = a1
  Agents <- OneAgent
  Access <- SelfAccess
  ControlPlane = {}
  Routes <- SelfAndHuman
  Modes = {"pull"}
  RequestIDs = {"r1"}
  SendTypes = {"request"}
  ConversationChoices = {1}
  ParticipantChoices <- OneParticipant
  RegistrationTTLs = {3}
  MessageTTLs = {2}
  DefaultMessageTTL = 1
  Sizes = {1}
  SweepMinInterval = 1
  IdempotencyWindow = 1
  AckTimeout = 1
  GracePeriod = 1
  ProgressMinInterval = 1
  MessageRetention = 1
  MessageMaxAge = 0
  ConversationRetention = 0
  AgentRetention = 0
  MaxInboxEvents = 1
  MaxInboxBytes = 0
  MaxLag = 0
  MaxTime = 2
  MaxMessages = 1
  MaxConversations = 1
  Limits = {0}
  MaxInFlight = 1
  MaxCrashes = 1
  MaxBatchBytes = 2
  PushQueueSize = 1
  PushWorkers = 1
  PushBackoffs = {1}
INVARIANTS JsonTypeOK AnsweredSendsAreKept AnsweredAcksAreKept MigrationKeepsPending MigrationRedeliversNothing
PROPERTY CursorsOutliveFile
