SPECIFICATION SqliteSpec
CONSTANTS
  a1 = a1
  Agents <- OneAgent
  Access <- SelfAccess
  ControlPlane = {}
  Routes <- SelfOnly
  Modes = {"pull"}
  RequestIDs = {"r1"}
  SendTypes = {"request"}
  ConversationChoices = {1}
  ParticipantChoices <- OneParticipant
  RegistrationTTLs = {1}
  MessageTTLs = {2}
  DefaultMessageTTL = 1
  Sizes = {1}
  SweepMinInterval = 1
  IdempotencyWindow = 2
  AckTimeout = 1
  GracePeriod = 1
  ProgressMinInterval = 1
  MessageRetention = 0
  MessageMaxAge = 0
  ConversationRetention = 0
  AgentRetention = 2
  MaxInboxEvents = 2
  MaxInboxBytes = 0
  MaxLag = 0
  MaxTime = 4
  MaxMessages = 1
  MaxConversations = 2
  Limits = {0}
  MaxBatchBytes = 2
  PushQueueSize = 1
  PushWorkers = 1
  PushBackoffs = {1}
  MaxInFlight = 1
  MaxCrashes = 1
INVARIANT CountersCoverMessages
