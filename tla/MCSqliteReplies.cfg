SPECIFICATION SqliteSpec
CONSTANTS
  a1 = a1
  Agents <- OneAgent
  Access <- SelfAccess
  ControlPlane = {}
  Routes <- SelfOnly
  Modes = {"pull"}
  RequestIDs = {"r1"}
  SendTypes = {"request"}
  ConversationChoices = {1}
  ParticipantChoices <- OneParticipant
  RegistrationTTLs = {2}
  MessageTTLs = {2}
  DefaultMessageTTL = 1
  Sizes = {1}
  SweepMinInterval = 3
  IdempotencyWindow = 2
  AckTimeout = 1
  GracePeriod = 1
  ProgressMinInterval = 1
  MessageRetention = 1
  MessageMaxAge = 0
  ConversationRetention = 1
  AgentRetention = 2
  MaxInboxEvents = 2
  MaxInboxBytes = 0
  MaxLag = 0
  MaxTime = 3
  MaxMessages = 1
  MaxConversations = 1
  Limits = {0}
  MaxBatchBytes = 2
  PushQueueSize = 1
  PushWorkers = 1
  PushBackoffs = {1}
  MaxInFlight = 1
  MaxCrashes = 1
INVARIANTS TakenUpNotRedelivered RetriesFindOriginal MessageHasConversation
CONSTRAINT CreationsAndPollsApart
