SPECIFICATION FairSqliteSpec
CONSTANTS
  a1 = a1
  Agents <- OneAgent
  Access <- SelfAccess
  ControlPlane = {}
  Routes <- HumanOnly
  Modes = {"push"}
  RequestIDs = {"r1"}
  SendTypes = {"request"}
  ConversationChoices = {1}
  ParticipantChoices = {}
  RegistrationTTLs = {1}
  MessageTTLs = {1}
  DefaultMessageTTL = 1
  Sizes = {1}
  SweepMinInterval = 1
  IdempotencyWindow = 2
  AckTimeout = 1
  GracePeriod = 1
  ProgressMinInterval = 1
  MessageRetention = 0
  MessageMaxAge = 0
  ConversationRetention = 0
  AgentRetention = 2
  MaxInboxEvents = 2
  MaxInboxBytes = 0
  MaxLag = 0
  MaxTime = 3
  MaxMessages = 1
  MaxConversations = 2
  Limits = {0}
  MaxBatchBytes = 2
  PushQueueSize = 1
  PushWorkers = 1
  PushBackoffs = {1}
  MaxInFlight = 2
  MaxCrashes = 1
PROPERTIES EveryDeliverySettles ShutdownEnds
