SPECIFICATION FairBusSpec
CONSTANTS
  a1 = a1
  Agents <- OneAgent
  Access <- SelfAccess
  ControlPlane = {}
  Routes <- SelfAndHuman
  Modes = {"pull"}
  RequestIDs = {"r1"}
  SendTypes = {"request"}
  ConversationChoices = {1}
  ParticipantChoices = {}
  RegistrationTTLs = {1}
  MessageTTLs = {1, 2}
  DefaultMessageTTL = 3
  Sizes = {1, 2}
  SweepMinInterval = 1
  IdempotencyWindow = 5
  AckTimeout = 1
  GracePeriod = 2
  ProgressMinInterval = 1
  MessageRetention = 0
  MessageMaxAge = 0
  ConversationRetention = 0
  AgentRetention = 0
  MaxInboxEvents = 2
  MaxInboxBytes = 2
  MaxLag = 0
  MaxTime = 5
  MaxMessages = 2
  MaxConversations = 2
  Limits = {0, 1}
INVARIANT BusTypeOK
PROPERTIES ReclaimedWereReceived EveryRequestEnds
