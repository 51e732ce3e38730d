SPECIFICATION AcceptancesSpec
CONSTANTS
  a1 = a1
  a2 = a2
  Agents <- TwoAgents
  Access <- Layered
  ControlPlane = {}
  Routes <- WithHuman
  Modes = {"pull"}
  RequestIDs = {"r1"}
  SendTypes = {"request"}
  ConversationChoices = {0, 1}
  ParticipantChoices <- OneParticipant
  RegistrationTTLs = {1}
  MessageTTLs = {1}
  DefaultMessageTTL = 2
  Sizes = {1}
  SweepMinInterval = 1
  IdempotencyWindow = 2
  AckTimeout = 1
  GracePeriod = 2
  ProgressMinInterval = 1
  MessageRetention = 1
  MessageMaxAge = 3
  ConversationRetention = 1
  AgentRetention = 0
  MaxInboxEvents = 1
  MaxInboxBytes = 0
  MaxLag = 1
  MaxTime = 4
  MaxMessages = 2
  MaxConversations = 2
INVARIANTS OncePerWindow InboxOnce TypeOK DeadlinesSwept ConversationKeepsMessages
PROPERTIES SweepReleases ImplementsLifecycle
