SPECIFICATION FairCredentialsSpec
CONSTANTS
  a1 = a1
  a2 = a2
  s1 = s1
  s2 = s2
  Agents <- TwoAgents
  Secrets = {s1, s2}
  NoSecret = none
  RequiredSecret <- OneRequired
  Requests <- Rotations
  Allowlists <- AgentOneOrAll
  MaxRegistrations = 3
  MaxCrashes = 1
  MaxEdits = 2
INVARIANTS AnsweredIsInForce OwnedKeepSecret
PROPERTIES RotationIsProved AllowlistFollows
