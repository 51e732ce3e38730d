SPECIFICATION FairStreamsSpec
CONSTANTS
  a1 = a1
  h1 = h1
  o1 = o1
  Agents <- OneAgent
  Names <- TwoNames
  Pollers = {p1, p2}
  Observers = {o1}
  Filters <- AgentOnly
  Channels = {1, 2, 3}
  None = 0
  MaxObserveEvents = 0
  MaxObserveBytes = 2
  Sizes = {1, 2}
  MaxRows = 1
  MaxObserveID = 3
  MaxRestarts = 1
INVARIANTS StreamsTypeOK PollsAreWoken ObserversAreWoken ObservedInOrder OnlyEvictionSkips
PROPERTY ObserversCatchUp
