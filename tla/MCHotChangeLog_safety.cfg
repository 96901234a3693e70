\* A client with media assets and one without, a push and an agent.
CONSTANTS
  Entities = {1, 2, 3}
  KindOf <- MCKindOf
  SettingsRoot = 1
  Clients = {web, legacy}
  MediaAware = {web}
  PushWriters = {push}
  AgentWriters = {agent}
  Nobody = nobody
  PageLimit = 1
  MaxChangeId = 3
  MaxFaults = 1
  EvictMidBootstrap = FALSE
SPECIFICATION Spec
INVARIANTS TypeOK CursorCoversState IInv
PROPERTIES AppendsInOrder ImplementsFeed
