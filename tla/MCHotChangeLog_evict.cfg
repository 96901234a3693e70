\* The local database may be evicted between two bootstrap pages.
CONSTANTS
  Entities = {1, 2, 3}
  KindOf <- MCKindOf
  SettingsRoot = 1
  Clients = {web}
  MediaAware = {web}
  PushWriters = {}
  AgentWriters = {agent}
  Nobody = nobody
  PageLimit = 1
  MaxChangeId = 2
  MaxFaults = 1
  EvictMidBootstrap = TRUE
SPECIFICATION Spec
INVARIANT CursorCoversState
