\* One client, a push and an agent: what must eventually happen.
CONSTANTS
  Entities = {1, 2, 3}
  KindOf <- MCKindOf
  SettingsRoot = 1
  Clients = {web}
  MediaAware = {web}
  PushWriters = {push}
  AgentWriters = {agent}
  Nobody = nobody
  PageLimit = 1
  MaxChangeId = 3
  MaxFaults = 2
  EvictMidBootstrap = FALSE
SPECIFICATION FairSpec
PROPERTY Converges
