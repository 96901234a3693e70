\* One run, one worker, one API request at a time.
CONSTANTS
  Runs = {r1}
  Workers = {w1}
  Clients = {c1}
  NoRun = NoRun
  MaxDeliveries = 2
SPECIFICATION FairSpec
PROPERTY EveryRunEnds
