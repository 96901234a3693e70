\* A web client alone.
CONSTANTS
  Web = {1}
  Ios = {}
  Android = {}
  Agents = {}
  Skew <- MCExact
  InstallationId <- MCInstallationId
  BatchSize = 1
  MaxEdits = 2
  MaxFaults = 0
  MidEditCrash = FALSE
SPECIFICATION Spec
INVARIANT AllShowQueuedEdits
