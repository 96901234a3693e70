\* A web client with a late clock and an iOS client.
CONSTANTS
  Web = {1}
  Ios = {2}
  Android = {}
  Agents = {}
  Skew <- MCWebBehind
  InstallationId <- MCInstallationId
  BatchSize = 1
  MaxEdits = 2
  MaxFaults = 0
  MidEditCrash = FALSE
SPECIFICATION Spec
INVARIANT AllDivergenceIsOwed
