\* A web page that may close in the middle of an edit, an Android app, an agent
\* with a late clock.
CONSTANTS
  Web = {1}
  Ios = {}
  Android = {2}
  Agents = {3}
  Skew <- MCAgentBehind
  InstallationId <- MCInstallationId
  BatchSize = 2
  MaxEdits = 3
  MaxFaults = 1
  MidEditCrash = TRUE
SPECIFICATION Spec
INVARIANT OwnEditsTravel
PROPERTIES AppliedOnce ImplementsRegister
