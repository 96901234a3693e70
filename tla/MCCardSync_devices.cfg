\* A web client, an iOS client and an agent, the web client's clock a little late.
CONSTANTS
  Web = {2}
  Ios = {1}
  Android = {}
  Agents = {3}
  Skew <- MCWebLate
  InstallationId <- MCInstallationId
  BatchSize = 1
  MaxEdits = 3
  MaxFaults = 1
  MidEditCrash = FALSE
SPECIFICATION Spec
INVARIANTS TypeOK LastWriterKept OwnEditsTravel IosShowsLastEdit CaughtUpShowsRow IInv
