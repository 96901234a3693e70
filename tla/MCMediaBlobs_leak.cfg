\* The last attempt of a job fails before it makes its own reservation.
CONSTANTS
  Jobs = {j1}
  Workers = {w1}
  Cleaners = {c1}
  Nobody = Nobody
  MaxAttempts = 2
  MaxFaults = 0
SPECIFICATION Spec
INVARIANT SettledJobsReleaseTheirWriter
CHECK_DEADLOCK FALSE
