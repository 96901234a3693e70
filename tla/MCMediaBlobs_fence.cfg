\* One blob, one job: two workers of which one may be slow or killed, a cleaner
\* that may be killed and start again, and catalog covers.
CONSTANTS
  Jobs = {j1}
  Workers = {w1, w2}
  Cleaners = {c1}
  Nobody = Nobody
  MaxAttempts = 2
  MaxFaults = 1
SPECIFICATION Spec
SYMMETRY MCSymmetry
INVARIANTS TypeOK IInv FencedBlobIsUnused CardsShowTheJob StoredBlobIsAccountedFor
PROPERTIES SettledJobsStayAsTheyAre ImplementsFencedBlob
\* Everything may be settled and nobody has to begin anything.
CHECK_DEADLOCK FALSE
