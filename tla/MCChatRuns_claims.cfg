\* Two runs whose workers crash, wait and are told to stop, and one API request.
CONSTANTS
  Runs = {r1, r2}
  Workers = {w1, w2}
  Clients = {c1}
  NoRun = NoRun
  MaxDeliveries = 2
SPECIFICATION Spec
SYMMETRY MCSymmetry
INVARIANTS TypeOK IInv SessionTracksOpenRun LockInv OneOwner LiveTurnsDoNotDeadlock
PROPERTIES OnlyLastClaimantAnswers LockedRowsStay ImplementsTurns
