\* The smallest instance: one of everything.
CONSTANTS
  Runs = {r1}
  Workers = {w1}
  Clients = {c1}
  NoRun = NoRun
  MaxDeliveries = 1
SPECIFICATION Spec
INVARIANT EndedRunsStayFinal
