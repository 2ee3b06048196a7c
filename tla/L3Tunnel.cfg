SPECIFICATION FairSpec
CONSTANTS
  Nodes = {n1, n2}
  Callers = {x}
  MaxConn = 1
  MaxDial = 2
  QueueCap = 1
INVARIANTS TypeOK SingleFlight NoLeak
PROPERTIES CloseEnds StaleGoes
