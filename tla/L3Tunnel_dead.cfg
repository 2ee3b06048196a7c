SPECIFICATION FairSpec
CONSTANTS
  Nodes = {n1}
  Callers = {x}
  MaxConn = 1
  MaxDial = 1
  QueueCap = 1
PROPERTIES DeadGoes
