SPECIFICATION FairSpec
CONSTANTS
  IPs = {p}
  Preferred = {}
  History = {NoIP}
  Others = {}
  MaxAsks = 2
  NoIP = NoIP
INVARIANTS SharedRight
PROPERTIES CallsEnd
CHECK_DEADLOCK FALSE
