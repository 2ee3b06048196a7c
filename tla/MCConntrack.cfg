SPECIFICATION MgrSpec
CONSTANTS
  k1 = k1
  k2 = k2
  k3 = k3
  Keys <- ThreeFlows
  NoKey = NoKey
  Packets = {p}
  MaxID = 3
  MaxTime = 2
  MaxEntries = 2
  PendingLimit = 1
  BatchSize = 1
  MaxAttempts = 1
  AuthTimeout = 0
  RetryWait = 0
  DefaultTTL = 1
  TTLs = {0}
SYMMETRY Symm
CONSTRAINT Bounded
INVARIANTS TypeOK IndexesAgree LRUListOK AnswerConsistent
PROPERTIES AnswerIsFinal
