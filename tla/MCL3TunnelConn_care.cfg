SPECIFICATION Spec
CONSTANTS
  k1 = k1
  k2 = k2
  Keys <- Flows
  NoKey = NoKey
  Twins <- TwoTwins
  Packets = {1}
  MaxSeq = 1
  MaxConn = 1
  MaxID = 2
  MaxTime = 3
  MaxEntries = 2
  PendingLimit = 1
  BatchSize = 2
  MaxAttempts = 2
  AuthTimeout = 1
  RetryWait = 1
  DefaultTTL = 3
  TTLs = {3}
SYMMETRY Symm
INVARIANTS CaredFor TimeoutBudget
PROPERTIES AnswersOnce
