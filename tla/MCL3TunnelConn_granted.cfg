SPECIFICATION Spec
CONSTANTS
  k1 = k1
  k2 = k2
  Keys <- OneFlow
  NoKey = NoKey
  Twins <- NoTwins
  Packets = {1}
  MaxSeq = 1
  MaxConn = 1
  MaxID = 1
  MaxTime = 4
  MaxEntries = 2
  PendingLimit = 1
  BatchSize = 2
  MaxAttempts = 3
  AuthTimeout = 1
  RetryWait = 2
  DefaultTTL = 3
  TTLs = {3}
PROPERTIES GrantedSurvivesExpire
