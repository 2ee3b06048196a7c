SPECIFICATION Spec
CONSTANTS
  k1 = k1
  k2 = k2
  Keys <- OneFlow
  NoKey = NoKey
  Twins <- NoTwins
  Packets = {1, 2}
  MaxSeq = 2
  MaxConn = 2
  MaxID = 2
  MaxTime = 2
  MaxEntries = 1
  PendingLimit = 2
  BatchSize = 1
  MaxAttempts = 1
  AuthTimeout = 2
  RetryWait = 0
  DefaultTTL = 1
  TTLs = {1}
INVARIANTS ConnTypeOK FlowOrder NoSilentDrop AnswerObeyed
