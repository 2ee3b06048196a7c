CONSTANTS
  MissLimit = 3
  MaxOwed = 3
  MaxFrame = 2
  MaxBuffer = 3
  MaxFrames = 2
  Writers = {v, w}
  MaxAttempts = 2
  MaxSteps = 4
  MaxFactors = 2
  Factors = {"sms", "customSms", "totp", "radius", "challenge", "accessCheck", "enhanced", "bindAuthDevice", "cert"}
  MaxSID = 3
  MaxStarts = 2
  Embedded = {TRUE, FALSE}
  QueueSize = 1
  MaxChunks = 2
  MaxCaptured = 3
SPECIFICATION ATrustSpec
INVARIANTS ATrustTypeOK TwoMisses DialOutcome StreamIntact FactorsAnswered SIDInStep CaptureIntact
PROPERTIES NoSaveAfterClose CallsEnd
CHECK_DEADLOCK FALSE
