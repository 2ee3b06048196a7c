SPECIFICATION FairSpec
CONSTANTS
  MissLimit = 3
  MaxOwed = 3
PROPERTIES SilenceDetected
CHECK_DEADLOCK FALSE
