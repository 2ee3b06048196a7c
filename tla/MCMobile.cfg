CONSTANTS
  MaxCalls = 4
  MaxAtOnce = 3
  MaxSessions = 2
  MaxStacks = 1
  Lines = {"one", "two"}
  Home = "one"
  Latencies = {0, 1}
  MaxSetups = 2
  MaxTwfIDs = 2
  MaxRaw = 4
  MaxErrors = 5
  Senders = {v, w}
  IPs = {p, q}
  Preferred = {p}
  History = {NoIP, p}
  Others = {"system"}
  MaxAsks = 1
  NoIP = NoIP
  Hosts = {"a", "b", "c", "d"}
  PinnedHosts = {"d"}
  PinnedIPs = {1, 3}
  MinIP = 0
  MaxIP = 3
  Nil = Nil
SPECIFICATION MobileSpec
INVARIANTS MobileTypeOK NoOrphan DataPlaneSafe FakeNames ECInStep HostTold
PROPERTIES StoppedEnds
CHECK_DEADLOCK FALSE
