SPECIFICATION ProxyFairSpec
CONSTANTS
  Conn = {p1, c1}
  Patient = {p1}
  Worker = {w1}
  SslOn = FALSE
  AsyncAccept = FALSE
  MaxFaults = 1
  None = None
  Forwarders = {"file", "flexible"}
  Heads = {"length", "fileurl"}
  MaxSize = 1
  Threshold = 0
  MaxClock = 0
  Memory = Memory
  Tmp = Tmp
  Url = Url
  Hole = Hole
INVARIANTS UpstreamBound LoneThreadIntact
PROPERTIES PatientServed FairAsServer
