SPECIFICATION ProxySpec
CONSTANTS
  Conn = {c1, c2}
  Patient = {}
  Worker = {w1, w2}
  SslOn = FALSE
  AsyncAccept = TRUE
  MaxFaults = 1
  None = None
  Forwarders = {"file", "flexible"}
  Heads = {"bad", "length", "nolength", "fileurl"}
  MaxSize = 1
  Threshold = 0
  MaxClock = 1
  Memory = Memory
  Tmp = Tmp
  Url = Url
  Hole = Hole
SYMMETRY Symmetry
INVARIANTS OnlyServedForward AnsweredUnlessShared GenuineSuccess
PROPERTIES ServesAsServer RelaysAsForwarder
