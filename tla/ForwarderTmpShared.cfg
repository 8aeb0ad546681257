SPECIFICATION Spec
CONSTANTS
  Req = {r1, r2}
  Forwarders = {"file"}
  Heads = {"length"}
  MaxSize = 2
  Threshold = 1
  MaxClock = 0
  Memory = Memory
  Tmp = Tmp
  Url = Url
  Hole = Hole
INVARIANTS Relayed
