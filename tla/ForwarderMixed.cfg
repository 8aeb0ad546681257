SPECIFICATION Spec
CONSTANTS
  Req = {r1, r2}
  Forwarders = {"generic", "file", "flexible"}
  Heads = {"none", "bad", "length", "nolength", "fileurl"}
  MaxSize = 2
  Threshold = 1
  MaxClock = 1
  Memory = Memory
  Tmp = Tmp
  Url = Url
  Hole = Hole
SYMMETRY Symmetry
INVARIANTS TypeOK IntactUnlessShared CutOnlyIfShared  NoFalseSuccess
