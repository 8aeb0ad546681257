SPECIFICATION FairSpec
CONSTANTS
  Conn = {p1, c1, c2}
  Patient = {p1}
  Targets = {"file", "nameless"}
  None = None
INVARIANTS InTurn AnsweredIfHeard
PROPERTIES ServiceSpec AllReleased
