SPECIFICATION FairSpec
CONSTANTS
  Conn = {p1, c1, c2}
  Patient = {p1}
  Worker = {w1}
  SslOn = TRUE
  AsyncAccept = TRUE
  MaxFaults = 1
  None = None
INVARIANTS TypeOK SingleChain OneOwner ReplyAccounting OnlyGenuineServed
PROPERTIES ServiceSpec AllReleased PatientServed
