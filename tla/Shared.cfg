SPECIFICATION Spec
CONSTANTS
  Lab = {l1, l2}
  Call = {c1, c2}
  Op = {o1}
  Probe = {p1}
  Vmid = {0, 1}
  Ip = {150, 151}
  Cap = 2
  MaxBoxes = 1
  FaultKinds = {"call", "late", "cleanup", "misread", "database", "crash", "unreachable"}
  MaxFaults = 1
  NoVal = NoVal
SYMMETRY Symmetry
INVARIANTS
  ReservationsDistinct
  CapHonoured
  SharedBoxesAreWhole
  
  EndedMeansClosed
PROPERTIES
  TeardownSparesOthers
CHECK_DEADLOCK FALSE
