SPECIFICATION Spec
CONSTANTS
  t1 = t1
  t2 = t2
  ann = ann
  bob = bob
  Student = {ann, bob}
  Task = {t1, t2}
  StudentOf <- Rivals
  Op = {o1, o2}
  OpKinds = {"start", "stop", "deprovision"}
  EarlyKinds = {"stop"}
  Sweep = {}
  Vmid = {0, 1}
  Ip = {150, 151}
  Attempts = 1
  Cap = 2
  StrayKinds = {}
  FaultKinds = {"call", "late", "destroy", "misread", "crash", "database"}
  MaxFaults = 1
  NoVal = NoVal
SYMMETRY OpSymmetry
INVARIANTS
  BoxesAreWhole
  DestroyedMeansGone
CHECK_DEADLOCK FALSE
