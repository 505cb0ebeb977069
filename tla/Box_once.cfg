SPECIFICATION Spec
CONSTANTS
  t1 = t1
  t2 = t2
  ann = ann
  bob = bob
  Student = {ann, bob}
  Task = {t1, t2}
  StudentOf <- Retry
  Op = {o1, o2}
  OpKinds = {"start", "deprovision"}
  EarlyKinds = {"start", "deprovision"}
  Sweep = {}
  Vmid = {0, 1}
  Ip = {150, 151}
  Attempts = 2
  Cap = 2
  StrayKinds = {}
  FaultKinds = {"call", "late", "destroy", "misread", "crash", "database"}
  MaxFaults = 1
  NoVal = NoVal
SYMMETRY RetrySymmetry
INVARIANTS
  TypeOK
  OneBoxPerStudent
  RowsDistinct
  
PROPERTIES
  NumbersStable
  BoxesUsePool
CHECK_DEADLOCK FALSE
