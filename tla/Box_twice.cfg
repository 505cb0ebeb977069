SPECIFICATION Spec
CONSTANTS
  t1 = t1
  t2 = t2
  ann = ann
  bob = bob
  Student = {ann, bob}
  Task = {t1, t2}
  StudentOf <- Rivals
  Op = {o1, o2}
  OpKinds = {"deprovision"}
  EarlyKinds = {}
  Sweep = {}
  Vmid = {0, 1}
  Ip = {150, 151}
  Attempts = 2
  Cap = 2
  StrayKinds = {}
  FaultKinds = {}
  MaxFaults = 0
  NoVal = NoVal
PROPERTY
  DeprovisionSparesOthers
CHECK_DEADLOCK FALSE
