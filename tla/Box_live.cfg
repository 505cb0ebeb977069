SPECIFICATION FairSpec
CONSTANTS
  t1 = t1
  t2 = t2
  ann = ann
  bob = bob
  Student = {ann, bob}
  Task = {t1, t2}
  StudentOf <- Rivals
  Op = {}
  OpKinds = {}
  EarlyKinds = {}
  Sweep = {}
  Vmid = {0, 1}
  Ip = {150, 151}
  Attempts = 2
  Cap = 2
  StrayKinds = {"conf"}
  FaultKinds = {"call", "late", "destroy"}
  MaxFaults = 2
  NoVal = NoVal
INVARIANT
  
  NumbersDistinct
PROPERTIES
  ProvisionEnds
  ProvisionHeals
CHECK_DEADLOCK FALSE
