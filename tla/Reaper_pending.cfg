SPECIFICATION FairSpec
CONSTANTS
  t1 = t1
  t2 = t2
  ann = ann
  bob = bob
  Student = {ann, bob}
  Task = {t1}
  StudentOf <- Solo
  Op = {}
  OpKinds = {}
  EarlyKinds = {}
  Sweep = {s1}
  Vmid = {0, 1}
  Ip = {150, 151}
  Attempts = 1
  Cap = 2
  StrayKinds = {}
  FaultKinds = {"crash"}
  MaxFaults = 1
  NoVal = NoVal
PROPERTY
  PendingIsResolved
