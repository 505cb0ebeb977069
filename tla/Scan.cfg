SPECIFICATION FairSpec
CONSTANTS
  Sub = {f1, f2}
  Staff = {d1}
  MaxRetries = 2
  MaxRefusals = 3
  FaultKinds = {"web", "worker", "hang", "file"}
  NoVal = NoVal
INVARIANTS
  StaffGetOnlyClean
PROPERTY
  ScanResolves
CHECK_DEADLOCK FALSE
