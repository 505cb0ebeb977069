SPECIFICATION FairSpec
CONSTANTS
  Sub = {f1, f2}
  Staff = {}
  MaxRetries = 2
  MaxRefusals = 3
  FaultKinds = {}
  NoVal = NoVal
PROPERTY
  FallsBackToError
CHECK_DEADLOCK FALSE
