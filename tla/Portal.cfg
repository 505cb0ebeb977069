SPECIFICATION Spec
CONSTANTS
  Client = {c1, c2}
  c1 = c1
  c2 = c2
  User = {ann, bob, sue}
  ann = ann
  bob = bob
  sue = sue
  Batch = {b1, b2}
  b1 = b1
  b2 = b2
  Limit = 2
  Device = {1, 2, 3}
  Scenarios <- SmallScenarios
  Owned <- TwoBatches
  Enrolled <- SueInFirst
  NoVal = NoVal
INVARIANTS
  SessionsBacked
  GuessesBounded
  RecordsInScope
  AuditMatches
  DownloadsCounted
CHECK_DEADLOCK FALSE
