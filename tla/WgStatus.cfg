SPECIFICATION Spec
CONSTANTS
  Student = {ann, bob}
  Key = {k1, k2}
  Client = {k1}
  Ip = {i1, i2}
  Poll = {q1, q2}
  Freshness = 1
  Ttl = 1
  MaxPoll = 1
  Bounds <- ClockOrBoxes
  NoVal = NoVal
SYMMETRY Symmetry
INVARIANTS
  ConnectedIsRecent
  StatusOfOwnTunnel
  MachineIsOwn
CHECK_DEADLOCK FALSE
