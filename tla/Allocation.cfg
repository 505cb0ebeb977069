SPECIFICATION FairSpec
CONSTANTS
  Req = {r1, r2}
  MinVmid = 0
  MaxVmid = 1
  Ip = {150, 151}
  Sweep = {s1}
  NoVal = NoVal
INVARIANTS
  TypeOK
  AddressesExclusive
  LeaseBookkeeping
PROPERTIES
  SweepFreesOnlyOrphans
  PoolSpec
  CallsEnd
  LostLeasesReturn
