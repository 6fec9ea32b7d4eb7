SPECIFICATION FairSpec
CONSTANTS
  p1 = p1
  p2 = p2
  ip1 = ip1
  ip2 = ip2
  net1 = net1
  Procs = {p1, p2}
  IPs = {ip1, ip2}
  Subnets = {net1}
  SubnetOf <- OneSubnet
  MaxIPs = 1
  MaxSubnets = 1
  MaxAge = 0
  MaxRequests = 4
  MaxTime = 2
  NoBucket = NoBucket
  Denied = Denied
INVARIANTS TypeOK SizeTracksEntries OvershootBounded OneBucketPerName
PROPERTIES SweepDropsWhatItSaw CapacityRecovers
