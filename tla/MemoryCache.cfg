SPECIFICATION FairSpec
CONSTANTS
  k1 = k1
  k2 = k2
  k3 = k3
  p1 = p1
  p2 = p2
  Procs = {p1, p2}
  Keys = {k1, k2, k3}
  Sizes = {1, 2, 4}
  TTLs = {0}
  MaxSize = 3
  MaxEntries = 2
  MaxWrites = 3
  MaxTime = 1
  NoProc = NoProc
  NoEntry = NoEntry
INVARIANTS TypeOK ListCoherent  NeverOverReports SizeGate
PROPERTIES ExpiryDropsOnlyOverwritten SetReleasesLock
