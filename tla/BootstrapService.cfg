SPECIFICATION FairSpec
CONSTANTS
  p1 = p1
  p2 = p2
  Procs = {p1, p2}
  Listed = {0, 2}
  Attaching = TRUE
  Changing = {"dns", "asn"}
  MaxEditions = 2
  MaxRequests = 2
  Nil = Nil
INVARIANTS TypeOK WholeLoad LookupFollowsRefresh AllowlistFollowsRefresh
PROPERTIES StopIsFinal StopEnds
