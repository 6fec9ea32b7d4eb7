SPECIFICATION Spec
CONSTANTS
  p1 = p1
  p2 = p2
  Procs = {p1, p2}
  Listed = {0, 2}
  Attaching = FALSE
  Changing = {"dns", "asn"}
  MaxEditions = 1
  MaxRequests = 2
  Nil = Nil
INVARIANT AllowlistFollowsResolver
