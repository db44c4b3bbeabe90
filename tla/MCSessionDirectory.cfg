CONSTANTS
  s1 = s1
  c1 = c1
  c2 = c2
  Maintenance = Maintenance
  Nobody = Nobody
  Sessions = {s1}
  Clients = {c1, c2}
  Requests = {"q1"}
  MaxViewers = 1
  MaxTime = 1
  MaxCalls = 2
  MaxPasses = 1
  MaxFaults = 1
SPECIFICATION FairSpec
INVARIANTS
  ListingKept
  OneDecides
PROPERTIES
  RetentionKept
  Answered
