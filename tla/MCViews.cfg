CONSTANTS
  c1 = c1
  t1 = t1
  t2 = t2
  o1 = o1
  Callers = {c1}
  Tasks = {t1, t2}
  Nobody = Nobody
  Watchers = {o1}
  Models = {"m1", "m2"}
  Texts = {"a", "b"}
  MaxQueue = 2
  MaxCalls = 2
  MaxRuns = 2
  MaxFaults = 1
  Clients = {"c1", "c2"}
  Streams = {1, 2, 3}
  Caller <- MCCaller
  Questions = {"q1", "q2"}
  MaxStreams = 1
  MaxReceipts = 1
  MaxRestarts = 1
SPECIFICATION MCSpec
INVARIANTS
  ViewsKept
  DeliveryKept
  NewestRetained
PROPERTIES
  TitlesKept
CHECK_DEADLOCK FALSE
