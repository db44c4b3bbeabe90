CONSTANTS
  Users = {"u1"}
  Calls = {1, 2}
  MaxConcurrency = 1
  MaxOwners = 2
  Streams = {1, 2}
  Nexts <- MCNexts
  MaxStreams = 1
  MaxInstances = 2
  Local = {1, 2}
  Remote = {3, 4}
  Persistent = {1, 3}
  Policy <- MCPolicy
  MaxSources = 2
  MaxTransports = 2
  MaxEvents = 3
  MaxAttempts = 3
SPECIFICATION MCSpec
INVARIANT CleanupEnds
CHECK_DEADLOCK FALSE
