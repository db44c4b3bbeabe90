CONSTANTS
  Ops = {1, 2}
  Commands <- MCCommands
  MaxTargets = 2
  MaxPairs = 3
  MaxAges = 1
  MaxStops = 1
  Keys = {"k1", "k2"}
  Requests = {1}
  MaxGenerations = 2
  MaxFailures = 1
  Works = {1, 2}
  ApiCalls = {1}
  Changes = {1, 2}
  Identities = {1, 2}
  Invokes = {9}
  Open = 8
  Nexts = {1, 2}
  Events = {1}
  Limit = 2
  QueueLimit = 2
  Logins = {1, 2}
  Device <- MCDevice
  Sockets = {1, 2}
  Callers = {1}
  MaxConnections = 2
  MaxRefreshes = 1
  MaxDbFailures = 1
  Pulled = {1, 2}
  MaxStreams = 2
  MaxSlots = 1
  Subscribers = {1, 2, 3}
  Policy <- MCPolicy
  MaxQueue = 2
  MaxPublished = 3
SPECIFICATION MCSpec
CONSTRAINT MCBound
INVARIANTS
  AccountKept
  Recovers
  CredentialsKept
  OwnersSettled
  PeerKept
  SessionsKept
  ServerPeerKept
CHECK_DEADLOCK FALSE
