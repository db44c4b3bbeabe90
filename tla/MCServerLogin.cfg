CONSTANTS
  Logins = {1, 2}
  Device <- MCDevice
  Sockets = {1}
  Callers = {}
  MaxConnections = 1
  MaxRefreshes = 0
  MaxDbFailures = 0
  Pulled = {}
  MaxStreams = 0
  MaxSlots = 0
  Subscribers = {}
  Policy <- MCPolicy
  MaxQueue = 1
  MaxPublished = 0
SPECIFICATION MCSessionsSpec
INVARIANT
  RejectedIsRevoked
CHECK_DEADLOCK FALSE
