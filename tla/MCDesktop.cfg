CONSTANTS
  Users = {"u1"}
  Calls = {1, 2}
  MaxConcurrency = 1
  MaxOwners = 2
  Streams = {1, 2}
  Nexts <- MCNexts
  MaxStreams = 1
  MaxInstances = 2
  Local = {1, 2}
  Remote = {3, 4}
  Persistent = {1, 3}
  Policy <- MCPolicy
  MaxSources = 2
  MaxTransports = 2
  MaxEvents = 3
  MaxAttempts = 3
  Days = {1, 30}
  MaxChanges = 3
  Contents = {"a", "A", "p"}
  Texts = {"a", "A"}
  InFile = {"A", "p"}
  Batch = 1
  MaxVersions = 2
  MaxCalls = 2
  MaxTime = 2
  MaxFailures = 1
  Bookmarks = {1, 2}
  Apps = {3, 4}
  Skipped = {}
  Catalog = {5}
  Commands = {9}
  KeyOf <- MCKeyOf
  Score <- MCScore
  Calculates = TRUE
  NDirs = 2
  TopItems = 1
  TopCommands = 1
  MaxHits = 3
  FirstMarks <- MCFirstMarks
  FirstApps <- MCFirstApps
  MaxMoves = 2
  Operations = {1, 2}
  Requests = {1, 2}
  Accounts = {"a", "b"}
  MaxOperations = 2
  MaxRotations = 1
SPECIFICATION MCDSpec
CONSTRAINT MCDBound
INVARIANTS CallsKept StreamsKept SubscriptionsKept SettingsKept HistoryKept LauncherKept NativeKept
PROPERTIES NoLate HistoryTrue
CHECK_DEADLOCK FALSE
