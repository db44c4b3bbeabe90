CONSTANTS
  w1 = w1
  w2 = w2
  Writers <- MCWriters
  NoWriter = NoWriter
  MaxEntries = 5
  Nil = Nil
  Null = Null
  MaxRecords = 13
  MaxAfter = 1
  MaxTurns = 2
  MaxGens = 2
  Paths = {"in", "out"}
  Inside = {"in"}
  Texts <- MCTexts
  Phrase = "p"
  Window = 2
  ToolCalls <- MCToolCalls
  MaxSaid = 6
  MaxForks = 3
  Providers = {"tavily"}
  SearchKeys = {"k1", "k2"}
  MaxUpdates = 4
  Skills = {"s", "t"}
  Bodies = {"1"}
  Registered = {"web"}
  Definitions = {"1", "2"}
  Batches <- MCBatches
  MaxEdits = 2
  MaxTold = 6
SPECIFICATION MCSpec
INVARIANTS
  TypeOK
  ConfirmedSurvives
  LiveEqualsReplay
  DiscardedStaysOut
  RoundTrip
  ToolsKept
  ShellKept
PROPERTIES
  ImplementsLog
CHECK_DEADLOCK FALSE
