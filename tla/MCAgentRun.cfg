CONSTANTS
  Inputs = {"i1"}
  Plans <- MCPlans
  Torn <- MCTorn
  Installs <- MCAlways
  MaxCalls = 2
  MaxRuns = 1
  MaxFaults = 2
SPECIFICATION FairSpec
INVARIANTS
  TypeOK
  NeverRefused
  Settled
  EffectsIntended
  AnswersHold
PROPERTIES
  InterruptEnds
