CONSTANTS
  Inputs = {"i1"}
  Plans <- MCPlans
  Torn <- MCNothing
  Installs <- MCChanging
  MaxCalls = 1
  MaxRuns = 1
  MaxFaults = 1
SPECIFICATION Spec
INVARIANTS
  NeverRefused
