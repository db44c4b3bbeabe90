CONSTANTS
  i1 = i1
  i2 = i2
  Inputs = {i1, i2}
  Plans <- MCShortPlans
  Torn <- MCNothing
  Installs <- MCAlways
  MaxCalls = 1
  MaxRuns = 2
  MaxFaults = 2
SYMMETRY InputSymmetry
SPECIFICATION Spec
INVARIANTS
  ViewIsReplay
  OneRunPerInput
