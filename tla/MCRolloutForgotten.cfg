CONSTANTS
  w1 = w1
  w2 = w2
  Writers <- MCWriters
  NoWriter = NoWriter
  MaxEntries = 3
SPECIFICATION Spec
INVARIANTS
  ForgottenIsErased
