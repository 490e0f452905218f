SPECIFICATION Spec
CONSTANTS
  Users = {u1, u2}
  MaxWrites = 3
  kMaxPendingWrites = 2
  Waiters = {}
  None = None
INVARIANTS NoHardAssert Correlated NoWriteIsLost NoRegression
PROPERTY KeepsPromise
