SPECIFICATION FairSpec
CONSTANTS
  Users = {u1, u2}
  MaxWrites = 2
  kMaxPendingWrites = 1
  Waiters = {x}
  None = None
INVARIANT WaitersWereRight
PROPERTY QueueDrains
CHECK_DEADLOCK FALSE
