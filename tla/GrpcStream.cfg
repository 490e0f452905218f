SPECIFICATION FairSpec
CONSTANTS
  MaxWrites = 3
  MaxReplies = 2
INVARIANTS NotMisused SafeToDestroy InOrder
PROPERTIES WorkerNotStuck EndIsNoticed
CHECK_DEADLOCK FALSE
