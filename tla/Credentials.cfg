SPECIFICATION FairSpec
CONSTANTS
  Users = {u1, u2}
  Nobody = nobody
  MaxChanges = 3
  MaxStarts = 2
INVARIANTS OwnToken RightLabel
PROPERTIES SettlesOnUser RequestIsAnswered
CHECK_DEADLOCK FALSE
