SPECIFICATION Spec
CONSTANTS
  initial_delay = 4
  max_delay = 60
  MaxErrors = 11
INVARIANT FollowsCurve
PROPERTY NoHammering
