CONSTANTS
  Emails = {e1, e2}
  Calls = {1, 2, 3}
  None = None
  FeedCount = 4
CONSTRAINT Canonical
SPECIFICATION FairSpec
INVARIANT SpinnerMeansWaiting
PROPERTIES MainUnsignedMeansFailedLogin OnlyLatestIsHeard  SpinnerEnds
