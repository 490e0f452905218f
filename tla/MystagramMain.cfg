CONSTANTS
  Emails = {e1, e2}
  Calls = {1, 2, 3}
  None = None
  FeedCount = 0
CONSTRAINT Canonical
SPECIFICATION Spec
INVARIANT MainMeansSignedIn
