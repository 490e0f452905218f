CONSTANTS
  Emails = {e1, e2}
  Calls = {1, 2, 3}
  None = None
CONSTRAINT Canonical
SPECIFICATION FairSpec
INVARIANTS TypeOK Consistent SafeSession TrueIsTrue
PROPERTIES OneOutcome  CallsEnd
