CONSTANTS
  Addresses <- MCAddresses
  Lengths = {0, 3, 4, 6, 7}
  Unset = Unset
SPECIFICATION Spec
INVARIANT EnabledMeansComplete
PROPERTY SendsWhatIsShown
