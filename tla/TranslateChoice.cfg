CONSTANTS
  MaxFragments = 5
  Counts = {0, 2}
  Reserved = 7
SPECIFICATION Spec
INVARIANT OneChoice
