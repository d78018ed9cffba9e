CONSTANTS
  MaxFragments = 5
  Counts = {0, 2}
  Reserved = 7
SPECIFICATION Spec
INVARIANTS TypeOK CallsArriveWhole StreamedAsBuffered ChargedAsReported
