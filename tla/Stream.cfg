SPECIFICATION FairSpec
CONSTANTS
  Idle = 2
  MaxChunks = 3
INVARIANTS TypeOK BookedOnce CleanEndIsWhole ChargedForAReason
PROPERTY StreamEnds
