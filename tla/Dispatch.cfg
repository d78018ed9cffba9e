SPECIFICATION FairSpec
CONSTANTS
  Requests = {r1, r2}
  NumSlots = 3
  MaxTries <- RetrySecond
  Budget = 3
  CooldownWindow = 2
INVARIANTS TypeOK LedgerConsistent CooldownHasLosses SingleTrySettles
PROPERTIES CoolingEnds AlwaysReturns
