SPECIFICATION Spec
CONSTANTS
  Requests = {r1, r2, r3}
  Unlimited = Unlimited
  Limit <- MixedLimit
  CostSet <- MixedCosts
  ActualSet = {0, 3}
  MinutesPerDay = 2
  MaxClock = 2
SYMMETRY Symmetry
INVARIANTS TypeOK NeverOverLimit ChargesConserved
PROPERTY ImplementsQuota
