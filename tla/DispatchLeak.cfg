SPECIFICATION Spec
CONSTANTS
  Requests = {r1, r2}
  NumSlots = 2
  MaxTries <- RetryAll
  Budget = 0
  CooldownWindow = 2
INVARIANT ReservationsResolved
