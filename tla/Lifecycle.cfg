CONSTANTS
  r1 = r1
  r2 = r2
  Requests <- MCRequests
  MaxReloads = 2
  Revoked <- MCRevoked
  Withdrawn <- MCWithdrawn
SPECIFICATION Spec
INVARIANTS TypeOK NeverStale RevokedKeyRefused DrainCoversCounted
PROPERTIES StopEnds
