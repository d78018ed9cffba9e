SPECIFICATION FairSpec
CONSTANTS
  k1 = k1
  k2 = k2
  NoKey = NoKey
  Requests = {r1, r2}
  KeyOrder <- TwoKeys
  FailureThreshold = 1
  RecoveryTimeout = 1
  ShortCooldown = 1
  LongCooldown = 3
  Forever = 9
  Outcomes = {"ok", "429", "auth", "5xx", "4xx"}
  LimiterRefuses = TRUE
PROPERTY HalfOpenIsResolved
