SPECIFICATION FairSpec
CONSTANTS
  Urls = {u1, u2}
  Restless = {u1}
  Twice = {u1}
  Objects <- AllObjects
  InitialPool <- FirstOfEach
  UrlOf <- ObjectUrl
  Markers = {admin}
  Thresholds <- TwoConfigs
  Largest = 2
INVARIANTS
  TypeOK
  VerdictHasStreak
PROPERTIES
  Converges
