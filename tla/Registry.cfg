SPECIFICATION FairRegistry
CONSTANTS
  Callers = {c1, c2, c3, c4}
  FailureThreshold = 2
  SuccessThreshold = 3
INVARIANTS
  RegistryTypeOK
  OneBreaker
  PermitAccounting
  PermitNotLost
PROPERTIES
  Recovery
