SPECIFICATION FairSpec
CONSTANTS
  Requests = {r1, r2}
  Urls = {u1, u2}
  Twice = {}
  None = None
  Cookie = None
  Returning = {}
  Objects <- AllObjects
  InitialPool <- FirstOfEach
  UrlOf <- ObjectUrl
  CookieOf <- Cookies
  MaxBackendSwitches = 3
  maxRetries = 1
  Idempotent = {r1}
  WithBody = {}
  BreakerEnabled = TRUE
  StickyEnabled = FALSE
  Flaky = {u1}
  Environment = {}
  FailureThreshold = 1
  SuccessThreshold = 2
INVARIANTS
  NoRepeat
  PermitHeld
  HealthyStaysUp
PROPERTIES
  EveryRequestReturns
