SPECIFICATION Spec
CONSTANTS
  Requests = {r1}
  Urls = {u1, u2}
  Twice = {}
  None = None
  Cookie = None
  Returning = {}
  Objects <- AllObjects
  InitialPool <- FirstOfEach
  UrlOf <- ObjectUrl
  CookieOf <- Cookies
  MaxBackendSwitches = 3
  maxRetries = 3
  Idempotent = {}
  WithBody = {r1}
  BreakerEnabled = FALSE
  StickyEnabled = FALSE
  Flaky = {u1}
  Environment = {}
  FailureThreshold = 1
  SuccessThreshold = 1
INVARIANTS
  HealthyStaysUp
