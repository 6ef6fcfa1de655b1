SPECIFICATION Spec
CONSTANTS
  Requests = {r1, r2}
  Urls = {u1, u2, u3}
  Twice = {}
  None = None
  Cookie = u1
  Returning = {r1}
  Objects <- AllObjects
  InitialPool <- FirstOfEach
  UrlOf <- ObjectUrl
  CookieOf <- Cookies
  MaxBackendSwitches = 3
  maxRetries = 1
  Idempotent = {r1}
  WithBody = {}
  BreakerEnabled = FALSE
  StickyEnabled = TRUE
  Flaky = {u1, u2}
  Environment = {}
  FailureThreshold = 1
  SuccessThreshold = 1
INVARIANTS
  HealthyServes
  HealthyStaysUp
  CookieNamesServer
PROPERTIES
  KeepsPromise
