SPECIFICATION Spec
CONSTANTS
  Requests = {r1, r2}
  Urls = {u1}
  Twice = {u1}
  None = None
  Cookie = None
  Returning = {}
  Objects <- AllObjects
  InitialPool <- FirstOfEach
  UrlOf <- ObjectUrl
  CookieOf <- Cookies
  MaxBackendSwitches = 2
  maxRetries = 1
  Idempotent = {r1}
  WithBody = {r2}
  BreakerEnabled = FALSE
  StickyEnabled = FALSE
  Flaky = {u1}
  Environment = {"admin", "abort", "cancel", "health"}
  FailureThreshold = 1
  SuccessThreshold = 1
INVARIANTS
  TypeOK
  SwitchBudget
  ConnsExact
