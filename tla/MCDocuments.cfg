\* One call at a time, over every small document.
CONSTANTS
  None = None
  Blank = Blank
  SubMicro = 2
  MaxInflatedBytes = 2
  EntityId = "sp"
  AcsUrl = "acs"
  ClockSkew = 1
  AllowIdpInitiated = FALSE
  SigningCertificates <- MCCertificates
  Callers = {c1}
  BundleMayFail = FALSE
  Messages <- DocumentMessages
  Expectations <- OneRequestOrNone
  Instants <- OneInstant
  ClockAwareness <- AwareOnly
  BackendMayFail = FALSE
SPECIFICATION Spec
INVARIANTS
  PositionIntegrity
  ClearedIsAcceptable
