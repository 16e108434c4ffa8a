\* Two calls side by side, with a backend and a schema bundle that may fail.
CONSTANTS
  None = None
  Blank = Blank
  SubMicro = 2
  MaxInflatedBytes = 2
  EntityId = "sp"
  AcsUrl = "acs"
  ClockSkew = 1
  AllowIdpInitiated = FALSE
  SigningCertificates <- MCCertificates
  Callers = {c1, c2}
  BundleMayFail = TRUE
  Messages <- FewMessages
  Expectations <- OneRequest
  Instants <- LateInstants
  ClockAwareness <- AwareOnly
  BackendMayFail = TRUE
SPECIFICATION FairSpec
INVARIANTS
  BuildsAreBounded
PROPERTIES
  CallsRunOut
  ImplementsGate
  EveryCallReturns
