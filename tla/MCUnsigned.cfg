\* A response whose assertion carries no signature.
CONSTANTS
  None = None
  Blank = Blank
  SubMicro = 2
  MaxInflatedBytes = 2
  EntityId = "sp"
  AcsUrl = "acs"
  ClockSkew = 1
  AllowIdpInitiated = TRUE
  SigningCertificates <- MCCertificates
  Callers = {c1}
  BundleMayFail = FALSE
  Messages <- UnsignedMessages
  Expectations <- OneRequest
  Instants <- OneInstant
  ClockAwareness <- AwareOnly
  BackendMayFail = FALSE
SPECIFICATION Spec
INVARIANTS
  MissingSignatureIsSignatureError
