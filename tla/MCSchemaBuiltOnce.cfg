\* Two calls on a cold schema cache.
CONSTANTS
  None = None
  Blank = Blank
  SubMicro = 2
  MaxInflatedBytes = 2
  EntityId = "sp"
  AcsUrl = "acs"
  ClockSkew = 1
  AllowIdpInitiated = TRUE
  SigningCertificates <- MCCertificates
  Callers = {c1, c2}
  BundleMayFail = FALSE
  Messages <- NestedSignatureMessages
  Expectations <- OneRequest
  Instants <- OneInstant
  ClockAwareness <- AwareOnly
  BackendMayFail = FALSE
SPECIFICATION Spec
INVARIANTS
  SchemaIsBuiltOnce
