\* One call at a time, over many messages: what the pipeline decides.
CONSTANTS
  None = None
  Blank = Blank
  SubMicro = 2
  MaxInflatedBytes = 2
  EntityId = "sp"
  AcsUrl = "acs"
  ClockSkew = 1
  AllowIdpInitiated = TRUE
  SigningCertificates <- MCCertificates
  Callers = {c1}
  BundleMayFail = FALSE
  Messages <- ManyMessages
  Expectations <- MCExpectations
  Instants <- MCInstants
  ClockAwareness <- BothKinds
  BackendMayFail = FALSE
SPECIFICATION Spec
INVARIANTS
  TypeOK
  ClearedIsAcceptable
  EvidenceIsKept
PROPERTIES
  ImplementsGate
