\* Two agents, two requests, two calls: redelivery, races and late answers.
CONSTANTS
  None = None
  Blank = Blank
  SubMicro = 1
  Second = 1
  LocalOffset = 0
  EntityId = "sp"
  AcsUrl = "acs"
  ClockSkew = 0
  AllowIdpInitiated = TRUE
  SigningCertificates <- MCCertificates
  Agents = {a1, a2}
  Users = {u1, u2}
  RequestIds = {q1, q2}
  Threads = {t1, t2}
  SsoUrl = "sso"
  Instants = {0, 1}
  Lifetime = 1
  MaxResponses = 2
SPECIFICATION Spec
SYMMETRY Twin
INVARIANTS
  TypeOK
  PassedAnswersItsRequest
  AnswersAreRefusedForTimeOnly
PROPERTIES
  AtMostOneLogin
