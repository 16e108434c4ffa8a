\* Two calls for one request: a genuine answer is not lost.
CONSTANTS
  None = None
  Blank = Blank
  SubMicro = 1
  Second = 1
  LocalOffset = 0
  EntityId = "sp"
  AcsUrl = "acs"
  ClockSkew = 1
  AllowIdpInitiated = FALSE
  SigningCertificates <- MCCertificates
  Agents = {a1, a2}
  Users = {u1}
  RequestIds = {q1}
  Threads = {t1, t2}
  SsoUrl = "sso"
  Instants = {0, 1}
  Lifetime = 1
  MaxResponses = 2
SPECIFICATION FairSpec
PROPERTIES
  GenuineAnswersLogIn
