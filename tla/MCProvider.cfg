\* Construction from any settings, and the requests built from it.
CONSTANTS
  None = None
  Stale = Stale
  Second = 2
  LocalOffset = 3
  Settings <- ManySettings
  RelayStates <- SomeRelayStates
  Readings <- SomeReadings
  HostTimes <- SomeHostTimes
  FreshId = "id"
SPECIFICATION Spec
INVARIANTS
  TypeOK
  ProviderIsUsable
  RefusalsAreDeserved
  BestEndpointIsChosen
  TrustIsWhatTheRolesAdvertise
  RequestArrivesAsBuilt
  RequestIsDatedByItsClock
