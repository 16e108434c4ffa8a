\* Endpoints of every kind: which errors does construction raise?
CONSTANTS
  None = None
  Stale = Stale
  Second = 2
  LocalOffset = 3
  Settings <- OddEndpointSettings
  RelayStates <- NoRelayState
  Readings <- ManyReadings
  HostTimes <- SomeHostTimes
  FreshId = "id"
SPECIFICATION Spec
INVARIANTS
  ConstructionRaisesMetadataError
