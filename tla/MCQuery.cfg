\* Destinations with a query: is it all there in the redirect URL?
CONSTANTS
  None = None
  Stale = Stale
  Second = 2
  LocalOffset = 3
  Settings <- QuerySettings
  RelayStates <- NoRelayState
  Readings <- ManyReadings
  HostTimes <- SomeHostTimes
  FreshId = "id"
SPECIFICATION Spec
INVARIANTS
  DestinationQueryIsKept
