CONSTANTS
  c1 = c1
  c2 = c2
  none = none
  Clients <- TwoClients
  NoClient <- none
  MaxNest = 2
  IntervalMin = 1
  IntervalMax = 2
SPECIFICATION FairSpec
INVARIANTS
  ConnectedHasLiveClient
  EventsMatchState
PROPERTIES
  NoUnaskedReconnect
  Recovers
