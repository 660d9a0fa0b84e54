CONSTANTS
  MaxMessages = 4
  AckTimeout = 1
  TransmissionSpan = 3
  MaxRetry = 4
SPECIFICATION FairSpec
INVARIANTS
  HandlerRunsOnce
PROPERTIES
  NotGivenUpEarly
  NothingSentAfterAnswer
  UnackedRequestsEnd
