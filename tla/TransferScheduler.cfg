\* Four objects, two in flight.
SPECIFICATION FairSpec
CONSTANTS
  NumTasks = 4
  MaxInFlight = 2
INVARIANTS
  OkMeansAllSucceeded
  FailureIsRetained
  DrainedOnReturn
PROPERTIES
  NoAdmissionAfterFailure
  TransferReturns
