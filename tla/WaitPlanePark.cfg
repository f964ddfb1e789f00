SPECIFICATION FairSpec
CONSTANTS
  outer = outer
  inner = inner
  Jobs = {outer, inner}
  Children <- Nested
  MaxAnswers <- EachAnswered
  None = None
INVARIANTS TypeOK ParkInv ActedIsClosed IndexCoversWaits
PROPERTIES  RestingOwnerContinues SignalIsHandled
