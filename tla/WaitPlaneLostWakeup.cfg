SPECIFICATION FairSpec
CONSTANTS
  outer = outer
  inner = inner
  Jobs = {outer, inner}
  Children <- Nested
  MaxAnswers <- InnerAnswered
  None = None

PROPERTIES EveryParkEnds
