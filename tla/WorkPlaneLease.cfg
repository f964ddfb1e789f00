SPECIFICATION Spec
CONSTANTS
  i1 = i1
  i2 = i2
  i3 = i3
  k = k
  w1 = w1
  w2 = w2
  Intents = {i1, i2, i3}
  Delayed = {i3}
  Keys = {k}
  KeyOf <- TwoOfOneKey
  NoKey = NoKey
  Workers = {w1, w2}
  ClaimerOf <- OwnIds
  Batch = 2
  MaxAttempts = 2
  MaxLapses = 1
  MaxCrashes = 0
  None = None
INVARIANTS TypeOK ExclusiveLease CoalesceOne NothingForgotten
PROPERTIES RunsOnce
