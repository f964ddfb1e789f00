SPECIFICATION FairSpec
CONSTANTS
  i1 = i1
  i2 = i2
  i3 = i3
  k = k
  w1 = w1
  w2 = w2
  Intents = {i1, i2}
  Delayed = {i2}
  Keys = {k}
  KeyOf <- AllOfOneKey
  NoKey = NoKey
  Workers = {w1, w2}
  ClaimerOf <- OwnIds
  Batch = 2
  MaxAttempts = 2
  MaxLapses = 1
  MaxCrashes = 1
  None = None
INVARIANT QueueInv
PROPERTIES ClaimsAreOpen EveryIntentSettles ImplementsQueue
