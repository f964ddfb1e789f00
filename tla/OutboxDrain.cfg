CONSTANTS
  Events = {e1, e2}
  Failing = {e1}
  Threads = {hook, poller}
  Pollers = {poller}
  Limit = 2
  MaxAttempts = 2
  MaxCrashes = 1
  NoEvent = none
SPECIFICATION FairSpec
INVARIANT TypeOK IndexAgrees SettledForCause
PROPERTY EveryEntrySettles ImplementsDelivery
CHECK_DEADLOCK FALSE
