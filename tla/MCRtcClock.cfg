SPECIFICATION FairSpec
CONSTANTS
  StoreQueueLength = 2
  Failures = 2
  Restarts = 2
INVARIANTS TypeOK HeldLineIsServed BelievedTimeWasSet
PROPERTY AlarmKeepsComing
