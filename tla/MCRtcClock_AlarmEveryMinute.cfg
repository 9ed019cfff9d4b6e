SPECIFICATION FairSpec
CONSTANTS
  StoreQueueLength = 2
  Failures = 1
  Restarts = 0
PROPERTY AlarmEveryMinute
