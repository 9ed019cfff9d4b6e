SPECIFICATION Spec
CONSTANTS
  Starts <- MCStarts
  CONFIG_LAST_KNOWN_UNIX = 1600328461
  StoreQueueLength = 1
  MaxMinutes = 3
  MaxPulses = 2
  MaxRestarts = 1
  MaxDrift = 2
  MaxFailures = 1
INVARIANTS TypeOK CountedOnce ClockRight RtcFollows StartedComplete
