SPECIFICATION FairSpec
CONSTANTS
  Telemetry <- MCTelemetry
  Shift = 10
  CONFIG_LAST_KNOWN_UNIX = 1
  FramCapacity = 3
  StoreQueueLength = 2
  max_upload_errors = 1
  Budget <- OneGlitch
PROPERTIES DeletedWerePublished StoreDrains
