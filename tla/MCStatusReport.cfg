SPECIFICATION FairSpec
CONSTANTS
  MinuteRange = 6
  CONFIG_STATUS_UPLOAD_INTERVAL_MIN = 2
  MaxLag = 1
  MaxChanges = 2
  FramErrors <- MCErrors
  UploadErrors <- MCErrors
  FramLevels <- MCFramLevels
  Rssis <- MCRssis
  error = error
INVARIANTS TypeOK TriedWithinAnHour LostOnlyWhilePublishing
PROPERTY PowerComesToBeReported
