SPECIFICATION Spec
CONSTANTS
  MinuteRange = 6
  CONFIG_STATUS_UPLOAD_INTERVAL_MIN = 2
  MaxLag = 1
  MaxChanges = 1
  FramErrors <- MCErrors
  UploadErrors <- MCErrors
  FramLevels <- MCFramLevels
  Rssis <- MCRssis
  error = error
INVARIANT ChangeForcesReport
