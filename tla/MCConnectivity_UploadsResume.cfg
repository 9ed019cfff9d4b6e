SPECIFICATION NetworkReturns
CONSTANTS
  quote = quote
  opening = opening
  closing = closing
  punctuation = punctuation
  version_key = version_key
  url_key = url_key
  wifi_max_disconnected_count = 1
  mqtt_max_error_count = 1
  max_upload_errors = 1
  CONFIG_JWT_EXP = 2
  Offset = 1
  MaxLosses = 1
  MaxFailures = 0
  Delivered = "1"
  Configs <- MCSettled
PROPERTY UploadsResume
