SPECIFICATION TakeoverSpec
CONSTANTS
  Raw = {1, 2, 3, 4}
  Box <- MCBox
  IoU <- MCIoU
  RecoverThr = 50
  MaxMissing = 1
  MaxTid = 5
CHECK_DEADLOCK FALSE
PROPERTY
  RelinkOnlyByOverlap
