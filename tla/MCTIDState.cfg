SPECIFICATION Spec
CONSTANTS
  Raw = {1, 2, 3}
  Box <- MCBox
  IoU <- MCIoU
  RecoverThr = 50
  MaxMissing = 1
  MaxTid = 5
CHECK_DEADLOCK FALSE
INVARIANTS
  TypeOK
  StableDistinct
  MappingCurrent
PROPERTIES
  StateHandover
