SPECIFICATION FairSpec
CONSTANTS
  Cam = {"m", "n"}
  Role <- Zones
  Track = {1}
  Person = {1, 2}
  Shows <- ShowsZone
  Alike <- NobodyAlike
  View = {"bad", "nocrop", "clean"}
  QualifyFrames = 2
  EnrollFrames = 3
  MaxEmb = 3
  EarlyLock = TRUE
  Persist = TRUE
  Resolve = FALSE
  Masks = FALSE
  Crashes = TRUE
  MaxScore = 1
  MaxSid = 3
INVARIANTS
  TypeOK
  LocksEnrolled
  SidsArePeople
PROPERTIES
  Identified
CHECK_DEADLOCK FALSE
