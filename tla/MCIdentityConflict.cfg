SPECIFICATION Spec
CONSTANTS
  Cam = {"m"}
  Role <- OneMaster
  Track = {1, 2}
  Person = {1, 2}
  Shows <- ShowsOwn
  Alike <- AllAlike
  View = {"bad", "occluded", "clean"}
  QualifyFrames = 2
  EnrollFrames = 2
  MaxEmb = 1
  EarlyLock = FALSE
  Persist = TRUE
  Resolve = TRUE
  Masks = TRUE
  Crashes = FALSE
  MaxScore = 2
  MaxSid = 2
CHECK_DEADLOCK FALSE
INVARIANTS
  OneSidPerFrame
  GalleryClean
PROPERTIES
  ConflictKeepsBest
