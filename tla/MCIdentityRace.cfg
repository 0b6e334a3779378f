SPECIFICATION Spec
CONSTANTS
  Cam = {"m", "n"}
  Role <- TwoMasters
  Track = {1}
  Person = {1}
  Shows <- ShowsAll
  Alike <- NobodyAlike
  View = {"clean"}
  QualifyFrames = 2
  EnrollFrames = 1
  MaxEmb = 2
  EarlyLock = TRUE
  Persist = TRUE
  Resolve = TRUE
  Masks = TRUE
  Crashes = FALSE
  MaxScore = 1
  MaxSid = 2
INVARIANT
  OnePersonOneSid
