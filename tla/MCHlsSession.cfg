SPECIFICATION FairSpec
CONSTANTS
  cam1 = cam1
  cam2 = cam2
  Cameras <- TwoCameras
  MaxReadFailures = 1
INVARIANTS
  TypeOK
  NoOrphanFfmpeg
  FolderRemoved
PROPERTIES
  StoppedSessionsEnd
CHECK_DEADLOCK FALSE
