SPECIFICATION FairSpec
CONSTANTS
  Client = {"a", "b"}
  NoSession = NoSession
  Nobody = Nobody
  Org = {1}
  Cam = {1, 2}
  MaxCameras = 2
  Settings <- AllSettings
  MaxWorkers = 2
  MaxRequest = 2
  MaxGeneration = 2
INVARIANTS
  NoOrphanWorker
  TypeOK
  RefcountIsSessions
  GalleryStable
PROPERTIES
  GalleryOutlivesReconnect
  StoppedWorkersEnd
