SPECIFICATION FairSpec
CONSTANTS
  Conn = {1, 2, 3}
  Client = {"a", "b"}
  ClientOf <- TwoShareAnId
  Requests <- OneTwice
  PoolSize = 1
  QueueSize = 2
  MaxJobs = 2
  MaxRows = 3
INVARIANTS
  TypeOK
  StorageCanEnd
  RowsInOrder
PROPERTY
  StoppedStreamsEnd
