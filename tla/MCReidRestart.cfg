SPECIFICATION FairSpec
CONSTANTS
  Conn = {1}
  Client = {"a"}
  ClientOf <- TwoShareAnId
  Requests <- OneCamera
  PoolSize = 2
  QueueSize = 1
  MaxJobs = 2
  MaxRows = 1
PROPERTY
  ReplacedRunnerEnds
