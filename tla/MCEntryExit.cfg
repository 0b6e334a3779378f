SPECIFICATION Spec
CONSTANTS
  a = a
  b = b
  c = c
  SID <- MCSID
  ExitTimeout = 1
  Threshold = 2
  AlertRate = 50
  RecentCap = 3
  ReportN = 2
  MaxTime = 4
INVARIANTS
  TypeOK
  NetCountIsOccupancy
PROPERTIES
  ExitExactlyOnTimeout
  ExitsReported
  AlertOnRisingEdge
  ImplementsHeadCount
