SPECIFICATION Spec
CONSTANTS
  Cam = {1, 2, 3}
  SessionOf <- TwoAndOne
  ExitTimeout = 0
  MaxTime = 2
CHECK_DEADLOCK FALSE
INVARIANTS
  TypeOK
  LedgerConserved
  QuietReportExact
  ReportCoversOwnCamera
