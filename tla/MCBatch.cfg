\* Two threads submit three operations to contexts of two, and process and clean up as
\* they like; operations complete in any order.
SPECIFICATION FairSpec
CONSTANTS
  Threads = {t1, t2}
  Ios = {o1, o2, o3}
  max_ios = 2
INVARIANTS
  PendingCounts
  PendingInv
  NoCallbackAfterFree
  ReportedOnce
  ReportInv
PROPERTIES
  CleanupEnds
CHECK_DEADLOCK FALSE
