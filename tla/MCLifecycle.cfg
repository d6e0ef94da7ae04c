\* Two threads that start, use, poll and stop the library as they like, twice, with every
\* step of xpdk_init_opts failing.
SPECIFICATION FairSpec
CONSTANTS
  Clients = {c1, c2}
  MaxInits = 2
  MaxSends = 1
  MaxWait = 2
  Faults = {"sync", "env", "ring", "pool", "pthread", "thread"}
INVARIANTS
  NoUseAfterFree
  InitializedWorks
  NothingLeftBehind
  HandledOnce
  LifecycleInv
PROPERTIES
  InitEnds
  ServedBeforeShutdown
  BatchWaitEnds
CHECK_DEADLOCK FALSE
