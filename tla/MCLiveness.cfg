\* Every call comes to an end, with the bdev layer reporting failures but
\* refusing nothing.
SPECIFICATION FairSpec
CONSTANTS
  Clients = {c1, c2}
  Msgs = {m1, m2}
  NoMsg = NoMsg
  RingCapacity = 1
  NumFds = 1
  Faults = {"io", "open_status"}
  Bufs = {b1, b2}
  MaxBatch = 1
  Reentrant = FALSE
  MaxDepth = 1
  Ops = {"open", "read", "read_async", "cleanup"}
  FdArgs = {}
  Modes = {"RDWR"}
  Found = {TRUE}
  Alignments = {TRUE}
INVARIANTS
  NoLostRequest
  LossInv
PROPERTIES
  SyncReadDelivers
  AsyncReadDelivers
  ImplementsAsync
  SyncCallReturns
  AsyncAnswered
  CleanupEnds
