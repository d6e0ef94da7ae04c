\* Turbo mode: batches of two messages, and handlers that poll the ring while they
\* wait, two deep, with every fault of the bdev layer.
SPECIFICATION Spec
CONSTANTS
  Clients = {c1, c2}
  Msgs = {m1, m2}
  NoMsg = NoMsg
  RingCapacity = 2
  NumFds = 1
  Faults = {"submit", "io", "dma"}
  Bufs = {b1, b2, b3}
  MaxBatch = 2
  Reentrant = TRUE
  MaxDepth = 2
  Ops = {"open", "read", "write_async"}
  FdArgs = {}
  Modes = {"RDWR"}
  Found = {TRUE}
  Alignments = {FALSE}
SYMMETRY Symmetry
INVARIANTS
  IoInv
  NoStrandedCall
  SyncContextAlive
  BufferSafe
CHECK_DEADLOCK FALSE
