\* Asynchronous I/O, synchronous writes and flushes with every fault of I/O, closes in
\* between, and xpdk_cleanup. Requests that fail early keep their messages for good, so
\* the pool may run dry and the library come to a stop.
SPECIFICATION Spec
CONSTANTS
  Clients = {c1, c2}
  Msgs = {m1, m2}
  NoMsg = NoMsg
  RingCapacity = 1
  NumFds = 1
  Faults = {"submit", "io", "dma"}
  Bufs = {b1, b2}
  MaxBatch = 1
  Reentrant = FALSE
  MaxDepth = 1
  Ops = {"open", "close", "write", "flush", "read_async", "write_async", "batch_submit", "write_zeros", "cleanup"}
  FdArgs <- BadFd
  Modes = {"RDWR", "RDONLY", "WRONLY"}
  Found = {TRUE}
  Alignments = {TRUE, FALSE}
SYMMETRY Symmetry
INVARIANTS
  OneOwner
  AnsweredOnce
  NoSlotLeak
  NoBufferLeak
CHECK_DEADLOCK FALSE
