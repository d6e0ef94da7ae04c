\* A synchronous read into an unaligned buffer.
SPECIFICATION Spec
CONSTANTS
  Clients = {c1, c2}
  Msgs = {m1, m2}
  NoMsg = NoMsg
  RingCapacity = 1
  NumFds = 1
  Faults = {}
  Bufs = {b1, b2}
  MaxBatch = 1
  Reentrant = FALSE
  MaxDepth = 1
  Ops = {"open", "read"}
  FdArgs = {}
  Modes = {"RDWR"}
  Found = {TRUE}
  Alignments = {FALSE}
SYMMETRY Symmetry
PROPERTIES
  SyncReadDelivers
