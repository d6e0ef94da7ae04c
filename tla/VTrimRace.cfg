\* A trim that meets a close and an open of its descriptor.
SPECIFICATION Spec
CONSTANTS
  Clients = {c1, c2}
  Msgs = {m1, m2}
  NoMsg = NoMsg
  RingCapacity = 1
  NumFds = 1
  Faults = {}
  Bufs = {b1, b2}
  MaxBatch = 1
  Reentrant = FALSE
  MaxDepth = 1
  Ops = {"open", "close", "trim"}
  FdArgs = {}
  Modes = {"RDWR"}
  Found = {TRUE}
  Alignments = {TRUE}
SYMMETRY Symmetry
PROPERTIES
  TrimHasDescriptor
