\* Overlapping opens and closes of two threads with every way an open can fail,
\* queries, QoS changes and trims in between, and xpdk_cleanup.
SPECIFICATION Spec
CONSTANTS
  Clients = {c1, c2}
  Msgs = {m1, m2}
  NoMsg = NoMsg
  RingCapacity = 1
  NumFds = 2
  Faults = {"open_rc", "open_status", "no_channel", "submit", "qos"}
  Bufs = {b1, b2}
  MaxBatch = 1
  Reentrant = FALSE
  MaxDepth = 1
  Ops = {"open", "close", "get_info", "qos_set", "trim", "list_bdevs", "qos_get", "get_perf_stats", "reset_perf_stats", "cleanup"}
  FdArgs = {}
  Modes = {"RDWR"}
  Found = {TRUE, FALSE}
  Alignments = {TRUE}
SYMMETRY Symmetry
INVARIANTS
  TypeOK
  MessageInv
  FdTable
  NoDescriptorLeak
  DeviceInv
