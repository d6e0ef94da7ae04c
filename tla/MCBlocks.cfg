\* A reader and a writer on a device of two blocks of two bytes, with sizes modulo 8 in
\* place of 2^32 and requests on both sides of it. An overrun, or a copy into a buffer
\* whose call has returned, ends a behaviour.
SPECIFICATION Spec
CONSTANTS
    BlockSize = 2
    Width = 8
    Blocks = 2
    Requests <- MCRequests
    Readers = {r}
    Writers = {w}
    NoBuffer = NoBuffer
    Faults = {"call", "dma", "io"}
INVARIANTS
    NoOverrunBelow4GiB
    LinearBufferFreed
    BlocksInv
PROPERTIES
    OnlyItsBlocks
    ImplementsDisk
CHECK_DEADLOCK FALSE
