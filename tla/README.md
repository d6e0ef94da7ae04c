# A TLA+ model of libxpdk

libxpdk wraps SPDK block devices in calls that look like POSIX I/O. Application
threads never touch SPDK: a call fills in a message from a fixed pool, puts it
into a ring, and one SPDK thread takes the messages out, runs a handler for
each, and gets the results from the bdev layer in completion callbacks. There
are no reference counts and hardly any locks. Correctness rests on who may touch
which message, slot and buffer at what time, which is what this project states
and model-checks. Every safety property is also proved for all values of the
constants, those that the code breaks under the conditions that keep them; the
[proofs](#proofs) section has both.

Contents: [the system](#the-system) · [modules](#modules) ·
[properties and runs](#properties-and-runs) · [fairness](#fairness) ·
[refinement](#refinement) ·
[disagreements](#disagreements-with-docs-comments-and-tests) · [proofs](#proofs) ·
[abstractions](#abstractions-and-assumptions) · [not modelled](#not-modelled)

## The system

| part | source | state | operations |
|---|---|---|---|
| message layer | `src/xpdk_core.c`, `src/xpdk_internal.h` | `msg_pool`, `msg_ring`, per message: request, `status`, `completed` | `xpdk_msg_alloc`, `xpdk_msg_free`, `xpdk_msg_send_sync`, `xpdk_msg_send_async` |
| device table | `src/xpdk_core.c`, `src/xpdk_bdev.c` | `devices[256]` | list, open with its completion, close, get_info |
| synchronous I/O | `src/xpdk_io.c` | the handler's frame on the SPDK thread's stack, DMA buffers | read, write, flush, `sync_io_completion_cb` |
| asynchronous I/O | `src/xpdk_async.c`, `src/xpdk_io.c` | `msg->ctx`, the caller's callback | read_async, write_async, `async_io_completion_cb`, `xpdk_poll` |
| SPDK thread | `src/xpdk_core.c` | `spdk_thread_running` | main loop, message poller (1 message per call, 32 in turbo mode) |
| start and shutdown | `src/xpdk_core.c` | `initialized` | `xpdk_init`, `xpdk_init_opts`, `xpdk_cleanup` |
| QoS | `src/xpdk_qos.c` | in the bdev layer | set (asynchronous), get |
| statistics, trim, write-zeros | `src/xpdk_perf.c` | counters of a slot | get, reset, trim, write_zeros |
| batches | `src/xpdk_batch.c` | pending and completed queues, lock, condition variable | submit_one, process_completions, cleanup, wait; the legacy `xpdk_batch_submit` |
| vectored I/O, buffers | `src/xpdk_vectored.c` | wrapper context | readv, writev, their asynchronous forms, buffer allocation |

What makes it hard:

* A caller spins on `msg->completed`, and frees the message the moment it is
  set. The completion callback of a synchronous I/O sets it *before* the handler
  has finished with the message.
* A synchronous handler waits for its I/O by calling `spdk_thread_poll` inside
  the poller. In turbo mode that runs the poller again, so handlers nest.
* The completion of a synchronous I/O writes to a context on the handler's stack.
* An open is asynchronous: the slot is claimed in one step and filled in another,
  with anything in between.
* An asynchronous request has nobody waiting for it, so an error path that only
  sets `completed` loses it.
* Pool, ring, slots and DMA memory are all finite, and what is lost is never
  regained.
* Starting and stopping test and set plain flags, with other threads in between.
* A batch context drops its lock around every callback, and identifies operations
  by their place in a queue.
* Sizes are computed in 32 bits, and bytes are copied through up to three buffers.

`PROJECT.json` lists each hazard at its line with the properties that cover it.

## Modules

```
XpdkMsg <- XpdkDevice <- XpdkIo <- XpdkSystem <- MCXpdkSystem ....implements.... XpdkAsync
                                       ^                                             ^
                XpdkHandlerProof ------+                                             | uses
                       <- XpdkMessageProof <-+                                       |
                       <- XpdkDeviceProof  <-+- XpdkSystemProof                      |
                       <- XpdkIoProof      <-+                                       |
                                                                                     |
XpdkLifecycle <- MCLifecycle          XpdkBatchProof, MCBatch -> XpdkBatch ----------+
      ^
XpdkLifecycleProof

XpdkUnits <- XpdkBlocks <- MCBlocks ....implements.... XpdkDisk
                 ^
          XpdkBlocksProof                         (A <- B: module B extends A)
```

The calls and their messages:

* **XpdkMsg**: messages, pool, ring. A message is a memory cell: a freed one keeps
  its old fields until it is allocated again, so late accesses show up.
  `xpdk_msg_alloc` takes any free message. `Reply` is the pair of stores every
  handler ends with.
* **XpdkDevice**: the device table and the handlers that do not wait: open with
  `bdev_open_complete`, close, the queries, QoS, trim and write-zeros. `pending[m]`
  is the operation the bdev layer holds for a message; `unmapping` the trims it is
  still working on.
* **XpdkIo**: read, write and flush. `stack` is the SPDK thread's call stack: one
  frame per poller invocation, holding how many messages it may still take and, if
  its handler waits, the fields of `struct sync_io_ctx` and of the handler's locals.
  `dma`, `ctx`, `filled` and `answer` follow the DMA buffers, `msg->ctx`, which
  application buffers hold their data, and what asynchronous callers were told.
* **XpdkSystem**: the composition. A call of the API is the action named after it
  (allocate and fill in), then `xpdk_msg_send_sync`, `xpdk_msg_send_async` or
  `SendBusy`, then `ReturnSync`. `xpdk_msg_process_poller` is one turn of the
  poller's loop: it dequeues and runs the whole handler up to its return or its
  wait. `BdevCompletes` delivers one completion. `xpdk_cleanup` is modelled step by
  step: one close per used slot, SHUTDOWN, join.
* **XpdkAsync**: what `xpdk_read_async` and `xpdk_write_async` promise: an accepted
  request is answered once, in any order.

The library around them:

* **XpdkLifecycle**: `xpdk_init_opts`, the SPDK thread's start and
  `xpdk_cleanup`, one test, allocation or store at a time, while other threads
  call, run `xpdk_poll` or `xpdk_batch_wait`, and stop the library. Rings, pools
  and threads carry the number of the attempt that made them, so a dangling pointer
  in `g_xpdk_ctx` is told from a good one; a thread that uses one is `dead`. The
  ring's dequeue is two steps, so two consumers meet. A handler answers its message
  or, for an open or a QoS change, may only submit it (`Handled`); `submitted` counts
  what the bdev layer then owes a thread, and `BdevCompletes` is the callback, which
  comes from a later `spdk_thread_poll` or not at all. `races` remembers which
  of the things the library does not guard against have happened: a shutdown with
  calls in progress ("stop"), a call without `xpdk_init` ("uninit"), a second
  executor of the poller ("poll").
* **XpdkBatch**: a batch context. Each section under the lock is one step; the
  steps in between are where a call runs without it. Operations are those of
  `XpdkAsync`. `tangled` remembers what has made the entries of the queues differ
  from the operations they stand for.

The bytes:

* **XpdkUnits**: offset and count to blocks and DMA size, with their widths.
* **XpdkBlocks**: application memory, the linear buffer of a vectored call, the
  handler's DMA buffer and the device, and the copies between them in the order
  and at the time the code makes them: gather at the call, copy in the handler,
  transfer in the bdev, copy out after the completion, scatter in the wrapper.
* **XpdkDisk**: what a caller may rely on: an array of bytes on which each call
  takes effect at one instant between call and return. A *sure* request (block
  aligned, below 4 GiB) reads or writes exactly its bytes; any other write stays in
  the blocks it touches. A trim takes effect at any time after it returned, on part
  of its range if it has more blocks than `uint32_t` counts (`Countable`).

Definitions are named after the functions they translate; `PROJECT.json` maps each
to its lines.

## Properties and runs

Each property is stated where its module ends, with what it means for the code.

| property | kind | says |
|---|---|---|
| **XpdkSystem** | | |
| `TypeOK` | invariant | types; the ring within its capacity |
| `OneOwner` | invariant | a message is in one place: never freed twice, reused in flight, queued twice, completed in flight |
| `NoStrandedCall` | invariant | a waiting caller's message is completed, queued or in the bdev layer |
| `MessageInv` | invariant | the inductive invariant of the proofs about messages |
| `SyncContextAlive` | invariant | a synchronous completion finds its handler, and only that one, still waiting |
| `AnsweredOnce` | invariant | a callback is called at most once, and never skipped by a free |
| `NoLostRequest` | invariant | an accepted asynchronous request stays on its way to an answer |
| `LossInv` | invariant | the inductive invariant of the proofs about answers and lost requests |
| `FdTable` | invariant | open descriptors stand for complete slots; overlapping opens never share or overwrite one; free slots are empty |
| `NoSlotLeak` | invariant | a slot in use belongs to the application or to a call |
| `NoDescriptorLeak` | invariant | so does an open bdev descriptor or channel, whatever fails |
| `DeviceInv` | invariant | the inductive invariant of the proofs about slots |
| `BufferSafe` | invariant | no DMA buffer used after free, freed twice, or shared |
| `NoBufferLeak` | invariant | every allocated DMA buffer has somebody who will free it |
| `IoInv` | invariant | the inductive invariant of the proofs about handlers and DMA buffers |
| `SyncReadDelivers`, `AsyncReadDelivers` | action | a read reported successful has its data in the caller's buffer |
| `TrimHasDescriptor` | action | see [disagreements](#disagreements-with-docs-comments-and-tests) |
| `ImplementsAsync` | refinement | the library implements `XpdkAsync`, fairness included |
| `SyncCallReturns`, `AsyncAnswered`, `CleanupEnds` | liveness | calls return, requests are answered, cleanup ends |
| **XpdkLifecycle** | | |
| `NoUseAfterFree` | invariant | an application that stops an idle library and calls only a started one never makes it use a ring or pool that is gone |
| `InitializedWorks` | invariant | `initialized` means ring, pool and a thread in its loop, outside `xpdk_cleanup` |
| `NothingLeftBehind` | invariant | no failure of the start, and no stop, leaves a ring, a pool or a thread |
| `HandledOnce` | invariant | without `xpdk_poll`, each message is handled once |
| `LifecycleInv` | invariant | the inductive invariant of the proofs about the four |
| `InitEnds` | liveness | `xpdk_init_opts` returns unless the SPDK thread gave up |
| `ServedBeforeShutdown` | liveness | a message ahead of SHUTDOWN in the ring is handled, whenever `xpdk_cleanup` runs, and answered unless it is an open or a QoS change that the bdev layer still has when the thread stops |
| `SubmittedIsAnswered` | liveness | see [disagreements](#disagreements-with-docs-comments-and-tests) |
| `BatchWaitEnds` | liveness | `xpdk_batch_wait` with a timeout returns, also when the library is shut down meanwhile |
| **XpdkBatch** | | |
| `PendingCounts` | invariant | `pending_ios` counts the operations in flight and being submitted, even after entries and operations were mixed up |
| `PendingInv` | invariant | the inductive invariant of the proof about it |
| `NoCallbackAfterFree` | invariant | no operation outlives its context |
| `ReportedOnce` | invariant | while operations complete in order and alone, each is reported once, with its own status |
| `ReportInv` | invariant | the inductive invariant of the proof about it |
| `CleanupEnds` | liveness | `xpdk_batch_cleanup` returns |
| `NoOverrun` | invariant | see [disagreements](#disagreements-with-docs-comments-and-tests) |
| **XpdkBlocks** | | |
| `ImplementsDisk` | refinement | the data path implements `XpdkDisk` |
| `NoOverrunBelow4GiB` | invariant | no copy or transfer leaves the DMA buffer of a request whose size fits 32 bits |
| `LinearBufferFreed` | invariant | a vectored call frees its linear buffer, on every path but the refused asynchronous one |
| `OnlyItsBlocks` | action | a byte of the device changes only when a write is transferred, or a trim or write-zeros done, whose request touches its block |
| `BlocksInv` | invariant | the inductive invariant of the proofs about the four |

Passing runs (distinct states):

| run | question | states |
|---|---|---|
| `MCDevices` | overlapping opens and closes with every open failure, the queries, QoS, trims, shutdown and restart | 259 249 |
| `MCFaults` | asynchronous I/O, synchronous writes and flushes with faults, batches, closes and shutdown: is ownership kept even when requests are lost, and every buffer freed? | 824 482 |
| `MCTurbo` | nested handlers, batches of two, every fault of I/O: does each completion find its handler, each buffer have one user, each caller somebody to answer it? | 996 053 |
| `MCLiveness` | aligned I/O that may fail: is every request answered, every read delivered, every call ended? | 53 106 |
| `MCLifecycle` | start, use, poll and stop in any interleaving, with every failure of the start, and a second start | 71 690 |
| `MCBatch` | submit, process and clean up a context from two threads, completions in any order | 412 100 |
| `MCBlocks` | the bytes of every call, with every failure | 408 124 |

Bounds. Two threads and two messages are enough for every pair of calls to overlap,
for a message to be freed and reused while a handler still refers to it, and for the
pool to run dry; a ring of one or two entries is full whenever two senders meet; one
or two slots let a descriptor be closed and reopened under another thread and the
table fill up. `MCTurbo` uses `MaxBatch = 2` and `MaxDepth = 2`: a waiting handler
with a second one above it, which may wait too, and whose I/O may complete in either
order. Of the three DMA buffers two handlers may hold one each while failed reads use
up the third, and an allocation may fail at any time. The code has no such bound on
the nesting: two threads whose I/Os overlap alternately can nest handlers as deep as
they like, since a handler finishes only after those above it. Threads, messages and
DMA buffers are symmetric in the safety runs of `XpdkSystem`; the runs that check
temporal properties use no symmetry.

`MCLifecycle` makes two attempts at a start (`MaxInits`), enough for one to meet
what a failed or stopped one has left, and no call begins once `MaxSends` messages
have been sent on a ring: calls that have begun still come in front of and behind
SHUTDOWN, and an open is in the bdev layer when SHUTDOWN is taken. `MCBatch` submits three operations to a context of
two: the queues fill, an entry is reused, and two completions can be swapped.
`MCBlocks` has two blocks of two bytes and sizes modulo 8: requests cover a block, a
part of one, parts of two, no byte (a trim), more bytes than the width, and more
blocks than it (a trim); the one reader and the one writer overlap in every way, and
one trim per client may be outstanding.

`CHECK_DEADLOCK FALSE` appears where the system really may stop: faults and bad
descriptors lose messages and buffers until nothing is left to do (`MCTurbo`,
`MCFaults`), attempts and operations are used up or the process is dead
(`MCLifecycle`, `MCBatch`), or what follows is undefined (`MCBlocks`).

Which faults and calls a run allows is part of the question. `NoLostRequest` and the
`...Delivers` properties hold only without the faults or the alignment that the
violation runs add; `NoSlotLeak` only without the two failures of an open's
completion, which `MCDevices` has; `NoBufferLeak` only without a synchronous unaligned
read that fails, so `MCFaults` has every fault of I/O and no synchronous read. The
exceptions in `NoUseAfterFree`, `HandledOnce`, `ServedBeforeShutdown`, `InitEnds`,
`ReportedOnce` and `LinearBufferFreed` are of the same kind: the run explores the
behaviour, and the property says what holds without it.

## Fairness

`FairSpec` adds weak fairness of `SpdkThread` (the main loop polls as long as it
runs, and a handler that waits polls too), of `BdevCompletes(m)` for every message
(the bdev layer completes what it accepted), and of `CallStep(c)` (a thread inside
a call is scheduled). Nothing obliges the application to make calls, and trims are
under no fairness since nobody waits for them. `MCLiveness` lets operations
complete with errors; refused submissions are excluded because of
`VLostRequest`.

`XpdkLifecycle` has weak fairness of each SPDK thread and of each thread inside a
call: the operating system runs both. The bdev layer has no fairness of its own there:
completions are steps of the thread that polls, and since a ring takes only so many
messages (`MaxSends`), a thread that goes on polling comes to all of them.
`XpdkBatch` has weak fairness of threads
inside a call and of every accepted operation's completion, which is what
`XpdkAsync` promises. A sleeping `xpdk_batch_cleanup` is woken only by a signal; a
spurious wakeup would find the same count and sleep again.
`BatchWaitEnds` is about a positive timeout; with `timeout_ms <= 0` the code never
gives up, and the loop may run forever.

## Refinement

`ImplementsAsync` maps the requests of `XpdkAsync` to messages: `answer` is the
same variable in both, a history of what the callback was told. What is checked is
that each transition of it, under every interleaving of handlers, completions,
frees and reuse of messages, is one the abstract machine allows, and that the
library's fairness implies that every accepted request is answered. The first half
is also proved for every instance (`LibraryImplementsAsync`); the second needs
fairness and stays with `MCLiveness`. The proof holds under every fault, so it does
not exclude a request that is never answered: one that fails before submission
stays owed (`VLostRequest`), and `Restart` of `XpdkAsync` forgets it. In `MCLiveness`
no request fails so and, by `NoLostRequest`, a restart finds none owed.

`ImplementsDisk` maps each call to its stage (called, done, returned, lost) and to
the bytes it carries, which sit in the DMA buffer, the linear buffer or the
application's fragments depending on how far the call is. The instant at which a
call takes effect is the bdev's transfer. A call whose outcome is undefined (an
overrun, a late copy into a buffer whose call has returned) is mapped to one that
is called or returned, and is not continued. `DataPathImplementsDisk` proves it for
every instance.

`XpdkBatch` is built on `XpdkAsync`, not on `XpdkSystem`. Two theorems close the gap
between the modules: the library implements `XpdkAsync` (`LibraryImplementsAsync`), and
a batch context takes only its steps (`ContextUsesAsync`).

## Disagreements with docs, comments and tests

Five are runs that TLC finds violated; `findings` in `PROJECT.json` has the quotes.

| run | what the code does |
|---|---|
| `VLostRequest` | an asynchronous request that fails before submission is never answered and its message never freed |
| `VUnalignedRead` | `xpdk_read` into an unaligned buffer may return before the data is copied |
| `VTrimRace` | trim may submit to a slot whose open has not completed |
| `VBatchOverrun` | a batch context takes operations its completed queue has no room for |
| `VOpenShutdown` | an open that is in the bdev layer when the SPDK thread takes SHUTDOWN is never answered: the loop ends with that poll (`xpdk_core.c:188`), and the caller spins on memory of a pool that is then freed |

The others are in the models too, as what the actions do or as a condition a
property needs, without a run of their own:

* `xpdk_batch_submit` performs nothing: its message type has no case in the poller
  (`xpdk_core.c:143`). The runs that check `AsyncAnswered` leave the call out.
* An open that completes with an error keeps its slot (`xpdk_bdev.c:60`), so
  `NoSlotLeak` is checked without the fault "open_status".
* Trim and write-zeros report success when submitted; `README.md:592` prints
  "TRIM operation completed successfully". `XpdkDisk` lets them take effect late.
* `xpdk_read_async` into an unaligned buffer never copies the data
  (`async_io_completion_cb` adds only aligned buffers to `filled`).
* An unaligned synchronous read that fails keeps its DMA buffer (`FinishWait`), and
  a refused asynchronous vectored call keeps its linear buffer and its context.
* An offset inside a block is rounded down, and a write that ends inside a block
  fills the rest of it with zeros: only *sure* requests are like `pread` and
  `pwrite`.
* The write permission test `flags & O_RDONLY` never holds
  (`xpdk_spdk_handle_write` has no such guard).
* Once lost requests have emptied the pool, `xpdk_cleanup` cannot send SHUTDOWN and
  joins a thread that keeps running (`xpdk_cleanup_spdk_thread`).
* `xpdk_init_opts` waits forever for an SPDK thread that gave up before its loop
  (the exception in `InitEnds`).
* A message behind SHUTDOWN is never handled and its sender never returns, and
  `xpdk_poll` is a second consumer of a ring made for one ("stop" and "poll" in
  `races`).
* A batch completion is credited to the oldest entry, a refused submission removes
  the newest, and a completion that arrives during a callback of
  `xpdk_batch_process_completions` shifts its index ("tangled" in `ReportedOnce`).
  Without a `global_callback` completed entries are dropped unreported.

## Proofs

TLAPS proves, for all values of the constants that satisfy the named assumptions,
each theorem `Spec => []P` or, for action properties, `Spec => P`:

| theorem | property | needs besides |
|---|---|---|
| **XpdkSystem** | | any threads, messages, buffers, slots, capacity, batch size, nesting depth, polling mode and faults |
| `TypesHold` | `TypeOK` | |
| `MessageInvariant`, `MessagesHaveOneOwner`, `CallsAreNotStranded` | `MessageInv`, `OneOwner`, `NoStrandedCall` | |
| `AnswerInvariant`, `CallbacksAreCalledOnce` | `AnswerInv`, `AnsweredOnce` | |
| `LibraryImplementsAsync` | `Async!Spec`, the safety part of `ImplementsAsync` | |
| `DeviceInvariant`, `DescriptorsAreSound`, `DescriptorsAreNotLeaked` | `DeviceInv`, `FdTable`, `NoDescriptorLeak` | |
| `SlotsAreNotLeaked` | `NoSlotLeak` | no fault "open_status" or "no_channel" |
| `IoInvariant`, `CompletionsFindTheirHandler`, `BuffersAreSafe` | `IoInv`, `SyncContextAlive`, `BufferSafe` | |
| `BuffersAreNotLeaked` | `NoBufferLeak` | no fault "io" |
| `ReadsDeliver`, `AsyncReadsDeliver` | `SyncReadDelivers`, `AsyncReadDelivers` | aligned buffers only |
| `UseInvariant` | `UseInv` | `FinishFirst` |
| `TrimsFindTheirDevice` | `TrimHasDescriptor` | `FinishFirst`; `FdArgs` names no slot of the table |
| `RequestsAreNotLost` | `NoLostRequest` | `FinishFirst`, `NothingRefused`, `MemoryLeft` |
| `AlignedReadsAreNotLost` | `LossInv`, and so `NoLostRequest` | `NothingRefused`; asynchronous calls are aligned reads, nothing is closed but by `xpdk_cleanup` |
| **XpdkLifecycle** | | any threads, attempts, calls, timeouts and failures of the start |
| `LifecycleInvariant`, `NothingIsUsedAfterFree`, `InitializedMeansWorking`, `NothingIsLeftBehind`, `MessagesAreHandledOnce` | `LifecycleInv`, `NoUseAfterFree`, `InitializedWorks`, `NothingLeftBehind`, `HandledOnce` | |
| **XpdkBatch** | | any finite sets of threads and operations, any capacity the code accepts |
| `PendingInvariant`, `PendingCountIsRight`, `ContextOutlivesOperations` | `PendingInv`, `PendingCounts`, `NoCallbackAfterFree` | |
| `ReportInvariant`, `OperationsAreReportedOnce` | `ReportInv`, `ReportedOnce` | |
| `ContextUsesAsync` | `Async!Spec` | |
| `WritesStayInTheQueue` | `NoOverrun` | `RoomFirst`, `OneAtATime` |
| **XpdkBlocks** | | any clients, requests, device size, block size, integer width and faults |
| `BlocksInvariant`, `CopiesStayInside`, `LinearBuffersAreFreed` | `BlocksInv`, `NoOverrunBelow4GiB`, `LinearBufferFreed` | |
| `OnlyTouchedBlocksChange` | `OnlyItsBlocks` | |
| `DataPathImplementsDisk` | `ImplementsDisk` | |

The hypotheses in the last column are those the code needs: each is the absence of
a behaviour listed under
[disagreements](#disagreements-with-docs-comments-and-tests) that breaks the
property, or a rule the application must keep because the library does not:

* `FinishFirst` (every step): a descriptor is closed only when the requests made on
  it have reached their handlers. Without it a request is handled on a slot that is
  free, or claimed by an open that has not completed (`VTrimRace`).
* `NothingRefused` (constants): no descriptor that is not open, no
  `xpdk_batch_submit`, which has no handler, no fault "submit" or "dma", no mode that
  forbids the asynchronous I/O. I/O and opens may complete with errors. `MemoryLeft`
  (every state): DMA memory is not used up, unless no asynchronous call needs any.
  Each of them is a way into an early return of a handler (`VLostRequest`).
* `RoomFirst` (every step): an operation is submitted to a batch context only while
  pending and completed ones leave room for it (`VBatchOverrun`). `OneAtATime` (every
  state): one thread at a time takes completions. Two that take the last entry at
  once decrement `completed_ios` below zero, and the callback writes in front of the
  array.

With `FinishFirst`, `MemoryLeft`, `RoomFirst` and `OneAtATime` as conjuncts of the
next-state relation TLC finds the inductive invariants to hold, and without any one
of them the property to fail. A configuration cannot state such conjuncts, so the
runs kept here are those of what holds without them (`LossInv` in `MCLiveness`) and
of what breaks (the violation runs).

Of the copies between an iov array and the linear buffer, for any number of
fragments of any sizes:

* `GatherKeepsOrder`: `iovec_to_buffer` fills a buffer of the total size, each
  fragment's bytes behind those of the fragments before it
* `ScatterGather`: gathering what `buffer_to_iovec` scattered gives the buffer back

And of the arithmetic itself, for any offset and count:

* `DmaHoldsRequest`: the DMA buffer holds the request and is less than a block
  larger, if the rounded count fits the width (`Narrow`)
* `BlocksWithinRequest`: the blocks transferred lie within those the request touches,
  whether or not anything is aligned or truncated
* `AlignedIsExact`: an aligned request that fits transfers exactly its bytes

Assumptions on constants: capacities, batch size and depth are positive; threads,
messages, attempts and NULL are distinct; a batch context has 1 to 1024 entries, as
`xpdk_batch_init` demands; a read or write has at least one byte, as the calls
demand; the block size is positive and itself fits the width.

### The arguments

*Types and messages.* `TypeOK` needs `CallShape` (a thread has a message exactly
while it sends or waits) and `LoopQuota` (a poller invocation whose quota is used up
has returned; otherwise a quota could fall below zero); together they are
`TypeInv`, which is inductive. `OneOwner` and `NoStrandedCall` need three more facts:
`CallFresh` (a message not yet sent is not completed, and the one waited for has
no callback, so no completion callback frees it), `CleanupAlone` (during
`xpdk_cleanup` its own messages are the only traffic, so freeing ring and pool
strands nobody) and `DownIsQuiet` (a library that is not initialized has nothing
queued, so `xpdk_init_opts` may fill the pool). Their conjunction is `MessageInv`.

*Answers.* `AnsweredOnce` needs `MessageInv` and `HeldUnanswered`: the message a call
is about to send, or waits for, has had no callback called. With it (`AnswerInv`), an
allocation finds a message that is owed no answer, a send one that was never
answered, and a completion callback one that is owed its answer, so each is a step
of `XpdkAsync`; every other step leaves the answers alone.

*Lost requests* (`LossInv`). A request is lost in an early return of a handler, so what
must be known is what a handler finds. `RequestsReady` says it of every request that
has not reached its handler (`Ahead`): its descriptor is one the application has open
or passes without having opened it, and if it has a callback, a call with a callback
made it. `ModesKept` says that every device was opened with a mode
the application asked for. With `DeviceInv`, the slot is complete and its mode allows
the I/O, so the handler submits. `FinishFirst` is needed because the descriptor is
given up when the close is called and its slot goes when the close is handled: the
request may be behind it in the ring.

*Slots* (`DeviceInv`). A slot is released by the handler of a close, long after the
application gave the descriptor up. `ClosingOwnsSlot` says that until then the slot
stays complete, that no other close aims at it and that no open has claimed it.
`SlotsOwned` says who answers for a slot: the application, an open that has claimed it
or a close not yet handled; it is what `NoDescriptorLeak` and `NoSlotLeak` follow
from. That an open's completion comes while its caller still waits, so that its claim
counts, is `RequestShape` with `SyncWaited`. The sweep of `xpdk_cleanup` is outside
`InUse` and needs `CleanupAlone` and `NothingHeld`.

*Handlers and buffers* (`IoInv`). `FrameShape` says that a waiting handler's message is
in the bdev layer, that `msg->ctx` is the buffer in the handler's frame, and that no
two frames wait for one message. With `SyncContextAlive` it makes waiting frames and
pending synchronous I/O one to one, at every depth, which is why the completion
of a handler far down the stack writes to that one. `BufferUsers` separates the users
of a buffer: an I/O and a frame share one only if the frame waits for that I/O. The
frame outlives its message, which the caller frees and reuses once `completed` is
set; the invariant says nothing of a frame's message after that, and nothing is
needed. `ReadBuffer` and `ReadFilled` follow a read from its call to its return.

*Start and shutdown* (`LifecycleInv`). As long as no thread has used memory that is
gone (`Sound`; the model goes no further then), pointers in `g_xpdk_ctx` belong to the
last attempt (`PointersCurrent`), a start is alone and its progress is known
(`StartingAlone`), and whatever exists is in use or has a thread on its way to the
join that releases it (`WillBeReleased`). `Disciplined` adds what an
application that obeys the rules may rely on, `OneConsumer` what a ring with one
consumer does: entries behind the head are unhandled messages of threads that wait,
and what the bdev layer owes was handled once, is owed once, and has its thread
waiting. So a completion writes to a message of its own, in a pool that is there;
with a second consumer it may come to a client that polls a stopped library, which
is one of the races `NoUseAfterFree` excepts.

*Batches.* The pending count needs that a context which is not there has nothing
pending, and that `xpdk_batch_cleanup` is alone on its context (`PendingInv`). Each
step then changes both sides of the sum alike; that the callback finds an entry,
and a refused submission one to drop, follows from the sum. The reports
(`ReportInv`) need where the waiting entries are at each point where the lock is
dropped: from the index `processed` on while a thread takes them, with the entry at
that index reported already between its callback and the lock, and from 0 on
otherwise; the `memmove` at the end of the loop takes them from the one to the other.
`RoomInv` adds to both that pending and completed operations together fit `max_ios`,
and that a thread in the loop has a callback to call and an entry to take; so the
callback, which moves an entry from one queue to the other, finds a free cell.

*Blocks* (`BlocksInv`). The invariant of a step that moves one client depends on that
client's values only, so one lemma (`OneClient`) carries all steps. `NoOverrunBelow4GiB`
then is `DmaHoldsRequest`, and `OnlyItsBlocks` is `BlocksWithinRequest`. The refinement
also needs where the bytes are: `WriteCarried` says that the bytes of a write a handler
has accepted are those of the call, wherever they have got to, and `SureReadDirect`
that a sure read goes straight to the caller's or the linear buffer. Each step is then shown
to be one of `XpdkDisk` or to leave alone what `XpdkDisk` sees. The scatter at
the end of a vectored read leaves it alone because of `ScatterGather`, which is
proved by induction over the fragments.

Each inductive invariant is also an invariant of a run (`UseInv` and `AnswerInv` as
parts of `LossInv`), but for `RoomInv`, which needs the two rules.

### Layout

`XpdkHandlerProof` has what the proofs about `XpdkSystem` share: facts about
sequences, the requests calls make, and what the poller and the handlers do to the
message at hand. A handler that waits replies or submits, never both and never
neither (`HandleIoOutcome`). `XpdkMessageProof` proves types and `MessageInv` with
three frame lemmas: a step that leaves the messages alone, one that allocates, one
that ends a call. `XpdkDeviceProof` and `XpdkIoProof` show for each action that it
keeps what `DeviceInv` and `IoInv` say of slots, and of frames and buffers; they take
`MessageInv` before and after the step as given. `XpdkSystemProof` discharges that
with `MessageInvariant` and states the theorems. It also has, for each action, that it
keeps `AnswerInv` and which step of `XpdkAsync` it is, and that it keeps `UseInv` and
`LossInv` under their hypotheses. `XpdkLifecycleProof`,
`XpdkBatchProof` and `XpdkBlocksProof` have one lemma per action or group of actions,
and the frame lemmas these share.

### Only model-checked

Liveness, out of the prover's reach: `SyncCallReturns`, `AsyncAnswered`, both
`CleanupEnds`, `InitEnds`, `ServedBeforeShutdown`, `BatchWaitEnds`, and the fairness in
`ImplementsAsync`. What each rests on is proved: a caller waits for a message somebody
will complete (`CallsAreNotStranded`), a request stays on its way
(`RequestsAreNotLost`), the count a batch cleanup waits for is right
(`PendingCountIsRight`).

## Abstractions and assumptions

* In `XpdkSystem` the application behaves as the examples and tests do: it starts
  and cleans up the library while nothing else is in progress, and closes only
  descriptors it has. It may use a descriptor from any thread and pass descriptors
  that are not open (`FdArgs`). User callbacks make no calls. `XpdkLifecycle` drops
  the first of these conventions, but for two starts at the same time.
* Calls refused before they allocate a message (not initialized, NULL arguments,
  empty pool) change no state and have no action.
* SPDK is external. `spdk_bdev_open_ext` is modelled as the code uses it, with a
  completion callback; `Faults` says what may fail. A timed poller is not run again
  while it runs, an untimed one is (`Reentrant`). The bdev layer refuses writes
  through a descriptor opened without write access. I/O in the bdev layer when its
  descriptor is closed still completes.
* A trim of a slot without a bdev descriptor is modelled as refused; what SPDK
  really does with NULL is not.
* The stores of one handler become visible to the caller in order.
* `dev->bdev` is set with `in_use`, never cleared before it, and left out; so are counters that
  are only printed, names, limits, and the statistics themselves. In `XpdkSystem`
  offsets and counts are reduced to aligned or not; `XpdkBlocks` has them.
  `XPDK_MSG_READV` and `XPDK_MSG_WRITEV` are never sent.
* In `XpdkSystem` `xpdk_init_opts` is one successful step: under the convention
  above nothing can run meanwhile. For the same reason the test of
  `spdk_thread_running` in `xpdk_cleanup_spdk_thread` always passes there.
* In `XpdkLifecycle` a request is an "OPEN" (an open or a QoS change), which the bdev
  layer may answer later, or a "call", answered when its handler returns: a handler of
  I/O polls until its own I/O is done. What else handlers do, a full ring and an empty
  pool are in `XpdkSystem`, where `xpdk_cleanup` finds no open in progress.
* In `XpdkBatch` an operation is submitted to one context, and
  `xpdk_batch_cleanup` is called when no other call on the context is in progress.
  A context written outside its arrays is `corrupt` and says nothing more.
* In `XpdkBlocks` messages are handled in any order, which includes the ring's; the
  application keeps its iov array, and the buffer of a plain asynchronous write,
  until the callback; the linear buffer of a vectored call, which is aligned to 4096, is
  aligned to the block size, as it is for block sizes that divide 4096; a failed transfer may or may not have taken effect; and
  `spdk_dma_malloc` of zero bytes returns NULL.
* The error codes of `include/xpdk.h:16-24` are garbled in the source; the values
  of `README.md:151-156` are assumed. Only their names matter here.

## Not modelled

* The counters and rates of `xpdk_perf.c`: `xpdk_perf_stats_update` has no caller,
  so no I/O changes them. Their get and reset messages are modelled.
* `xpdk_spdk_handle_batch_submit`, which has no caller.
* Two concurrent calls of `xpdk_init`: both find `initialized` false and the second
  clears the context under the first; nothing after that is defined.
* User callbacks that call the library. A synchronous call from one waits, outside
  turbo mode, for a message only its own thread can handle.
* Memory ordering: `completed` is volatile and not atomic.
* The depth of the C stack in turbo mode.
* Options, CPU affinity, sleeping, printing and error strings; the examples and
  tests, which are clients of the library.
