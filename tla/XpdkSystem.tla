----------------------------- MODULE XpdkSystem -----------------------------
(***************************************************************************)
(* The library at work: application threads that call the API, the SPDK    *)
(* thread that polls the ring and runs the handlers, the bdev layer that   *)
(* completes operations, and the start and the shutdown of the library.    *)
(*                                                                         *)
(* A call of the API is three steps of its thread: it allocates and fills  *)
(* a message, it enqueues the message (or finds the ring full), and, if    *)
(* the call is synchronous, it reads the answer once msg->completed is     *)
(* set.  Calls that are refused before they allocate a message (library    *)
(* not initialized, a NULL or empty argument, an empty pool) change no     *)
(* state and have no action.                                               *)
(*                                                                         *)
(* The application uses the library as its examples and tests do: it       *)
(* starts and cleans up the library while no other call is in progress and *)
(* no request is queued or in the bdev layer, it closes only descriptors   *)
(* it has open, and it may use any open descriptor from any thread.        *)
(***************************************************************************)
EXTENDS XpdkIo

CONSTANTS
    Ops,        \* the API functions the application calls
    FdArgs,     \* descriptors it passes although it has not opened them
    Modes,      \* the access modes it opens devices with
    Found,      \* whether the devices it names exist
    Alignments  \* whether its buffers are block aligned

ASSUME SystemAssumption ==
    /\ FdArgs \subseteq Fds \cup {NoFd}
    /\ Modes \subseteq AccessModes
    /\ Found \subseteq BOOLEAN
    /\ Alignments \subseteq BOOLEAN

VARIABLES
    pc,           \* per thread: where it is in its call
    cur,          \* per thread: the message of its call
    scan,         \* per thread: the next slot xpdk_cleanup looks at; NoFd outside it
    held,         \* the descriptors the application has open
    initialized,  \* g_xpdk_ctx.initialized
    running,      \* g_xpdk_ctx.spdk_thread_running
    exited        \* the SPDK thread has left its main loop

appVars  == <<pc, cur, scan, held>>
lifeVars == <<initialized, running, exited>>
vars     == <<msgVars, devVars, ioVars, appVars, lifeVars>>

-----------------------------------------------------------------------------
(***************************************************************************)
(* The start of a call: xpdk_msg_alloc and the stores that fill in the     *)
(* request.  The memset of the allocation also clears the fields handlers  *)
(* set.                                                                    *)
(***************************************************************************)
NewMessage(c, m, r) ==
    /\ xpdk_msg_alloc(m, r)
    /\ result_fd' = [result_fd EXCEPT ![m] = 0]
    /\ ctx' = [ctx EXCEPT ![m] = NoMsg]
    /\ answer' = [answer EXCEPT ![m] = "none"]
    /\ cur' = [cur EXCEPT ![c] = m]
    /\ pc' = [pc EXCEPT ![c] = "send"]
    /\ filled' = filled \ {r.buffer}
    /\ UNCHANGED <<ring, devices, pending, unmapping, stack, dma, lifeVars>>

StartCall(c, m, r) ==
    /\ pc[c] = "idle"
    /\ initialized
    /\ \A d \in Clients : scan[d] = NoFd
    /\ NewMessage(c, m, r)
    /\ UNCHANGED scan

\* The descriptors a call may be given.
UsedFds == held \cup FdArgs

xpdk_open(c) ==
    /\ "open" \in Ops
    /\ \E m \in pool, mode \in Modes, found \in Found :
         StartCall(c, m, [Blank("OPEN") EXCEPT !.flags = mode, !.found = found])
    /\ UNCHANGED held

\* The application gives the descriptor up with the call.
xpdk_close(c) ==
    /\ "close" \in Ops
    /\ \E m \in pool, fd \in held \cup (FdArgs \ Fds) :
         /\ StartCall(c, m, [Blank("CLOSE") EXCEPT !.fd = fd])
         /\ held' = held \ {fd}

\* A call that takes a descriptor and is answered synchronously.
CallOnFd(c, op, type) ==
    /\ op \in Ops
    /\ \E m \in pool, fd \in UsedFds : StartCall(c, m, [Blank(type) EXCEPT !.fd = fd])
    /\ UNCHANGED held

xpdk_list_bdevs(c) ==
    /\ "list_bdevs" \in Ops
    /\ \E m \in pool : StartCall(c, m, Blank("LIST_BDEVS"))
    /\ UNCHANGED held

xpdk_get_info(c) == CallOnFd(c, "get_info", "GET_INFO")

xpdk_flush(c) == CallOnFd(c, "flush", "FLUSH")

xpdk_qos_set_rate_limits(c) == CallOnFd(c, "qos_set", "QOS_SET_LIMITS")

xpdk_qos_get_rate_limits(c) == CallOnFd(c, "qos_get", "QOS_GET_LIMITS")

xpdk_get_perf_stats(c) == CallOnFd(c, "get_perf_stats", "GET_PERF_STATS")

xpdk_reset_perf_stats(c) == CallOnFd(c, "reset_perf_stats", "RESET_PERF_STATS")

xpdk_trim(c) == CallOnFd(c, "trim", "TRIM")

xpdk_write_zeros(c) == CallOnFd(c, "write_zeros", "WRITE_ZEROS")

\* An I/O: a synchronous one uses the thread's buffer, any other a buffer of its own.
CallIo(c, op, type, callback) ==
    /\ op \in Ops
    /\ \E m \in pool, fd \in UsedFds, aligned \in Alignments :
         StartCall(c, m, [Blank(type) EXCEPT !.fd = fd, !.aligned = aligned,
                                             !.callback = callback,
                                             !.buffer = IF callback THEN m ELSE c])
    /\ UNCHANGED held

xpdk_read(c) == CallIo(c, "read", "READ", FALSE)

xpdk_write(c) == CallIo(c, "write", "WRITE", FALSE)

xpdk_read_async(c) == CallIo(c, "read_async", "READ", TRUE)

xpdk_write_async(c) == CallIo(c, "write_async", "WRITE", TRUE)

\* The batch of operations itself is not looked at: no handler receives it.
xpdk_batch_submit(c) ==
    /\ "batch_submit" \in Ops
    /\ \E m \in pool : StartCall(c, m, [Blank("BATCH_SUBMIT") EXCEPT !.callback = TRUE])
    /\ UNCHANGED held

-----------------------------------------------------------------------------
\* Where a thread goes when its call is over: xpdk_cleanup goes on with its work.
Resume(c) ==
    IF scan[c] = NoFd THEN "idle"
    ELSE IF req[cur[c]].type = "SHUTDOWN" THEN "join" ELSE "scan"

EndCall(c) ==
    /\ xpdk_msg_free(cur[c])
    /\ cur' = [cur EXCEPT ![c] = NoMsg]
    /\ pc' = [pc EXCEPT ![c] = Resume(c)]

\* Mutant: the result of the enqueue is not looked at.
SendUnchecked(c) ==
    /\ pc[c] = "send"
    /\ ~req[cur[c]].callback
    /\ ring' = Append(ring, cur[c])
    /\ pc' = [pc EXCEPT ![c] = "wait"]
    /\ UNCHANGED <<pool, req, status, completed, devVars, ioVars, cur, scan, held, lifeVars>>

\* xpdk_msg_send_sync up to its wait.
xpdk_msg_send_sync(c) ==
    /\ pc[c] = "send"
    /\ ~req[cur[c]].callback
    /\ spdk_ring_enqueue(cur[c])
    /\ pc' = [pc EXCEPT ![c] = "wait"]
    /\ UNCHANGED <<pool, req, status, completed, devVars, ioVars, cur, scan, held, lifeVars>>

\* Mutant: the caller frees the message it has just sent.
SendAndFree(c) ==
    /\ pc[c] = "send"
    /\ req[cur[c]].callback
    /\ spdk_ring_enqueue(cur[c])
    /\ answer' = [answer EXCEPT ![cur[c]] = "owed"]
    /\ pc' = [pc EXCEPT ![c] = "idle"]
    /\ cur' = [cur EXCEPT ![c] = NoMsg]
    /\ xpdk_msg_free(cur[c])
    /\ UNCHANGED <<req, status, completed, devVars, stack, dma, ctx, filled,
                   scan, held, lifeVars>>

\* xpdk_msg_send_async: the call returns and the message is on its own.
xpdk_msg_send_async(c) ==
    /\ pc[c] = "send"
    /\ req[cur[c]].callback
    /\ spdk_ring_enqueue(cur[c])
    /\ answer' = [answer EXCEPT ![cur[c]] = "owed"]
    /\ pc' = [pc EXCEPT ![c] = "idle"]
    /\ cur' = [cur EXCEPT ![c] = NoMsg]
    /\ UNCHANGED <<pool, req, status, completed, devVars, stack, dma, ctx, filled,
                   scan, held, lifeVars>>

\* The ring is full: the call frees its message and returns XPDK_ERROR_BUSY.
SendBusy(c) ==
    /\ pc[c] = "send"
    /\ RingFull
    /\ EndCall(c)
    /\ held' = IF req[cur[c]].type = "CLOSE" /\ scan[c] = NoFd
               THEN held \cup ({req[cur[c]].fd} \cap Fds) ELSE held
    /\ UNCHANGED <<ring, req, status, completed, devVars, ioVars, scan, lifeVars>>

\* Mutant: the wait gives up before the message is completed.
ReturnEarly(c) ==
    /\ pc[c] = "wait"
    /\ EndCall(c)
    /\ held' = IF req[cur[c]].type = "OPEN" /\ status[cur[c]] = "SUCCESS"
               THEN held \cup {result_fd[cur[c]]} ELSE held
    /\ UNCHANGED <<ring, req, status, completed, devVars, ioVars, scan, lifeVars>>

\* The wait of xpdk_msg_send_sync ends; the caller reads the answer, frees the message.
ReturnSync(c) ==
    /\ pc[c] = "wait"
    /\ completed[cur[c]]
    /\ EndCall(c)
    /\ held' = IF req[cur[c]].type = "OPEN" /\ status[cur[c]] = "SUCCESS"
               THEN held \cup {result_fd[cur[c]]} ELSE held
    /\ UNCHANGED <<ring, req, status, completed, devVars, ioVars, scan, lifeVars>>

-----------------------------------------------------------------------------
\* The poller dequeues a message: from the main loop, from its own loop, or from
\* a waiting handler's spdk_thread_poll, which may still run it after the
\* completion it waited for has arrived in the same call.
CanDequeue ==
    /\ ring # <<>>
    /\ \/ stack = <<>> /\ running
       \/ InLoop
       \/ InWait /\ Reentrant /\ Len(stack) < MaxDepth

\* The handlers that return to the poller without waiting.
HandleDevice(m) ==
    \/ req[m].type = "OPEN" /\ xpdk_spdk_handle_open(m)
    \/ req[m].type = "CLOSE" /\ xpdk_spdk_handle_close(m)
    \/ req[m].type = "LIST_BDEVS" /\ xpdk_spdk_handle_list_bdevs(m)
    \/ req[m].type = "GET_INFO" /\ xpdk_spdk_handle_get_info(m)
    \/ req[m].type = "QOS_SET_LIMITS" /\ xpdk_spdk_handle_qos_set_limits(m)
    \/ req[m].type = "QOS_GET_LIMITS" /\ xpdk_spdk_handle_qos_get_limits(m)
    \/ req[m].type = "GET_PERF_STATS" /\ xpdk_spdk_handle_get_perf_stats(m)
    \/ req[m].type = "RESET_PERF_STATS" /\ xpdk_spdk_handle_reset_perf_stats(m)
    \/ req[m].type = "TRIM" /\ xpdk_spdk_handle_trim(m)
    \/ req[m].type = "WRITE_ZEROS" /\ xpdk_spdk_handle_write_zeros(m)

HandleIo(m) ==
    \/ req[m].type = "READ" /\ xpdk_spdk_handle_read(m)
    \/ req[m].type = "WRITE" /\ xpdk_spdk_handle_write(m)
    \/ req[m].type = "FLUSH" /\ xpdk_spdk_handle_flush(m)

\* The default case of the switch; BATCH_SUBMIT is the type that ends up here.
HandleUnknown(m) ==
    /\ req[m].type = "BATCH_SUBMIT"
    /\ Reply(m, "INVALID")
    /\ UNCHANGED devVars

\* Mutant: SHUTDOWN does not complete its message.
ShutdownSilent(m) ==
    /\ req[m].type = "SHUTDOWN"
    /\ running' = FALSE
    /\ stack' = Below
    /\ UNCHANGED <<status, completed, devVars>>

\* Mutant: SHUTDOWN is answered and the thread keeps running.
ShutdownIgnored(m) ==
    /\ req[m].type = "SHUTDOWN"
    /\ completed' = [completed EXCEPT ![m] = TRUE]
    /\ stack' = Below
    /\ UNCHANGED <<running, status, devVars>>

\* SHUTDOWN makes the poller return at once, whatever its quota.
HandleShutdown(m) ==
    /\ req[m].type = "SHUTDOWN"
    /\ running' = FALSE
    /\ completed' = [completed EXCEPT ![m] = TRUE]
    /\ stack' = Below
    /\ UNCHANGED <<status, devVars>>

(***************************************************************************)
(* One turn of the loop in xpdk_msg_process_poller: dequeue and dispatch.  *)
(***************************************************************************)
xpdk_msg_process_poller ==
    LET m == Head(ring) IN
    /\ CanDequeue
    /\ ring' = Tail(ring)
    /\ \/ HandleIo(m) /\ UNCHANGED running
       \/ /\ HandleDevice(m) \/ HandleUnknown(m)
          /\ Returned
          /\ UNCHANGED <<running, dma, ctx, filled, answer>>
       \/ HandleShutdown(m) /\ UNCHANGED <<dma, ctx, filled, answer>>
    /\ UNCHANGED <<pool, req, appVars, initialized, exited>>

\* The loop of a poller invocation finds the ring empty and the poller returns.
PollerBreak ==
    /\ InLoop
    /\ ring = <<>>
    /\ stack' = Popped
    /\ UNCHANGED <<msgVars, devVars, dma, ctx, filled, answer, appVars, lifeVars>>

\* A synchronous handler leaves its wait.
HandlerFinish == FinishWait /\ UNCHANGED <<appVars, lifeVars>>

\* The main loop of xpdk_spdk_thread_main ends.
SpdkThreadExit ==
    /\ stack = <<>>
    /\ initialized /\ ~running /\ ~exited
    /\ exited' = TRUE
    /\ UNCHANGED <<msgVars, devVars, ioVars, appVars, initialized, running>>

SpdkThread ==
    xpdk_msg_process_poller \/ PollerBreak \/ HandlerFinish \/ SpdkThreadExit

(***************************************************************************)
(* Completions are delivered by spdk_thread_poll on the SPDK thread: from  *)
(* the main loop or from a waiting handler, never in the middle of the     *)
(* poller's loop, and never after the thread has exited.                   *)
(***************************************************************************)
Polls == initialized /\ ~exited /\ ~InLoop

BdevCompletes(m) ==
    /\ Polls
    /\ \/ /\ bdev_open_complete(m) \/ xpdk_qos_set_limits_complete(m)
          /\ UNCHANGED <<pool, ring, req, ioVars>>
       \/ sync_io_completion_cb(m)
       \/ async_io_completion_cb(m)
    /\ UNCHANGED <<appVars, lifeVars>>

BdevUnmaps(fd) ==
    /\ Polls
    /\ UnmapDone(fd)
    /\ UNCHANGED <<msgVars, ioVars, appVars, lifeVars>>

-----------------------------------------------------------------------------
\* No call is in progress and no request is queued or in the bdev layer.
Quiet ==
    /\ \A c \in Clients : pc[c] = "idle"
    /\ ring = <<>>
    /\ \A m \in Msgs : pending[m] = "none"

\* A successful xpdk_init_opts, as one step: nothing else can run meanwhile.
xpdk_init_opts ==
    /\ ~initialized
    /\ initialized' = TRUE
    /\ running' = TRUE
    /\ exited' = FALSE
    /\ pool' = Msgs
    /\ ring' = <<>>
    /\ devices' = [fd \in Fds |-> FreeSlot]
    /\ answer' = [m \in Msgs |-> "none"]
    /\ UNCHANGED <<req, status, completed, result_fd, pending, unmapping,
                   stack, dma, ctx, filled, appVars>>

\* xpdk_cleanup starts; the application has no descriptor from here on.
xpdk_cleanup(c) ==
    /\ "cleanup" \in Ops
    /\ initialized
    /\ Quiet
    /\ pc' = [pc EXCEPT ![c] = "scan"]
    /\ scan' = [scan EXCEPT ![c] = 0]
    /\ held' = {}
    /\ UNCHANGED <<msgVars, devVars, ioVars, cur, lifeVars>>

\* One turn of its loop over the slots; the result of xpdk_close is ignored.
CleanupDevice(c) ==
    LET fd == scan[c] IN
    /\ pc[c] = "scan"
    /\ fd < NumFds
    /\ scan' = [scan EXCEPT ![c] = fd + 1]
    /\ \/ /\ devices[fd].in_use
          /\ \E m \in pool : NewMessage(c, m, [Blank("CLOSE") EXCEPT !.fd = fd])
       \/ /\ ~devices[fd].in_use \/ pool = {}
          /\ UNCHANGED <<msgVars, devVars, ioVars, pc, cur, lifeVars>>
    /\ UNCHANGED held

\* xpdk_cleanup_spdk_thread sends SHUTDOWN if it gets a message for it.
xpdk_cleanup_spdk_thread(c) ==
    /\ pc[c] = "scan"
    /\ scan[c] = NumFds
    /\ \/ \E m \in pool : NewMessage(c, m, Blank("SHUTDOWN"))
       \/ /\ pool = {}
          /\ pc' = [pc EXCEPT ![c] = "join"]
          /\ UNCHANGED <<msgVars, devVars, ioVars, cur, lifeVars>>
    /\ UNCHANGED <<scan, held>>

\* pthread_join returns; the pool and the ring are freed and xpdk_cleanup ends.
CleanupJoin(c) ==
    /\ pc[c] = "join"
    /\ exited
    /\ pool' = {}
    /\ ring' = <<>>
    /\ initialized' = FALSE
    /\ pc' = [pc EXCEPT ![c] = "idle"]
    /\ scan' = [scan EXCEPT ![c] = NoFd]
    /\ UNCHANGED <<req, status, completed, devVars, ioVars, cur, held, running, exited>>

-----------------------------------------------------------------------------
Init ==
    /\ MsgInit /\ DeviceInit /\ IoInit
    /\ pc = [c \in Clients |-> "idle"]
    /\ cur = [c \in Clients |-> NoMsg]
    /\ scan = [c \in Clients |-> NoFd]
    /\ held = {}
    /\ initialized = FALSE
    /\ running = FALSE
    /\ exited = FALSE

\* The calls the application decides to make.
Calls(c) ==
    \/ xpdk_open(c) \/ xpdk_close(c) \/ xpdk_list_bdevs(c) \/ xpdk_get_info(c)
    \/ xpdk_read(c) \/ xpdk_write(c) \/ xpdk_flush(c)
    \/ xpdk_read_async(c) \/ xpdk_write_async(c) \/ xpdk_batch_submit(c)
    \/ xpdk_qos_set_rate_limits(c) \/ xpdk_qos_get_rate_limits(c)
    \/ xpdk_get_perf_stats(c) \/ xpdk_reset_perf_stats(c)
    \/ xpdk_trim(c) \/ xpdk_write_zeros(c) \/ xpdk_cleanup(c)

\* The steps of a call that has been made.
CallStep(c) ==
    \/ xpdk_msg_send_sync(c) \/ xpdk_msg_send_async(c) \/ SendBusy(c) \/ ReturnSync(c)
    \/ CleanupDevice(c) \/ xpdk_cleanup_spdk_thread(c) \/ CleanupJoin(c)

Next ==
    \/ xpdk_init_opts
    \/ \E c \in Clients : Calls(c) \/ CallStep(c)
    \/ SpdkThread
    \/ \E m \in Msgs : BdevCompletes(m)
    \/ \E fd \in Fds : BdevUnmaps(fd)

Spec == Init /\ [][Next]_vars

(***************************************************************************)
(* A thread inside a call keeps running, the SPDK thread keeps polling     *)
(* while its loop runs, and the bdev layer completes what it accepted.     *)
(* Nothing obliges the application to make another call.                   *)
(***************************************************************************)
FairSpec ==
    /\ Spec
    /\ WF_vars(SpdkThread)
    /\ \A c \in Clients : WF_vars(CallStep(c))
    /\ \A m \in Msgs : WF_vars(BdevCompletes(m))

-----------------------------------------------------------------------------
(***************************************************************************)
(* Type invariant.                                                         *)
(***************************************************************************)
TypeOK ==
    /\ MsgTypeOK /\ DeviceTypeOK /\ IoTypeOK
    /\ pc \in [Clients -> {"idle", "send", "wait", "scan", "join"}]
    /\ cur \in [Clients -> Msgs \cup {NoMsg}]
    /\ scan \in [Clients -> -1 .. NumFds]
    /\ held \subseteq Fds
    /\ initialized \in BOOLEAN
    /\ running \in BOOLEAN
    /\ exited \in BOOLEAN

\* The message is in the ring, or the bdev layer holds an operation for it.
InRing(m) == \E i \in 1 .. Len(ring) : ring[i] = m

InFlight(m) == InRing(m) \/ pending[m] # "none"

(***************************************************************************)
(* A message is in one place at a time.  What waits in the ring, what the  *)
(* bdev layer works on and what a call holds is never in the pool, so no   *)
(* message is freed twice, handed out while in use or queued twice, and    *)
(* nothing in flight is already marked completed.  The code has no         *)
(* reference counts: this rests on every path through the API functions,   *)
(* the handlers and the callbacks freeing exactly once.                    *)
(***************************************************************************)
RingOwnsMessage ==
    \A i \in 1 .. Len(ring) :
      /\ ring[i] \notin pool
      /\ pending[ring[i]] = "none"
      /\ ~completed[ring[i]]
      /\ \A j \in 1 .. Len(ring) : ring[j] = ring[i] => j = i

BdevOwnsMessage ==
    \A m \in Msgs : pending[m] # "none" => m \notin pool /\ ~completed[m]

CallOwnsMessage ==
    \A c \in Clients : cur[c] # NoMsg =>
      /\ cur[c] \notin pool
      /\ \A d \in Clients : cur[d] = cur[c] => d = c
      /\ pc[c] = "send" => ~InFlight(cur[c])

OneOwner == RingOwnsMessage /\ BdevOwnsMessage /\ CallOwnsMessage

(***************************************************************************)
(* A thread that waits in xpdk_msg_send_sync waits for something: its      *)
(* message is completed, queued, or in the bdev layer.  No handler and no  *)
(* error path drops the message of a synchronous call.                     *)
(***************************************************************************)
NoStrandedCall ==
    \A c \in Clients : pc[c] = "wait" => completed[cur[c]] \/ InFlight(cur[c])

(***************************************************************************)
(* sync_io_completion_cb gets a pointer into the stack of the handler that *)
(* submitted the I/O.  Whenever such a completion can arrive that handler  *)
(* is still waiting, and it is the only one waiting for this message.      *)
(***************************************************************************)
SyncContextAlive ==
    \A m \in Msgs : pending[m] = "io" /\ ~req[m].callback =>
      \E i \in DOMAIN stack :
        /\ stack[i].msg = m /\ ~stack[i].done
        /\ \A j \in DOMAIN stack : stack[j].msg = m /\ ~stack[j].done => j = i

(***************************************************************************)
(* A request with a callback is not answered while it is in flight, and a  *)
(* message does not go back to the pool before its sender was answered:    *)
(* the callback is called at most once, and never skipped by a free.       *)
(***************************************************************************)
AnsweredOnce ==
    \A m \in Msgs :
      /\ InFlight(m) /\ req[m].callback => answer[m] = "owed"
      /\ m \in pool => answer[m] # "owed"

(***************************************************************************)
(* xpdk_async.c says of an accepted request "Message will be freed by      *)
(* completion callback": as long as its answer is owed, the message is     *)
(* still on its way to one.                                                *)
(***************************************************************************)
NoLostRequest ==
    \A m \in Msgs : answer[m] = "owed" => InFlight(m)

-----------------------------------------------------------------------------
(***************************************************************************)
(* The device table.  A descriptor the application has open stands for a   *)
(* slot with a bdev descriptor and a channel.                              *)
(***************************************************************************)
HeldIsOpen ==
    \A fd \in held : devices[fd].in_use /\ devices[fd].desc /\ devices[fd].channel

\* The thread's open has claimed a slot, and is under way or has succeeded.
Opening(c) ==
    /\ pc[c] = "wait"
    /\ req[cur[c]].type = "OPEN"
    /\ pending[cur[c]] = "open" \/ (completed[cur[c]] /\ status[cur[c]] = "SUCCESS")

(***************************************************************************)
(* Opens overlap: handle_open claims a slot and returns, the bdev layer    *)
(* completes in any order.  The slot of an open is claimed by that open    *)
(* alone, is no descriptor the application already has, and is empty until *)
(* its own bdev_open_complete fills it, so no bdev descriptor is           *)
(* overwritten and no two callers get the same fd.                         *)
(***************************************************************************)
OpeningOwnsSlot ==
    \A c \in Clients : Opening(c) =>
      LET m == cur[c]
          fd == result_fd[m]
      IN  /\ devices[fd].in_use
          /\ fd \notin held
          /\ devices[fd].desc <=> completed[m]
          /\ devices[fd].channel <=> completed[m]
          /\ \A d \in Clients : Opening(d) /\ result_fd[cur[d]] = fd => d = c

\* No bdev descriptor or channel hides behind a free slot.
FreeSlotIsEmpty ==
    \A fd \in Fds : ~devices[fd].in_use => ~devices[fd].desc /\ ~devices[fd].channel

FdTable == HeldIsOpen /\ OpeningOwnsSlot /\ FreeSlotIsEmpty

(***************************************************************************)
(* "Proper cleanup of resources" (README.md) for the slots: one that is in *)
(* use is a descriptor the application has, or one an open or a close of   *)
(* the application is working on.  During xpdk_cleanup the slots are the   *)
(* library's own.                                                          *)
(***************************************************************************)
Closing(c) == pc[c] \in {"send", "wait"} /\ req[cur[c]].type = "CLOSE"

\* Somebody will close the slot, or tell the application about it.
Owned(fd) ==
    \/ fd \in held
    \/ \E c \in Clients : Opening(c) /\ result_fd[cur[c]] = fd
    \/ \E c \in Clients : Closing(c) /\ req[cur[c]].fd = fd

InUse == initialized /\ \A c \in Clients : scan[c] = NoFd

NoSlotLeak == InUse => \A fd \in Fds : devices[fd].in_use => Owned(fd)

(***************************************************************************)
(* The same of what a slot stands for, whatever fails: an open bdev        *)
(* descriptor or channel is never left behind in a slot nobody can close.  *)
(***************************************************************************)
NoDescriptorLeak ==
    InUse => \A fd \in Fds : devices[fd].desc \/ devices[fd].channel => Owned(fd)

-----------------------------------------------------------------------------
\* The DMA buffer is in the hands of a waiting handler or of an asynchronous I/O.
UsedByHandler(b) == \E i \in DOMAIN stack : stack[i].buffer = b

UsedByIo(m) == pending[m] = "io" /\ ctx[m] # NoMsg

(***************************************************************************)
(* No DMA buffer is used after it was freed, freed twice or shared by two  *)
(* I/Os: a handler that still has a use for one, and an I/O the bdev layer *)
(* is working on, find it allocated and their own.                         *)
(***************************************************************************)
BufferSafe ==
    /\ \A i \in DOMAIN stack : stack[i].buffer # NoMsg =>
         /\ stack[i].buffer \in dma
         /\ \A j \in DOMAIN stack : stack[j].buffer = stack[i].buffer => j = i
    /\ \A m \in Msgs : UsedByIo(m) =>
         /\ ctx[m] \in dma
         /\ \A n \in Msgs : UsedByIo(n) /\ ctx[n] = ctx[m] => n = m
         /\ \A i \in DOMAIN stack : stack[i].buffer = ctx[m] => stack[i].msg = m

(***************************************************************************)
(* "Memory allocation/deallocation for I/O buffers" (README.md): every DMA *)
(* buffer still allocated has somebody who will free it.                   *)
(***************************************************************************)
NoBufferLeak == \A b \in dma : UsedByHandler(b) \/ \E m \in Msgs : UsedByIo(m) /\ ctx[m] = b

-----------------------------------------------------------------------------
(***************************************************************************)
(* xpdk_read is "similar to pread()" (xpdk.h): when it returns success the *)
(* caller's buffer holds the data.                                         *)
(***************************************************************************)
Returns(c) == pc[c] = "wait" /\ pc'[c] # "wait"

SyncReadDelivers ==
    [][\A c \in Clients :
         /\ Returns(c)
         /\ req[cur[c]].type = "READ"
         /\ status[cur[c]] = "SUCCESS"
         => c \in filled]_vars

(***************************************************************************)
(* The same of xpdk_read_async: when the callback reports success, the     *)
(* request's buffer holds the data.                                        *)
(***************************************************************************)
AsyncReadDelivers ==
    [][\A m \in Msgs :
         /\ answer[m] = "owed"
         /\ answer'[m] = "SUCCESS"
         /\ req[m].type = "READ"
         => req[m].buffer \in filled']_vars

\* The poller takes the message from the ring and handles it.
Dispatched(m) == ring # <<>> /\ m = Head(ring) /\ ring' = Tail(ring)

(***************************************************************************)
(* "All libxpdk functions are thread-safe" (README.md): a trim of one      *)
(* thread that meets a close and an open of another one finds no device,   *)
(* or one with a bdev descriptor and a channel to submit to, as the        *)
(* handlers of reads, writes and flushes check.                            *)
(***************************************************************************)
TrimHasDescriptor ==
    [][\A m \in Msgs :
         /\ Dispatched(m)
         /\ req[m].type \in {"TRIM", "WRITE_ZEROS"}
         /\ xpdk_get_device(req[m].fd)
         => IoReady(req[m].fd)]_vars

-----------------------------------------------------------------------------
(***************************************************************************)
(* Liveness.  A synchronous call returns; an accepted asynchronous request *)
(* is answered through its callback; xpdk_cleanup ends.                    *)
(***************************************************************************)
SyncCallReturns == \A c \in Clients : (pc[c] = "wait") ~> (pc[c] # "wait")

AsyncAnswered == \A m \in Msgs : (answer[m] = "owed") ~> (answer[m] # "owed")

CleanupEnds == \A c \in Clients : (scan[c] # NoFd) ~> (scan[c] = NoFd)

-----------------------------------------------------------------------------
(***************************************************************************)
(* What makes OneOwner and NoStrandedCall inductive: how a thread's pc     *)
(* relates to its message, and that the start and the shutdown of the      *)
(* library find everything at rest.                                        *)
(***************************************************************************)
CallShape ==
    \A c \in Clients :
      /\ cur[c] = NoMsg <=> pc[c] \notin {"send", "wait"}
      /\ pc[c] \in {"scan", "join"} => scan[c] # NoFd

CallFresh ==
    \A c \in Clients :
      /\ pc[c] = "send" => ~completed[cur[c]]
      /\ pc[c] = "wait" => ~req[cur[c]].callback

\* While a thread is in xpdk_cleanup, its own messages are the only traffic.
CleanupAlone ==
    \A c \in Clients : scan[c] # NoFd =>
      /\ initialized
      /\ pc[c] # "idle"
      /\ \A d \in Clients : d # c => pc[d] = "idle"
      /\ \A m \in Msgs : pending[m] = "none"
      /\ \A i \in 1 .. Len(ring) : ring[i] = cur[c]
      /\ pc[c] \in {"send", "wait"} =>
           req[cur[c]].type \in {"CLOSE", "SHUTDOWN"} /\ ~req[cur[c]].callback

DownIsQuiet == ~initialized => Quiet

\* A poller invocation that has used up its quota has returned.
LoopQuota == \A i \in 1 .. Len(stack) : stack[i].msg = NoMsg => stack[i].quota # 0

TypeInv == TypeOK /\ LoopQuota /\ CallShape

MessageInv ==
    /\ TypeInv /\ OneOwner /\ NoStrandedCall
    /\ CallFresh /\ CleanupAlone /\ DownIsQuiet

\* The message of a call that has not left its thread has not been answered.
HeldUnanswered ==
    \A c \in Clients : pc[c] \in {"send", "wait"} => answer[cur[c]] = "none"

(***************************************************************************)
(* The inductive invariant of answers: who owns a message decides whether  *)
(* its callback can still be called, so "at most once" rests on OneOwner.  *)
(***************************************************************************)
AnswerInv == MessageInv /\ AnsweredOnce /\ HeldUnanswered

-----------------------------------------------------------------------------
(***************************************************************************)
(* What makes the device table's invariants inductive.  A request and the  *)
(* operation the bdev layer holds for it agree, and a message in flight    *)
(* without a callback has a thread that waits for it.                      *)
(***************************************************************************)
RequestShape ==
    \A m \in Msgs :
      /\ pending[m] = "open" => req[m].type = "OPEN"
      /\ pending[m] = "io" => req[m].type \in {"READ", "WRITE", "FLUSH"}
      /\ pending[m] = "qos" => req[m].type = "QOS_SET_LIMITS"
      /\ req[m].callback => req[m].type \in {"READ", "WRITE", "BATCH_SUBMIT"}

SyncWaited ==
    \A m \in Msgs : InFlight(m) /\ ~req[m].callback =>
      \E c \in Clients : pc[c] = "wait" /\ cur[c] = m

\* The thread's close has not been handled yet.
ToClose(c) == Closing(c) /\ ~completed[cur[c]]

\* A close of the application has its slot to itself: the descriptor was given up with it.
ClosingOwnsSlot ==
    \A c \in Clients : ToClose(c) /\ scan[c] = NoFd /\ req[cur[c]].fd \in Fds =>
      LET fd == req[cur[c]].fd
      IN  /\ devices[fd].in_use /\ devices[fd].desc /\ devices[fd].channel
          /\ fd \notin held
          /\ \A d \in Clients : ToClose(d) /\ req[cur[d]].fd = fd => d = c
          /\ \A d \in Clients : Opening(d) => result_fd[cur[d]] # fd

\* The slot has something to lose: a bdev descriptor or a channel, or, where no open
\* fails after it has claimed its slot, the slot itself.
Occupied(fd) ==
    \/ devices[fd].desc \/ devices[fd].channel
    \/ devices[fd].in_use /\ Faults \cap {"open_status", "no_channel"} = {}

SlotsOwned ==
    InUse => \A fd \in Fds : Occupied(fd) =>
      \/ fd \in held
      \/ \E c \in Clients : Opening(c) /\ result_fd[cur[c]] = fd
      \/ \E c \in Clients : ToClose(c) /\ req[cur[c]].fd = fd

\* Outside its use the application has no descriptor open.
NothingHeld == ~InUse => held = {}

DeviceInv ==
    /\ MessageInv /\ RequestShape /\ SyncWaited
    /\ FdTable /\ ClosingOwnsSlot /\ SlotsOwned /\ NothingHeld

-----------------------------------------------------------------------------
(***************************************************************************)
(* What a handler finds where the application closes a descriptor only     *)
(* after every request on it has reached its handler.  A request whose     *)
(* handler is still ahead of it is on a descriptor the application has     *)
(* open (or passes without having opened it), and every device was opened  *)
(* with a mode the application asked for.                                  *)
(***************************************************************************)
Ahead(m) == InRing(m) \/ \E c \in Clients : pc[c] = "send" /\ cur[c] = m

\* The request names a descriptor to work on.
OnDescriptor(r) == r.type \notin {"OPEN", "CLOSE", "LIST_BDEVS", "BATCH_SUBMIT", "SHUTDOWN"}

\* What a call with a callback asks for.
AsyncRequest(r) ==
    \/ r.type = "READ" /\ "read_async" \in Ops /\ r.aligned \in Alignments
    \/ r.type = "WRITE" /\ "write_async" \in Ops
    \/ r.type = "BATCH_SUBMIT" /\ "batch_submit" \in Ops

RequestsReady ==
    \A m \in Msgs : Ahead(m) =>
      /\ OnDescriptor(req[m]) => req[m].fd \in UsedFds
      /\ req[m].callback => AsyncRequest(req[m])

ModesKept ==
    /\ \A fd \in Fds : devices[fd].in_use => devices[fd].flags \in Modes
    /\ \A c \in Clients :
         pc[c] \in {"send", "wait"} /\ req[cur[c]].type = "OPEN" => req[cur[c]].flags \in Modes

UseInv == DeviceInv /\ RequestsReady /\ ModesKept

\* Where nothing gives a handler a reason to refuse, no request is lost either.
LossInv == UseInv /\ AnswerInv /\ NoLostRequest

-----------------------------------------------------------------------------
(***************************************************************************)
(* What makes the invariants of synchronous I/O inductive.  A handler that *)
(* waits for a completion has its message in the bdev layer, and message   *)
(* and handler agree on the DMA buffer; a message nobody has handled yet   *)
(* carries none.                                                           *)
(***************************************************************************)
WaitingFrame(i) == stack[i].msg # NoMsg /\ ~stack[i].done

FrameShape ==
    \A i \in DOMAIN stack :
      /\ stack[i].msg = NoMsg => stack[i].buffer = NoMsg
      /\ stack[i].type = "FLUSH" => stack[i].buffer = NoMsg
      /\ WaitingFrame(i) =>
           /\ pending[stack[i].msg] = "io"
           /\ ~req[stack[i].msg].callback
           /\ ctx[stack[i].msg] = stack[i].buffer
           /\ \A j \in DOMAIN stack : WaitingFrame(j) /\ stack[j].msg = stack[i].msg => j = i

FreshHasNoBuffer ==
    /\ \A m \in Msgs : InRing(m) => ctx[m] = NoMsg
    /\ \A c \in Clients : pc[c] = "send" => ctx[cur[c]] = NoMsg

\* A handler that has the buffer of an I/O under way is the one that waits for it.
BufferUsers ==
    \A m \in Msgs : UsedByIo(m) =>
      \A i \in DOMAIN stack : stack[i].buffer = ctx[m] => stack[i].msg = m /\ ~stack[i].done

(***************************************************************************)
(* A synchronous read works on its caller's own buffer, and one that has   *)
(* succeeded has filled it, if buffer and count were aligned.              *)
(***************************************************************************)
ReadBuffer ==
    \A c \in Clients :
      pc[c] \in {"send", "wait"} /\ req[cur[c]].type = "READ" /\ ~req[cur[c]].callback =>
        req[cur[c]].buffer = c

ReadFilled ==
    \A c \in Clients :
      /\ pc[c] = "wait" /\ completed[cur[c]]
      /\ req[cur[c]].type = "READ" /\ req[cur[c]].aligned /\ status[cur[c]] = "SUCCESS"
      => c \in filled

ReadsAligned == Alignments \subseteq {TRUE} => \A m \in Msgs : req[m].aligned

IoInv ==
    /\ MessageInv /\ SyncContextAlive /\ BufferSafe
    /\ FrameShape /\ FreshHasNoBuffer /\ BufferUsers
    /\ "io" \notin Faults =>
         NoBufferLeak /\ \A i \in DOMAIN stack : stack[i].done => stack[i].ok
    /\ ReadBuffer /\ ReadFilled /\ ReadsAligned

=============================================================================
