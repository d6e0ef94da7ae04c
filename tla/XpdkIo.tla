------------------------------- MODULE XpdkIo -------------------------------
(***************************************************************************)
(* Reads, writes and flushes on the SPDK thread (xpdk_io.c).               *)
(*                                                                         *)
(* A synchronous I/O does not return to the message poller: its handler    *)
(* calls spdk_thread_poll until its own completion callback has run.  The  *)
(* handlers that are waiting this way are the frames of stack, the one     *)
(* that executes last.  A frame also holds how many messages the poller    *)
(* invocation it belongs to may still take (max_batch is 1 in standard and *)
(* 32 in turbo mode); a frame whose msg is NoMsg is a poller invocation    *)
(* between two messages.                                                   *)
(*                                                                         *)
(* Whether spdk_thread_poll runs the message poller again while one of its *)
(* invocations is waiting is up to SPDK.  It takes a timed poller (standard*)
(* mode) off its timer queue while it runs, and runs an untimed one (turbo *)
(* mode) on every call: Reentrant says which.                              *)
(***************************************************************************)
EXTENDS XpdkDevice

CONSTANTS
    Bufs,       \* the DMA-able memory: buffers spdk_dma_malloc can hand out
    MaxBatch,   \* max_batch of the message poller
    Reentrant,  \* whether a waiting handler's spdk_thread_poll runs the poller
    MaxDepth    \* bound on the nesting of poller invocations

ASSUME IoAssumption ==
    /\ MaxBatch \in Nat \ {0}
    /\ MaxDepth \in Nat \ {0}
    /\ Reentrant \in BOOLEAN
    /\ NoMsg \notin Bufs

VARIABLES
    stack,    \* the poller invocations on the SPDK thread's call stack
    dma,      \* the DMA buffers that are allocated
    ctx,      \* per message, msg->ctx: the DMA buffer the message carries
    filled,   \* the application buffers that hold the data they were to receive
    answer    \* per message, what its asynchronous sender was told: "none" before
              \* the request is accepted, "owed" until its callback is called

ioVars == <<stack, dma, ctx, filled, answer>>

Answers == {"none", "owed", "SUCCESS", "IO"}

Frame == [quota : 0 .. MaxBatch, msg : Msgs \cup {NoMsg}, type : {"READ", "WRITE", "FLUSH"},
          buffer : Bufs \cup {NoMsg}, done : BOOLEAN, ok : BOOLEAN]

Loop(quota) == [quota |-> quota, msg |-> NoMsg, type |-> "READ", buffer |-> NoMsg,
                done |-> FALSE, ok |-> FALSE]

-----------------------------------------------------------------------------
Top == stack[Len(stack)]

\* The stack without its last frame.
Popped == SubSeq(stack, 1, Len(stack) - 1)

\* A poller invocation is in its for loop, about to dequeue.
InLoop == stack # <<>> /\ Top.msg = NoMsg

\* A handler is inside its while (!ctx.completed) loop.
InWait == stack # <<>> /\ Top.msg # NoMsg

\* Messages the running (or starting) invocation may take, this one included.
Quota == IF InLoop THEN Top.quota ELSE MaxBatch

\* The invocations under the running one.
Below == IF InLoop THEN Popped ELSE stack

\* The handler of the current message returns to the poller's loop.
Returned ==
    stack' = IF Quota = 1 THEN Below ELSE Append(Below, Loop(Quota - 1))

\* The handler of the current message starts to wait for its I/O.
Waits(m, b) ==
    stack' = Append(Below, [quota |-> Quota - 1, msg |-> m, type |-> req[m].type,
                            buffer |-> b, done |-> FALSE, ok |-> FALSE])

\* Mutant: no handler waits for its I/O.
NeverWait(m, b) ==
    /\ pending' = [pending EXCEPT ![m] = "io"]
    /\ Returned
    /\ UNCHANGED <<status, completed>>

\* After a successful submission: only a synchronous handler waits.
WaitIfSync(m, b) ==
    /\ pending' = [pending EXCEPT ![m] = "io"]
    /\ IF req[m].callback THEN Returned ELSE Waits(m, b)
    /\ UNCHANGED <<status, completed>>

\* Mutant: an early return forgets msg->completed.
RefuseSilently(m, s) ==
    /\ status' = [status EXCEPT ![m] = s]
    /\ Returned
    /\ UNCHANGED <<completed, pending>>

\* An early return of an I/O handler.
Refuse(m, s) ==
    /\ Reply(m, s)
    /\ Returned
    /\ UNCHANGED pending

IoReady(fd) == xpdk_get_device(fd) /\ devices[fd].desc /\ devices[fd].channel

(***************************************************************************)
(* xpdk_spdk_handle_read.  An unaligned request goes through a DMA buffer, *)
(* an aligned one reads into the application's buffer.  The early returns  *)
(* set status and completed and nothing else, also for a request with a    *)
(* callback.                                                               *)
(***************************************************************************)
xpdk_spdk_handle_read(m) ==
    LET fd == req[m].fd IN
    /\ \/ /\ ~(IoReady(fd) /\ devices[fd].flags # "WRONLY")
          /\ Refuse(m, "INVALID")
          /\ UNCHANGED <<dma, ctx>>
       \/ /\ IoReady(fd) /\ devices[fd].flags # "WRONLY"
          /\ req[m].aligned
          /\ \/ WaitIfSync(m, NoMsg)
             \/ "submit" \in Faults /\ Refuse(m, "IO")
          /\ UNCHANGED <<dma, ctx>>
       \/ /\ IoReady(fd) /\ devices[fd].flags # "WRONLY"
          /\ ~req[m].aligned
          /\ \/ \E b \in Bufs \ dma :
                  /\ ctx' = [ctx EXCEPT ![m] = b]
                  /\ \/ dma' = dma \cup {b} /\ WaitIfSync(m, b)
                     \/ "submit" \in Faults /\ UNCHANGED dma /\ Refuse(m, "IO")
             \/ /\ "dma" \in Faults \/ dma = Bufs
                /\ Refuse(m, "NOMEM")
                /\ UNCHANGED <<dma, ctx>>
    /\ UNCHANGED <<devices, result_fd, unmapping, filled, answer>>

(***************************************************************************)
(* xpdk_spdk_handle_write.  It always goes through a DMA buffer.  Its test *)
(* for write permission, flags & O_RDONLY, masks with 0 and never holds;   *)
(* a write through a read-only descriptor is refused by the bdev layer.    *)
(***************************************************************************)
xpdk_spdk_handle_write(m) ==
    LET fd == req[m].fd IN
    /\ \/ /\ ~IoReady(fd)
          /\ Refuse(m, "INVALID")
          /\ UNCHANGED <<dma, ctx>>
       \/ /\ IoReady(fd)
          /\ "dma" \in Faults \/ dma = Bufs
          /\ Refuse(m, "NOMEM")
          /\ UNCHANGED <<dma, ctx>>
       \/ /\ IoReady(fd)
          /\ \E b \in Bufs \ dma :
               /\ ctx' = [ctx EXCEPT ![m] = b]
               /\ \/ /\ Writable(fd)
                     /\ dma' = dma \cup {b}
                     /\ WaitIfSync(m, b)
                  \/ /\ "submit" \in Faults \/ ~Writable(fd)
                     /\ Refuse(m, "IO")
                     /\ UNCHANGED dma
    /\ UNCHANGED <<devices, result_fd, unmapping, filled, answer>>

xpdk_spdk_handle_flush(m) ==
    /\ \/ /\ ~IoReady(req[m].fd)
          /\ Refuse(m, "INVALID")
       \/ /\ IoReady(req[m].fd)
          /\ \/ WaitIfSync(m, NoMsg)
             \/ "submit" \in Faults /\ Refuse(m, "IO")
    /\ UNCHANGED <<devices, result_fd, unmapping, dma, ctx, filled, answer>>

-----------------------------------------------------------------------------
\* Mutant: the completion is recorded for whichever handler waits last.
CompleteTop(m) ==
    /\ pending[m] = "io"
    /\ ~req[m].callback
    /\ stack' = [stack EXCEPT ![Len(stack)].done = TRUE, ![Len(stack)].ok = TRUE]
    /\ Reply(m, "SUCCESS")
    /\ pending' = [pending EXCEPT ![m] = "none"]
    /\ UNCHANGED <<pool, ring, req, devices, result_fd, unmapping, dma, ctx, filled, answer>>

(***************************************************************************)
(* sync_io_completion_cb.  It marks the waiting handler's context and, in  *)
(* the same callback, completes the message: the sender may go on from     *)
(* here.                                                                   *)
(***************************************************************************)
sync_io_completion_cb(m) ==
    /\ pending[m] = "io"
    /\ ~req[m].callback
    /\ \E success \in {TRUE} \cup (IF "io" \in Faults THEN {FALSE} ELSE {}) :
         /\ stack' = [i \in DOMAIN stack |->
                        IF stack[i].msg = m /\ ~stack[i].done
                        THEN [stack[i] EXCEPT !.done = TRUE, !.ok = success]
                        ELSE stack[i]]
         /\ Reply(m, IF success THEN "SUCCESS" ELSE "IO")
         /\ filled' = IF success /\ req[m].type = "READ" /\ req[m].aligned
                      THEN filled \cup {req[m].buffer} ELSE filled
    /\ pending' = [pending EXCEPT ![m] = "none"]
    /\ UNCHANGED <<pool, ring, req, devices, result_fd, unmapping, dma, ctx, answer>>

\* Mutant: the callback is told success whatever the outcome.
AlwaysSuccess(m) ==
    /\ pending[m] = "io"
    /\ req[m].callback
    /\ answer' = [answer EXCEPT ![m] = "SUCCESS"]
    /\ \E success \in {TRUE} \cup (IF "io" \in Faults THEN {FALSE} ELSE {}) :
         filled' = IF success /\ req[m].type = "READ" THEN filled \cup {req[m].buffer} ELSE filled
    /\ dma' = dma \ {ctx[m]}
    /\ xpdk_msg_free(m)
    /\ pending' = [pending EXCEPT ![m] = "none"]
    /\ UNCHANGED <<ring, req, status, completed, devices, result_fd, unmapping, stack, ctx>>

\* Mutant: the message is freed and the callback never called.
NoCallback(m) ==
    /\ pending[m] = "io"
    /\ req[m].callback
    /\ dma' = dma \ {ctx[m]}
    /\ xpdk_msg_free(m)
    /\ pending' = [pending EXCEPT ![m] = "none"]
    /\ UNCHANGED <<ring, req, status, completed, devices, result_fd, unmapping, stack, ctx,
                   filled, answer>>

(***************************************************************************)
(* async_io_completion_cb: the sender's callback, then the DMA buffer and  *)
(* the message are freed.                                                  *)
(***************************************************************************)
async_io_completion_cb(m) ==
    /\ pending[m] = "io"
    /\ req[m].callback
    /\ \E success \in {TRUE} \cup (IF "io" \in Faults THEN {FALSE} ELSE {}) :
         /\ answer' = [answer EXCEPT ![m] = IF success THEN "SUCCESS" ELSE "IO"]
         /\ filled' = IF success /\ req[m].type = "READ" /\ req[m].aligned
                      THEN filled \cup {req[m].buffer} ELSE filled
    /\ dma' = dma \ {ctx[m]}
    /\ xpdk_msg_free(m)
    /\ pending' = [pending EXCEPT ![m] = "none"]
    /\ UNCHANGED <<ring, req, status, completed, devices, result_fd, unmapping, stack, ctx>>

\* Mutant: the handler goes on before its I/O has completed.
FinishEarly ==
    /\ InWait
    /\ dma' = dma \ {Top.buffer}
    /\ stack' = IF Top.quota = 0 THEN Popped ELSE Append(Popped, Loop(Top.quota))
    /\ UNCHANGED <<msgVars, devVars, ctx, answer, filled>>

\* Mutant: the handler leaves its buffer to the completion callback.
FinishKeepsBuffer ==
    /\ InWait
    /\ Top.done
    /\ stack' = IF Top.quota = 0 THEN Popped ELSE Append(Popped, Loop(Top.quota))
    /\ UNCHANGED <<msgVars, devVars, dma, ctx, answer, filled>>

(***************************************************************************)
(* The rest of a synchronous handler, once its wait is over.  A read that  *)
(* used a DMA buffer copies it to msg->io.buffer, which it reads from the  *)
(* message only now, and frees it; only if the read succeeded.             *)
(***************************************************************************)
FinishWait ==
    /\ InWait
    /\ Top.done
    /\ \/ /\ Top.type = "READ" /\ Top.buffer # NoMsg /\ Top.ok
          /\ filled' = filled \cup {req[Top.msg].buffer}
          /\ dma' = dma \ {Top.buffer}
       \/ /\ Top.type = "WRITE"
          /\ dma' = dma \ {Top.buffer}
          /\ UNCHANGED filled
       \/ /\ Top.type # "WRITE"
          /\ Top.type = "READ" => Top.buffer = NoMsg \/ ~Top.ok
          /\ UNCHANGED <<filled, dma>>
    /\ stack' = IF Top.quota = 0 THEN Popped
                ELSE Append(Popped, Loop(Top.quota))
    /\ UNCHANGED <<msgVars, devVars, ctx, answer>>

IoInit ==
    /\ stack = <<>>
    /\ dma = {}
    /\ ctx = [m \in Msgs |-> NoMsg]
    /\ filled = {}
    /\ answer = [m \in Msgs |-> "none"]

IoTypeOK ==
    /\ stack \in Seq(Frame)
    /\ dma \subseteq Bufs
    /\ ctx \in [Msgs -> Bufs \cup {NoMsg}]
    /\ filled \subseteq Buffers
    /\ answer \in [Msgs -> Answers]

=============================================================================
