----------------------------- MODULE XpdkBatch -----------------------------
(***************************************************************************)
(* Batch contexts (xpdk_batch.c): a queue of pending operations, an array  *)
(* of completed ones, and a lock.  The operations are asynchronous reads   *)
(* and writes, which keep the promise of XpdkAsync; their callback is      *)
(* xpdk_batch_completion_callback, which runs on the SPDK thread or in a   *)
(* thread that calls xpdk_poll.                                            *)
(*                                                                         *)
(* A section that holds the lock never waits, so it is one step.  The      *)
(* steps are the places where a call runs without the lock: between the    *)
(* entry in the pending queue and the submission of the operation, between *)
(* a refused submission and the removal of the entry, and around the       *)
(* application's callback.                                                 *)
(***************************************************************************)
EXTENDS Integers, Sequences, FiniteSets

CONSTANTS
    Threads,  \* application threads
    Ios,      \* the operations the application submits to one context
    max_ios   \* the capacity of both queues

ASSUME BatchAssumption ==
    max_ios \in 1 .. 1024 /\ IsFiniteSet(Threads) /\ IsFiniteSet(Ios)

VARIABLES
    life,             \* "none", "live", or "corrupt": written outside its arrays
    pending_queue,    \* its first pending_ios entries
    completed_queue,  \* the whole array, with what earlier use left in it
    completed_ios,
    global_callback,  \* whether the application has set the field
    answer,           \* per operation, as in XpdkAsync
    pc,               \* per thread: where it is in its call
    io,               \* per thread: the operation it submits
    processed, max,   \* per thread: of its xpdk_batch_process_completions
    reports,          \* per operation: what global_callback was told, while
                      \* entries and operations agree
    tangled           \* history: what has made entries and operations differ

ctxVars  == <<life, pending_queue, completed_queue, completed_ios, global_callback>>
procVars == <<processed, max>>
vars     == <<ctxVars, answer, pc, io, procVars, reports, tangled>>

Async == INSTANCE XpdkAsync WITH Reqs <- Ios

\* A cell of completed_queue that nothing was written to.
Unset == [io |-> "unset", status |-> "unset"]

NoIo == "none"

Cells == 0 .. max_ios - 1

\* What is read at an index of completed_queue; outside the array, anything.
Cell(i) == IF i \in Cells THEN completed_queue[i] ELSE Unset

Min(a, b) == IF a < b THEN a ELSE b

Goto(t, l) == pc' = [pc EXCEPT ![t] = l]

Init ==
    /\ life = "none"
    /\ pending_queue = <<>>
    /\ completed_queue = [i \in Cells |-> Unset]
    /\ completed_ios = 0
    /\ global_callback = FALSE
    /\ Async!Init
    /\ pc = [t \in Threads |-> "idle"]
    /\ io = [t \in Threads |-> NoIo]
    /\ processed = [t \in Threads |-> 0]
    /\ max = [t \in Threads |-> 0]
    /\ reports = [o \in Ios |-> <<>>]
    /\ tangled = {}

\* No thread is in xpdk_batch_cleanup; none starts it while another is in a call.
InUse == life = "live" /\ \A t \in Threads : pc[t] \notin {"cleanup", "sleep"}

xpdk_batch_init(t) ==
    /\ pc[t] = "idle"
    /\ life = "none"
    /\ life' = "live"
    /\ global_callback' \in BOOLEAN
    /\ UNCHANGED <<pending_queue, completed_queue, completed_ios, answer, pc, io, procVars,
                   reports, tangled>>

-----------------------------------------------------------------------------
(***************************************************************************)
(* xpdk_batch_submit_one enters the operation as pending.  It returns      *)
(* XPDK_ERROR_BUSY if max_ios operations are.                              *)
(***************************************************************************)
xpdk_batch_submit_one(t, o) ==
    /\ pc[t] = "idle"
    /\ InUse
    /\ Len(pending_queue) < max_ios
    /\ answer[o] = "none" /\ \A u \in Threads : io[u] # o
    /\ pending_queue' = Append(pending_queue, o)
    /\ io' = [io EXCEPT ![t] = o]
    /\ Goto(t, "submit")
    /\ UNCHANGED <<life, completed_queue, completed_ios, global_callback, answer, procVars,
                   reports, tangled>>

\* xpdk_read_async or xpdk_write_async takes the operation.
SubmitAccepted(t) ==
    /\ pc[t] = "submit"
    /\ Async!Accept(io[t])
    /\ io' = [io EXCEPT ![t] = NoIo]
    /\ Goto(t, "idle")
    /\ UNCHANGED <<ctxVars, procVars, reports, tangled>>

\* It refuses it, or the operation is a flush or of no known type.
SubmitRefused(t) ==
    /\ pc[t] = "submit"
    /\ Goto(t, "undo")
    /\ UNCHANGED <<ctxVars, answer, io, procVars, reports, tangled>>

\* Mutant: the entry stays in the queue.
EntryKept == pending_queue

\* The last entry goes, whose ever it is.
LastDropped == SubSeq(pending_queue, 1, Len(pending_queue) - 1)

\* The refused operation is taken back.
SubmitUndo(t) ==
    /\ pc[t] = "undo"
    /\ pending_queue' = LastDropped
    /\ tangled' = IF pending_queue[Len(pending_queue)] = io[t] THEN tangled
                  ELSE tangled \cup {"refused"}
    /\ io' = [io EXCEPT ![t] = NoIo]
    /\ Goto(t, "idle")
    /\ UNCHANGED <<life, completed_queue, completed_ios, global_callback, answer, procVars, reports>>

-----------------------------------------------------------------------------
\* Threads that are in the loop of xpdk_batch_process_completions, without the lock.
Processing == {t \in Threads : pc[t] \in {"callback", "relock"}}

\* Mutant: nobody is woken up.
NotSignalled == pc

\* pthread_cond_signal: a waiting xpdk_batch_cleanup looks again.
Signalled == [t \in Threads |-> IF pc[t] = "sleep" THEN "cleanup" ELSE pc[t]]

(***************************************************************************)
(* xpdk_batch_completion_callback, called with the context and not with    *)
(* the operation: the oldest pending entry is the one that has completed.  *)
(* The write into completed_queue is not bounded.                          *)
(***************************************************************************)
xpdk_batch_completion_callback(o, s) ==
    /\ life = "live"
    /\ Async!Answer(o, s)
    /\ pc' = Signalled
    /\ \/ /\ pending_queue = <<>>
          /\ UNCHANGED <<life, pending_queue, completed_queue, completed_ios, tangled>>
       \/ /\ pending_queue # <<>>
          /\ pending_queue' = Tail(pending_queue)
          /\ completed_ios' = completed_ios + 1
          /\ IF completed_ios \in Cells
             THEN /\ completed_queue' = [completed_queue EXCEPT ![completed_ios] =
                                            [io |-> Head(pending_queue), status |-> s]]
                  /\ UNCHANGED life
             ELSE life' = "corrupt" /\ UNCHANGED completed_queue
          /\ tangled' = tangled \cup (IF Head(pending_queue) = o THEN {} ELSE {"order"})
                               \cup (IF \E t \in Processing : processed[t] > 0
                                     THEN {"window"} ELSE {})
    /\ UNCHANGED <<global_callback, io, procVars, reports>>

-----------------------------------------------------------------------------
\* Mutant: the entries that remain stay where they are.
NotShifted(k, n) == completed_queue

\* The n entries from index k on are moved to the front.
Shifted(k, n) ==
    IF n > 0 THEN [i \in Cells |-> IF i < n THEN Cell(k + i) ELSE completed_queue[i]]
    ELSE completed_queue

\* xpdk_batch_process_completions without a callback only counts.
ProcessSilently(t, m) ==
    LET k == Min(completed_ios, m) IN
    /\ pc[t] = "idle"
    /\ InUse /\ ~global_callback
    /\ completed_ios > 0
    /\ completed_ios' = completed_ios - k
    /\ completed_queue' = Shifted(k, completed_ios - k)
    /\ UNCHANGED <<life, pending_queue, global_callback, answer, pc, io, procVars, reports, tangled>>

\* With a callback it lets go of the lock to call it.
ProcessStart(t, m) ==
    /\ pc[t] = "idle"
    /\ InUse /\ global_callback
    /\ completed_ios > 0
    /\ max' = [max EXCEPT ![t] = m]
    /\ Goto(t, "callback")
    /\ tangled' = IF Processing = {} THEN tangled ELSE tangled \cup {"window"}
    /\ UNCHANGED <<ctxVars, answer, io, processed, reports>>

\* global_callback(completed_io->user_ctx, completed_io->status).
ProcessCallback(t) ==
    LET e == Cell(processed[t]) IN
    /\ pc[t] = "callback"
    /\ reports' = IF tangled = {} THEN [reports EXCEPT ![e.io] = Append(@, e.status)] ELSE reports
    /\ Goto(t, "relock")
    /\ UNCHANGED <<ctxVars, answer, io, procVars, tangled>>

\* It takes the lock again and goes on with its loop, or shifts what remains.
ProcessNext(t) ==
    LET n == completed_ios - 1
        k == processed[t] + 1 IN
    /\ pc[t] = "relock"
    /\ completed_ios' = n
    /\ \/ /\ n > 0 /\ k < max[t]
          /\ processed' = [processed EXCEPT ![t] = k]
          /\ Goto(t, "callback")
          /\ UNCHANGED <<completed_queue, max>>
       \/ /\ ~(n > 0 /\ k < max[t])
          /\ completed_queue' = Shifted(k, n)
          /\ processed' = [processed EXCEPT ![t] = 0]
          /\ max' = [max EXCEPT ![t] = 0]
          /\ Goto(t, "idle")
    /\ UNCHANGED <<life, pending_queue, global_callback, answer, io, reports, tangled>>

-----------------------------------------------------------------------------
(***************************************************************************)
(* xpdk_batch_cleanup waits for the pending operations on the condition    *)
(* variable and frees the context.                                         *)
(***************************************************************************)
xpdk_batch_cleanup(t) ==
    /\ InUse
    /\ \A u \in Threads : pc[u] = "idle"
    /\ Goto(t, "cleanup")
    /\ UNCHANGED <<ctxVars, answer, io, procVars, reports, tangled>>

\* Mutant: one pending operation is not waited for.
FewPending == Len(pending_queue) <= 1

NonePending == pending_queue = <<>>

CleanupSleep(t) ==
    /\ pc[t] = "cleanup"
    /\ ~NonePending
    /\ Goto(t, "sleep")
    /\ UNCHANGED <<ctxVars, answer, io, procVars, reports, tangled>>

\* What the next xpdk_batch_init allocates is as empty as this context was; the
\* operations the application submits to it are new ones.
CleanupFree(t) ==
    /\ pc[t] = "cleanup"
    /\ NonePending
    /\ life' = "none"
    /\ completed_queue' = [i \in Cells |-> Unset]
    /\ completed_ios' = 0
    /\ answer' = [o \in Ios |-> IF answer[o] = "owed" THEN "owed" ELSE "none"]
    /\ reports' = [o \in Ios |-> <<>>]
    /\ tangled' = {}
    /\ Goto(t, "idle")
    /\ UNCHANGED <<pending_queue, global_callback, io, procVars>>

-----------------------------------------------------------------------------
Completes(o) == \E s \in Async!Outcomes : xpdk_batch_completion_callback(o, s)

\* The steps of a call that has begun; a context that is corrupt says nothing more.
ThreadStep(t) ==
    /\ life = "live"
    /\ \/ SubmitAccepted(t) \/ SubmitRefused(t) \/ SubmitUndo(t)
       \/ ProcessCallback(t) \/ ProcessNext(t)
       \/ CleanupSleep(t) \/ CleanupFree(t)

Next ==
    \/ \E t \in Threads :
         \/ xpdk_batch_init(t) \/ xpdk_batch_cleanup(t) \/ ThreadStep(t)
         \/ \E o \in Ios : xpdk_batch_submit_one(t, o)
         \/ \E m \in {1, max_ios} : ProcessSilently(t, m) \/ ProcessStart(t, m)
    \/ \E o \in Ios : Completes(o)

Spec == Init /\ [][Next]_vars

\* Threads go on, and accepted operations are answered, as XpdkAsync promises.
FairSpec ==
    /\ Spec
    /\ \A t \in Threads : WF_vars(ThreadStep(t))
    /\ \A o \in Ios : WF_vars(Completes(o))

-----------------------------------------------------------------------------
Owed == {o \in Ios : answer[o] = "owed"}

Submitting == {t \in Threads : pc[t] \in {"submit", "undo"}}

(***************************************************************************)
(* "Current pending I/O operations" (xpdk.h): pending_ios is the number of *)
(* operations that still have a callback to come and of the calls that are *)
(* about to submit one, even after entries and operations have been mixed  *)
(* up.  So the callback always finds an entry, and the queue is not        *)
(* written past its end.                                                   *)
(***************************************************************************)
PendingCounts ==
    life = "live" =>
        /\ Len(pending_queue) = Cardinality(Owed) + Cardinality(Submitting)
        /\ Len(pending_queue) <= max_ios

(***************************************************************************)
(* "Wait for all pending I/Os to complete" (xpdk_batch_cleanup): no        *)
(* operation outlives the context its callback is going to lock.           *)
(***************************************************************************)
NoCallbackAfterFree == life = "none" => Owed = {}

\* The entries of completed_queue, when no thread is in the middle of taking them.
Completed == {completed_queue[i] : i \in 0 .. completed_ios - 1}

(***************************************************************************)
(* "Operation status (for completion)" (xpdk.h): as long as operations     *)
(* complete in the order they were submitted in, no submission is refused  *)
(* while a later one is in the queue, and no completion comes in while     *)
(* entries are being taken, every completed operation is in the queue once *)
(* and with its own status, or has been reported, once and with its own    *)
(* status.                                                                 *)
(***************************************************************************)
ReportedOnce ==
    life = "live" /\ tangled = {} =>
        /\ \A o \in Ios : reports[o] \in {<<>>, <<answer[o]>>}
        /\ Processing = {} =>
             /\ \A e \in Completed : e.status = answer[e.io] /\ reports[e.io] = <<>>
             /\ global_callback =>
                  Completed = {[io |-> o, status |-> answer[o]] :
                                 o \in {q \in Ios : answer[q] \in Async!Outcomes /\ reports[q] = <<>>}}

(***************************************************************************)
(* xpdk_batch_cleanup returns once the operations are answered: the        *)
(* callback that takes the last entry wakes it up.                         *)
(***************************************************************************)
CleanupEnds ==
    \A t \in Threads : pc[t] \in {"cleanup", "sleep"} ~> life # "live"

(***************************************************************************)
(* "XPDK_ERROR_BUSY if queue full" (xpdk.h): a context takes no operation  *)
(* its queues have no room for.                                            *)
(***************************************************************************)
NoOverrun == life # "corrupt"

-----------------------------------------------------------------------------
\* The types of what the pending count depends on.
PendingTypeOK ==
    /\ pending_queue \in Seq(Ios)
    /\ answer \in [Ios -> {"none", "owed"} \cup Async!Outcomes]
    /\ pc \in [Threads -> {"idle", "submit", "undo", "callback", "relock", "cleanup", "sleep"}]
    /\ io \in [Threads -> Ios \cup {NoIo}]
    /\ \A t \in Submitting : io[t] \in Ios

(***************************************************************************)
(* The inductive invariant of the pending count: a context that is freed   *)
(* has nothing pending, and the application calls xpdk_batch_cleanup when  *)
(* no other call on the context is in progress.                            *)
(***************************************************************************)
PendingInv ==
    /\ PendingTypeOK
    /\ PendingCounts
    /\ life = "none" => Owed = {} /\ Submitting = {} /\ pending_queue = <<>>
    /\ \A t \in Threads : pc[t] \in {"cleanup", "sleep"} =>
         \A u \in Threads : u # t => pc[u] = "idle"

-----------------------------------------------------------------------------
\* The indices of the n entries that are still to be taken, from index b on.
Waiting(b, n) == b .. b + n - 1

\* They are entries of different answered operations, each with its own status, and
\* with a callback of all that were not reported.
QueueFrom(b, n) ==
    /\ n >= 0 /\ b + n <= max_ios
    /\ \A i \in Waiting(b, n) :
         /\ completed_queue[i].io \in Ios
         /\ answer[completed_queue[i].io] \in Async!Outcomes
         /\ completed_queue[i].status = answer[completed_queue[i].io]
    /\ \A i, j \in Waiting(b, n) : completed_queue[i].io = completed_queue[j].io => i = j
    /\ global_callback =>
         \A o \in Ios : answer[o] \in Async!Outcomes /\ reports[o] = <<>> =>
           \E i \in Waiting(b, n) : completed_queue[i].io = o

\* A thread that takes entries is the only one.  It has taken those before its index
\* processed, and between its callback and the lock it has reported the one there.
EntriesAgree ==
    /\ Processing # {} => global_callback
    /\ \A t, u \in Processing : t = u
    /\ \A o \in Ios :
         reports[o] # <<>> => answer[o] \in Async!Outcomes /\ reports[o] = <<answer[o]>>
    /\ Processing = {} =>
         /\ QueueFrom(0, completed_ios)
         /\ \A i \in Waiting(0, completed_ios) : reports[completed_queue[i].io] = <<>>
    /\ \A t \in Processing :
         /\ completed_ios > 0
         /\ QueueFrom(processed[t], completed_ios)
         /\ \A i \in Waiting(processed[t], completed_ios) :
              reports[completed_queue[i].io] # <<>> <=> pc[t] = "relock" /\ i = processed[t]

(***************************************************************************)
(* The inductive invariant of the reports: as long as nothing has mixed up *)
(* entries and operations, the entries that wait are where the thread that *)
(* takes them looks, and a new context starts with none.                   *)
(***************************************************************************)
ReportInv ==
    /\ completed_queue \in [Cells -> [io : Ios \cup {"unset"},
                                      status : Async!Outcomes \cup {"unset"}]]
    /\ completed_ios \in Int
    /\ processed \in [Threads -> Nat]
    /\ reports = [o \in Ios |-> reports[o]]
    /\ \A t \in Threads \ Processing : processed[t] = 0
    /\ life = "none" =>
         /\ completed_ios = 0 /\ tangled = {} /\ Processing = {}
         /\ \A o \in Ios : answer[o] = "none" /\ reports[o] = <<>>
    /\ life = "live" /\ tangled = {} => EntriesAgree

-----------------------------------------------------------------------------
(***************************************************************************)
(* What keeps the unbounded write of the callback inside completed_queue,  *)
(* where the application leaves room for what is pending and takes entries *)
(* in one thread at a time: each pending operation has a cell to complete  *)
(* into, and the loop that takes entries never counts below zero.          *)
(***************************************************************************)
RoomInv ==
    /\ PendingInv /\ ReportInv
    /\ NoOverrun
    /\ completed_ios >= 0
    /\ Len(pending_queue) + completed_ios <= max_ios
    /\ Processing # {} => global_callback /\ completed_ios > 0

=============================================================================
