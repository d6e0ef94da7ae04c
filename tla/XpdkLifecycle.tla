--------------------------- MODULE XpdkLifecycle ---------------------------
(***************************************************************************)
(* The start and the shutdown of the library, step by step, while other    *)
(* threads call it (xpdk_core.c, and xpdk_poll and xpdk_batch_wait, which  *)
(* run the message poller on the caller's thread).                         *)
(*                                                                         *)
(* XpdkSystem takes xpdk_init_opts as one step and keeps every other call  *)
(* away from the start and from the end of the library.  Here nothing is   *)
(* kept away but a second start: each test, allocation and release is a    *)
(* step of its own, and any thread may be between any two of them.  What   *)
(* handlers do is in XpdkIo and XpdkDevice, and so are a full ring and an  *)
(* empty pool.  Here a request is "OPEN", an open or a QoS change, whose   *)
(* handler may leave the answer to a callback of the bdev layer, or a      *)
(* "call", answered by the time its handler returns: a handler of I/O      *)
(* polls until its own I/O is done.                                        *)
(*                                                                         *)
(* Each xpdk_init_opts makes a ring, a pool and a thread, numbered by the  *)
(* attempt, so a stale or dangling pointer in g_xpdk_ctx can be told from  *)
(* a good one.  A thread that uses a NULL or dangling pointer is "dead",   *)
(* and the process with it.                                                *)
(***************************************************************************)
EXTENDS Integers, Sequences

CONSTANTS
    Clients,   \* application threads
    MaxInits,  \* attempts at starting the library
    MaxSends,  \* no call starts with more than this many sent on a ring
    MaxWait,   \* the max_completions given to xpdk_batch_wait
    Faults     \* "sync", "env", "ring", "pool", "pthread", "thread": what may fail

ASSUME LifecycleAssumption ==
    /\ MaxInits \in Nat \ {0} /\ MaxSends \in Nat /\ MaxWait \in Nat \ {0}
    /\ Clients \cap (1 .. MaxInits) = {}
    /\ Faults \subseteq {"sync", "env", "ring", "pool", "pthread", "thread"}

VARIABLES
    ctx,           \* g_xpdk_ctx: two flags, and pointers that are an attempt or NULL
    attempts,      \* attempts made
    rings, pools,  \* the rings and pools that are allocated
    thread,        \* per attempt: its SPDK thread
    queue, head,   \* per ring: what was enqueued, and its consumer head
    seen,          \* per executor of the poller: the entry it is about to take
    pc,            \* per client: where it is in its call
    msg,           \* per client: its message
    submitted,     \* per client: operations in the bdev layer that will answer its message
    total,         \* per client: total_completions of xpdk_batch_wait
    races          \* since the start: what was done that the library does not guard

objVars  == <<attempts, rings, pools, thread>>
ringVars == <<queue, head>>
vars     == <<ctx, objVars, ringVars, seen, pc, msg, submitted, total, races>>

Attempts  == 1 .. MaxInits
Executors == Attempts \cup Clients
NULL      == 0
NoEntry   == <<NULL, 0>>

Starting == {"ring", "pool", "thread", "ready"}
Stopping == {"begin", "shutdown", "stop", "join", "end"}

\* g_xpdk_ctx after the memset.
ZeroCtx == [initialized |-> FALSE, spdk_thread_running |-> FALSE,
            msg_ring |-> NULL, msg_pool |-> NULL, spdk_thread_id |-> NULL]

\* A message: the pool it is from, its type and completed field, how often it was handled.
NewMsg(p, t) == [pool |-> p, type |-> t, completed |-> FALSE, handled |-> 0]

Init ==
    /\ ctx = ZeroCtx
    /\ attempts = 0 /\ rings = {} /\ pools = {}
    /\ thread = [g \in Attempts |-> "none"]
    /\ queue = [g \in Attempts |-> <<>>]
    /\ head = [g \in Attempts |-> 0]
    /\ seen = [e \in Executors |-> NoEntry]
    /\ pc = [c \in Clients |-> "idle"]
    /\ msg = [c \in Clients |-> NewMsg(NULL, "call")]
    /\ submitted = [c \in Clients |-> 0]
    /\ total = [c \in Clients |-> 0]
    /\ races = {}

Goto(c, l) == pc' = [pc EXCEPT ![c] = l]

\* The start of a call, which goes wrong for somebody if the library is being stopped.
Begin(c, l, r) ==
    /\ pc[c] = "idle"
    /\ Goto(c, l)
    /\ races' = races \cup r \cup IF \E d \in Clients : pc[d] \in Stopping THEN {"stop"} ELSE {}
    /\ UNCHANGED <<ctx, objVars, ringVars, seen, msg, submitted, total>>

-----------------------------------------------------------------------------
(***************************************************************************)
(* xpdk_init_opts.  If the library is initialized the call returns at      *)
(* once.  Nothing in it keeps a second thread out, so the application      *)
(* calls it, as the examples do, when no other call is in progress.  There *)
(* are no messages yet, and nobody polls an earlier SPDK thread again.     *)
(***************************************************************************)
InitStart(c) ==
    /\ \A d \in Clients : pc[d] = "idle"
    /\ ~ctx.initialized
    /\ attempts < MaxInits
    /\ ctx' = ZeroCtx
    /\ attempts' = attempts + 1
    /\ msg' = [d \in Clients |-> NewMsg(NULL, "call")]
    /\ submitted' = [d \in Clients |-> 0]
    /\ races' = {}
    /\ \/ Goto(c, "ring")
       \/ "sync" \in Faults /\ Goto(c, "idle")
    /\ UNCHANGED <<rings, pools, thread, ringVars, seen, total>>

\* spdk_env_init and spdk_ring_create.
InitRing(c) ==
    /\ pc[c] = "ring"
    /\ \/ /\ ctx' = [ctx EXCEPT !.msg_ring = attempts]
          /\ rings' = rings \cup {attempts}
          /\ Goto(c, "pool")
       \/ Faults \cap {"env", "ring"} # {} /\ Goto(c, "idle") /\ UNCHANGED <<ctx, rings>>
    /\ UNCHANGED <<attempts, pools, thread, ringVars, seen, msg, submitted, total, races>>

\* Mutant: the ring stays.
RingKept == rings

\* spdk_ring_free(g_xpdk_ctx.msg_ring).
RingFreed == rings \ {ctx.msg_ring}

\* spdk_mempool_create.  On failure the ring is freed and its pointer is left.
InitPool(c) ==
    /\ pc[c] = "pool"
    /\ \/ /\ ctx' = [ctx EXCEPT !.msg_pool = attempts]
          /\ pools' = pools \cup {attempts}
          /\ Goto(c, "thread")
          /\ UNCHANGED rings
       \/ /\ "pool" \in Faults
          /\ rings' = RingFreed
          /\ Goto(c, "idle")
          /\ UNCHANGED <<ctx, pools>>
    /\ UNCHANGED <<attempts, thread, ringVars, seen, msg, submitted, total, races>>

\* pthread_create.  On failure both objects are freed and their pointers are left.
InitThread(c) ==
    /\ pc[c] = "thread"
    /\ \/ /\ ctx' = [ctx EXCEPT !.spdk_thread_id = attempts]
          /\ thread' = [thread EXCEPT ![attempts] = "start"]
          /\ Goto(c, "ready")
          /\ UNCHANGED <<rings, pools>>
       \/ /\ "pthread" \in Faults
          /\ rings' = RingFreed
          /\ pools' = pools \ {ctx.msg_pool}
          /\ Goto(c, "idle")
          /\ UNCHANGED <<ctx, thread>>
    /\ UNCHANGED <<attempts, ringVars, seen, msg, submitted, total, races>>

\* Mutant: the thread is not waited for.
NotAwaited == TRUE

\* The wait for the SPDK thread has no other way out.
ThreadReady == ctx.spdk_thread_running

InitReady(c) ==
    /\ pc[c] = "ready"
    /\ ThreadReady
    /\ ctx' = [ctx EXCEPT !.initialized = TRUE]
    /\ Goto(c, "idle")
    /\ UNCHANGED <<objVars, ringVars, seen, msg, submitted, total, races>>

-----------------------------------------------------------------------------
\* Mutant: the thread enters its loop without saying so.
Silent == ctx

\* The thread says that it is running.
Announced == [ctx EXCEPT !.spdk_thread_running = TRUE]

(***************************************************************************)
(* xpdk_spdk_thread_main up to its loop.  If it cannot create its SPDK     *)
(* thread or register the poller it returns, and nobody is told.           *)
(***************************************************************************)
ThreadStart(g) ==
    /\ thread[g] = "start"
    /\ \/ thread' = [thread EXCEPT ![g] = "loop"] /\ ctx' = Announced
       \/ "thread" \in Faults /\ thread' = [thread EXCEPT ![g] = "failed"] /\ UNCHANGED ctx
    /\ UNCHANGED <<attempts, rings, pools, ringVars, seen, pc, msg, submitted, total, races>>

\* The poller is registered from the start of the loop to its end.
Registered == \E g \in Attempts : thread[g] = "loop"

\* Who is running the poller: a client in xpdk_poll, or the SPDK thread in its loop, which
\* may not know yet that a client has handled SHUTDOWN.
Polls(e) ==
    IF e \in Clients THEN pc[e] = "batch_wait" /\ Registered
    ELSE thread[e] = "loop" /\ (ctx.spdk_thread_running \/ "poll" \in races)

(***************************************************************************)
(* spdk_ring_dequeue, from a ring made for a single consumer: it reads the *)
(* consumer head, takes the entry there and stores the head plus one, with *)
(* nothing to keep a second consumer out in between.                       *)
(***************************************************************************)
DequeueRead(e) ==
    LET r == ctx.msg_ring IN
    /\ Polls(e)
    /\ seen[e] = NoEntry
    /\ r \in rings
    /\ head[r] < Len(queue[r])
    /\ seen' = [seen EXCEPT ![e] = <<r, head[r] + 1>>]
    /\ UNCHANGED <<ctx, objVars, ringVars, pc, msg, submitted, total, races>>

\* The thread that polls has used memory that is not its own.
Dead(e) ==
    IF e \in Clients THEN Goto(e, "dead") /\ UNCHANGED thread
    ELSE thread' = [thread EXCEPT ![e] = "dead"] /\ UNCHANGED pc

\* The poller uses a ring that is not there, or not there any more.
PollDies(e) ==
    /\ IF seen[e] = NoEntry THEN Polls(e) /\ ctx.msg_ring \notin rings
       ELSE seen[e][1] \notin rings
    /\ Dead(e)
    /\ seen' = [seen EXCEPT ![e] = NoEntry]
    /\ UNCHANGED <<ctx, attempts, rings, pools, ringVars, msg, submitted, total, races>>

\* What a client does with what xpdk_poll returned, which it takes for a completion.
Polled(e) ==
    IF e \notin Clients THEN UNCHANGED <<pc, total>>
    ELSE IF total[e] + 1 < MaxWait /\ ctx.initialized
    THEN total' = [total EXCEPT ![e] = @ + 1] /\ UNCHANGED pc
    ELSE total' = [total EXCEPT ![e] = 0] /\ Goto(e, "idle")

\* Mutant: the consumer head stays where it was.
HeadKept(r, i) == i - 1

\* Mutant: everything in the ring counts as taken.
HeadAtEnd(r, i) == Len(queue[r])

\* The consumer head of ring r once entry i was taken.
HeadMoved(r, i) == i

\* A handler answers its message; that of an open or a QoS change may only submit it.
Handled(c) ==
    \/ /\ msg' = [msg EXCEPT ![c].completed = TRUE, ![c].handled = @ + 1]
       /\ UNCHANGED submitted
    \/ /\ msg[c].type = "OPEN"
       /\ msg' = [msg EXCEPT ![c].handled = @ + 1]
       /\ submitted' = [submitted EXCEPT ![c] = @ + 1]

\* The entry is taken and its message handled; SHUTDOWN stops the thread.
DequeueTake(e) ==
    LET r == seen[e][1]
        c == queue[r][seen[e][2]] IN
    /\ r \in rings
    /\ head' = [head EXCEPT ![r] = HeadMoved(r, seen[e][2])]
    /\ Handled(c)
    /\ ctx' = [ctx EXCEPT !.spdk_thread_running = @ /\ msg[c].type # "SHUTDOWN"]
    /\ seen' = [seen EXCEPT ![e] = NoEntry]
    /\ Polled(e)
    /\ UNCHANGED <<objVars, queue, races>>

(***************************************************************************)
(* bdev_open_complete or xpdk_qos_set_limits_complete answers the message, *)
(* if it is still there.  spdk_thread_poll calls them, in the loop of the  *)
(* SPDK thread, the last round of it included, or in xpdk_poll.            *)
(***************************************************************************)
BdevCompletes(e, c) ==
    /\ IF e \in Clients THEN pc[e] = "batch_wait" ELSE thread[e] = "loop"
    /\ seen[e] = NoEntry
    /\ submitted[c] > 0
    /\ submitted' = [submitted EXCEPT ![c] = @ - 1]
    /\ \/ /\ attempts \in pools
          /\ msg' = [msg EXCEPT ![c].completed = TRUE]
          /\ Polled(e)
          /\ UNCHANGED thread
       \/ /\ attempts \notin pools
          /\ Dead(e)
          /\ UNCHANGED <<msg, total>>
    /\ UNCHANGED <<ctx, attempts, rings, pools, ringVars, seen, races>>

\* The loop of the thread ends, whatever is still in the bdev layer.
ThreadExit(g) ==
    /\ thread[g] = "loop"
    /\ seen[g] = NoEntry
    /\ ~ctx.spdk_thread_running
    /\ thread' = [thread EXCEPT ![g] = "done"]
    /\ UNCHANGED <<ctx, attempts, rings, pools, ringVars, seen, pc, msg, submitted, total, races>>

SpdkThread(g) ==
    \/ ThreadStart(g) \/ ThreadExit(g)
    \/ DequeueRead(g) \/ PollDies(g) \/ DequeueTake(g)
    \/ \E c \in Clients : BdevCompletes(g, c)

-----------------------------------------------------------------------------
(***************************************************************************)
(* xpdk_batch_wait calls xpdk_poll until MaxWait messages were seen or its *)
(* time is up.  A single xpdk_poll is one that stops after its first poll. *)
(***************************************************************************)
xpdk_batch_wait(c) == ctx.initialized /\ Begin(c, "batch_wait", {"poll"})

\* The poller has nothing to take.
NothingThere ==
    LET r == ctx.msg_ring IN ~Registered \/ (r \in rings /\ head[r] = Len(queue[r]))

\* Mutant: the clock is looked at only once something was seen.
TimeUpLate(c) == total[c] > 0

\* The clock is looked at whenever a poll has found nothing; sooner or later the time is up.
TimeUp(c) == TRUE

PollStops(c) ==
    /\ pc[c] = "batch_wait"
    /\ seen[c] = NoEntry
    /\ NothingThere
    /\ TimeUp(c) \/ ~ctx.initialized
    /\ Goto(c, "idle")
    /\ total' = [total EXCEPT ![c] = 0]
    /\ UNCHANGED <<ctx, objVars, ringVars, seen, msg, submitted, races>>

-----------------------------------------------------------------------------
(***************************************************************************)
(* A synchronous call.  Most functions test initialized first; those of    *)
(* xpdk_qos.c and xpdk_perf.c do not.                                      *)
(***************************************************************************)
CallStart(c, tested) ==
    /\ tested => ctx.initialized
    /\ ctx.msg_ring \in rings => Len(queue[ctx.msg_ring]) < MaxSends
    /\ Begin(c, "alloc", IF ctx.initialized THEN {} ELSE {"uninit"})

\* xpdk_msg_alloc, by a call or by xpdk_cleanup_spdk_thread.
MsgAlloc(c, t, l) ==
    /\ IF ctx.msg_pool \in pools
       THEN msg' = [msg EXCEPT ![c] = NewMsg(ctx.msg_pool, t)] /\ Goto(c, l)
       ELSE Goto(c, "dead") /\ UNCHANGED msg
    /\ UNCHANGED <<submitted, ringVars>>

\* The enqueue of xpdk_msg_send_sync.
MsgSend(c, l) ==
    LET r == ctx.msg_ring IN
    /\ IF r \in rings
       THEN queue' = [queue EXCEPT ![r] = Append(@, c)] /\ Goto(c, l)
       ELSE Goto(c, "dead") /\ UNCHANGED queue
    /\ UNCHANGED <<head, msg, submitted>>

\* The wait of xpdk_msg_send_sync and xpdk_msg_free.  The message is memory of the
\* pool it came from, and is put back into the pool of that moment.
MsgReturn(c, l) ==
    /\ msg[c].completed \/ msg[c].pool \notin pools
    /\ Goto(c, IF {msg[c].pool, ctx.msg_pool} \subseteq pools THEN l ELSE "dead")
    /\ UNCHANGED <<ringVars, msg, submitted>>

Call(c) ==
    /\ \/ pc[c] = "alloc" /\ \E t \in {"call", "OPEN"} : MsgAlloc(c, t, "send")
       \/ pc[c] = "send" /\ MsgSend(c, "wait")
       \/ pc[c] = "wait" /\ MsgReturn(c, "idle")
    /\ UNCHANGED <<ctx, objVars, seen, total, races>>

-----------------------------------------------------------------------------
(***************************************************************************)
(* xpdk_cleanup.  The devices it closes first are calls like any other     *)
(* (XpdkSystem has them).  xpdk_cleanup_spdk_thread returns at once if the *)
(* SPDK thread is not running.                                             *)
(***************************************************************************)
CleanupStart(c) ==
    /\ ctx.initialized
    /\ Begin(c, "begin", IF \E d \in Clients : pc[d] # "idle" THEN {"stop"} ELSE {})

CleanupThread(c) ==
    /\ \/ pc[c] = "begin" /\ ctx.spdk_thread_running /\ MsgAlloc(c, "SHUTDOWN", "shutdown")
       \/ /\ pc[c] = "begin" /\ ~ctx.spdk_thread_running
          /\ Goto(c, "end")
          /\ UNCHANGED <<ringVars, msg, submitted>>
       \/ pc[c] = "shutdown" /\ MsgSend(c, "stop")
       \/ pc[c] = "stop" /\ MsgReturn(c, "join")
    /\ UNCHANGED <<ctx, objVars, seen, total, races>>

\* pthread_join, and the release of the pool and the ring with what is in it.
CleanupJoin(c) ==
    LET r == ctx.msg_ring IN
    /\ pc[c] = "join"
    /\ thread[ctx.spdk_thread_id] = "done"
    /\ pools' = pools \ {ctx.msg_pool}
    /\ rings' = RingFreed
    /\ ctx' = [ctx EXCEPT !.msg_pool = NULL, !.msg_ring = NULL]
    /\ queue' = [queue EXCEPT ![r] = <<>>]
    /\ head' = [head EXCEPT ![r] = 0]
    /\ Goto(c, "end")
    /\ UNCHANGED <<attempts, thread, seen, msg, submitted, total, races>>

\* Mutant: the library stays initialized.
Unfinished == ctx

Finished == [ctx EXCEPT !.initialized = FALSE]

CleanupEnd(c) ==
    /\ pc[c] = "end"
    /\ ctx' = Finished
    /\ Goto(c, "idle")
    /\ UNCHANGED <<objVars, ringVars, seen, msg, submitted, total, races>>

-----------------------------------------------------------------------------
\* The steps of a thread inside a call: it does not stop in the middle.
ClientStep(c) ==
    \/ InitRing(c) \/ InitPool(c) \/ InitThread(c) \/ InitReady(c)
    \/ DequeueRead(c) \/ PollDies(c) \/ DequeueTake(c) \/ PollStops(c)
    \/ \E d \in Clients : BdevCompletes(c, d)
    \/ Call(c)
    \/ CleanupThread(c) \/ CleanupJoin(c) \/ CleanupEnd(c)

ClientStart(c) ==
    \/ InitStart(c) \/ CleanupStart(c)
    \/ \E tested \in BOOLEAN : CallStart(c, tested)
    \/ xpdk_batch_wait(c)

\* No thread has used memory that is not its own.
Sound ==
    /\ \A c \in Clients : pc[c] # "dead"
    /\ \A g \in Attempts : thread[g] # "dead"

Next ==
    /\ Sound
    /\ \/ \E g \in Attempts : SpdkThread(g)
       \/ \E c \in Clients : ClientStart(c) \/ ClientStep(c)

Spec == Init /\ [][Next]_vars

(***************************************************************************)
(* The operating system runs every thread that can run.                    *)
(***************************************************************************)
FairSpec ==
    /\ Spec
    /\ \A g \in Attempts : WF_vars(Sound /\ SpdkThread(g))
    /\ \A c \in Clients : WF_vars(Sound /\ ClientStep(c))

-----------------------------------------------------------------------------
(***************************************************************************)
(* An application that stops the library when none of its calls is in      *)
(* progress, and calls it only while it is initialized, never makes the    *)
(* library use a ring or a pool that is not there, whatever fails in       *)
(* xpdk_init_opts and however often it is tried again.                     *)
(***************************************************************************)
NoUseAfterFree == races \cap {"stop", "uninit"} = {} => Sound

(***************************************************************************)
(* "if (g_xpdk_ctx.initialized) return XPDK_SUCCESS" (xpdk_init_opts) and  *)
(* the test every call starts with take initialized to mean a library that *)
(* works: outside xpdk_cleanup it does.                                    *)
(***************************************************************************)
InitializedWorks ==
    /\ ctx.initialized
    /\ \A c \in Clients : pc[c] \notin Stopping
    /\ Sound
    => /\ ctx.msg_ring \in rings /\ ctx.msg_pool \in pools
       /\ ctx.spdk_thread_running /\ thread[ctx.spdk_thread_id] = "loop"

(***************************************************************************)
(* Every path out of xpdk_init_opts and xpdk_cleanup releases the ring,    *)
(* the pool and the thread if it leaves the library uninitialized.         *)
(***************************************************************************)
NothingLeftBehind ==
    /\ ~ctx.initialized
    /\ \A c \in Clients : pc[c] \notin Starting \cup Stopping
    /\ Sound
    => /\ rings = {} /\ pools = {}
       /\ \A g \in Attempts : thread[g] \notin {"start", "loop"}

(***************************************************************************)
(* The ring is created SPDK_RING_TYPE_MP_SC, for a single consumer: as     *)
(* long as nobody calls xpdk_poll, which runs the poller a second time, a  *)
(* message is handled once, after it was sent.                             *)
(***************************************************************************)
HandledOnce ==
    "poll" \notin races =>
        \A c \in Clients : /\ msg[c].handled <= 1
                           /\ pc[c] \in {"send", "shutdown"} => msg[c].handled = 0

(***************************************************************************)
(* xpdk_init_opts returns: the wait for spdk_thread_running ends, unless   *)
(* the SPDK thread gave up before its loop.                                *)
(***************************************************************************)
InitEnds ==
    \A c \in Clients :
        pc[c] \in Starting ~>
            pc[c] \notin Starting \/ ~Sound \/ \E g \in Attempts : thread[g] = "failed"

\* The message of c is in the ring of a thread that still looks at it, and no SHUTDOWN is
\* ahead of it.
AheadOfShutdown(c) ==
    LET r == ctx.msg_ring IN
    /\ pc[c] = "wait"
    /\ ctx.spdk_thread_running /\ r \in rings
    /\ \E i \in head[r] + 1 .. Len(queue[r]) :
         /\ queue[r][i] = c
         /\ \A j \in head[r] + 1 .. i : msg[queue[r][j]].type # "SHUTDOWN"

(***************************************************************************)
(* xpdk_cleanup may run at any time: a message that was enqueued before    *)
(* its SHUTDOWN message is handled before the thread stops, and answered   *)
(* unless it is an open or a QoS change that is still in the bdev layer    *)
(* when the thread is told to stop.                                        *)
(***************************************************************************)
ServedBeforeShutdown ==
    \A c \in Clients :
        AheadOfShutdown(c) ~> \/ msg[c].completed
                              \/ submitted[c] > 0 /\ ~ctx.spdk_thread_running
                              \/ "poll" \in races

(***************************************************************************)
(* "bdev_open_complete will set msg->completed = true" (xpdk_bdev.c): an   *)
(* open or a QoS change that its handler has submitted is answered, if the *)
(* library is not called before its start and nobody calls xpdk_poll.      *)
(***************************************************************************)
SubmittedIsAnswered ==
    \A c \in Clients :
        submitted[c] > 0 ~> msg[c].completed \/ races \cap {"poll", "uninit"} # {}

(***************************************************************************)
(* xpdk_batch_wait with a timeout returns, also when the library is shut   *)
(* down while it polls.                                                    *)
(***************************************************************************)
BatchWaitEnds ==
    \A c \in Clients : pc[c] = "batch_wait" ~> pc[c] # "batch_wait" \/ ~Sound

-----------------------------------------------------------------------------
(***************************************************************************)
(* What makes the invariants inductive.  g_xpdk_ctx points at objects of   *)
(* the current attempt or at nothing, and only what it points at is        *)
(* allocated.                                                              *)
(***************************************************************************)
TypeOK ==
    /\ ctx \in [initialized : BOOLEAN, spdk_thread_running : BOOLEAN, msg_ring : 0 .. MaxInits,
                msg_pool : 0 .. MaxInits, spdk_thread_id : 0 .. MaxInits]
    /\ attempts \in 0 .. MaxInits /\ rings \subseteq Attempts /\ pools \subseteq Attempts
    /\ thread \in [Attempts -> {"none", "start", "loop", "failed", "done", "dead"}]
    /\ queue \in [Attempts -> Seq(Clients)] /\ head \in [Attempts -> Nat]
    /\ seen \in [Executors -> (0 .. MaxInits) \X Nat]
    /\ pc \in [Clients -> {"idle", "alloc", "send", "wait", "batch_wait", "dead"}
                            \cup Starting \cup Stopping]
    /\ msg \in [Clients -> [pool : 0 .. MaxInits, type : {"call", "OPEN", "SHUTDOWN"},
                            completed : BOOLEAN, handled : Nat]]
    /\ submitted \in [Clients -> Nat]
    /\ total \in [Clients -> Nat]
    /\ races \subseteq {"stop", "uninit", "poll"}

Live(g) == thread[g] \in {"start", "loop"}

PointersCurrent ==
    /\ {ctx.msg_ring, ctx.msg_pool, ctx.spdk_thread_id} \subseteq {NULL, attempts}
    /\ rings \subseteq {ctx.msg_ring} /\ pools \subseteq {ctx.msg_pool}

\* A thread that has not ended has all it uses.
LiveHasObjects ==
    /\ \A g \in Attempts : Live(g) =>
         /\ g = attempts
         /\ ctx.msg_ring = g /\ ctx.msg_pool = g /\ ctx.spdk_thread_id = g
         /\ g \in rings /\ g \in pools
    /\ ctx.spdk_thread_running => attempts \in Attempts /\ thread[attempts] = "loop"

(***************************************************************************)
(* xpdk_init_opts in progress: nobody stops the library or polls, and what *)
(* exists is what has been made so far.                                    *)
(***************************************************************************)
StartingAlone ==
    \A c \in Clients : pc[c] \in Starting =>
      /\ attempts \in Attempts /\ ~ctx.initialized
      /\ \A d \in Clients :
           /\ msg[d].type # "SHUTDOWN"
           /\ d # c => pc[d] \notin Starting \cup Stopping \cup {"batch_wait"}
      /\ pc[c] = "ring" => ctx.msg_ring = NULL /\ queue[attempts] = <<>> /\ head[attempts] = 0
      /\ pc[c] \in {"ring", "pool"} => ctx.msg_pool = NULL
      /\ pc[c] \in {"pool", "thread"} => ctx.msg_ring = attempts /\ attempts \in rings
      /\ pc[c] = "thread" => ctx.msg_pool = attempts /\ attempts \in pools
      /\ ctx.spdk_thread_id = IF pc[c] = "ready" THEN attempts ELSE NULL

IsStarting == \E c \in Clients : pc[c] \in Starting

IsStopping == \E c \in Clients : pc[c] \in Stopping

\* From the end of xpdk_init_opts to the end of xpdk_cleanup.
Started ==
    /\ ctx.initialized \/ IsStopping =>
         /\ attempts \in Attempts /\ ctx.spdk_thread_id = attempts
         /\ thread[attempts] # "start"
    /\ ctx.initialized /\ ~IsStopping => ctx.spdk_thread_running
    /\ \A c \in Clients : pc[c] = "end" => ~ctx.spdk_thread_running

(***************************************************************************)
(* What exists outside xpdk_init_opts is in use, or a thread is on its way *)
(* to the join that releases it; and SHUTDOWN is in no ring but the one    *)
(* its sender is about to release.                                         *)
(***************************************************************************)
Closes(c) == pc[c] \in {"shutdown", "stop", "join"}

WillBeReleased ==
    /\ rings # {} \/ pools # {} \/ (\E g \in Attempts : Live(g)) =>
         \/ IsStarting
         \/ ctx.initialized /\ ctx.spdk_thread_running
         \/ \E c \in Clients : Closes(c)
    /\ \A c \in Clients : msg[c].type = "SHUTDOWN" => Closes(c) \/ rings = {}

\* Who is between the two halves of a dequeue is still polling, and its entry is there.
SeenCurrent ==
    /\ \A g \in Attempts : seen[g] # NoEntry => thread[g] = "loop"
    /\ \A c \in Clients : seen[c] # NoEntry => pc[c] = "batch_wait"
    /\ \A e \in Executors : seen[e] # NoEntry =>
         /\ seen[e][1] = attempts
         /\ attempts \in rings => seen[e][2] \in 1 .. Len(queue[attempts])
    /\ \A g \in Attempts : g > attempts => queue[g] = <<>> /\ head[g] = 0

(***************************************************************************)
(* An application that keeps its calls away from the start and the end of  *)
(* the library: a start or a stop is alone, and whatever a thread is about *)
(* to use is there.                                                        *)
(***************************************************************************)
Disciplined ==
    races \cap {"stop", "uninit"} = {} =>
      \A c \in Clients :
        /\ pc[c] \in Starting \cup Stopping => \A d \in Clients \ {c} : pc[d] = "idle"
        /\ pc[c] \in {"alloc", "send", "wait", "batch_wait"} => ctx.initialized
        /\ pc[c] = "begin" => ctx.spdk_thread_running
        /\ Closes(c) => attempts \in rings /\ attempts \in pools
        /\ pc[c] \in {"send", "wait", "shutdown", "stop"} => msg[c].pool = attempts

(***************************************************************************)
(* With one consumer: the entries behind the consumer head are messages    *)
(* nobody has handled, of senders that wait for them, and so is the sender *)
(* of what is in the bdev layer.                                           *)
(***************************************************************************)
OneConsumer ==
    "poll" \notin races =>
      /\ \A c \in Clients :
           /\ pc[c] # "batch_wait"
           /\ pc[c] \in {"send", "shutdown"} => ~msg[c].completed
           /\ submitted[c] > 0 => /\ submitted[c] = 1 /\ pc[c] \in {"wait", "stop"}
                                  /\ ~msg[c].completed /\ msg[c].handled = 1
      /\ attempts \in rings =>
           /\ seen[attempts] # NoEntry => seen[attempts][2] = head[attempts] + 1
           /\ \A i \in head[attempts] + 1 .. Len(queue[attempts]) :
                LET c == queue[attempts][i] IN
                /\ pc[c] \in {"wait", "stop"}
                /\ ~msg[c].completed /\ msg[c].handled = 0
                /\ \A j \in head[attempts] + 1 .. Len(queue[attempts]) :
                     queue[attempts][j] = c => j = i

LifecycleInv ==
    /\ TypeOK /\ NoUseAfterFree /\ HandledOnce
    /\ Sound => /\ PointersCurrent /\ LiveHasObjects /\ StartingAlone /\ Started
                /\ WillBeReleased /\ SeenCurrent /\ Disciplined /\ OneConsumer

=============================================================================
