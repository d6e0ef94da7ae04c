------------------------------ MODULE XpdkMsg ------------------------------
(***************************************************************************)
(* The message layer of libxpdk (xpdk_core.c): struct xpdk_msg, the pool   *)
(* the messages come from, and the multi-producer single-consumer ring     *)
(* that carries them from the application threads to the SPDK thread.      *)
(*                                                                         *)
(* A message is a memory cell that outlives its use: what xpdk_msg_free    *)
(* puts back into the pool keeps its old fields until it is allocated      *)
(* again, so a late access to a freed message is visible in the model.     *)
(***************************************************************************)
EXTENDS Integers, Sequences

CONSTANTS
    Clients,       \* application threads
    Msgs,          \* the cells of msg_pool (opts.msg_pool_size of them)
    NoMsg,         \* NULL, for pointers to messages and to buffers
    RingCapacity,  \* messages msg_ring can hold
    NumFds         \* XPDK_MAX_OPEN_DEVICES

ASSUME MsgAssumption ==
    /\ RingCapacity \in Nat \ {0}
    /\ NumFds \in Nat \ {0}
    /\ Clients \cap Msgs = {}
    /\ NoMsg \notin Clients \cup Msgs

VARIABLES
    pool,       \* the free messages of msg_pool
    ring,       \* msg_ring, oldest message first
    req,        \* per message, the fields its sender fills in
    status,     \* per message, msg->status
    completed   \* per message, msg->completed

msgVars == <<pool, ring, req, status, completed>>

Fds == 0 .. NumFds - 1

\* The descriptor that names no slot: any int outside 0..NumFds-1.
NoFd == -1

Status == {"SUCCESS", "INVALID", "NOMEM", "IO", "NODEV", "QOS"}

\* O_RDONLY is 0, so a zeroed flags field reads as "RDONLY".
AccessModes == {"RDONLY", "WRONLY", "RDWR"}

MsgTypes == {"OPEN", "CLOSE", "READ", "WRITE", "FLUSH", "LIST_BDEVS", "GET_INFO",
             "QOS_SET_LIMITS", "QOS_GET_LIMITS", "GET_PERF_STATS",
             "RESET_PERF_STATS", "TRIM", "WRITE_ZEROS", "BATCH_SUBMIT", "SHUTDOWN"}

(***************************************************************************)
(* The request in a message.  The union of struct xpdk_msg is flattened:   *)
(*   flags, found   of an open: the access mode, and whether a bdev of     *)
(*                  that name exists;                                      *)
(*   callback       whether the sender supplied a completion callback,     *)
(*                  which is what marks an I/O as asynchronous;            *)
(*   aligned        whether the buffer and the count of an I/O are         *)
(*                  multiples of the block size;                           *)
(*   buffer         the application's buffer: a client's own one for a     *)
(*                  synchronous call, one per message for the others.      *)
(***************************************************************************)
Buffers == Clients \cup Msgs \cup {NoMsg}

Request == [type : MsgTypes, fd : Fds \cup {NoFd}, flags : AccessModes,
            found : BOOLEAN, callback : BOOLEAN, aligned : BOOLEAN,
            buffer : Buffers]

\* The request of a message whose memory is all zeros but for its type.
Blank(type) == [type |-> type, fd |-> NoFd, flags |-> "RDONLY", found |-> FALSE,
                callback |-> FALSE, aligned |-> TRUE, buffer |-> NoMsg]

-----------------------------------------------------------------------------
(***************************************************************************)
(* xpdk_msg_alloc takes any free message (spdk_mempool_get promises no     *)
(* order), zeroes it and stores the type; r is the request its caller then *)
(* fills in, before any other thread can reach the message.                *)
(***************************************************************************)
xpdk_msg_alloc(m, r) ==
    /\ m \in pool
    /\ pool' = pool \ {m}
    /\ req' = [req EXCEPT ![m] = r]
    /\ status' = [status EXCEPT ![m] = "SUCCESS"]
    /\ completed' = [completed EXCEPT ![m] = FALSE]

xpdk_msg_free(m) == pool' = pool \cup {m}

\* spdk_ring_enqueue of one message: it takes it or reports 0 enqueued.
RingFull == Len(ring) >= RingCapacity

spdk_ring_enqueue(m) ==
    /\ ~RingFull
    /\ ring' = Append(ring, m)

\* A handler's last two stores: msg->status = s; msg->completed = true.
Reply(m, s) ==
    /\ status' = [status EXCEPT ![m] = s]
    /\ completed' = [completed EXCEPT ![m] = TRUE]

MsgInit ==
    /\ pool = {}
    /\ ring = <<>>
    /\ req = [m \in Msgs |-> Blank("OPEN")]
    /\ status = [m \in Msgs |-> "SUCCESS"]
    /\ completed = [m \in Msgs |-> FALSE]

MsgTypeOK ==
    /\ pool \subseteq Msgs
    /\ ring \in Seq(Msgs)
    /\ Len(ring) <= RingCapacity
    /\ req \in [Msgs -> Request]
    /\ status \in [Msgs -> Status]
    /\ completed \in [Msgs -> BOOLEAN]

=============================================================================
