----------------------------- MODULE XpdkBlocks -----------------------------
(***************************************************************************)
(* The bytes of libxpdk: what happens to the data of a read, write, readv, *)
(* writev (synchronous or asynchronous), trim or write_zeros between the   *)
(* application's memory and an open block device (xpdk_vectored.c, the     *)
(* data path of xpdk_io.c, the discard calls of xpdk_perf.c).              *)
(*                                                                         *)
(* A call of client c goes through                                         *)
(*                                                                         *)
(*   idle -> sent       the message is in the ring                         *)
(*        -> submitted  the handler gave the blocks to the bdev            *)
(*        -> done       the bdev transferred them                          *)
(*        -> completed  the completion callback of a synchronous call ran  *)
(*        -> returned   the call returned, or its callback was called      *)
(*                                                                         *)
(* or ends in rejected (the handler set an error; a synchronous sender     *)
(* will see it), lost (the same for an asynchronous one: nobody is told),  *)
(* overrun (memcpy left the DMA buffer) or astray (a synchronous sender    *)
(* went on while the handler had yet to copy into its buffer).  What the   *)
(* process does after the last two is undefined and not modelled.          *)
(* XpdkSystem models messages, ring, polling and descriptors; here the     *)
(* messages are handled in any order.                                      *)
(***************************************************************************)
EXTENDS XpdkUnits, Sequences

CONSTANTS
    Readers,    \* clients that read
    Writers,    \* clients that write and discard
    Blocks,     \* blocks of the device
    Requests,   \* the requests they make
    NoBuffer,   \* a null pointer
    Faults      \* what may fail: "call", "dma", "io"

Clients == Readers \cup Writers
Size == Blocks * BlockSize

VARIABLES
    disk,     \* the bytes of the device
    pc,       \* per client, where its call is
    req,      \* per client, the request
    mem,      \* per client, the application's memory, one sequence per fragment
    temp,     \* per client, the linear buffer of a vectored call
    buffer,   \* per client, the handler's DMA buffer (msg->ctx)
    ok,       \* per client, whether the call succeeded
    late      \* per client, a trim or write_zeros the bdev has yet to do

vars == <<disk, pc, req, mem, temp, buffer, ok, late>>

Junk == 99    \* what memory holds before the library writes to it

\* The sum of the first i lengths: total_size, and how far dst and src have moved.
RunningTotal(iov) ==
    LET total[i \in 0 .. Len(iov)] == IF i = 0 THEN 0 ELSE total[i - 1] + iov[i]
    IN  total

calculate_iovec_size(iov) == RunningTotal(iov)[Len(iov)]

\* The position of fragment i in the linear buffer.
FragmentStart(iov, i) == RunningTotal(iov)[i - 1]

iovec_to_buffer(fragments) ==
    LET copied[i \in 0 .. Len(fragments)] ==
          IF i = 0 THEN <<>> ELSE copied[i - 1] \o fragments[i]
    IN  copied[Len(fragments)]

buffer_to_iovec(linear, iov) ==
    [i \in DOMAIN iov |->
       [j \in 1 .. iov[i] |->
          IF FragmentStart(iov, i) + j \in DOMAIN linear
          THEN linear[FragmentStart(iov, i) + j] ELSE Junk]]

Count(c) == req[c].count

\* The bytes 1, 2, 3... are what a writer stores.
Payload(r) ==
    [i \in DOMAIN r.iov |-> [j \in 1 .. r.iov[i] |-> FragmentStart(r.iov, i) + j]]

Filled(n, v) == [i \in 1 .. n |-> v]

Blank(r) == [i \in DOMAIN r.iov |-> Filled(r.iov[i], Junk)]

Discards == {"TRIM", "WRITE_ZEROS"}

Vectored(r) == Len(r.iov) > 1

(***************************************************************************)
(* A plain call has one fragment, and aligned says where the application's *)
(* buffer lies; the linear buffer of a vectored call is aligned to 4096,   *)
(* and so to every block size that divides it, as 512 and 4096 do.         *)
(* Reads and writes of no bytes return an error and are left out; trims    *)
(* and write_zeros of no bytes are sent.                                   *)
(***************************************************************************)
ASSUME BlocksAssumption ==
    /\ Blocks \in Nat
    /\ \A r \in Requests :
         /\ r \in [kind : {"READ", "WRITE"} \cup Discards, async : BOOLEAN, off : Nat,
                   iov : Seq(Nat), aligned : BOOLEAN]
         /\ calculate_iovec_size(r.iov) = 0 => r.kind \in Discards
         /\ r.kind \in Discards => ~Vectored(r) /\ ~r.async
         /\ Vectored(r) => r.aligned

Failing(f) == f \in Faults

-----------------------------------------------------------------------------
Idle == [kind |-> "READ", async |-> FALSE, off |-> 0, iov |-> <<>>, aligned |-> TRUE,
         count |-> 0]

Init ==
    /\ disk = [b \in 0 .. Size - 1 |-> 0]
    /\ pc = [c \in Clients |-> "idle"]
    /\ req = [c \in Clients |-> Idle]
    /\ mem = [c \in Clients |-> <<>>]
    /\ temp = [c \in Clients |-> NoBuffer]
    /\ buffer = [c \in Clients |-> NoBuffer]
    /\ ok = [c \in Clients |-> TRUE]
    /\ late = [c \in Clients |-> NoBuffer]

Goto(c, l) == pc' = [pc EXCEPT ![c] = l]

(***************************************************************************)
(* A call.  A vectored one allocates a linear buffer of the total size; a  *)
(* vectored write gathers the fragments into it before it sends anything.  *)
(* A refused call returns an error: the linear buffer could not be         *)
(* allocated, or no message or no room in the ring was found.  In the      *)
(* second case a synchronous call frees the linear buffer, and an          *)
(* asynchronous one returns the error of xpdk_read_async or                *)
(* xpdk_write_async as it is and keeps it (and its context) for ever.      *)
(***************************************************************************)
Linear(r) ==
    IF r.kind = "WRITE" THEN iovec_to_buffer(Payload(r))
    ELSE Filled(calculate_iovec_size(r.iov), Junk)

\* msg->io, with the total count of a vectored call.
Request(r) ==
    [kind |-> r.kind, async |-> r.async, off |-> r.off, iov |-> r.iov, aligned |-> r.aligned,
     count |-> calculate_iovec_size(r.iov)]

Call(c, r) ==
    /\ pc[c] = "idle"
    /\ r.kind = "READ" => c \in Readers
    /\ r.kind # "READ" => c \in Writers
    /\ r.kind \in Discards => late[c] = NoBuffer
    /\ req' = [req EXCEPT ![c] = Request(r)]
    /\ mem' = [mem EXCEPT ![c] = IF r.kind = "WRITE" THEN Payload(r) ELSE Blank(r)]
    /\ \/ /\ Goto(c, "sent")
          /\ temp' = [temp EXCEPT ![c] = IF Vectored(r) THEN Linear(r) ELSE NoBuffer]
          /\ UNCHANGED ok
       \/ /\ Failing("call")
          /\ Goto(c, "returned")
          /\ ok' = [ok EXCEPT ![c] = FALSE]
          /\ temp' = [temp EXCEPT ![c] = IF Vectored(r) /\ r.async THEN Linear(r) ELSE NoBuffer]
       \/ /\ Vectored(r) /\ Failing("dma")
          /\ Goto(c, "returned")
          /\ ok' = [ok EXCEPT ![c] = FALSE]
          /\ UNCHANGED temp
    /\ UNCHANGED <<disk, buffer, late>>

(***************************************************************************)
(* The application uses its memory again as soon as xpdk_writev_async has  *)
(* returned.  (With xpdk_write_async it must not: the handler copies the   *)
(* bytes when it runs.)                                                    *)
(***************************************************************************)
Reuse(c) ==
    /\ pc[c] = "sent"
    /\ req[c].kind = "WRITE" /\ req[c].async /\ Vectored(req[c])
    /\ mem[c] # Blank(req[c])
    /\ mem' = [mem EXCEPT ![c] = Blank(req[c])]
    /\ UNCHANGED <<disk, pc, req, temp, buffer, ok, late>>

-----------------------------------------------------------------------------
\* Mutant: the bytes are taken from the application's memory.
FromFragments(c) == iovec_to_buffer(mem[c])

\* What msg->io.buffer points to.
Source(c) == IF Vectored(req[c]) THEN temp[c] ELSE iovec_to_buffer(mem[c])

FirstBlock(c) == offset_blocks(req[c].off)
BlockCount(c) == num_blocks(Count(c))

\* The bdev refuses a range beyond its last block.
InRange(c) == FirstBlock(c) + BlockCount(c) <= Blocks

\* An early return of a handler.  What a lost call asked for is forgotten.
Reject(c) ==
    /\ Goto(c, IF req[c].async THEN "lost" ELSE "rejected")
    /\ ok' = [ok EXCEPT ![c] = FALSE]
    /\ req' = [req EXCEPT ![c] = IF req[c].async THEN Idle ELSE @]
    /\ mem' = [mem EXCEPT ![c] = IF req[c].async THEN <<>> ELSE @]

\* The buffer of a read: the application's (or linear) one if it is aligned.
NeedsAlignedBuffer(c) == ~req[c].aligned \/ Count(c) % BlockSize # 0

\* spdk_dma_malloc has no memory, or was asked for none.
NoMemory(c) == Failing("dma") \/ dma_size(Count(c)) = 0

\* The DMA buffer is smaller than what is copied or transferred.
TooSmall(c) == dma_size(Count(c)) < Count(c)

HandleRead(c) ==
    /\ req[c].kind = "READ"
    /\ \/ /\ InRange(c) /\ ~NeedsAlignedBuffer(c)
          /\ Goto(c, "submitted")
          /\ UNCHANGED <<req, mem, ok, buffer>>
       \/ /\ InRange(c) /\ NeedsAlignedBuffer(c) /\ dma_size(Count(c)) # 0
          /\ Goto(c, IF TooSmall(c) THEN "overrun" ELSE "submitted")
          /\ buffer' = [buffer EXCEPT ![c] = Filled(dma_size(Count(c)), Junk)]
          /\ UNCHANGED <<req, mem, ok>>
       \/ /\ ~InRange(c) \/ (NeedsAlignedBuffer(c) /\ NoMemory(c))
          /\ Reject(c)
          /\ UNCHANGED buffer
    /\ UNCHANGED late

\* memset to zero, then memcpy of the request's bytes.
Padded(c) ==
    [i \in 1 .. dma_size(Count(c)) |-> IF i <= Count(c) THEN Source(c)[i] ELSE 0]

HandleWrite(c) ==
    /\ req[c].kind = "WRITE"
    /\ \/ /\ NoMemory(c) \/ (~TooSmall(c) /\ ~InRange(c))
          /\ Reject(c)
          /\ UNCHANGED buffer
       \/ /\ TooSmall(c) /\ dma_size(Count(c)) # 0
          /\ Goto(c, "overrun")
          /\ UNCHANGED <<req, mem, ok, buffer>>
       \/ /\ ~TooSmall(c) /\ InRange(c)
          /\ Goto(c, "submitted")
          /\ buffer' = [buffer EXCEPT ![c] = Padded(c)]
          /\ UNCHANGED <<req, mem, ok>>
    /\ UNCHANGED late

\* The trim and write-zeros handlers answer as soon as the bdev has accepted.  Whether
\* it accepts a range of no blocks is up to the bdev.
HandleDiscard(c) ==
    /\ req[c].kind \in Discards
    /\ \/ /\ InRange(c)
          /\ Goto(c, "completed")
          /\ ok' = [ok EXCEPT ![c] = TRUE]
          /\ late' = [late EXCEPT ![c] = [off |-> req[c].off, count |-> Count(c)]]
          /\ UNCHANGED <<req, mem>>
       \/ (~InRange(c) \/ BlockCount(c) = 0) /\ Reject(c) /\ UNCHANGED late
    /\ UNCHANGED buffer

Handle(c) ==
    /\ pc[c] = "sent"
    /\ HandleRead(c) \/ HandleWrite(c) \/ HandleDiscard(c)
    /\ UNCHANGED <<disk, temp>>

-----------------------------------------------------------------------------
BlockRange(c) == (FirstBlock(c) * BlockSize) .. ((FirstBlock(c) + BlockCount(c)) * BlockSize - 1)

\* The blocks of c's request, as a read finds them.
Transferred(c) ==
    [i \in 1 .. BlockCount(c) * BlockSize |-> disk[FirstBlock(c) * BlockSize + i - 1]]

\* The bdev transfers the blocks, at some moment after the submission.
Transfer(c) ==
    /\ pc[c] = "submitted"
    /\ Goto(c, "done")
    /\ \/ /\ req[c].kind = "WRITE"
          /\ disk' = [b \in DOMAIN disk |->
                        IF b \in BlockRange(c) THEN buffer[c][b - FirstBlock(c) * BlockSize + 1]
                        ELSE disk[b]]
          /\ UNCHANGED <<mem, temp, buffer>>
       \/ /\ req[c].kind = "READ" /\ buffer[c] # NoBuffer
          /\ buffer' = [buffer EXCEPT ![c] = Transferred(c)]
          /\ UNCHANGED <<disk, mem, temp>>
       \/ /\ req[c].kind = "READ" /\ buffer[c] = NoBuffer /\ Vectored(req[c])
          /\ temp' = [temp EXCEPT ![c] = Transferred(c)]
          /\ UNCHANGED <<disk, mem, buffer>>
       \/ /\ req[c].kind = "READ" /\ buffer[c] = NoBuffer /\ ~Vectored(req[c])
          /\ mem' = [mem EXCEPT ![c] = buffer_to_iovec(Transferred(c), req[c].iov)]
          /\ UNCHANGED <<disk, temp, buffer>>
    /\ UNCHANGED <<req, ok, late>>

Outcomes == IF Failing("io") THEN BOOLEAN ELSE {TRUE}

\* The application's memory after a vectored call with outcome s.
Scattered(c, s) ==
    IF Vectored(req[c]) /\ req[c].kind = "READ" /\ s
    THEN buffer_to_iovec(temp[c], req[c].iov) ELSE mem[c]

\* Mutant: the linear buffer is kept.
LinearKept(c) == temp

\* xpdk_free_buffer of the linear buffer.
LinearFreed(c) == [temp EXCEPT ![c] = NoBuffer]

(***************************************************************************)
(* The completion of an asynchronous call: for a vectored one             *)
(* xpdk_vectored_completion_callback scatters, calls back and frees.  A    *)
(* read that went through a DMA buffer is not copied out of it.            *)
(***************************************************************************)
CompleteAsync(c) ==
    /\ pc[c] = "done" /\ req[c].async
    /\ Goto(c, "returned")
    /\ \E s \in Outcomes :
         /\ ok' = [ok EXCEPT ![c] = s]
         /\ mem' = [mem EXCEPT ![c] = Scattered(c, s)]
    /\ temp' = LinearFreed(c)
    /\ buffer' = [buffer EXCEPT ![c] = NoBuffer]
    /\ UNCHANGED <<disk, req, late>>

(***************************************************************************)
(* sync_io_completion_cb: from here the sender may go on.  The handler     *)
(* frees a write's buffer, and copies and frees a successful read's.       *)
(***************************************************************************)
CompleteSync(c) ==
    /\ pc[c] = "done" /\ ~req[c].async
    /\ Goto(c, "completed")
    /\ \E s \in Outcomes :
         /\ ok' = [ok EXCEPT ![c] = s]
         /\ buffer' = [buffer EXCEPT ![c] = IF req[c].kind = "READ" /\ s THEN @ ELSE NoBuffer]
    /\ UNCHANGED <<disk, req, mem, temp, late>>

CopyOut(c) ==
    /\ pc[c] = "completed" /\ buffer[c] # NoBuffer
    /\ IF Vectored(req[c])
       THEN temp' = [temp EXCEPT ![c] = SubSeq(buffer[c], 1, Count(c))] /\ UNCHANGED mem
       ELSE /\ mem' = [mem EXCEPT ![c] = buffer_to_iovec(buffer[c], req[c].iov)]
            /\ UNCHANGED temp
    /\ buffer' = [buffer EXCEPT ![c] = NoBuffer]
    /\ UNCHANGED <<disk, pc, req, ok, late>>

\* A synchronous call returns; a vectored one scatters and frees first.
Return(c) ==
    /\ pc[c] \in {"completed", "rejected"}
    /\ Goto(c, IF buffer[c] = NoBuffer THEN "returned" ELSE "astray")
    /\ mem' = [mem EXCEPT ![c] = Scattered(c, ok[c])]
    /\ temp' = LinearFreed(c)
    /\ UNCHANGED <<disk, req, buffer, ok, late>>

\* The application has used the result.
Forget(c) ==
    /\ pc[c] = "returned"
    /\ Goto(c, "idle")
    /\ req' = [req EXCEPT ![c] = Idle]
    /\ mem' = [mem EXCEPT ![c] = <<>>]
    /\ temp' = LinearFreed(c)
    /\ ok' = [ok EXCEPT ![c] = TRUE]
    /\ UNCHANGED <<disk, buffer, late>>

\* The bdev does what a trim or write_zeros asked for, or fails to.
Settle(c) ==
    /\ late[c] # NoBuffer
    /\ LET first == offset_blocks(late[c].off) * BlockSize
           last == first + num_blocks(late[c].count) * BlockSize - 1
       IN \/ disk' = [b \in DOMAIN disk |-> IF b \in first .. last THEN 0 ELSE disk[b]]
          \/ Failing("io") /\ UNCHANGED disk
    /\ late' = [late EXCEPT ![c] = NoBuffer]
    /\ UNCHANGED <<pc, req, mem, temp, buffer, ok>>

Sound == \A c \in Clients : pc[c] \notin {"overrun", "astray"}

Next ==
    /\ Sound
    /\ \E c \in Clients :
         \/ \E r \in Requests : Call(c, r)
         \/ Reuse(c) \/ Handle(c) \/ Transfer(c) \/ CompleteAsync(c)
         \/ CompleteSync(c) \/ CopyOut(c) \/ Return(c) \/ Forget(c) \/ Settle(c)

Spec == Init /\ [][Next]_vars

-----------------------------------------------------------------------------
(***************************************************************************)
(* Requests that are promised to work like pread and pwrite: the offset    *)
(* and the count are multiples of the block size, a plain read's buffer is *)
(* aligned, and the count is below 4 GiB.                                  *)
(***************************************************************************)
Sure(r) ==
    /\ r.off % BlockSize = 0
    /\ r.count % BlockSize = 0
    /\ r.aligned
    /\ Narrow(r.count)

Stage(c) ==
    CASE pc[c] \in {"sent", "submitted", "rejected", "overrun"} -> "called"
      [] pc[c] \in {"done", "completed"} -> "done"
      [] pc[c] \in {"returned", "astray"} -> "returned"
      [] pc[c] \in {"idle", "lost"} -> pc[c]

\* The bytes a call has read or has to write.
Data(c) ==
    CASE req[c].kind # "READ" -> iovec_to_buffer(Payload(req[c]))
      [] req[c].kind = "READ" /\ (~Sure(req[c]) \/ Stage(c) = "called") -> <<>>
      [] req[c].kind = "READ" /\ Sure(req[c]) /\ Stage(c) = "done" -> Source(c)
      [] req[c].kind = "READ" /\ Sure(req[c]) /\ Stage(c) \in {"returned", "idle", "lost"} ->
           iovec_to_buffer(mem[c])

Disk == INSTANCE XpdkDisk WITH
    Nothing <- NoBuffer,
    stage <- [c \in Clients |-> Stage(c)],
    asked <- [c \in Clients |-> [kind |-> req[c].kind, off |-> req[c].off, count |-> Count(c),
                                 sure |-> Sure(req[c])]],
    data <- [c \in Clients |-> Data(c)],
    ok <- [c \in Clients |-> Stage(c) = "returned" => ok[c]]

(***************************************************************************)
(* The data path implements XpdkDisk: whatever the handlers, completions   *)
(* and copies of several calls do in between, each takes effect at one     *)
(* instant, a sure read returns what the device held at it, gathered and   *)
(* scattered fragments keep their order, a block-aligned write stores what *)
(* the application's memory held when the call was made (also if that      *)
(* memory is used again after xpdk_writev_async returned), and no write    *)
(* leaves the blocks of its range.                                         *)
(***************************************************************************)
ImplementsDisk == Disk!Spec

(***************************************************************************)
(* Neither the handlers' memcpy nor the transfer leaves the DMA buffer of  *)
(* num_blocks * block_size bytes, for a request whose rounded size fits    *)
(* the 32 bits of that product.                                            *)
(***************************************************************************)
NoOverrunBelow4GiB == \A c \in Clients : pc[c] = "overrun" => ~Narrow(Count(c))

(***************************************************************************)
(* The linear buffer of a vectored call is freed by the time the call has  *)
(* returned or called back, on every path but one: an asynchronous call    *)
(* that was refused.                                                       *)
(***************************************************************************)
LinearBufferFreed ==
    \A c \in Clients :
      pc[c] = "returned" /\ temp[c] # NoBuffer => ~ok[c] /\ req[c].async

(***************************************************************************)
(* A byte of the device changes only when the transfer of a write, or the  *)
(* late work of a trim or write_zeros, takes place whose request touches   *)
(* the block of that byte, also if the request is not aligned or its count *)
(* does not fit 32 bits.                                                   *)
(***************************************************************************)
OnlyItsBlocks ==
    [][\A b \in DOMAIN disk : disk'[b] # disk[b] =>
         \E c \in Clients :
           \/ /\ pc[c] = "submitted" /\ pc'[c] = "done"
              /\ req[c].kind = "WRITE"
              /\ b \in Touched(req[c].off, Count(c))
           \/ /\ late[c] # NoBuffer /\ late'[c] = NoBuffer
              /\ b \in Touched(late[c].off, late[c].count)]_vars

(***************************************************************************)
(* The inductive invariant of them all.  What a handler or the bdev works  *)
(* on has an offset and a count, also after the client has gone on.  A     *)
(* write carries the bytes the application's memory held at the call: in   *)
(* that memory or the linear buffer until its handler has run, in the DMA  *)
(* buffer until the transfer.  A sure read goes through no DMA buffer, and *)
(* a client that makes no call has no buffer at all.                       *)
(***************************************************************************)
RequestType ==
    [kind : {"READ", "WRITE"} \cup Discards, async : BOOLEAN, off : Nat, iov : Seq(Nat),
     aligned : BOOLEAN, count : Nat]

BlocksShape ==
    /\ disk = [b \in 0 .. Size - 1 |-> disk[b]]
    /\ pc \in [Clients -> {"idle", "sent", "submitted", "done", "completed", "returned",
                         "rejected", "lost", "overrun", "astray"}]
    /\ req \in [Clients -> RequestType]
    /\ mem = [c \in Clients |-> mem[c]]
    /\ temp = [c \in Clients |-> temp[c]]
    /\ buffer = [c \in Clients |-> buffer[c]]
    /\ ok = [c \in Clients |-> ok[c]]
    /\ late = [c \in Clients |-> late[c]]

WriteCarried(c) ==
    LET payload == iovec_to_buffer(Payload(req[c]))
    IN  /\ pc[c] = "sent" => Source(c) = payload
        /\ pc[c] = "submitted" =>
             /\ ~TooSmall(c)
             /\ \A i \in 1 .. Count(c) : buffer[c][i] = payload[i]

SureReadDirect(c) ==
    /\ pc[c] \in {"submitted", "done", "completed"} => buffer[c] = NoBuffer
    /\ pc[c] \in {"done", "completed"} /\ Vectored(req[c]) =>
         temp[c] = [i \in 1 .. Count(c) |-> temp[c][i]]

BlocksInv ==
    /\ BlocksShape
    /\ \A c \in Clients :
         /\ Count(c) = calculate_iovec_size(req[c].iov)
         /\ late[c] # NoBuffer => late[c].off \in Nat /\ late[c].count \in Nat
         /\ pc[c] = "idle" => temp[c] = NoBuffer
         /\ pc[c] \in {"idle", "sent", "rejected", "returned"} => buffer[c] = NoBuffer
         /\ pc[c] = "completed" /\ buffer[c] # NoBuffer => req[c].kind = "READ"
         /\ pc[c] = "rejected" => ~ok[c]
         /\ pc[c] = "sent" /\ req[c].kind \in Discards => late[c] = NoBuffer
         /\ req[c].kind = "WRITE" => WriteCarried(c)
         /\ req[c].kind = "READ" /\ Sure(req[c]) => SureReadDirect(c)
    /\ NoOverrunBelow4GiB
    /\ LinearBufferFreed

=============================================================================
