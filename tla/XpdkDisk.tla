------------------------------ MODULE XpdkDisk ------------------------------
(***************************************************************************)
(* What the data calls of libxpdk promise, without messages, buffers or    *)
(* bdevs: an array of bytes on which every call takes effect at one        *)
(* instant between its invocation and its return (for an asynchronous call *)
(* its callback).  "Similar to pread()" and "similar to pwrite()"          *)
(* (xpdk.h) holds of the requests that are sure:                           *)
(*                                                                         *)
(*   - a sure read returns the bytes of its range;                         *)
(*   - a write whose offset is a multiple of the block size stores its     *)
(*     bytes; no write changes a byte outside the blocks of its range;     *)
(*   - a call that reports an error may or may not have taken effect;      *)
(*   - trim and write_zeros return when they are accepted, and take effect *)
(*     later.                                                              *)
(*                                                                         *)
(* The actions constrain the next state and do not compute it: this        *)
(* specification is there to be implemented (XpdkBlocks), not to be run.   *)
(***************************************************************************)
EXTENDS XpdkUnits, Sequences

CONSTANTS
    Clients,   \* the application's threads, one call at a time each
    Size,      \* bytes of the device
    Nothing    \* a client without a trim or write_zeros to be done

VARIABLES
    disk,      \* the bytes of the device
    stage,     \* per client: "idle", "called", "done", "returned" or "lost"
    asked,     \* per client: [kind, off, count, sure], the request
    data,      \* per client: the bytes it has to write or has read
    ok,        \* per client: whether the call succeeded
    late       \* per client: the accepted trim or write_zeros still to be done

callVars == <<stage, asked, data, ok>>

Bytes == 0 .. Size - 1

\* d and e differ in the blocks of r at most.
Confined(d, e, r) == \A b \in Bytes \ Touched(r.off, r.count) : e[b] = d[b]

\* e is d after the bytes were stored where r asks for.
Stored(d, e, r, bytes) ==
    /\ Confined(d, e, r)
    /\ r.off % BlockSize = 0 =>
         \A b \in Bytes \cap (r.off .. r.off + r.count - 1) : e[b] = bytes[b - r.off + 1]

Held(r) == [i \in 1 .. r.count |-> disk[r.off + i - 1]]

Zeros(count) == [i \in 1 .. count |-> 0]

\* c's call goes from a stage of from to the stage to.
Moves(c, from, to) ==
    /\ stage[c] \in from
    /\ stage' = [stage EXCEPT ![c] = to]
    /\ \A d \in Clients \ {c} : asked'[d] = asked[d] /\ data'[d] = data[d] /\ ok'[d] = ok[d]

\* The same, and the request stays the same.
Proceeds(c, from, to) == Moves(c, from, to) /\ asked'[c] = asked[c]

-----------------------------------------------------------------------------
Init ==
    /\ disk = [b \in Bytes |-> 0]
    /\ stage = [c \in Clients |-> "idle"]
    /\ late = [c \in Clients |-> Nothing]

Invoke(c) == Moves(c, {"idle"}, "called") /\ UNCHANGED <<disk, late>>

\* The call is refused at once: it has no effect.
Refuse(c) == Moves(c, {"idle"}, "returned") /\ ~ok'[c] /\ UNCHANGED <<disk, late>>

\* The caller has used the result.
Forget(c) == Moves(c, {"returned"}, "idle") /\ UNCHANGED <<disk, late>>

\* Nobody will be told how the call ended: it had no effect.
Lose(c) == Moves(c, {"called"}, "lost") /\ UNCHANGED <<disk, late>>

ReadBytes(c) ==
    /\ asked[c].kind = "READ"
    /\ Proceeds(c, {"called"}, "done")
    /\ asked[c].sure => data'[c] = Held(asked[c])
    /\ UNCHANGED <<disk, late>>

WriteBytes(c) ==
    /\ asked[c].kind = "WRITE"
    /\ Proceeds(c, {"called"}, "done")
    /\ Stored(disk, disk', asked[c], data[c])
    /\ UNCHANGED late

Return(c) ==
    /\ Proceeds(c, {"done"}, "returned")
    /\ ok'[c]
    /\ asked[c].sure => data'[c] = data[c]
    /\ UNCHANGED <<disk, late>>

Fail(c) ==
    /\ Proceeds(c, {"called", "done"}, "returned")
    /\ ~ok'[c]
    /\ UNCHANGED <<disk, late>>

\* A trim or write_zeros is accepted.
Defer(c) ==
    /\ asked[c].kind \in {"TRIM", "WRITE_ZEROS"}
    /\ Proceeds(c, {"called"}, "done")
    /\ late[c] = Nothing
    /\ late' = [late EXCEPT ![c] = [off |-> asked[c].off, count |-> asked[c].count]]
    /\ UNCHANGED disk

\* It takes effect (on part of its range, if that has too many blocks for their count
\* to be represented) or fails: nobody is told.
Settle(c) ==
    /\ late[c] # Nothing
    /\ \/ Stored(disk, disk', late[c], Zeros(late[c].count))
       \/ Confined(disk, disk', late[c]) /\ ~Countable(late[c].count)
       \/ UNCHANGED disk
    /\ late' = [late EXCEPT ![c] = Nothing]
    /\ UNCHANGED callVars

Next ==
    \E c \in Clients :
      \/ Invoke(c) \/ Refuse(c) \/ Forget(c) \/ ReadBytes(c) \/ WriteBytes(c)
      \/ Return(c) \/ Fail(c) \/ Lose(c) \/ Defer(c) \/ Settle(c)

Spec == Init /\ [][Next]_<<disk, callVars, late>>

=============================================================================
