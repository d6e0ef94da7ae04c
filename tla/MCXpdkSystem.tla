---------------------------- MODULE MCXpdkSystem ----------------------------
(***************************************************************************)
(* Small instances of XpdkSystem for TLC.                                  *)
(***************************************************************************)
EXTENDS XpdkSystem, TLC

\* The application also passes a descriptor that names no slot.
BadFd == {NoFd}

\* Threads, messages and DMA buffers are interchangeable.
Symmetry == Permutations(Clients) \cup Permutations(Msgs) \cup Permutations(Bufs)

(***************************************************************************)
(* The library keeps the promise of XpdkAsync: a request that              *)
(* xpdk_msg_send_async has queued goes through the ring, a handler and the *)
(* bdev layer to exactly one call of its callback, and its message is not  *)
(* used for anything else before that.                                     *)
(***************************************************************************)
Async == INSTANCE XpdkAsync WITH Reqs <- Msgs

ImplementsAsync == Async!FairSpec

=============================================================================
