-------------------------- MODULE XpdkHandlerProof --------------------------
(***************************************************************************)
(* What the proofs about XpdkSystem share: the requests calls make, what a *)
(* thread knows of its message, and what the poller and the handlers do to *)
(* the message at hand.  A handler that waits replies or submits, never    *)
(* both and never neither (HandleIoOutcome).                               *)
(***************************************************************************)
EXTENDS XpdkSystem, TLAPS

\* Most leaves are first-order reasoning about sets and functions.
USE ZenonT(30)

\* A sequence is a function on 1 .. Len(s).
LEMMA SeqElements ==
    ASSUME NEW S, NEW s \in Seq(S)
    PROVE  /\ Len(s) \in Nat /\ DOMAIN s = 1 .. Len(s)
           /\ s \in [1 .. Len(s) -> S]
           /\ \A i \in 1 .. Len(s) : s[i] \in S
           /\ s # <<>> => Len(s) \in Nat \ {0}
  BY SMTT(30)

\* The ring's enqueue, and a new frame of the poller.
LEMMA AppendElements ==
    ASSUME NEW S, NEW s \in Seq(S), NEW e \in S
    PROVE  /\ Append(s, e) \in Seq(S)
           /\ Len(Append(s, e)) = Len(s) + 1
           /\ \A i \in 1 .. Len(s) : Append(s, e)[i] = s[i]
           /\ Append(s, e)[Len(s) + 1] = e
  BY SMTT(30)

\* The ring's dequeue.
LEMMA TailElements ==
    ASSUME NEW S, NEW s \in Seq(S), s # <<>>
    PROVE  /\ Head(s) \in S
           /\ Tail(s) \in Seq(S) /\ Len(Tail(s)) = Len(s) - 1
           /\ \A i \in 1 .. Len(Tail(s)) : Tail(s)[i] = s[i + 1]
  BY SMTT(30)

\* The return of a poller invocation.
LEMMA FrontElements ==
    ASSUME NEW S, NEW s \in Seq(S), s # <<>>
    PROVE  /\ SubSeq(s, 1, Len(s) - 1) \in Seq(S)
           /\ Len(SubSeq(s, 1, Len(s) - 1)) = Len(s) - 1
           /\ \A i \in 1 .. Len(s) - 1 : SubSeq(s, 1, Len(s) - 1)[i] = s[i]
  <1>1. PICK n \in Nat : n = Len(s) - 1
    BY SeqElements, SMTT(30)
  <1>2. \A i \in 1 .. n : s[i] \in S
    BY <1>1, SeqElements, SMTT(30)
  <1>3. /\ SubSeq(s, 1, n) \in Seq(S)
        /\ Len(SubSeq(s, 1, n)) = n
        /\ \A i \in 1 .. n : SubSeq(s, 1, n)[i] = s[i]
    <2>1. SubSeq(s, 1, n) = [i \in 1 .. n |-> s[i]]
      BY SMTT(30)
    <2>2. [i \in 1 .. n |-> s[i]] \in Seq(S)
      BY <1>2, SMTT(30)
    <2>3. Len([i \in 1 .. n |-> s[i]]) = n
      BY SMTT(30)
    <2>4. QED
      BY <2>1, <2>2, <2>3
  <1>4. QED
    BY <1>1, <1>3

-----------------------------------------------------------------------------
\* Removing the last frame leaves the other frames where they were.
LEMMA PoppedFrames ==
    ASSUME stack \in Seq(Frame), stack # <<>>
    PROVE  /\ Len(stack) \in Nat \ {0}
           /\ Top \in Frame
           /\ Popped \in Seq(Frame)
           /\ Len(Popped) = Len(stack) - 1
           /\ \A i \in 1 .. Len(stack) - 1 : Popped[i] = stack[i]
  <1>1. Len(stack) \in Nat \ {0} /\ \A i \in 1 .. Len(stack) : stack[i] \in Frame
    BY SeqElements
  <1>2. Top \in Frame
    BY <1>1, SMTT(30) DEF Top
  <1>3. QED
    BY <1>1, <1>2, FrontElements DEF Popped

\* The quota of a poller invocation that takes a message is positive.
LEMMA QuotaRange ==
    ASSUME stack \in Seq(Frame), LoopQuota
    PROVE  Quota \in 1 .. MaxBatch
  BY IoAssumption, PoppedFrames, SMTT(30) DEF Quota, InLoop, Top, LoopQuota, Frame

\* The parts of the type invariant.
LEMMA TypeParts ==
    ASSUME TypeInv
    PROVE  MsgTypeOK /\ DeviceTypeOK /\ IoTypeOK /\ LoopQuota /\ CallShape
  BY DEF TypeInv, TypeOK

\* What the SPDK thread leaves alone when it takes a message.
LEMMA PollerFrame ==
    ASSUME TypeInv, xpdk_msg_process_poller
    PROVE  /\ Head(ring) \in Msgs
           /\ ring # <<>>
           /\ ring' = Tail(ring)
           /\ ring' \in Seq(Msgs)
           /\ Len(ring') = Len(ring) - 1
           /\ Len(ring') <= RingCapacity
           /\ UNCHANGED <<pool, req, pc, cur, scan, held, initialized, exited>>
  <1>1. ring # <<>> /\ ring' = Tail(ring) /\ ring \in Seq(Msgs) /\ Len(ring) <= RingCapacity
    BY TypeParts DEF xpdk_msg_process_poller, CanDequeue, MsgTypeOK
  <1>2. Head(ring) \in Msgs /\ Tail(ring) \in Seq(Msgs) /\ Len(Tail(ring)) = Len(ring) - 1
    BY <1>1, TailElements
  <1>3. Len(ring) \in Nat
    BY <1>1, SeqElements
  <1>4. UNCHANGED <<pool, req, pc, cur, scan, held, initialized, exited>>
    BY DEF xpdk_msg_process_poller, appVars
  <1>5. QED
    BY <1>1, <1>2, <1>3, <1>4, MsgAssumption, SMTT(30)

\* An I/O handler refuses its message or hands it to the bdev layer.
LEMMA HandleIoOutcome ==
    ASSUME TypeInv, NEW m \in Msgs, HandleIo(m)
    PROVE  /\ \/ \E s \in Status : Refuse(m, s)
              \/ \E b \in Bufs \cup {NoMsg} : WaitIfSync(m, b)
           /\ req[m].type \in {"READ", "WRITE", "FLUSH"}
           /\ dma' \subseteq Bufs
           /\ ctx' \in [Msgs -> Bufs \cup {NoMsg}]
           /\ UNCHANGED <<devices, result_fd, unmapping, filled, answer>>
  <1> USE DEF TypeInv, TypeOK, IoTypeOK, Status
  <1>1. CASE xpdk_spdk_handle_read(m) /\ req[m].type = "READ"
    BY <1>1 DEF xpdk_spdk_handle_read
  <1>2. CASE xpdk_spdk_handle_write(m) /\ req[m].type = "WRITE"
    BY <1>2 DEF xpdk_spdk_handle_write
  <1>3. CASE xpdk_spdk_handle_flush(m) /\ req[m].type = "FLUSH"
    BY <1>3 DEF xpdk_spdk_handle_flush
  <1>4. QED
    BY <1>1, <1>2, <1>3 DEF HandleIo

\* A request that sets some fields of a blank one is well typed.
LEMMA BlankType ==
    ASSUME NEW type \in MsgTypes
    PROVE  Blank(type) \in Request
  BY DEF Blank, Request, AccessModes, Buffers

\* A filled-in I/O message is a request.
LEMMA IoRequestType ==
    ASSUME NEW type \in MsgTypes, NEW fd \in Fds \cup {NoFd}, NEW a \in BOOLEAN,
           NEW callback \in BOOLEAN, NEW buf \in Buffers
    PROVE  [Blank(type) EXCEPT !.fd = fd, !.aligned = a, !.callback = callback,
                               !.buffer = buf] \in Request
  <1>1. [[[[Blank(type) EXCEPT !.fd = fd] EXCEPT !.aligned = a]
            EXCEPT !.callback = callback] EXCEPT !.buffer = buf] \in Request
    <2>1. [Blank(type) EXCEPT !.fd = fd] \in Request
      BY BlankType, SMTT(30) DEF Request
    <2>2. [[Blank(type) EXCEPT !.fd = fd] EXCEPT !.aligned = a] \in Request
      BY <2>1 DEF Request
    <2>3. [[[Blank(type) EXCEPT !.fd = fd] EXCEPT !.aligned = a]
             EXCEPT !.callback = callback] \in Request
      BY <2>2 DEF Request
    <2>4. QED
      BY <2>3 DEF Request
  <1>2. QED
    BY <1>1 DEF Blank

\* What the application's request for thread c and message m says, the one with a
\* callback in particular, and what happens to the descriptors it has open.
CallRequest(c, m, r) ==
    /\ r.callback => r.type \in {"READ", "WRITE", "BATCH_SUBMIT"} /\ AsyncRequest(r)
    /\ r.type = "OPEN" => r.flags \in Modes
    /\ OnDescriptor(r) => r.fd \in UsedFds
    /\ r.type = "CLOSE" => /\ "close" \in Ops
                           /\ r.fd \in held \cup (FdArgs \ Fds) /\ held' = held \ {r.fd}
    /\ r.type # "CLOSE" => held' = held
    /\ r.buffer \in {c, m, NoMsg}
    /\ r.type = "READ" => r.buffer = IF r.callback THEN m ELSE c
    /\ Alignments \subseteq {TRUE} => r.aligned

\* The fields of a request that is blank but for some of them.
LEMMA BlankFields ==
    ASSUME NEW type, NEW fd, NEW mode, NEW found
    PROVE  /\ LET r == Blank(type)
              IN  r.type = type /\ ~r.callback /\ r.aligned /\ r.buffer = NoMsg
           /\ LET r == [Blank(type) EXCEPT !.fd = fd]
              IN  r.type = type /\ r.fd = fd /\ ~r.callback /\ r.aligned /\ r.buffer = NoMsg
           /\ LET r == [Blank(type) EXCEPT !.flags = mode, !.found = found]
              IN  /\ r.type = type /\ ~r.callback /\ r.aligned /\ r.buffer = NoMsg
                  /\ r.flags = mode
           /\ LET r == [Blank(type) EXCEPT !.callback = TRUE]
              IN  r.type = type /\ r.aligned /\ r.buffer = NoMsg
  BY DEF Blank

\* Its fields are what the call put there.
LEMMA IoFields ==
    ASSUME NEW type, NEW fd, NEW a, NEW callback, NEW buf
    PROVE  LET r == [Blank(type) EXCEPT !.fd = fd, !.aligned = a, !.callback = callback,
                                        !.buffer = buf]
           IN  /\ r.type = type /\ r.fd = fd /\ r.buffer = buf
               /\ r.aligned = a /\ r.callback = callback
  BY DEF Blank

\* Every call but xpdk_cleanup starts with a well-typed request.
LEMMA CallsStart ==
    ASSUME TypeInv, NEW c \in Clients, Calls(c)
    PROVE  \/ \E m \in pool, r \in Request :
                StartCall(c, m, r) /\ CallRequest(c, m, r) /\ held' \subseteq Fds
           \/ xpdk_cleanup(c)
  <1> DEFINE Started == \E m \in pool, r \in Request :
                          StartCall(c, m, r) /\ CallRequest(c, m, r) /\ held' \subseteq Fds
  <1>1. ASSUME NEW m \in pool, NEW r \in Request, StartCall(c, m, r), CallRequest(c, m, r)
        PROVE  Started
    BY <1>1 DEF CallRequest, TypeInv, TypeOK
  <1>2. held \subseteq Fds
    BY DEF TypeInv, TypeOK
  <1>3. UsedFds \subseteq Fds \cup {NoFd}
    BY <1>2, SystemAssumption DEF UsedFds
  <1> HIDE DEF Started
  <1>4. ASSUME xpdk_open(c)
        PROVE  Started
    <2>1. PICK m \in pool, mode \in Modes, found \in Found :
            StartCall(c, m, [Blank("OPEN") EXCEPT !.flags = mode, !.found = found])
      BY <1>4 DEF xpdk_open
    <2> DEFINE r == [Blank("OPEN") EXCEPT !.flags = mode, !.found = found]
    <2>2. r \in Request
      BY BlankType, SystemAssumption, ZenonT(60) DEF Request, MsgTypes
    <2>3. r.type = "OPEN" /\ r.flags = mode /\ ~r.callback /\ r.aligned /\ r.buffer = NoMsg
      BY BlankFields, SMTT(30)
    <2>4. held' = held
      BY <1>4 DEF xpdk_open
    <2> HIDE DEF r
    <2>5. CallRequest(c, m, r)
      BY <2>3, <2>4 DEF CallRequest, OnDescriptor
    <2>6. QED
      BY <1>1, <2>1, <2>2, <2>5 DEF r
  <1>5. ASSUME xpdk_close(c)
        PROVE  Started
    <2>1. PICK m \in pool, fd \in held \cup (FdArgs \ Fds) :
            /\ StartCall(c, m, [Blank("CLOSE") EXCEPT !.fd = fd])
            /\ held' = held \ {fd} /\ "close" \in Ops
      BY <1>5 DEF xpdk_close
    <2> DEFINE r == [Blank("CLOSE") EXCEPT !.fd = fd]
    <2>2. r \in Request
      BY <1>2, BlankType, SystemAssumption DEF Request, MsgTypes
    <2>3. r.type = "CLOSE" /\ r.fd = fd /\ ~r.callback /\ r.aligned /\ r.buffer = NoMsg
      BY BlankFields, SMTT(30)
    <2> HIDE DEF r
    <2>4. CallRequest(c, m, r)
      BY <2>1, <2>3 DEF CallRequest, OnDescriptor
    <2>5. QED
      BY <1>1, <2>1, <2>2, <2>4 DEF r
  <1>6. ASSUME NEW op, NEW type \in MsgTypes \ {"OPEN", "CLOSE", "READ"},
               CallOnFd(c, op, type)
        PROVE  Started
    <2>1. PICK m \in pool, fd \in UsedFds : StartCall(c, m, [Blank(type) EXCEPT !.fd = fd])
      BY <1>6 DEF CallOnFd
    <2> DEFINE r == [Blank(type) EXCEPT !.fd = fd]
    <2>2. r \in Request
      BY <1>3, BlankType, SMTT(30) DEF Request
    <2>3. r.type = type /\ r.fd = fd /\ ~r.callback /\ r.aligned /\ r.buffer = NoMsg
      BY BlankFields, SMTT(30)
    <2>4. held' = held
      BY <1>6 DEF CallOnFd
    <2> HIDE DEF r
    <2>5. CallRequest(c, m, r)
      BY <1>6, <2>3, <2>4 DEF CallRequest, OnDescriptor
    <2>6. QED
      BY <1>1, <2>1, <2>2, <2>5 DEF r
  <1>7. ASSUME NEW op, NEW type \in {"READ", "WRITE"}, NEW callback \in BOOLEAN,
               CallIo(c, op, type, callback),
               callback => \/ type = "READ" /\ op = "read_async"
                           \/ type = "WRITE" /\ op = "write_async"
        PROVE  Started
    <2> DEFINE R(m, fd, a) == [Blank(type) EXCEPT !.fd = fd, !.aligned = a,
                                 !.callback = callback,
                                 !.buffer = IF callback THEN m ELSE c]
    <2>1. PICK m \in pool, fd \in UsedFds, a \in Alignments : StartCall(c, m, R(m, fd, a))
      BY <1>7 DEF CallIo
    <2>2. m \in Msgs /\ fd \in Fds \cup {NoFd} /\ a \in BOOLEAN
      BY <1>3, TypeParts, SystemAssumption DEF MsgTypeOK
    <2> DEFINE buf == IF callback THEN m ELSE c
               r == [Blank(type) EXCEPT !.fd = fd, !.aligned = a, !.callback = callback,
                                        !.buffer = buf]
    <2>3. buf \in Buffers /\ type \in MsgTypes
      BY <2>2 DEF Buffers, MsgTypes
    <2>4. StartCall(c, m, r)
      BY <2>1
    <2> HIDE DEF buf
    <2>5. r \in Request
      BY <2>2, <2>3, IoRequestType
    <2>6. /\ r.type = type /\ r.fd = fd /\ r.buffer = buf
          /\ r.aligned = a /\ r.callback = callback
      BY IoFields, SMTT(30)
    <2>7. held' = held
      BY <1>7 DEF CallIo
    <2> HIDE DEF r
    <2>8. CallRequest(c, m, r)
      <3>1. Alignments \subseteq {TRUE} => a
        BY <2>1
      <3>2. r.buffer \in {c, m, NoMsg} /\ r.buffer = IF r.callback THEN m ELSE c
        BY <2>6 DEF buf
      <3>3. r.type \in {"READ", "WRITE"} /\ (Alignments \subseteq {TRUE} => r.aligned)
        BY <2>6, <3>1
      <3>4. op \in Ops
        BY <1>7 DEF CallIo
      <3>5. r.fd \in UsedFds /\ r.aligned \in Alignments
        BY <2>1, <2>6
      <3>6. r.callback => AsyncRequest(r)
        BY <1>7, <2>6, <3>4, <3>5 DEF AsyncRequest
      <3>7. QED
        BY <2>7, <3>2, <3>3, <3>5, <3>6 DEF CallRequest, OnDescriptor
    <2>9. QED
      BY <1>1, <2>4, <2>5, <2>8
  <1>8. ASSUME xpdk_list_bdevs(c)
        PROVE  Started
    <2> DEFINE r == Blank("LIST_BDEVS")
    <2>1. PICK m \in pool : StartCall(c, m, r) /\ held' = held
      BY <1>8 DEF xpdk_list_bdevs
    <2>2. r \in Request
      BY BlankType DEF MsgTypes
    <2>3. r.type = "LIST_BDEVS" /\ ~r.callback /\ r.aligned /\ r.buffer = NoMsg
      BY BlankFields
    <2> HIDE DEF r
    <2>4. CallRequest(c, m, r)
      BY <2>1, <2>3 DEF CallRequest, OnDescriptor
    <2>5. QED
      BY <1>1, <2>1, <2>2, <2>4
  <1>9. ASSUME xpdk_batch_submit(c)
        PROVE  Started
    <2> DEFINE r == [Blank("BATCH_SUBMIT") EXCEPT !.callback = TRUE]
    <2>1. PICK m \in pool : StartCall(c, m, r) /\ held' = held /\ "batch_submit" \in Ops
      BY <1>9 DEF xpdk_batch_submit
    <2>2. r \in Request
      BY BlankType, ZenonT(60) DEF Request, MsgTypes
    <2>3. r.type = "BATCH_SUBMIT" /\ r.aligned /\ r.buffer = NoMsg
      BY BlankFields
    <2> HIDE DEF r
    <2>4. CallRequest(c, m, r)
      BY <2>1, <2>3 DEF CallRequest, AsyncRequest, OnDescriptor
    <2>5. QED
      BY <1>1, <2>1, <2>2, <2>4
  <1>10. QED
    BY <1>4, <1>5, <1>6, <1>7, <1>8, <1>9, ZenonT(60)
    DEF Calls, xpdk_get_info, xpdk_flush, xpdk_qos_set_rate_limits,
        xpdk_qos_get_rate_limits, xpdk_get_perf_stats, xpdk_reset_perf_stats,
        xpdk_trim, xpdk_write_zeros, xpdk_read, xpdk_write, xpdk_read_async,
        xpdk_write_async, MsgTypes, Started

\* An enqueue keeps the ring within its capacity.
LEMMA EnqueueType ==
    ASSUME TypeInv, NEW m \in Msgs, spdk_ring_enqueue(m)
    PROVE  /\ ring' \in Seq(Msgs)
           /\ Len(ring') = Len(ring) + 1
           /\ Len(ring') <= RingCapacity
           /\ \A i \in 1 .. Len(ring) : ring'[i] = ring[i]
           /\ ring'[Len(ring) + 1] = m
  <1>1. ring \in Seq(Msgs) /\ ring' = Append(ring, m) /\ ~(Len(ring) >= RingCapacity)
    BY TypeParts DEF MsgTypeOK, spdk_ring_enqueue, RingFull
  <1>2. Len(ring) \in Nat
    BY <1>1, SeqElements
  <1>3. QED
    BY <1>1, <1>2, AppendElements, MsgAssumption, SMTT(30)

-----------------------------------------------------------------------------
\* A thread that is in a call holds a message, any other thread holds none.
LEMMA HoldsMessage ==
    ASSUME TypeInv, NEW c \in Clients
    PROVE  /\ pc[c] \in {"send", "wait"} => cur[c] \in Msgs
           /\ pc[c] \notin {"send", "wait"} => cur[c] = NoMsg
           /\ cur[c] # NoMsg => cur[c] \in Msgs /\ pc[c] \in {"send", "wait"}
  BY DEF TypeInv, TypeOK, CallShape

\* The ring holds messages.
LEMMA RingHoldsMessages ==
    ASSUME TypeInv
    PROVE  /\ Len(ring) \in Nat
           /\ \A i \in 1 .. Len(ring) : ring[i] \in Msgs
  <1>1. ring \in Seq(Msgs)
    BY DEF TypeInv, TypeOK, MsgTypeOK
  <1>2. QED
    BY <1>1, SeqElements

\* A thread in a call has its message to itself.
LEMMA OwnMessage ==
    ASSUME MessageInv, NEW c \in Clients, pc[c] \in {"send", "wait"}
    PROVE  /\ cur[c] \in Msgs /\ cur[c] \notin pool
           /\ \A d \in Clients : cur[d] = cur[c] => d = c
           /\ completed[cur[c]] => pending[cur[c]] = "none"
  BY HoldsMessage, MsgAssumption DEF MessageInv, OneOwner, CallOwnsMessage, BdevOwnsMessage

\* Only one thread can be in xpdk_cleanup, and no other thread is in a call.
LEMMA CleanupExcludes ==
    ASSUME CleanupAlone, NEW c \in Clients, NEW d \in Clients, pc[c] # "idle", d # c
    PROVE  scan[d] = NoFd
  BY DEF CleanupAlone

\* While a thread is in a call the library is up.
LEMMA UpWhileCalled ==
    ASSUME DownIsQuiet, NEW c \in Clients, pc[c] # "idle"
    PROVE  initialized
  BY DEF DownIsQuiet, Quiet

\* The parts of the invariant that are about messages in use.
Owners == OneOwner /\ NoStrandedCall /\ CallFresh

(***************************************************************************)
(* A call gives its message back to the pool: it is not in flight, because *)
(* it was never sent or because it is completed.                           *)
(***************************************************************************)
LEMMA EndCallOwners ==
    ASSUME MessageInv, NEW c \in Clients,
           pc[c] = "send" \/ (pc[c] = "wait" /\ completed[cur[c]]),
           EndCall(c), UNCHANGED <<ring, req, completed, pending>>
    PROVE  Owners' /\ ~InFlight(cur[c])
  <1> DEFINE m == cur[c]
  <1> USE DEF MessageInv, OneOwner
  <1>1. m \in Msgs
    BY HoldsMessage
  <1>2. ~InFlight(m)
    BY <1>1, MsgAssumption
       DEF CallOwnsMessage, InFlight, InRing, RingOwnsMessage, BdevOwnsMessage
  <1>3. \A d \in Clients \ {c} : cur[d] # m
    BY <1>1, MsgAssumption DEF CallOwnsMessage
  <1>4. /\ pool' = pool \cup {m} /\ cur'[c] = NoMsg
        /\ pc'[c] \in {"idle", "scan", "join"}
        /\ \A d \in Clients \ {c} : cur'[d] = cur[d] /\ pc'[d] = pc[d]
    BY DEF EndCall, xpdk_msg_free, Resume, TypeInv, TypeOK
  <1>5. \A n \in Msgs : InFlight(n)' <=> InFlight(n)
    BY DEF InFlight, InRing
  <1> HIDE DEF m
  <1>6. RingOwnsMessage'
    BY <1>2, <1>4 DEF RingOwnsMessage, InFlight, InRing
  <1>7. BdevOwnsMessage'
    BY <1>2, <1>4 DEF BdevOwnsMessage, InFlight
  <1>8. CallOwnsMessage'
    BY <1>3, <1>4, <1>5, HoldsMessage, SMTT(30) DEF CallOwnsMessage
  <1>9. NoStrandedCall' /\ CallFresh'
    BY <1>4, <1>5, HoldsMessage DEF NoStrandedCall, CallFresh
  <1>10. QED
    BY <1>2, <1>6, <1>7, <1>8, <1>9 DEF Owners, m

-----------------------------------------------------------------------------
(***************************************************************************)
(* Dequeuing takes one message out of the ring and                         *)
(* leaves the others where they are.                                       *)
(***************************************************************************)
LEMMA Dequeued ==
    ASSUME MessageInv, NEW m \in Msgs, m = Head(ring), ring # <<>>, ring' = Tail(ring)
    PROVE  /\ InRing(m) /\ ~InRing(m)'
           /\ m \notin pool /\ pending[m] = "none" /\ ~completed[m]
           /\ \A n \in Msgs \ {m} : InRing(n)' <=> InRing(n)
  <1> USE DEF MessageInv, OneOwner
  <1>1. /\ Len(ring) \in Nat \ {0} /\ Len(ring') = Len(ring) - 1 /\ ring[1] = m
        /\ \A i \in 1 .. Len(ring') : ring'[i] = ring[i + 1]
    <2>1. ring \in Seq(Msgs)
      BY DEF TypeInv, TypeOK, MsgTypeOK
    <2>2. QED
      BY <2>1, TailElements, SeqElements, SMTT(30)
  <1>2. InRing(m) /\ m \notin pool /\ pending[m] = "none" /\ ~completed[m]
    BY <1>1, SMTT(30) DEF InRing, RingOwnsMessage
  <1>3. ~InRing(m)'
    BY <1>1, SMTT(30) DEF InRing, RingOwnsMessage
  <1>4. ASSUME NEW n \in Msgs \ {m}, InRing(n)
        PROVE  InRing(n)'
    <2>1. PICK i \in 1 .. Len(ring) : ring[i] = n
      BY <1>4 DEF InRing
    <2>2. i - 1 \in 1 .. Len(ring') /\ ring'[i - 1] = n
      BY <1>1, <2>1, SMTT(30)
    <2>3. QED
      BY <2>2 DEF InRing
  <1>5. ASSUME NEW n \in Msgs \ {m}, InRing(n)'
        PROVE  InRing(n)
    <2>1. PICK i \in 1 .. Len(ring') : ring'[i] = n
      BY <1>5 DEF InRing
    <2>2. i + 1 \in 1 .. Len(ring) /\ ring[i + 1] = n
      BY <1>1, <2>1, SMTT(30)
    <2>3. QED
      BY <2>2 DEF InRing
  <1>6. QED
    BY <1>2, <1>3, <1>4, <1>5

(***************************************************************************)
(* A handler either replies to its message or hands it to the bdev layer,  *)
(* never neither and never both; closing and shutting down always reply.   *)
(***************************************************************************)
Replied(m) == pending' = pending /\ completed' = [completed EXCEPT ![m] = TRUE]

Submitted(m) ==
    /\ completed' = completed
    /\ \E op \in BdevOps \ {"none"} : pending' = [pending EXCEPT ![m] = op]

\* A handler replies to its message or submits it to the bdev layer.
LEMMA HandlerOutcome ==
    ASSUME TypeInv, xpdk_msg_process_poller
    PROVE  LET m == Head(ring)
           IN  \/ Replied(m)
               \/ Submitted(m) /\ req[m].type \notin {"CLOSE", "SHUTDOWN"}
  <1> DEFINE m == Head(ring)
  <1>1. m \in Msgs
    BY PollerFrame
  <1> HIDE DEF m
  <1>2. CASE HandleIo(m)
    <2>1. CASE \E s \in Status : Refuse(m, s)
      BY <2>1 DEF Refuse, Reply, Replied, m
    <2>2. CASE \E b \in Bufs \cup {NoMsg} : WaitIfSync(m, b)
      BY <1>1, <1>2, <2>2, HandleIoOutcome DEF WaitIfSync, Submitted, BdevOps, m
    <2>3. QED
      BY <1>1, <1>2, <2>1, <2>2, HandleIoOutcome DEF m
  <1>3. CASE HandleDevice(m) \/ HandleUnknown(m)
    <2>1. CASE xpdk_spdk_handle_open(m) /\ req[m].type = "OPEN"
      BY <2>1 DEF xpdk_spdk_handle_open, Reply, Replied, Submitted, BdevOps, m
    <2>2. CASE xpdk_spdk_handle_close(m)
      BY <2>2 DEF xpdk_spdk_handle_close, Reply, Replied, m
    <2>3. CASE AnswerIfOpen(m) \/ xpdk_spdk_handle_list_bdevs(m) \/ HandleUnknown(m)
      BY <2>3 DEF AnswerIfOpen, xpdk_spdk_handle_list_bdevs, HandleUnknown, Reply, devVars,
                  Replied, m
    <2>4. CASE xpdk_spdk_handle_qos_set_limits(m) /\ req[m].type = "QOS_SET_LIMITS"
      BY <2>4 DEF xpdk_spdk_handle_qos_set_limits, Reply, Replied, Submitted, BdevOps, m
    <2>5. CASE SubmitUnmap(m)
      BY <2>5 DEF SubmitUnmap, Reply, Replied, m
    <2>6. QED
      BY <1>3, <2>1, <2>2, <2>3, <2>4, <2>5
         DEF HandleDevice, xpdk_spdk_handle_get_info, xpdk_spdk_handle_qos_get_limits,
             xpdk_spdk_handle_get_perf_stats, xpdk_spdk_handle_reset_perf_stats,
             xpdk_spdk_handle_trim, xpdk_spdk_handle_write_zeros
  <1>4. CASE HandleShutdown(m)
    BY <1>4 DEF HandleShutdown, devVars, Replied, m
  <1>5. QED
    BY <1>2, <1>3, <1>4 DEF xpdk_msg_process_poller, m

\* A handler stores into its own message, and only an open or a close into the table.
LEMMA HandlerStores ==
    ASSUME TypeInv, NEW m \in Msgs, m = Head(ring), xpdk_msg_process_poller
    PROVE  /\ \A n \in Msgs \ {m} : /\ status'[n] = status[n] /\ completed'[n] = completed[n]
                                    /\ pending'[n] = pending[n] /\ result_fd'[n] = result_fd[n]
           /\ \/ pending'[m] = pending[m]
              \/ pending'[m] = "open" /\ req[m].type = "OPEN"
              \/ pending'[m] = "io" /\ req[m].type \in {"READ", "WRITE", "FLUSH"}
              \/ pending'[m] = "qos" /\ req[m].type = "QOS_SET_LIMITS"
           /\ req[m].type = "OPEN" => xpdk_spdk_handle_open(m)
           /\ req[m].type = "CLOSE" => xpdk_spdk_handle_close(m)
           /\ req[m].type \notin {"OPEN", "CLOSE"} => devices' = devices
  <1> USE DEF TypeInv, TypeOK, MsgTypeOK, DeviceTypeOK
  <1>1. CASE HandleIo(m)
    <2>1. req[m].type \in {"READ", "WRITE", "FLUSH"} /\ UNCHANGED <<devices, result_fd>>
      BY <1>1, HandleIoOutcome
    <2>2. CASE \E s \in Status : Refuse(m, s)
      BY <2>1, <2>2 DEF Refuse, Reply
    <2>3. CASE \E b \in Bufs \cup {NoMsg} : WaitIfSync(m, b)
      <3>1. UNCHANGED <<status, completed>> /\ pending' = [pending EXCEPT ![m] = "io"]
        BY <2>3 DEF WaitIfSync
      <3>2. QED
        BY <2>1, <3>1
    <2>4. QED
      BY <1>1, <2>2, <2>3, HandleIoOutcome
  <1>2. CASE req[m].type = "OPEN" /\ xpdk_spdk_handle_open(m)
    BY <1>2, ZenonT(60) DEF xpdk_spdk_handle_open, Reply
  <1>3. CASE req[m].type = "CLOSE" /\ xpdk_spdk_handle_close(m)
    BY <1>3 DEF xpdk_spdk_handle_close, Reply
  <1>4. CASE /\ AnswerIfOpen(m) \/ xpdk_spdk_handle_list_bdevs(m) \/ HandleUnknown(m)
             /\ req[m].type \notin {"OPEN", "CLOSE"}
    BY <1>4 DEF AnswerIfOpen, xpdk_spdk_handle_list_bdevs, HandleUnknown, Reply, devVars
  <1>5. CASE xpdk_spdk_handle_qos_set_limits(m) /\ req[m].type = "QOS_SET_LIMITS"
    BY <1>5 DEF xpdk_spdk_handle_qos_set_limits, Reply
  <1>6. CASE SubmitUnmap(m) /\ req[m].type \notin {"OPEN", "CLOSE"}
    BY <1>6 DEF SubmitUnmap, Reply
  <1>7. CASE HandleShutdown(m)
    BY <1>7 DEF HandleShutdown, devVars
  <1>8. QED
    BY <1>1, <1>2, <1>3, <1>4, <1>5, <1>6, <1>7
       DEF xpdk_msg_process_poller, HandleDevice, HandleUnknown,
           xpdk_spdk_handle_get_info, xpdk_spdk_handle_qos_get_limits,
           xpdk_spdk_handle_get_perf_stats, xpdk_spdk_handle_reset_perf_stats,
           xpdk_spdk_handle_trim, xpdk_spdk_handle_write_zeros

\* A completion stores into its own message, and only that of an open into the table.
LEMMA CompletionStores ==
    ASSUME TypeInv, NEW m \in Msgs, BdevCompletes(m)
    PROVE  /\ UNCHANGED <<ring, req, result_fd, pc, cur, scan, held, initialized>>
           /\ pending[m] # "none" /\ pending'[m] = "none"
           /\ \A n \in Msgs \ {m} : /\ status'[n] = status[n] /\ completed'[n] = completed[n]
                                    /\ pending'[n] = pending[n]
           /\ \/ pending[m] = "open" /\ bdev_open_complete(m)
              \/ pending[m] \in {"io", "qos"} /\ devices' = devices
  <1> USE DEF TypeInv, TypeOK, MsgTypeOK, DeviceTypeOK, appVars, lifeVars
  <1>1. CASE bdev_open_complete(m) /\ UNCHANGED <<pool, ring, req>>
    BY <1>1 DEF BdevCompletes, bdev_open_complete, Reply
  <1>2. CASE xpdk_qos_set_limits_complete(m) /\ UNCHANGED <<pool, ring, req>>
    BY <1>2 DEF BdevCompletes, xpdk_qos_set_limits_complete, Reply
  <1>3. CASE sync_io_completion_cb(m)
    <2>1. /\ UNCHANGED <<ring, req, result_fd, devices>> /\ pending[m] = "io"
          /\ pending' = [pending EXCEPT ![m] = "none"]
          /\ \E s \in Status : Reply(m, s)
      BY <1>3, ZenonT(60) DEF sync_io_completion_cb, Status
    <2>2. QED
      BY <2>1 DEF BdevCompletes, Reply
  <1>4. CASE async_io_completion_cb(m)
    BY <1>4 DEF BdevCompletes, async_io_completion_cb
  <1>5. QED
    BY <1>1, <1>2, <1>3, <1>4 DEF BdevCompletes

=============================================================================
