-------------------------- MODULE XpdkSystemProof ---------------------------
(***************************************************************************)
(* The theorems about the whole library, for every value of the constants. *)
(*                                                                         *)
(* The answers of asynchronous requests: under every fault, a callback is  *)
(* called at most once and no message is freed before it (AnsweredOnce),   *)
(* and the library implements the safety part of XpdkAsync: what happens   *)
(* to an answer is what XpdkAsync allows.  That every request is answered  *)
(* is liveness, and false with faults.                                     *)
(*                                                                         *)
(* The device table and the I/O path: the inductive invariants DeviceInv   *)
(* and IoInv, whose steps are in XpdkDeviceProof and XpdkIoProof, and what *)
(* follows from them.                                                      *)
(*                                                                         *)
(* What an application gains that closes no descriptor with requests still *)
(* on their way (FinishFirst, UseInv): its trims find their device         *)
(* (TrimHasDescriptor), and where nothing else makes a handler refuse, no  *)
(* request is lost (NoLostRequest).                                        *)
(***************************************************************************)
EXTENDS XpdkMessageProof, XpdkDeviceProof, XpdkIoProof

\* Most leaves are first-order reasoning about sets and functions.
USE ZenonT(30)

Async == INSTANCE XpdkAsync WITH Reqs <- Msgs

\* What a step must keep, beside MessageInv.
AnswersKept == AnsweredOnce /\ HeldUnanswered

\* What a step may do to the answers.
AsyncStep == Async!Next \/ UNCHANGED answer

\* An answer is not asked for, owed or given.
LEMMA AnswerType ==
    ASSUME TypeInv
    PROVE  /\ answer \in [Msgs -> {"none", "owed"} \cup Async!Outcomes]
           /\ pool \subseteq Msgs
  BY DEF TypeInv, TypeOK, IoTypeOK, MsgTypeOK, Answers, Async!Outcomes

(***************************************************************************)
(* A step that gives no answer, frees nothing and puts nothing in flight.  *)
(***************************************************************************)
LEMMA SameAnswers ==
    ASSUME AnswerInv, UNCHANGED <<answer, req, pc, cur>>,
           pool' \subseteq pool,
           \A n \in Msgs : InFlight(n)' => InFlight(n)
    PROVE  AnswersKept' /\ AsyncStep
  BY DEF AnswerInv, AnswersKept, AnsweredOnce, HeldUnanswered, AsyncStep

(***************************************************************************)
(* The allocation of a message, whose former request was answered.         *)
(***************************************************************************)
LEMMA NewMessageAnswers ==
    ASSUME AnswerInv, MessageInv', NEW c \in Clients, NEW m \in pool, NEW r \in Request,
           NewMessage(c, m, r)
    PROVE  AnswersKept' /\ AsyncStep
  <1> USE DEF AnswerInv, MessageInv
  <1>1. /\ m \in Msgs /\ pool' = pool \ {m} /\ UNCHANGED <<ring, pending>>
        /\ answer' = [answer EXCEPT ![m] = "none"]
        /\ pc'[c] = "send" /\ cur'[c] = m
        /\ \A n \in Msgs \ {m} : req'[n] = req[n]
        /\ \A d \in Clients \ {c} : cur'[d] = cur[d] /\ pc'[d] = pc[d]
    BY SMTT(30) DEF NewMessage, xpdk_msg_alloc, TypeInv, TypeOK, MsgTypeOK
  <1>2. /\ answer'[m] = "none"
        /\ \A n \in Msgs \ {m} : answer'[n] = answer[n]
    BY <1>1, AnswerType
  <1>3. ~InFlight(m)'
    BY <1>1, MsgAssumption DEF OneOwner, CallOwnsMessage
  <1>4. \A n \in Msgs : InFlight(n)' => InFlight(n)
    BY <1>1 DEF InFlight, InRing
  <1>5. AnsweredOnce'
    BY <1>1, <1>2, <1>3, <1>4 DEF AnsweredOnce
  <1>6. \A d \in Clients \ {c} : pc[d] \in {"send", "wait"} => cur[d] \in Msgs \ {m}
    BY HoldsMessage, MsgAssumption DEF OneOwner, CallOwnsMessage
  <1>7. HeldUnanswered'
    BY <1>1, <1>2, <1>6, SMTT(30) DEF HeldUnanswered
  <1>8. AsyncStep
    <2>1. answer[m] # "owed"
      BY <1>1 DEF AnsweredOnce
    <2>2. CASE answer[m] = "none"
      BY <1>1, <2>2, AnswerType DEF AsyncStep
    <2>3. CASE answer[m] \in Async!Outcomes
      BY <1>1, <2>3 DEF AsyncStep, Async!Next, Async!Recycle
    <2>4. QED
      BY <1>1, <2>1, <2>2, <2>3, AnswerType
  <1>9. QED
    BY <1>5, <1>7, <1>8 DEF AnswersKept

(***************************************************************************)
(* The end of a call that was not sent, or was synchronous.                *)
(***************************************************************************)
LEMMA EndCallAnswers ==
    ASSUME AnswerInv, NEW c \in Clients, pc[c] \in {"send", "wait"}, EndCall(c),
           UNCHANGED <<ring, req, pending, answer>>
    PROVE  AnswersKept' /\ AsyncStep
  <1> USE DEF AnswerInv, MessageInv
  <1>1. /\ pool' = pool \cup {cur[c]} /\ answer[cur[c]] = "none"
        /\ pc'[c] \notin {"send", "wait"}
        /\ \A d \in Clients \ {c} : cur'[d] = cur[d] /\ pc'[d] = pc[d]
    BY DEF EndCall, xpdk_msg_free, Resume, TypeInv, TypeOK, HeldUnanswered
  <1>2. \A n \in Msgs : InFlight(n)' <=> InFlight(n)
    BY DEF InFlight, InRing
  <1>3. AnsweredOnce'
    BY <1>1, <1>2 DEF AnsweredOnce
  <1>4. HeldUnanswered'
    BY <1>1 DEF HeldUnanswered
  <1>5. QED
    BY <1>3, <1>4 DEF AnswersKept, AsyncStep

(***************************************************************************)
(* A message is sent.  An asynchronous one is owed an answer from here on. *)
(***************************************************************************)
LEMMA SendAnswers ==
    ASSUME AnswerInv, NEW c \in Clients, xpdk_msg_send_sync(c) \/ xpdk_msg_send_async(c)
    PROVE  AnswersKept' /\ AsyncStep
  <1> DEFINE m == cur[c]
  <1> USE DEF AnswerInv, MessageInv
  <1>1. /\ pc[c] = "send" /\ spdk_ring_enqueue(m)
        /\ UNCHANGED <<pool, req, pending>>
        /\ \A d \in Clients \ {c} : cur'[d] = cur[d] /\ pc'[d] = pc[d]
        /\ \/ /\ pc'[c] = "wait" /\ cur'[c] = m
              /\ ~req[m].callback /\ answer' = answer
           \/ /\ pc'[c] = "idle" /\ req[m].callback
              /\ answer' = [answer EXCEPT ![m] = "owed"]
    BY DEF xpdk_msg_send_sync, xpdk_msg_send_async, devVars, ioVars, TypeInv, TypeOK
  <1>2. m \in Msgs /\ m \notin pool /\ answer[m] = "none"
    BY <1>1, HoldsMessage, MsgAssumption DEF OneOwner, CallOwnsMessage, HeldUnanswered
  <1>3. \A d \in Clients \ {c} : pc[d] \in {"send", "wait"} => cur[d] \in Msgs \ {m}
    BY <1>2, HoldsMessage, MsgAssumption DEF OneOwner, CallOwnsMessage
  <1>4. \A n \in Msgs \ {m} : InFlight(n)' => InFlight(n)
    BY <1>1, <1>2, EnqueueType, RingHoldsMessages, SMTT(30) DEF InFlight, InRing
  <1> HIDE DEF m
  <1>5. \A n \in Msgs \ {m} : answer'[n] = answer[n]
    BY <1>1, <1>2, AnswerType
  <1>6. req[m].callback => answer'[m] = "owed"
    BY <1>1, <1>2, AnswerType
  <1>7. AnsweredOnce'
    BY <1>1, <1>2, <1>4, <1>5, <1>6 DEF AnsweredOnce
  <1>8. HeldUnanswered'
    BY <1>1, <1>2, <1>3, <1>5, SMTT(30) DEF HeldUnanswered
  <1>9. AsyncStep
    BY <1>1, <1>2 DEF AsyncStep, Async!Next, Async!Accept
  <1>10. QED
    BY <1>7, <1>8, <1>9 DEF AnswersKept

\* A call begins with a fresh message: an answered one is recycled.
LEMMA CallsAnswers ==
    ASSUME AnswerInv, MessageInv', NEW c \in Clients, Calls(c)
    PROVE  AnswersKept' /\ AsyncStep
  <1> USE DEF AnswerInv, MessageInv
  <1>1. CASE \E m \in pool, r \in Request : StartCall(c, m, r)
    BY <1>1, NewMessageAnswers DEF StartCall
  <1>2. CASE xpdk_cleanup(c)
    <2>1. /\ UNCHANGED <<pool, ring, req, pending, cur, answer>>
          /\ pc' = [pc EXCEPT ![c] = "scan"]
      BY <1>2 DEF xpdk_cleanup, msgVars, devVars, ioVars
    <2>2. \A d \in Clients : pc'[d] \in {"send", "wait"} => pc[d] \in {"send", "wait"}
      BY <2>1 DEF TypeInv, TypeOK
    <2>3. \A n \in Msgs : InFlight(n)' <=> InFlight(n)
      BY <2>1 DEF InFlight, InRing
    <2>4. QED
      BY <2>1, <2>2, <2>3 DEF AnswersKept, AsyncStep, AnsweredOnce, HeldUnanswered
  <1>3. QED
    BY <1>1, <1>2, CallsStart

\* Sending accepts the request; the other steps of a call leave the answers alone.
LEMMA CallStepAnswers ==
    ASSUME AnswerInv, MessageInv', NEW c \in Clients, CallStep(c)
    PROVE  AnswersKept' /\ AsyncStep
  <1> USE DEF AnswerInv, MessageInv
  <1>1. CASE SendBusy(c) \/ ReturnSync(c)
    <2>1. /\ pc[c] \in {"send", "wait"} /\ EndCall(c)
          /\ UNCHANGED <<ring, req, pending, answer>>
      BY <1>1 DEF SendBusy, ReturnSync, devVars, ioVars
    <2>2. QED
      BY <2>1, EndCallAnswers
  <1>2. CASE CleanupDevice(c)
    <2>1. pc[c] = "scan" /\ scan[c] < NumFds
      BY <1>2 DEF CleanupDevice
    <2>2. scan[c] \in 0 .. NumFds - 1
      BY <2>1, MsgAssumption, SMTT(30) DEF TypeInv, TypeOK, CallShape, NoFd
    <2>3. CASE \E m \in pool : NewMessage(c, m, [Blank("CLOSE") EXCEPT !.fd = scan[c]])
      <3>1. [Blank("CLOSE") EXCEPT !.fd = scan[c]] \in Request
        BY <2>2, BlankType DEF Request, MsgTypes, Fds
      <3>2. QED
        BY <2>3, <3>1, NewMessageAnswers
    <2>4. CASE UNCHANGED <<msgVars, devVars, ioVars, pc, cur, lifeVars>>
      BY <2>4, SameAnswers DEF msgVars, devVars, ioVars, InFlight, InRing
    <2>5. QED
      BY <1>2, <2>3, <2>4 DEF CleanupDevice
  <1>3. CASE xpdk_cleanup_spdk_thread(c)
    <2>1. pc[c] = "scan"
      BY <1>3 DEF xpdk_cleanup_spdk_thread
    <2>2. CASE \E m \in pool : NewMessage(c, m, Blank("SHUTDOWN"))
      <3>1. Blank("SHUTDOWN") \in Request
        BY BlankType DEF MsgTypes
      <3>2. QED
        BY <2>2, <3>1, NewMessageAnswers
    <2>3. CASE /\ pc' = [pc EXCEPT ![c] = "join"]
               /\ UNCHANGED <<msgVars, devVars, ioVars, cur, lifeVars>>
      <3>1. UNCHANGED <<pool, ring, req, pending, cur, answer>>
        BY <2>3 DEF msgVars, devVars, ioVars
      <3>2. \A d \in Clients : pc'[d] \in {"send", "wait"} => pc[d] \in {"send", "wait"}
        BY <2>3 DEF TypeInv, TypeOK
      <3>3. \A n \in Msgs : InFlight(n)' <=> InFlight(n)
        BY <3>1 DEF InFlight, InRing
      <3>4. QED
        BY <3>1, <3>2, <3>3 DEF AnswersKept, AsyncStep, AnsweredOnce, HeldUnanswered
    <2>4. QED
      BY <1>3, <2>2, <2>3 DEF xpdk_cleanup_spdk_thread
  <1>4. CASE CleanupJoin(c)
    <2>1. /\ pc[c] = "join" /\ pool' = {} /\ ring' = <<>>
          /\ pc' = [pc EXCEPT ![c] = "idle"]
          /\ UNCHANGED <<pending, cur, answer>>
      BY <1>4 DEF CleanupJoin, devVars, ioVars
    <2>2. scan[c] # NoFd
      BY <2>1 DEF TypeInv, CallShape
    <2>3. /\ \A n \in Msgs : pending[n] = "none"
          /\ \A d \in Clients : pc'[d] = "idle"
      BY <2>1, <2>2 DEF CleanupAlone, TypeInv, TypeOK
    <2>4. \A n \in Msgs : ~InFlight(n)'
      BY <2>1, <2>3, SMTT(30) DEF InFlight, InRing
    <2>5. QED
      BY <2>1, <2>3, <2>4 DEF AnswersKept, AsyncStep, AnsweredOnce, HeldUnanswered
  <1>5. QED
    BY <1>1, <1>2, <1>3, <1>4, SendAnswers DEF CallStep

(***************************************************************************)
(* Handlers answer nobody who has a callback: they reply in the message.   *)
(***************************************************************************)
LEMMA PollerAnswers ==
    ASSUME AnswerInv, xpdk_msg_process_poller
    PROVE  AnswersKept' /\ AsyncStep
  <1> DEFINE m == Head(ring)
  <1> USE DEF AnswerInv, MessageInv
  <1>1. answer' = answer
    <2>1. CASE HandleIo(m)
      BY <2>1 DEF HandleIo, xpdk_spdk_handle_read, xpdk_spdk_handle_write,
                  xpdk_spdk_handle_flush
    <2>2. CASE UNCHANGED <<dma, ctx, filled, answer>>
      BY <2>2
    <2>3. QED
      BY <2>1, <2>2 DEF xpdk_msg_process_poller
  <1>2. /\ m \in Msgs /\ UNCHANGED <<pool, req, pc, cur>>
        /\ ring \in Seq(Msgs) /\ ring # <<>> /\ ring' = Tail(ring)
    BY PollerFrame DEF TypeInv, TypeOK, MsgTypeOK
  <1>3. /\ Len(ring) \in Nat \ {0} /\ Len(ring') = Len(ring) - 1
        /\ ring[1] = m
        /\ \A i \in 1 .. Len(ring') : ring'[i] = ring[i + 1]
    BY <1>2, TailElements, SeqElements, SMTT(30)
  <1>4. Replied(m) \/ Submitted(m)
    BY HandlerOutcome
  <1>5. InFlight(m)
    BY <1>3, SMTT(30) DEF InFlight, InRing
  <1> HIDE DEF m
  <1>6. \A n \in Msgs \ {m} : pending'[n] = pending[n]
    BY <1>2, <1>4 DEF Replied, Submitted, TypeInv, TypeOK, DeviceTypeOK
  <1>7. \A n \in Msgs : InRing(n)' => InRing(n)
    <2> SUFFICES ASSUME NEW n \in Msgs, NEW i \in 1 .. Len(ring'), ring'[i] = n
                 PROVE  InRing(n)
      BY DEF InRing
    <2>1. i + 1 \in 1 .. Len(ring) /\ ring[i + 1] = n
      BY <1>3, SMTT(30)
    <2>2. QED
      BY <2>1 DEF InRing
  <1>8. \A n \in Msgs : InFlight(n)' => InFlight(n)
    BY <1>5, <1>6, <1>7 DEF InFlight
  <1>9. QED
    BY <1>1, <1>2, <1>8, SameAnswers

(***************************************************************************)
(* A completion.  async_io_completion_cb calls the callback of a request   *)
(* that is owed an answer, and only then frees its message.                *)
(***************************************************************************)
LEMMA BdevAnswers ==
    ASSUME AnswerInv, MessageInv', NEW m \in Msgs, BdevCompletes(m)
    PROVE  AnswersKept' /\ AsyncStep
  <1> USE DEF AnswerInv, MessageInv
  <1>1. /\ UNCHANGED <<ring, req, pc, cur>>
        /\ pending[m] # "none"
        /\ pending' = [pending EXCEPT ![m] = "none"]
        /\ \/ pool' = pool /\ answer' = answer
           \/ /\ pool' = pool \cup {m} /\ req[m].callback
              /\ \E s \in Async!Outcomes : answer' = [answer EXCEPT ![m] = s]
    <2>1. CASE bdev_open_complete(m) /\ UNCHANGED <<pool, ring, req, ioVars>>
      BY <2>1 DEF BdevCompletes, bdev_open_complete, ioVars, appVars
    <2>2. CASE xpdk_qos_set_limits_complete(m) /\ UNCHANGED <<pool, ring, req, ioVars>>
      BY <2>2 DEF BdevCompletes, xpdk_qos_set_limits_complete, ioVars, appVars
    <2>3. CASE sync_io_completion_cb(m)
      BY <2>3, ZenonT(60) DEF BdevCompletes, sync_io_completion_cb, appVars
    <2>4. CASE async_io_completion_cb(m)
      <3>1. \E s \in Async!Outcomes : answer' = [answer EXCEPT ![m] = s]
        BY <2>4 DEF async_io_completion_cb, Async!Outcomes
      <3>2. QED
        BY <2>4, <3>1 DEF BdevCompletes, async_io_completion_cb, xpdk_msg_free, appVars
    <2>5. QED
      BY <2>1, <2>2, <2>3, <2>4 DEF BdevCompletes
  <1>2. \A n \in Msgs : InFlight(n)' => InFlight(n)
    BY <1>1 DEF InFlight, InRing, TypeInv, TypeOK, DeviceTypeOK
  <1>3. CASE pool' = pool /\ answer' = answer
    BY <1>1, <1>2, <1>3, SameAnswers
  <1>4. ASSUME pool' = pool \cup {m}, req[m].callback, NEW s \in Async!Outcomes,
               answer' = [answer EXCEPT ![m] = s]
        PROVE  AnswersKept' /\ AsyncStep
    <2>1. answer[m] = "owed"
      BY <1>1, <1>4 DEF InFlight, AnsweredOnce
    <2>2. /\ answer'[m] \in Async!Outcomes
          /\ \A n \in Msgs \ {m} : answer'[n] = answer[n]
      BY <1>4, AnswerType
    <2>3. ~InFlight(m)'
      BY <1>1, <1>4 DEF InFlight, InRing, OneOwner, RingOwnsMessage, TypeInv, TypeOK,
                        DeviceTypeOK
    <2>4. AnsweredOnce'
      BY <1>1, <1>2, <1>4, <2>2, <2>3 DEF AnsweredOnce, Async!Outcomes
    <2>5. \A d \in Clients : pc[d] \in {"send", "wait"} => cur[d] \in Msgs \ {m}
      BY <2>1, HoldsMessage DEF HeldUnanswered
    <2>6. HeldUnanswered'
      BY <1>1, <2>2, <2>5 DEF HeldUnanswered
    <2>7. AsyncStep
      BY <1>4, <2>1 DEF AsyncStep, Async!Next, Async!Answer
    <2>8. QED
      BY <2>4, <2>6, <2>7 DEF AnswersKept
  <1>5. QED
    BY <1>1, <1>3, <1>4

\* xpdk_init_opts forgets what was not answered: Restart.
LEMMA InitAnswers ==
    ASSUME AnswerInv, xpdk_init_opts
    PROVE  AnswersKept' /\ AsyncStep
  <1> USE DEF AnswerInv, MessageInv
  <1>1. /\ ~initialized /\ ring' = <<>> /\ answer' = [m \in Msgs |-> "none"]
        /\ UNCHANGED <<pending, pc, cur>>
    BY DEF xpdk_init_opts, appVars
  <1>2. Quiet
    BY <1>1 DEF DownIsQuiet
  <1>3. \A n \in Msgs : ~InFlight(n)'
    BY <1>1, <1>2, SMTT(30) DEF Quiet, InFlight, InRing
  <1>4. AnsweredOnce' /\ HeldUnanswered'
    BY <1>1, <1>2, <1>3 DEF AnsweredOnce, HeldUnanswered, Quiet
  <1>5. QED
    BY <1>1, <1>4 DEF AnswersKept, AsyncStep, Async!Next, Async!Restart

\* Every step keeps the invariant and is a step of XpdkAsync, or changes no answer.
LEMMA AnswerStep ==
    ASSUME AnswerInv, [Next]_vars
    PROVE  AnswerInv' /\ AsyncStep
  <1>1. MessageInv'
    BY MessageStep DEF AnswerInv
  <1> SUFFICES AnswersKept' /\ AsyncStep
    BY <1>1 DEF AnswerInv, AnswersKept
  <1>2. ASSUME UNCHANGED <<pool, ring, req, pending, answer, pc, cur>>
        PROVE  AnswersKept' /\ AsyncStep
    BY <1>2, SameAnswers DEF InFlight, InRing
  <1>3. CASE PollerBreak \/ HandlerFinish \/ SpdkThreadExit
    BY <1>2, <1>3 DEF PollerBreak, HandlerFinish, FinishWait, SpdkThreadExit, msgVars,
                      devVars, ioVars, appVars
  <1>4. ASSUME NEW fd \in Fds, BdevUnmaps(fd)
        PROVE  AnswersKept' /\ AsyncStep
    BY <1>2, <1>4 DEF BdevUnmaps, UnmapDone, msgVars, ioVars, appVars
  <1>5. CASE UNCHANGED vars
    BY <1>2, <1>5 DEF vars, msgVars, devVars, ioVars, appVars
  <1>6. QED
    BY <1>1, <1>3, <1>4, <1>5, PollerAnswers, InitAnswers, CallsAnswers, CallStepAnswers,
       BdevAnswers DEF Next, SpdkThread

\* At first no request has been made.
LEMMA AnswerInit ==
    ASSUME Init
    PROVE  AnswerInv /\ Async!Init
  <1>1. /\ pool = {} /\ ring = <<>> /\ answer = [m \in Msgs |-> "none"]
        /\ \A m \in Msgs : pending[m] = "none"
        /\ \A c \in Clients : pc[c] = "idle"
    BY DEF Init, MsgInit, DeviceInit, IoInit
  <1>2. AnsweredOnce /\ HeldUnanswered
    BY <1>1, SMTT(30) DEF AnsweredOnce, HeldUnanswered, InFlight, InRing
  <1>3. QED
    BY <1>1, <1>2, MessageInit DEF AnswerInv, Async!Init

\* The inductive invariant holds in every reachable state.
THEOREM AnswerInvariant == Spec => []AnswerInv
  <1>1. Init => AnswerInv
    BY AnswerInit
  <1>2. AnswerInv /\ [Next]_vars => AnswerInv'
    BY AnswerStep
  <1>3. QED
    BY <1>1, <1>2, PTL DEF Spec

(***************************************************************************)
(* Whatever fails, a callback is not called while its request is still in  *)
(* flight, is called at most once, and is never skipped by a free of the   *)
(* message.                                                                *)
(***************************************************************************)
THEOREM CallbacksAreCalledOnce == Spec => []AnsweredOnce
  <1>1. AnswerInv => AnsweredOnce
    BY DEF AnswerInv
  <1>2. QED
    BY <1>1, AnswerInvariant, PTL

(***************************************************************************)
(* xpdk_read_async, xpdk_write_async and everything behind them implement  *)
(* XpdkAsync, up to its fairness: an answer is given only to an accepted   *)
(* request, once, and its message is used again only afterwards.           *)
(***************************************************************************)
THEOREM LibraryImplementsAsync == Spec => Async!Spec
  <1>1. Init => Async!Init
    BY AnswerInit
  <1>2. AnswerInv /\ [Next]_vars => [Async!Next]_answer
    BY AnswerStep DEF AsyncStep
  <1>3. QED
    BY <1>1, <1>2, AnswerInvariant, PTL DEF Spec, Async!Spec

-----------------------------------------------------------------------------
\* The inductive invariant of the device table holds in every reachable state.
THEOREM DeviceInvariant == Spec => []DeviceInv
  <1>1. Init => DeviceInv
    BY TableInit, MessageInit
  <1>2. DeviceInv /\ [Next]_vars => DeviceInv'
    BY TableStep, MessageStep DEF DeviceInv
  <1>3. QED
    BY <1>1, <1>2, PTL DEF Spec

(***************************************************************************)
(* A descriptor the application has open has a bdev descriptor and a       *)
(* channel behind it, and however opens overlap, fail and complete, no two *)
(* callers of xpdk_open get the same slot and none overwrites a bdev       *)
(* descriptor (FdTable).                                                   *)
(***************************************************************************)
THEOREM DescriptorsAreSound == Spec => []FdTable
  <1>1. DeviceInv => FdTable
    BY DEF DeviceInv
  <1>2. QED
    BY <1>1, DeviceInvariant, PTL

(***************************************************************************)
(* Whatever fails, no open bdev descriptor and no channel is left behind   *)
(* in a slot nobody can close (NoDescriptorLeak).                          *)
(***************************************************************************)
THEOREM DescriptorsAreNotLeaked == Spec => []NoDescriptorLeak
  <1>1. DeviceInv => NoDescriptorLeak
    BY DEF DeviceInv, NoDescriptorLeak, SlotsOwned, Occupied, Owned, ToClose
  <1>2. QED
    BY <1>1, DeviceInvariant, PTL

(***************************************************************************)
(* Where no open fails after handle_open has claimed its slot, no slot of  *)
(* the table is lost (NoSlotLeak).  The hypothesis is needed:              *)
(* bdev_open_complete gives the slot back on neither of its error paths.   *)
(***************************************************************************)
THEOREM SlotsAreNotLeaked ==
    ASSUME Faults \cap {"open_status", "no_channel"} = {}
    PROVE  Spec => []NoSlotLeak
  <1>1. DeviceInv => NoSlotLeak
    BY DEF DeviceInv, NoSlotLeak, SlotsOwned, Occupied, Owned, ToClose
  <1>2. QED
    BY <1>1, DeviceInvariant, PTL

-----------------------------------------------------------------------------
\* The inductive invariant of the I/O path holds in every reachable state.
THEOREM IoInvariant == Spec => []IoInv
  <1>1. Init => IoInv
    BY BuffersInit, MessageInit
  <1>2. IoInv /\ DeviceInv /\ [Next]_vars => IoInv'
    BY IoStep, MessageStep DEF DeviceInv, IoInv
  <1>3. QED
    BY <1>1, <1>2, DeviceInvariant, PTL DEF Spec

(***************************************************************************)
(* sync_io_completion_cb writes into the stack frame of the handler that   *)
(* waits: that handler is there, and it is the only one, however deep the  *)
(* poller nests (SyncContextAlive).                                        *)
(***************************************************************************)
THEOREM CompletionsFindTheirHandler == Spec => []SyncContextAlive
  <1>1. IoInv => SyncContextAlive
    BY DEF IoInv
  <1>2. QED
    BY <1>1, IoInvariant, PTL

(***************************************************************************)
(* A DMA buffer that an I/O or a waiting handler still uses is allocated   *)
(* and belongs to nobody else: the frees in the handlers and in            *)
(* async_io_completion_cb never hit a buffer in use or one already freed   *)
(* (BufferSafe).                                                           *)
(***************************************************************************)
THEOREM BuffersAreSafe == Spec => []BufferSafe
  <1>1. IoInv => BufferSafe
    BY DEF IoInv
  <1>2. QED
    BY <1>1, IoInvariant, PTL

(***************************************************************************)
(* Where no I/O fails, every DMA buffer still allocated has a handler or a *)
(* callback that will free it (NoBufferLeak).  The hypothesis is needed:   *)
(* xpdk_spdk_handle_read keeps the buffer of a read that fails.            *)
(***************************************************************************)
THEOREM BuffersAreNotLeaked ==
    ASSUME "io" \notin Faults
    PROVE  Spec => []NoBufferLeak
  <1>1. IoInv => NoBufferLeak
    BY DEF IoInv
  <1>2. QED
    BY <1>1, IoInvariant, PTL

(***************************************************************************)
(* Where the application only makes aligned requests, xpdk_read returns    *)
(* success only once the data is in the caller's buffer                    *)
(* (SyncReadDelivers).  The hypothesis is needed: the handler copies an    *)
(* unaligned read out of its DMA buffer after the caller was woken.        *)
(***************************************************************************)
THEOREM ReadsDeliver ==
    ASSUME Alignments \subseteq {TRUE}
    PROVE  Spec => SyncReadDelivers
  <1>1. ASSUME IoInv, [Next]_vars
        PROVE  [\A c \in Clients :
                  /\ Returns(c)
                  /\ req[cur[c]].type = "READ"
                  /\ status[cur[c]] = "SUCCESS"
                  => c \in filled]_vars
    <2>1. ASSUME NEW c \in Clients, Returns(c), req[cur[c]].type = "READ",
                 status[cur[c]] = "SUCCESS"
          PROVE  c \in filled
      <3>1. pc[c] = "wait" /\ completed[cur[c]]
        BY <1>1, <2>1, WaitEnds DEF Returns, IoInv, MessageInv
      <3>2. req[cur[c]].aligned
        BY <1>1, <3>1, HoldsMessage DEF IoInv, ReadsAligned, MessageInv
      <3>3. QED
        BY <1>1, <2>1, <3>1, <3>2 DEF IoInv, ReadFilled
    <2>2. QED
      BY <2>1
  <1>2. QED
    BY <1>1, IoInvariant, PTL DEF Spec, SyncReadDelivers

(***************************************************************************)
(* The same of xpdk_read_async: when its callback is given success, the    *)
(* data is in the request's buffer (AsyncReadDelivers).  An unaligned one  *)
(* is never copied out of its DMA buffer.                                  *)
(***************************************************************************)
THEOREM AsyncReadsDeliver ==
    ASSUME Alignments \subseteq {TRUE}
    PROVE  Spec => AsyncReadDelivers
  <1>1. ASSUME IoInv, [Next]_vars
        PROVE  [\A m \in Msgs :
                  /\ answer[m] = "owed"
                  /\ answer'[m] = "SUCCESS"
                  /\ req[m].type = "READ"
                  => req[m].buffer \in filled']_vars
    <2>1. ASSUME NEW m \in Msgs, answer[m] = "owed", answer'[m] = "SUCCESS", req[m].type = "READ"
          PROVE  req[m].buffer \in filled'
      <3>1. async_io_completion_cb(m) /\ req[m].aligned
        BY <1>1, <2>1, SuccessAnswered DEF IoInv, MessageInv, ReadsAligned
      <3>2. PICK success \in BOOLEAN :
              /\ answer' = [answer EXCEPT ![m] = IF success THEN "SUCCESS" ELSE "IO"]
              /\ filled' = IF success /\ req[m].type = "READ" /\ req[m].aligned
                           THEN filled \cup {req[m].buffer} ELSE filled
        BY <3>1, ZenonT(30) DEF async_io_completion_cb
      <3>3. success
        <4>1. answer \in [Msgs -> Answers]
          BY <1>1 DEF IoInv, MessageInv, TypeInv, TypeOK, IoTypeOK
        <4>2. QED
          BY <2>1, <3>2, <4>1
      <3>4. QED
        BY <2>1, <3>1, <3>2, <3>3
    <2>2. QED
      BY <2>1
  <1>2. QED
    BY <1>1, IoInvariant, PTL DEF Spec, AsyncReadDelivers

-----------------------------------------------------------------------------
(***************************************************************************)
(* The application closes a descriptor only when every request it has made *)
(* on it has reached its handler.  Nothing in the library sees to that:    *)
(* where the application does not, a request can find its slot given to    *)
(* another open, or to none.                                               *)
(***************************************************************************)
FinishFirst == \A m \in Msgs : Ahead(m) /\ req[m].fd \in held => req[m].fd \in held'

\* What a step must keep, beside DeviceInv.
UseParts == RequestsReady /\ ModesKept

\* A step after which no request is ahead of its handler that was not so before.
LEMMA SameReady ==
    ASSUME RequestsReady, FinishFirst,
           \A n \in Msgs : Ahead(n)' => Ahead(n) /\ req'[n] = req[n]
    PROVE  RequestsReady'
  <1> SUFFICES ASSUME NEW n \in Msgs, Ahead(n)'
               PROVE  /\ OnDescriptor(req'[n]) => req'[n].fd \in UsedFds'
                      /\ req'[n].callback => AsyncRequest(req'[n])
    BY DEF RequestsReady, OnDescriptor, AsyncRequest
  <1>1. Ahead(n) /\ req'[n] = req[n]
    OBVIOUS
  <1>2. req[n].fd \in UsedFds => req[n].fd \in UsedFds'
    BY <1>1 DEF FinishFirst, UsedFds
  <1>3. QED
    BY <1>1, <1>2 DEF RequestsReady

\* A step that opens no slot and starts no call.
LEMMA SameModes ==
    ASSUME ModesKept,
           \A fd \in Fds : devices'[fd].in_use =>
             devices[fd].in_use /\ devices'[fd].flags = devices[fd].flags,
           \A c \in Clients : pc'[c] \in {"send", "wait"} =>
             /\ pc[c] \in {"send", "wait"}
             /\ cur'[c] = cur[c] /\ req'[cur[c]] = req[cur[c]]
    PROVE  ModesKept'
  BY DEF ModesKept

\* A new request is on a descriptor the application has open.
LEMMA NewMessageUse ==
    ASSUME UseInv, FinishFirst, NEW c \in Clients, NEW m \in pool, NEW r \in Request,
           NewMessage(c, m, r), pc[c] \notin {"send", "wait"},
           OnDescriptor(r) => r.fd \in UsedFds',
           r.callback => AsyncRequest(r),
           r.type = "OPEN" => r.flags \in Modes
    PROVE  UseParts'
  <1> USE DEF UseInv, DeviceInv, MessageInv
  <1>1. /\ m \in Msgs /\ UNCHANGED <<ring, devices>>
        /\ pc'[c] = "send" /\ cur'[c] = m /\ req'[m] = r
        /\ \A n \in Msgs \ {m} : req'[n] = req[n]
        /\ \A d \in Clients \ {c} : cur'[d] = cur[d] /\ pc'[d] = pc[d]
    BY DEF NewMessage, xpdk_msg_alloc, TypeInv, TypeOK, MsgTypeOK
  <1>2. ASSUME NEW n \in Msgs \ {m}, Ahead(n)'
        PROVE  Ahead(n)
    <2>1. CASE InRing(n)'
      BY <1>1, <2>1 DEF Ahead, InRing
    <2>2. CASE \E d \in Clients : pc'[d] = "send" /\ cur'[d] = n
      BY <1>1, <2>2 DEF Ahead
    <2>3. QED
      BY <1>2, <2>1, <2>2 DEF Ahead
  <1>3. RequestsReady'
    <2> SUFFICES ASSUME NEW n \in Msgs, Ahead(n)'
                 PROVE  /\ OnDescriptor(req'[n]) => req'[n].fd \in UsedFds'
                        /\ req'[n].callback => AsyncRequest(req'[n])
      BY DEF RequestsReady, OnDescriptor, AsyncRequest
    <2>1. CASE n = m
      BY <1>1, <2>1
    <2>2. CASE n # m
      <3>1. Ahead(n) /\ req'[n] = req[n]
        BY <1>1, <1>2, <2>2
      <3>2. req[n].fd \in UsedFds => req[n].fd \in UsedFds'
        BY <3>1 DEF FinishFirst, UsedFds
      <3>3. QED
        BY <3>1, <3>2 DEF RequestsReady
    <2>3. QED
      BY <2>1, <2>2
  <1>4. ModesKept'
    <2>1. ASSUME NEW d \in Clients, pc'[d] \in {"send", "wait"}, req'[cur'[d]].type = "OPEN"
          PROVE  req'[cur'[d]].flags \in Modes
      <3>1. CASE d = c
        BY <1>1, <2>1, <3>1
      <3>2. CASE d # c
        <4>1. pc[d] \in {"send", "wait"} /\ cur'[d] = cur[d]
          BY <1>1, <2>1, <3>2
        <4>2. cur[d] \in Msgs \ {m}
          BY <4>1, OwnMessage
        <4>3. req'[cur[d]] = req[cur[d]]
          BY <1>1, <4>2
        <4>4. QED
          BY <2>1, <4>1, <4>3 DEF ModesKept
      <3>3. QED
        BY <3>1, <3>2
    <2>2. QED
      BY <1>1, <2>1 DEF ModesKept
  <1>5. QED
    BY <1>3, <1>4 DEF UseParts

\* The calls of the application.
LEMMA CallsUse ==
    ASSUME UseInv, FinishFirst, NEW c \in Clients, Calls(c)
    PROVE  UseParts'
  <1> USE DEF UseInv, DeviceInv, MessageInv
  <1>1. ASSUME NEW m \in pool, NEW r \in Request, StartCall(c, m, r), CallRequest(c, m, r)
        PROVE  UseParts'
    <2>1. NewMessage(c, m, r) /\ pc[c] \notin {"send", "wait"}
      BY <1>1 DEF StartCall
    <2>2. OnDescriptor(r) => r.fd \in UsedFds'
      BY <1>1 DEF CallRequest, OnDescriptor, UsedFds
    <2>3. /\ r.callback => AsyncRequest(r)
          /\ r.type = "OPEN" => r.flags \in Modes
      BY <1>1 DEF CallRequest
    <2>4. QED
      BY <2>1, <2>2, <2>3, NewMessageUse
  <1>2. CASE xpdk_cleanup(c)
    <2>1. /\ UNCHANGED <<req, devices, ring, cur>>
          /\ pc' = [pc EXCEPT ![c] = "scan"]
      BY <1>2 DEF xpdk_cleanup, msgVars, devVars
    <2>2. \A d \in Clients : pc'[d] \in {"send", "wait"} => pc'[d] = pc[d]
      BY <2>1 DEF TypeInv, TypeOK
    <2>3. \A n \in Msgs : Ahead(n)' => Ahead(n)
      BY <2>1, <2>2 DEF Ahead, InRing
    <2>4. RequestsReady'
      BY <2>1, <2>3, SameReady
    <2>5. ModesKept'
      BY <2>1, <2>2, SameModes
    <2>6. QED
      BY <2>4, <2>5 DEF UseParts
  <1>3. QED
    BY <1>1, <1>2, CallsStart

\* A call that ends takes its request with it.
LEMMA EndCallUse ==
    ASSUME UseInv, FinishFirst, NEW c \in Clients, EndCall(c),
           UNCHANGED <<ring, req, devices>>
    PROVE  UseParts'
  <1> USE DEF UseInv, DeviceInv, MessageInv
  <1>1. /\ pc'[c] \notin {"send", "wait"}
        /\ \A d \in Clients \ {c} : cur'[d] = cur[d] /\ pc'[d] = pc[d]
    BY DEF EndCall, Resume, TypeInv, TypeOK
  <1>2. \A n \in Msgs : Ahead(n)' => Ahead(n)
    BY <1>1 DEF Ahead, InRing
  <1>3. RequestsReady'
    BY <1>2, SameReady
  <1>4. ModesKept'
    BY <1>1, SameModes
  <1>5. QED
    BY <1>3, <1>4 DEF UseParts

\* Sending moves a request from its thread to the ring.
LEMMA SendUse ==
    ASSUME UseInv, FinishFirst, NEW c \in Clients,
           xpdk_msg_send_sync(c) \/ xpdk_msg_send_async(c)
    PROVE  UseParts'
  <1> DEFINE m == cur[c]
  <1> USE DEF UseInv, DeviceInv, MessageInv
  <1>1. /\ pc[c] = "send" /\ spdk_ring_enqueue(m)
        /\ UNCHANGED <<req, devices>>
        /\ \A d \in Clients \ {c} : cur'[d] = cur[d] /\ pc'[d] = pc[d]
        /\ pc'[c] = "idle" \/ (pc'[c] = "wait" /\ cur'[c] = m)
    BY DEF xpdk_msg_send_sync, xpdk_msg_send_async, devVars, TypeInv, TypeOK
  <1>2. m \in Msgs
    BY <1>1, HoldsMessage
  <1>3. \A n \in Msgs \ {m} : InRing(n)' => InRing(n)
    BY <1>1, <1>2, EnqueueType, RingHoldsMessages, SMTT(30) DEF InRing
  <1>4. Ahead(m)
    BY <1>1 DEF Ahead
  <1> HIDE DEF m
  <1>5. \A n \in Msgs : Ahead(n)' => Ahead(n)
    BY <1>1, <1>3, <1>4 DEF Ahead
  <1>6. RequestsReady'
    BY <1>1, <1>5, SameReady
  <1>7. ModesKept'
    <2>1. \A d \in Clients : pc'[d] \in {"send", "wait"} =>
            pc[d] \in {"send", "wait"} /\ cur'[d] = cur[d]
      BY <1>1 DEF m
    <2>2. QED
      BY <1>1, <2>1, SameModes
  <1>8. QED
    BY <1>6, <1>7 DEF UseParts

\* The steps of a call; those of xpdk_cleanup make requests without a callback.
LEMMA CallStepUse ==
    ASSUME UseInv, FinishFirst, NEW c \in Clients, CallStep(c)
    PROVE  UseParts'
  <1> USE DEF UseInv, DeviceInv, MessageInv
  <1>1. CASE SendBusy(c) \/ ReturnSync(c)
    <2>1. EndCall(c) /\ UNCHANGED <<ring, req, devices>>
      BY <1>1 DEF SendBusy, ReturnSync, devVars
    <2>2. QED
      BY <2>1, EndCallUse
  <1>2. ASSUME UNCHANGED <<ring, req, devices, cur>>,
               \A d \in Clients : pc'[d] \in {"send", "wait"} => pc'[d] = pc[d]
        PROVE  UseParts'
    <2>1. \A n \in Msgs : Ahead(n)' => Ahead(n)
      BY <1>2 DEF Ahead, InRing
    <2>2. RequestsReady'
      BY <1>2, <2>1, SameReady
    <2>3. ModesKept'
      BY <1>2, SameModes
    <2>4. QED
      BY <2>2, <2>3 DEF UseParts
  <1>3. CASE CleanupDevice(c)
    <2>1. pc[c] = "scan" /\ scan[c] < NumFds
      BY <1>3 DEF CleanupDevice
    <2>2. scan[c] \in 0 .. NumFds - 1
      BY <2>1, MsgAssumption, SMTT(30) DEF TypeInv, TypeOK, CallShape, NoFd
    <2>3. CASE \E m \in pool : NewMessage(c, m, [Blank("CLOSE") EXCEPT !.fd = scan[c]])
      <3> DEFINE r == [Blank("CLOSE") EXCEPT !.fd = scan[c]]
      <3>1. r \in Request
        BY <2>2, BlankType DEF Request, MsgTypes, Fds
      <3>2. r.type = "CLOSE" /\ ~r.callback
        BY BlankFields, SMTT(30)
      <3>3. ~OnDescriptor(r)
        BY <3>2 DEF OnDescriptor
      <3>4. PICK m \in pool : NewMessage(c, m, r)
        BY <2>3
      <3> HIDE DEF r
      <3>5. QED
        BY <2>1, <3>1, <3>2, <3>3, <3>4, NewMessageUse
    <2>4. CASE UNCHANGED <<msgVars, devVars, ioVars, pc, cur, lifeVars>>
      BY <1>2, <2>4 DEF msgVars, devVars
    <2>5. QED
      BY <1>3, <2>3, <2>4 DEF CleanupDevice
  <1>4. CASE xpdk_cleanup_spdk_thread(c)
    <2>1. pc[c] = "scan"
      BY <1>4 DEF xpdk_cleanup_spdk_thread
    <2>2. CASE \E m \in pool : NewMessage(c, m, Blank("SHUTDOWN"))
      <3> DEFINE r == Blank("SHUTDOWN")
      <3>1. r \in Request
        BY BlankType DEF MsgTypes
      <3>2. r.type = "SHUTDOWN" /\ ~r.callback
        BY BlankFields
      <3>3. ~OnDescriptor(r)
        BY <3>2 DEF OnDescriptor
      <3>4. PICK m \in pool : NewMessage(c, m, r)
        BY <2>2
      <3> HIDE DEF r
      <3>5. QED
        BY <2>1, <3>1, <3>2, <3>3, <3>4, NewMessageUse
    <2>3. CASE /\ pc' = [pc EXCEPT ![c] = "join"]
               /\ UNCHANGED <<msgVars, devVars, ioVars, cur, lifeVars>>
      <3>1. UNCHANGED <<ring, req, devices, cur>>
        BY <2>3 DEF msgVars, devVars
      <3>2. \A d \in Clients : pc'[d] \in {"send", "wait"} => pc'[d] = pc[d]
        BY <2>3 DEF TypeInv, TypeOK
      <3>3. QED
        BY <1>2, <3>1, <3>2
    <2>4. QED
      BY <1>4, <2>2, <2>3 DEF xpdk_cleanup_spdk_thread
  <1>5. CASE CleanupJoin(c)
    <2>1. /\ ring' = <<>> /\ UNCHANGED <<req, devices, cur>>
          /\ pc' = [pc EXCEPT ![c] = "idle"]
      BY <1>5 DEF CleanupJoin, devVars
    <2>2. \A d \in Clients : pc'[d] \in {"send", "wait"} => pc'[d] = pc[d]
      BY <2>1 DEF TypeInv, TypeOK
    <2>3. \A n \in Msgs : ~InRing(n)'
      BY <2>1, SMTT(30) DEF InRing
    <2>4. \A n \in Msgs : Ahead(n)' => Ahead(n)
      BY <2>1, <2>2, <2>3 DEF Ahead
    <2>5. RequestsReady'
      BY <2>1, <2>4, SameReady
    <2>6. ModesKept'
      BY <2>1, <2>2, SameModes
    <2>7. QED
      BY <2>5, <2>6 DEF UseParts
  <1>6. QED
    BY <1>1, <1>3, <1>4, <1>5, SendUse DEF CallStep

\* An open marks its slot with the mode of its request, which a waiting thread made.
LEMMA PollerUse ==
    ASSUME UseInv, FinishFirst, xpdk_msg_process_poller
    PROVE  UseParts'
  <1> USE DEF UseInv, DeviceInv, MessageInv
  <1>1. PICK m \in Msgs : m = Head(ring)
    BY PollerFrame
  <1>2. ring # <<>> /\ ring' = Tail(ring) /\ UNCHANGED <<req, pc, cur>>
    BY PollerFrame
  <1>3. InRing(m) /\ \A n \in Msgs : InRing(n)' => InRing(n)
    BY <1>1, <1>2, Dequeued
  <1>4. /\ req[m].type = "OPEN" => xpdk_spdk_handle_open(m)
        /\ req[m].type = "CLOSE" => xpdk_spdk_handle_close(m)
        /\ req[m].type \notin {"OPEN", "CLOSE"} => devices' = devices
    BY <1>1, HandlerStores
  <1>5. devices \in [Fds -> Device]
    BY DEF TypeInv, TypeOK, DeviceTypeOK
  <1>6. RequestsReady'
    <2>1. \A n \in Msgs : Ahead(n)' => Ahead(n)
      BY <1>2, <1>3 DEF Ahead
    <2>2. QED
      BY <1>2, <2>1, SameReady
  <1>7. ASSUME NEW fd \in Fds, devices'[fd].in_use
        PROVE  devices'[fd].flags \in Modes
    <2>1. CASE devices' = devices
      BY <1>7, <2>1 DEF ModesKept
    <2>2. CASE req[m].type = "OPEN"
      <3>1. req[m].flags \in Modes
        BY <1>3, <2>2, OpenWaited DEF ModesKept, InFlight
      <3>2. CASE \E e \in Fds : devices' = Claimed(e, req[m].flags)
        <4>1. PICK e \in Fds : devices' = Claimed(e, req[m].flags)
          BY <3>2
        <4>2. CASE fd = e
          BY <1>5, <3>1, <4>1, <4>2 DEF Claimed, Device
        <4>3. CASE fd # e
          BY <1>5, <1>7, <4>1, <4>3 DEF Claimed, ModesKept
        <4>4. QED
          BY <4>2, <4>3
      <3>3. CASE \E e \in Fds : /\ ~devices[e].in_use
                                /\ devices' = [devices EXCEPT ![e].flags = req[m].flags]
        BY <1>5, <1>7, <3>1, <3>3 DEF Device, ModesKept
      <3>4. QED
        BY <1>4, <2>1, <2>2, <3>2, <3>3 DEF xpdk_spdk_handle_open, xpdk_find_free_fd
    <2>3. CASE req[m].type = "CLOSE"
      <3>1. CASE \E e \in Fds : devices' = Closed(e)
        <4>1. PICK e \in Fds : devices' = Closed(e)
          BY <3>1
        <4>2. fd # e
          BY <1>5, <1>7, <4>1 DEF Closed, FreeSlot
        <4>3. devices'[fd] = devices[fd]
          BY <1>5, <4>1, <4>2 DEF Closed
        <4>4. QED
          BY <1>7, <4>3 DEF ModesKept
      <3>2. QED
        BY <1>4, <2>1, <2>3, <3>1 DEF xpdk_spdk_handle_close, xpdk_get_device
    <2>4. QED
      BY <1>4, <2>1, <2>2, <2>3
  <1>8. ModesKept'
    BY <1>2, <1>7 DEF ModesKept
  <1>9. QED
    BY <1>6, <1>8 DEF UseParts

\* A completion changes no slot's mode, and takes none into use.
LEMMA BdevUse ==
    ASSUME UseInv, FinishFirst, NEW m \in Msgs, BdevCompletes(m)
    PROVE  UseParts'
  <1> USE DEF UseInv, DeviceInv, MessageInv
  <1>1. /\ UNCHANGED <<ring, req, pc, cur>>
        /\ bdev_open_complete(m) \/ devices' = devices
    BY CompletionStores
  <1>2. /\ devices \in [Fds -> Device] /\ result_fd[m] \in Fds
    BY DEF TypeInv, TypeOK, DeviceTypeOK
  <1>3. \A fd \in Fds : /\ devices'[fd].in_use = devices[fd].in_use
                        /\ devices'[fd].flags = devices[fd].flags
    <2>1. CASE devices' = devices
      BY <2>1
    <2>2. CASE \E b \in BOOLEAN : devices' = [devices EXCEPT ![result_fd[m]].desc = b,
                                                            ![result_fd[m]].channel = b]
      BY <1>2, <2>2, SMTT(30) DEF Device
    <2>3. QED
      BY <1>1, <2>1, <2>2 DEF bdev_open_complete
  <1>4. RequestsReady'
    <2>1. \A n \in Msgs : Ahead(n)' => Ahead(n)
      BY <1>1 DEF Ahead, InRing
    <2>2. QED
      BY <1>1, <2>1, SameReady
  <1>5. ModesKept'
    BY <1>1, <1>3, SameModes
  <1>6. QED
    BY <1>4, <1>5 DEF UseParts

\* xpdk_init_opts starts with an empty ring and an empty table.
LEMMA InitUse ==
    ASSUME UseInv, xpdk_init_opts
    PROVE  UseParts'
  <1>1. /\ ring' = <<>> /\ devices' = [fd \in Fds |-> FreeSlot]
        /\ \A c \in Clients : pc'[c] = "idle"
    BY DEF UseInv, DeviceInv, MessageInv, DownIsQuiet, Quiet, xpdk_init_opts, appVars
  <1>2. \A n \in Msgs : ~InRing(n)'
    BY <1>1, SMTT(30) DEF InRing
  <1>3. RequestsReady'
    BY <1>1, <1>2 DEF RequestsReady, Ahead
  <1>4. ModesKept'
    BY <1>1 DEF ModesKept, FreeSlot
  <1>5. QED
    BY <1>3, <1>4 DEF UseParts

\* Every step of such an application keeps the invariant.
LEMMA UseStep ==
    ASSUME UseInv, [Next]_vars, [FinishFirst]_vars
    PROVE  UseInv'
  <1>1. DeviceInv'
    BY TableStep, MessageStep DEF UseInv, DeviceInv
  <1> SUFFICES UseParts'
    BY <1>1 DEF UseInv, UseParts
  <1>2. FinishFirst
    BY DEF FinishFirst, vars, appVars
  <1>3. ASSUME UNCHANGED <<ring, req, devices, pc, cur>>
        PROVE  UseParts'
    <2>1. \A n \in Msgs : Ahead(n)' => Ahead(n)
      BY <1>3 DEF Ahead, InRing
    <2>2. RequestsReady'
      BY <1>2, <1>3, <2>1, SameReady DEF UseInv
    <2>3. ModesKept'
      BY <1>3, SameModes DEF UseInv
    <2>4. QED
      BY <2>2, <2>3 DEF UseParts
  <1>4. CASE PollerBreak \/ HandlerFinish \/ SpdkThreadExit
    BY <1>3, <1>4 DEF PollerBreak, HandlerFinish, FinishWait, SpdkThreadExit, msgVars,
                      devVars, appVars
  <1>5. ASSUME NEW fd \in Fds, BdevUnmaps(fd)
        PROVE  UseParts'
    BY <1>3, <1>5 DEF BdevUnmaps, UnmapDone, msgVars, appVars
  <1>6. CASE UNCHANGED vars
    BY <1>3, <1>6 DEF vars, msgVars, devVars, appVars
  <1>7. QED
    BY <1>2, <1>4, <1>5, <1>6, PollerUse, InitUse, CallsUse, CallStepUse, BdevUse
    DEF Next, SpdkThread

\* At first there is no request and no device.
LEMMA UseInit ==
    ASSUME Init
    PROVE  UseInv
  <1>1. DeviceInv
    BY TableInit, MessageInit
  <1>2. /\ ring = <<>>
        /\ \A c \in Clients : pc[c] = "idle"
        /\ \A fd \in Fds : ~devices[fd].in_use
    BY DEF Init, MsgInit, DeviceInit, FreeSlot
  <1>3. \A n \in Msgs : ~InRing(n)
    BY <1>2, SMTT(30) DEF InRing
  <1>4. RequestsReady /\ ModesKept
    BY <1>2, <1>3 DEF RequestsReady, ModesKept, Ahead
  <1>5. QED
    BY <1>1, <1>4 DEF UseInv

(***************************************************************************)
(* Where descriptors are closed only when their requests have reached      *)
(* their handlers, a handler finds the descriptor as the caller knew it,   *)
(* and the device opened with a mode the application asked for.            *)
(***************************************************************************)
THEOREM UseInvariant == Spec /\ [][FinishFirst]_vars => []UseInv
  <1>1. Init => UseInv
    BY UseInit
  <1>2. UseInv /\ [Next]_vars /\ [FinishFirst]_vars => UseInv'
    BY UseStep
  <1>3. QED
    BY <1>1, <1>2, PTL DEF Spec

(***************************************************************************)
(* Only xpdk_close takes a descriptor from the application while a request *)
(* is on its way: one that never closes follows the rule by itself.        *)
(***************************************************************************)
LEMMA NeverCloses ==
    ASSUME TypeInv, "close" \notin Ops, [Next]_vars
    PROVE  FinishFirst
  <1>1. ASSUME held \subseteq held'
        PROVE  FinishFirst
    BY <1>1 DEF FinishFirst
  <1>2. ASSUME NEW c \in Clients, Calls(c)
        PROVE  FinishFirst
    <2>1. CASE xpdk_cleanup(c)
      <3>1. Quiet
        BY <2>1 DEF xpdk_cleanup
      <3>2. \A n \in Msgs : ~InRing(n)
        BY <3>1, SMTT(30) DEF Quiet, InRing
      <3>3. QED
        BY <3>1, <3>2 DEF FinishFirst, Ahead, Quiet
    <2>2. CASE \E m \in pool, r \in Request : CallRequest(c, m, r)
      BY <1>1, <2>2 DEF CallRequest
    <2>3. QED
      BY <1>2, <2>1, <2>2, CallsStart
  <1>3. ASSUME NEW c \in Clients, CallStep(c)
        PROVE  held \subseteq held'
    BY <1>3 DEF CallStep, xpdk_msg_send_sync, xpdk_msg_send_async, SendBusy, ReturnSync,
                CleanupDevice, xpdk_cleanup_spdk_thread, CleanupJoin
  <1>4. CASE SpdkThread \/ xpdk_init_opts \/ UNCHANGED vars
    <2>1. held' = held
      BY <1>4 DEF SpdkThread, xpdk_msg_process_poller, PollerBreak, HandlerFinish,
                  SpdkThreadExit, xpdk_init_opts, vars, appVars
    <2>2. QED
      BY <1>1, <2>1
  <1>5. ASSUME NEW m \in Msgs, BdevCompletes(m)
        PROVE  held' = held
    BY <1>5 DEF BdevCompletes, appVars
  <1>6. ASSUME NEW fd \in Fds, BdevUnmaps(fd)
        PROVE  held' = held
    BY <1>6 DEF BdevUnmaps, appVars
  <1>7. QED
    BY <1>1, <1>2, <1>3, <1>4, <1>5, <1>6 DEF Next

(***************************************************************************)
(* The handlers of trim and write-zeros do not look for a bdev descriptor. *)
(* They find one (TrimHasDescriptor) as long as the application passes no  *)
(* descriptor of a slot it has not opened, and closes none with a request  *)
(* still on its way; without the second, another thread's open may have    *)
(* claimed the slot and not filled it yet.                                 *)
(***************************************************************************)
THEOREM TrimsFindTheirDevice ==
    ASSUME FdArgs \cap Fds = {}
    PROVE  Spec /\ [][FinishFirst]_vars => TrimHasDescriptor
  <1>1. ASSUME UseInv, NEW m \in Msgs, Dispatched(m), xpdk_get_device(req[m].fd),
               req[m].type \in {"TRIM", "WRITE_ZEROS"}
        PROVE  IoReady(req[m].fd)
    <2> USE <1>1 DEF UseInv, DeviceInv
    <2>1. Ahead(m)
      BY Dequeued DEF Dispatched, Ahead
    <2>2. req[m].fd \in UsedFds /\ req[m].fd \in Fds
      BY <2>1 DEF RequestsReady, OnDescriptor, xpdk_get_device
    <2>3. req[m].fd \in held
      BY <2>2 DEF UsedFds
    <2>4. QED
      BY <2>3 DEF IoReady, FdTable, HeldIsOpen
  <1>2. UseInv => [\A m \in Msgs :
                     /\ Dispatched(m)
                     /\ req[m].type \in {"TRIM", "WRITE_ZEROS"}
                     /\ xpdk_get_device(req[m].fd)
                     => IoReady(req[m].fd)]_vars
    BY <1>1
  <1>3. QED
    BY <1>2, UseInvariant, PTL DEF TrimHasDescriptor

-----------------------------------------------------------------------------
(***************************************************************************)
(* What gives a handler a reason to refuse a request with a callback, and  *)
(* so to lose it: a descriptor that is not open, a batch, which has no     *)
(* handler, a bdev layer that takes no I/O or has no memory, a mode that   *)
(* does not allow the I/O.                                                 *)
(***************************************************************************)
NothingRefused ==
    /\ FdArgs = {}
    /\ "batch_submit" \notin Ops
    /\ Faults \cap {"submit", "dma"} = {}
    /\ "read_async" \in Ops => "WRONLY" \notin Modes
    /\ "write_async" \in Ops => "RDONLY" \notin Modes

\* The last reason: the DMA memory is used up when a request needs some.
MemoryLeft == dma # Bufs \/ (Alignments \subseteq {TRUE} /\ "write_async" \notin Ops)

\* A message without a callback that is in flight is not owed an answer.
LEMMA OwedHasCallback ==
    ASSUME LossInv, NEW m \in Msgs, InFlight(m), ~req[m].callback
    PROVE  answer[m] = "none"
  <1>1. PICK c \in Clients : pc[c] = "wait" /\ cur[c] = m
    BY DEF LossInv, UseInv, DeviceInv, SyncWaited
  <1>2. QED
    BY <1>1 DEF LossInv, AnswerInv, HeldUnanswered

\* A read or write that its device allows is handed to the bdev layer.
LEMMA CallbackSubmitted ==
    ASSUME LossInv, NothingRefused, MemoryLeft, xpdk_msg_process_poller,
           NEW m \in Msgs, m = Head(ring), Ahead(m), req[m].callback
    PROVE  pending'[m] = "io"
  <1> DEFINE fd == req[m].fd
  <1> USE DEF LossInv, UseInv
  <1>1. AsyncRequest(req[m])
    BY DEF RequestsReady
  <1>2. /\ \/ req[m].type = "READ" /\ "read_async" \in Ops /\ req[m].aligned \in Alignments
           \/ req[m].type = "WRITE" /\ "write_async" \in Ops
        /\ OnDescriptor(req[m])
    BY <1>1 DEF AsyncRequest, NothingRefused, OnDescriptor
  <1>3. fd \in held /\ fd \in Fds
    BY <1>2 DEF RequestsReady, UsedFds, NothingRefused, DeviceInv, MessageInv, TypeInv,
                TypeOK
  <1>4. IoReady(fd) /\ devices[fd].flags \in Modes
    BY <1>3 DEF DeviceInv, FdTable, HeldIsOpen, IoReady, xpdk_get_device, ModesKept
  <1>5. "submit" \notin Faults /\ "dma" \notin Faults
    BY DEF NothingRefused
  <1>6. pending \in [Msgs -> BdevOps]
    BY DEF DeviceInv, MessageInv, TypeInv, TypeOK, DeviceTypeOK
  <1>7. ASSUME \E b \in Bufs \cup {NoMsg} : WaitIfSync(m, b)
        PROVE  pending'[m] = "io"
    BY <1>6, <1>7 DEF WaitIfSync
  <1>8. HandleIo(m)
    BY <1>2 DEF xpdk_msg_process_poller, HandleDevice, HandleUnknown, HandleShutdown
  <1> HIDE DEF fd
  <1>9. CASE req[m].type = "READ"
    <2>1. devices[fd].flags # "WRONLY" /\ req[m].aligned \in Alignments
      BY <1>2, <1>4, <1>9 DEF NothingRefused
    <2>2. ~req[m].aligned => dma # Bufs
      BY <2>1 DEF MemoryLeft
    <2>3. xpdk_spdk_handle_read(m)
      BY <1>8, <1>9 DEF HandleIo
    <2>4. \E b \in Bufs \cup {NoMsg} : WaitIfSync(m, b)
      BY <1>4, <1>5, <2>1, <2>2, <2>3, ZenonT(60) DEF xpdk_spdk_handle_read, fd
    <2>5. QED
      BY <1>7, <2>4
  <1>10. CASE req[m].type = "WRITE"
    <2>1. "write_async" \in Ops
      BY <1>2, <1>10
    <2>2. Writable(fd) /\ dma # Bufs
      BY <1>4, <2>1 DEF NothingRefused, MemoryLeft, Writable
    <2>3. xpdk_spdk_handle_write(m)
      BY <1>8, <1>10 DEF HandleIo
    <2>4. \E b \in Bufs \cup {NoMsg} : WaitIfSync(m, b)
      BY <1>4, <1>5, <2>2, <2>3, ZenonT(60) DEF xpdk_spdk_handle_write, fd
    <2>5. QED
      BY <1>7, <2>4
  <1>11. QED
    BY <1>2, <1>9, <1>10

\* A step that accepts no request and takes nothing out of flight.
LEMMA SameOwed ==
    ASSUME NoLostRequest,
           \A n \in Msgs : answer'[n] = "owed" => answer[n] = "owed",
           \A n \in Msgs : answer[n] = "owed" /\ InFlight(n) => InFlight(n)'
    PROVE  NoLostRequest'
  BY DEF NoLostRequest

\* The handler hands its request on; the others stay where they are.
LEMMA PollerKeepsOwed ==
    ASSUME LossInv, NothingRefused, MemoryLeft, xpdk_msg_process_poller
    PROVE  NoLostRequest'
  <1> USE DEF LossInv, AnswerInv
  <1>1. PICK m \in Msgs : m = Head(ring)
    BY PollerFrame DEF MessageInv
  <1>2. ring # <<>> /\ ring' = Tail(ring)
    BY PollerFrame DEF MessageInv
  <1>3. InRing(m) /\ \A n \in Msgs \ {m} : InRing(n)' <=> InRing(n)
    BY <1>1, <1>2, Dequeued
  <1>4. \A n \in Msgs \ {m} : pending'[n] = pending[n]
    BY <1>1, HandlerStores DEF MessageInv
  <1>5. answer' = answer
    <2>1. CASE HandleIo(m)
      BY <1>1, <2>1, HandleIoOutcome DEF MessageInv
    <2>2. CASE UNCHANGED <<dma, ctx, filled, answer>>
      BY <2>2
    <2>3. QED
      BY <1>1, <2>1, <2>2 DEF xpdk_msg_process_poller
  <1>6. answer[m] = "owed" => pending'[m] = "io"
    <2>1. CASE req[m].callback
      BY <1>1, <1>3, <2>1, CallbackSubmitted DEF Ahead
    <2>2. CASE ~req[m].callback
      BY <1>3, <2>2, OwedHasCallback DEF InFlight
    <2>3. QED
      BY <2>1, <2>2
  <1>7. \A n \in Msgs : answer[n] = "owed" /\ InFlight(n) => InFlight(n)'
    BY <1>3, <1>4, <1>6 DEF InFlight
  <1>8. QED
    BY <1>5, <1>7, SameOwed

\* A completion of a request that is owed an answer is that answer.
LEMMA BdevKeepsOwed ==
    ASSUME LossInv, NEW m \in Msgs, BdevCompletes(m)
    PROVE  NoLostRequest'
  <1> USE DEF LossInv, UseInv, DeviceInv
  <1>1. /\ ring' = ring /\ pending[m] # "none"
        /\ \A n \in Msgs \ {m} : pending'[n] = pending[n]
    BY CompletionStores DEF MessageInv
  <1>2. answer \in [Msgs -> Answers]
    BY DEF MessageInv, TypeInv, TypeOK, IoTypeOK
  <1>3. CASE async_io_completion_cb(m)
    <2>1. \E s \in {"SUCCESS", "IO"} : answer' = [answer EXCEPT ![m] = s]
      BY <1>3 DEF async_io_completion_cb
    <2>2. /\ answer'[m] # "owed"
          /\ \A n \in Msgs \ {m} : answer'[n] = answer[n]
      BY <1>2, <2>1
    <2>3. QED
      BY <1>1, <2>2 DEF NoLostRequest, InFlight, InRing
  <1>4. CASE ~req[m].callback /\ answer' = answer
    <2>1. answer[m] # "owed"
      BY <1>1, <1>4, OwedHasCallback DEF InFlight
    <2>2. QED
      BY <1>1, <1>4, <2>1 DEF NoLostRequest, InFlight, InRing
  <1>5. CASE bdev_open_complete(m) /\ UNCHANGED ioVars
    BY <1>4, <1>5 DEF bdev_open_complete, RequestShape, ioVars
  <1>6. CASE xpdk_qos_set_limits_complete(m) /\ UNCHANGED ioVars
    BY <1>4, <1>6 DEF xpdk_qos_set_limits_complete, RequestShape, ioVars
  <1>7. CASE sync_io_completion_cb(m)
    BY <1>4, <1>7, ZenonT(60) DEF sync_io_completion_cb
  <1>8. QED
    BY <1>3, <1>5, <1>6, <1>7 DEF BdevCompletes

\* A call that starts makes its message its own: it is owed nothing.
LEMMA NewMessageOwed ==
    ASSUME LossInv, NEW c \in Clients, NEW m \in pool, NEW r \in Request, NewMessage(c, m, r)
    PROVE  NoLostRequest'
  <1> USE DEF LossInv, AnswerInv
  <1>1. /\ m \in Msgs /\ UNCHANGED <<ring, pending>>
        /\ answer' = [answer EXCEPT ![m] = "none"]
    BY DEF NewMessage, MessageInv, TypeInv, TypeOK, MsgTypeOK
  <1>2. \A n \in Msgs : answer'[n] = "owed" => answer[n] = "owed"
    BY <1>1, AnswerType DEF MessageInv
  <1>3. \A n \in Msgs : InFlight(n) => InFlight(n)'
    BY <1>1 DEF InFlight, InRing
  <1>4. QED
    BY <1>2, <1>3, SameOwed

\* Sending accepts a request and puts it into the ring.
LEMMA SendKeepsOwed ==
    ASSUME LossInv, NEW c \in Clients, xpdk_msg_send_sync(c) \/ xpdk_msg_send_async(c)
    PROVE  NoLostRequest'
  <1> USE DEF LossInv, AnswerInv, MessageInv
  <1>1. PICK m \in Msgs : m = cur[c]
    BY HoldsMessage DEF xpdk_msg_send_sync, xpdk_msg_send_async
  <1>2. /\ spdk_ring_enqueue(m) /\ pending' = pending
        /\ answer' = answer \/ answer' = [answer EXCEPT ![m] = "owed"]
    BY <1>1 DEF xpdk_msg_send_sync, xpdk_msg_send_async, devVars, ioVars
  <1>3. InRing(m)' /\ \A n \in Msgs : InRing(n) => InRing(n)'
    BY <1>2, EnqueueType, RingHoldsMessages, SMTT(30) DEF InRing
  <1>4. \A n \in Msgs \ {m} : answer'[n] = answer[n]
    BY <1>2, AnswerType
  <1>5. QED
    BY <1>2, <1>3, <1>4 DEF NoLostRequest, InFlight

\* The steps of a call.  xpdk_cleanup frees the ring with nothing in it.
LEMMA CallStepKeepsOwed ==
    ASSUME LossInv, NEW c \in Clients, CallStep(c)
    PROVE  NoLostRequest'
  <1> USE DEF LossInv, AnswerInv, MessageInv
  <1>1. ASSUME UNCHANGED <<ring, pending, answer>>
        PROVE  NoLostRequest'
    BY <1>1, SameOwed DEF InFlight, InRing
  <1>2. CASE SendBusy(c) \/ ReturnSync(c)
    BY <1>1, <1>2 DEF SendBusy, ReturnSync, devVars, ioVars
  <1>3. CASE CleanupDevice(c)
    <2>1. pc[c] = "scan" /\ scan[c] < NumFds
      BY <1>3 DEF CleanupDevice
    <2>2. scan[c] \in 0 .. NumFds - 1
      BY <2>1, MsgAssumption, SMTT(30) DEF TypeInv, TypeOK, CallShape, NoFd
    <2>3. [Blank("CLOSE") EXCEPT !.fd = scan[c]] \in Request
      BY <2>2, BlankType DEF Request, MsgTypes, Fds
    <2>4. QED
      BY <1>1, <1>3, <2>3, NewMessageOwed DEF CleanupDevice, msgVars, devVars, ioVars
  <1>4. CASE xpdk_cleanup_spdk_thread(c)
    <2>1. Blank("SHUTDOWN") \in Request
      BY BlankType DEF MsgTypes
    <2>2. QED
      BY <1>1, <1>4, <2>1, NewMessageOwed
      DEF xpdk_cleanup_spdk_thread, msgVars, devVars, ioVars
  <1>5. CASE CleanupJoin(c)
    <2>1. pc[c] = "join" /\ UNCHANGED <<pending, answer>>
      BY <1>5 DEF CleanupJoin, devVars, ioVars
    <2>2. /\ \A n \in Msgs : pending[n] = "none"
          /\ \A i \in 1 .. Len(ring) : ring[i] = cur[c]
      BY <2>1 DEF TypeInv, CallShape, CleanupAlone
    <2>3. cur[c] \notin Msgs
      BY <2>1, HoldsMessage, MsgAssumption
    <2>4. \A n \in Msgs : ~InFlight(n)
      BY <2>2, <2>3 DEF InFlight, InRing
    <2>5. QED
      BY <2>1, <2>4 DEF NoLostRequest
  <1>6. QED
    BY <1>2, <1>3, <1>4, <1>5, SendKeepsOwed DEF CallStep

\* Every step keeps the invariant.
LEMMA LossStep ==
    ASSUME LossInv, NothingRefused, MemoryLeft, [Next]_vars, [FinishFirst]_vars
    PROVE  LossInv'
  <1>1. UseInv' /\ AnswerInv'
    BY UseStep, AnswerStep DEF LossInv
  <1> SUFFICES NoLostRequest'
    BY <1>1 DEF LossInv
  <1>2. ASSUME UNCHANGED <<ring, pending, answer>>
        PROVE  NoLostRequest'
    BY <1>2, SameOwed DEF InFlight, InRing, LossInv
  <1>3. CASE xpdk_init_opts
    BY <1>3 DEF xpdk_init_opts, NoLostRequest
  <1>4. ASSUME NEW c \in Clients, Calls(c)
        PROVE  NoLostRequest'
    <2>1. CASE xpdk_cleanup(c)
      BY <1>2, <2>1 DEF xpdk_cleanup, msgVars, devVars, ioVars
    <2>2. CASE \E m \in pool, r \in Request : StartCall(c, m, r)
      BY <2>2, NewMessageOwed DEF StartCall
    <2>3. QED
      BY <1>4, <2>1, <2>2, CallsStart DEF LossInv, AnswerInv, MessageInv
  <1>5. CASE PollerBreak \/ HandlerFinish \/ SpdkThreadExit
    BY <1>2, <1>5 DEF PollerBreak, HandlerFinish, FinishWait, SpdkThreadExit, msgVars,
                      devVars, ioVars
  <1>6. ASSUME NEW fd \in Fds, BdevUnmaps(fd)
        PROVE  NoLostRequest'
    BY <1>2, <1>6 DEF BdevUnmaps, UnmapDone, msgVars, ioVars
  <1>7. CASE UNCHANGED vars
    BY <1>2, <1>7 DEF vars, msgVars, devVars, ioVars
  <1>8. QED
    BY <1>3, <1>4, <1>5, <1>6, <1>7, PollerKeepsOwed, CallStepKeepsOwed, BdevKeepsOwed
    DEF Next, SpdkThread

\* At first no answer is owed.
LEMMA LossInit ==
    ASSUME Init
    PROVE  LossInv
  <1>1. UseInv /\ AnswerInv
    BY UseInit, AnswerInit
  <1>2. NoLostRequest
    BY DEF Init, IoInit, NoLostRequest
  <1>3. QED
    BY <1>1, <1>2 DEF LossInv

(***************************************************************************)
(* No accepted asynchronous request is lost (NoLostRequest), as long as    *)
(* the application gives the handlers no reason to refuse one, closes no   *)
(* descriptor with a request still on its way, and the DMA memory lasts.   *)
(* Every hypothesis is needed: the early returns of the handlers set       *)
(* msg->completed, which nobody waits for, and drop the message.           *)
(***************************************************************************)
THEOREM RequestsAreNotLost ==
    ASSUME NothingRefused
    PROVE  Spec /\ [][FinishFirst]_vars /\ []MemoryLeft => []NoLostRequest
  <1>1. Init => LossInv
    BY LossInit
  <1>2. LossInv /\ MemoryLeft /\ [Next]_vars /\ [FinishFirst]_vars => LossInv'
    BY LossStep
  <1>3. LossInv => NoLostRequest
    BY DEF LossInv
  <1>4. QED
    BY <1>1, <1>2, <1>3, PTL DEF Spec

(***************************************************************************)
(* The application of the liveness run: it reads with aligned buffers and  *)
(* keeps its devices open until xpdk_cleanup.  It needs to obey no rule:   *)
(* the whole invariant (LossInv), and so NoLostRequest, holds.             *)
(***************************************************************************)
THEOREM AlignedReadsAreNotLost ==
    ASSUME NothingRefused, "close" \notin Ops, "write_async" \notin Ops,
           Alignments \subseteq {TRUE}
    PROVE  Spec => []LossInv
  <1>1. Init => LossInv
    BY LossInit
  <1>2. LossInv /\ [Next]_vars => LossInv'
    <2> SUFFICES ASSUME LossInv, [Next]_vars
                 PROVE  LossInv'
      OBVIOUS
    <2>1. FinishFirst
      BY NeverCloses DEF LossInv, AnswerInv, MessageInv
    <2>2. MemoryLeft
      BY DEF MemoryLeft
    <2>3. QED
      BY <2>1, <2>2, LossStep
  <1>3. QED
    BY <1>1, <1>2, PTL DEF Spec

=============================================================================
