-------------------------- MODULE XpdkMessageProof --------------------------
(***************************************************************************)
(* Types and the life of a message.  TypeOK, for every value of the        *)
(* constants, from the inductive invariant TypeInv, which adds the shape   *)
(* of calls and the quotas of the poller.                                  *)
(*                                                                         *)
(* A message has one owner at a time, and nobody waits for a message that  *)
(* was dropped: OneOwner and NoStrandedCall, from the inductive invariant  *)
(* MessageInv.  It adds to them what a thread that holds a message knows   *)
(* about it (CallFresh), and that the start and the shutdown of the        *)
(* library find everything at rest (CleanupAlone, DownIsQuiet):            *)
(* xpdk_init_opts fills the pool with every message, and the end of        *)
(* xpdk_cleanup frees it.  Three frame lemmas carry most steps: one that   *)
(* leaves the messages alone, one that allocates, one that ends a call.    *)
(***************************************************************************)
EXTENDS XpdkHandlerProof

\* Most leaves are first-order reasoning about sets and functions.
USE ZenonT(30)

\* The frames below the running invocation are frames.
LEMMA BelowFrames ==
    ASSUME stack \in Seq(Frame), LoopQuota
    PROVE  /\ Below \in Seq(Frame)
           /\ \A i \in 1 .. Len(Below) : Below[i].msg = NoMsg => Below[i].quota # 0
  BY PoppedFrames, SMTT(30) DEF Below, InLoop, LoopQuota

\* Pushing a frame that is not an exhausted loop keeps the stack well formed.
LEMMA PushFrame ==
    ASSUME NEW s \in Seq(Frame), NEW f \in Frame,
           \A i \in 1 .. Len(s) : s[i].msg = NoMsg => s[i].quota # 0,
           f.msg = NoMsg => f.quota # 0,
           stack' = Append(s, f)
    PROVE  stack' \in Seq(Frame) /\ LoopQuota'
  <1>1. /\ Append(s, f) \in Seq(Frame)
        /\ Len(Append(s, f)) = Len(s) + 1
        /\ \A i \in 1 .. Len(s) : Append(s, f)[i] = s[i]
        /\ Append(s, f)[Len(s) + 1] = f
    BY AppendElements, SMTT(30)
  <1>2. Len(s) \in Nat
    BY SeqElements
  <1>3. QED
    BY <1>1, <1>2, SMTT(30) DEF LoopQuota

\* A handler that returns to the poller keeps the stack well formed.
LEMMA ReturnedStack ==
    ASSUME stack \in Seq(Frame), LoopQuota, Returned
    PROVE  stack' \in Seq(Frame) /\ LoopQuota'
  <1>1. Quota \in 1 .. MaxBatch
    BY QuotaRange
  <1>2. CASE Quota = 1
    BY <1>2, BelowFrames DEF Returned, LoopQuota
  <1>3. CASE Quota # 1
    <2>1. Loop(Quota - 1) \in Frame /\ Loop(Quota - 1).quota # 0
      BY IoAssumption, <1>1, <1>3, SMTT(30) DEF Loop, Frame
    <2>2. stack' = Append(Below, Loop(Quota - 1))
      BY <1>3 DEF Returned
    <2>3. QED
      BY <2>1, <2>2, BelowFrames, PushFrame
  <1>4. QED
    BY <1>2, <1>3

\* So does a handler that starts to wait.
LEMMA WaitsStack ==
    ASSUME stack \in Seq(Frame), LoopQuota, req \in [Msgs -> Request],
           NEW m \in Msgs, NEW b \in Bufs \cup {NoMsg},
           req[m].type \in {"READ", "WRITE", "FLUSH"}, Waits(m, b)
    PROVE  stack' \in Seq(Frame) /\ LoopQuota'
  <1> DEFINE f == [quota |-> Quota - 1, msg |-> m, type |-> req[m].type,
                   buffer |-> b, done |-> FALSE, ok |-> FALSE]
  <1>1. f \in Frame /\ f.msg # NoMsg
    BY IoAssumption, MsgAssumption, QuotaRange, SMTT(30) DEF Frame
  <1>2. stack' = Append(Below, f)
    BY DEF Waits
  <1>3. QED
    BY <1>1, <1>2, BelowFrames, PushFrame

-----------------------------------------------------------------------------
(***************************************************************************)
(* The handlers.                                                           *)
(***************************************************************************)

\* A reply is well typed.
LEMMA ReplyType ==
    ASSUME MsgTypeOK, NEW m \in Msgs, NEW s \in Status, Reply(m, s)
    PROVE  status' \in [Msgs -> Status] /\ completed' \in [Msgs -> BOOLEAN]
  BY DEF MsgTypeOK, Reply

\* The handlers that do not wait keep the device table well typed.
LEMMA HandleDeviceType ==
    ASSUME TypeOK, NEW m \in Msgs, HandleDevice(m) \/ HandleUnknown(m)
    PROVE  /\ DeviceTypeOK'
           /\ status' \in [Msgs -> Status]
           /\ completed' \in [Msgs -> BOOLEAN]
  <1> USE DEF TypeOK, MsgTypeOK, DeviceTypeOK, Reply, Status
  <1>1. CASE xpdk_spdk_handle_open(m)
    <2>1. req[m].flags \in AccessModes
      BY DEF Request
    <2>2. ASSUME NEW fd \in Fds
          PROVE  /\ Claimed(fd, req[m].flags) \in [Fds -> Device]
                 /\ [devices EXCEPT ![fd].flags = req[m].flags] \in [Fds -> Device]
      <3>1. devices[fd] \in Device /\ devices \in [Fds -> Device]
        OBVIOUS
      <3>2. [devices[fd] EXCEPT !.in_use = TRUE, !.flags = req[m].flags] \in Device
        BY <2>1, <3>1 DEF Device
      <3>3. [devices[fd] EXCEPT !.flags = req[m].flags] \in Device
        BY <2>1, <3>1 DEF Device
      <3>4. Claimed(fd, req[m].flags) = [devices EXCEPT ![fd] =
                [devices[fd] EXCEPT !.in_use = TRUE, !.flags = req[m].flags]]
        BY <3>1 DEF Claimed, Device
      <3>5. QED
        BY <3>1, <3>2, <3>3, <3>4, SMTT(30)
    <2>3. UNCHANGED unmapping
      BY <1>1 DEF xpdk_spdk_handle_open
    <2>4. CASE UNCHANGED <<devices, result_fd, pending>>
               /\ (Reply(m, "NODEV") \/ Reply(m, "NOMEM"))
      BY <2>3, <2>4
    <2>5. CASE \E fd \in Fds :
                 /\ result_fd' = [result_fd EXCEPT ![m] = fd]
                 /\ devices' = Claimed(fd, req[m].flags)
                 /\ pending' = [pending EXCEPT ![m] = "open"]
                 /\ UNCHANGED <<status, completed>>
      <3>1. PICK fd \in Fds :
                 /\ result_fd' = [result_fd EXCEPT ![m] = fd]
                 /\ devices' = Claimed(fd, req[m].flags)
        BY <2>5
      <3>2. devices' \in [Fds -> Device]
        BY <2>2, <3>1
      <3>3. pending' \in [Msgs -> BdevOps]
        BY <2>5 DEF BdevOps
      <3>4. QED
        BY <2>3, <2>5, <3>1, <3>2, <3>3
    <2>6. CASE \E fd \in Fds :
                 /\ result_fd' = [result_fd EXCEPT ![m] = fd]
                 /\ devices' = [devices EXCEPT ![fd].flags = req[m].flags]
                 /\ Reply(m, "IO")
                 /\ UNCHANGED pending
      BY <2>2, <2>3, <2>6, SMTT(30)
    <2>7. QED
      BY <1>1, <2>4, <2>5, <2>6 DEF xpdk_spdk_handle_open
  <1>2. CASE xpdk_spdk_handle_close(m)
    <2>1. FreeSlot \in Device
      BY DEF FreeSlot, Device, AccessModes
    <2>2. \A fd \in Fds : Closed(fd) \in [Fds -> Device]
      BY <2>1 DEF Closed
    <2>3. QED
      BY <1>2, <2>2, ZenonT(60) DEF xpdk_spdk_handle_close, xpdk_get_device
  <1>3. CASE AnswerIfOpen(m) \/ xpdk_spdk_handle_list_bdevs(m) \/ HandleUnknown(m)
    BY <1>3 DEF AnswerIfOpen, xpdk_spdk_handle_list_bdevs, HandleUnknown, devVars
  <1>4. CASE xpdk_spdk_handle_qos_set_limits(m)
    BY <1>4 DEF xpdk_spdk_handle_qos_set_limits, BdevOps
  <1>5. CASE SubmitUnmap(m)
    BY <1>5 DEF SubmitUnmap, xpdk_get_device
  <1>6. QED
    BY <1>1, <1>2, <1>3, <1>4, <1>5
       DEF HandleDevice, xpdk_spdk_handle_get_info, xpdk_spdk_handle_qos_get_limits,
           xpdk_spdk_handle_get_perf_stats, xpdk_spdk_handle_reset_perf_stats,
           xpdk_spdk_handle_trim, xpdk_spdk_handle_write_zeros

\* The two outcomes of an I/O handler are well typed.
LEMMA HandleIoType ==
    ASSUME TypeInv, NEW m \in Msgs, HandleIo(m)
    PROVE  /\ DeviceTypeOK' /\ IoTypeOK' /\ LoopQuota'
           /\ status' \in [Msgs -> Status]
           /\ completed' \in [Msgs -> BOOLEAN]
  <1>1. stack \in Seq(Frame) /\ LoopQuota /\ req \in [Msgs -> Request]
    BY TypeParts DEF IoTypeOK, MsgTypeOK
  <1>2. CASE \E s \in Status : Refuse(m, s)
    <2>1. stack' \in Seq(Frame) /\ LoopQuota'
      BY <1>1, <1>2, ReturnedStack DEF Refuse
    <2>2. status' \in [Msgs -> Status] /\ completed' \in [Msgs -> BOOLEAN]
      BY <1>2, ReplyType, TypeParts DEF Refuse
    <2>3. pending' = pending
      BY <1>2 DEF Refuse
    <2>4. QED
      BY <2>1, <2>2, <2>3, HandleIoOutcome, TypeParts DEF DeviceTypeOK, IoTypeOK
  <1>3. CASE \E b \in Bufs \cup {NoMsg} : WaitIfSync(m, b)
    <2>1. PICK b \in Bufs \cup {NoMsg} : WaitIfSync(m, b)
      BY <1>3
    <2>2. stack' \in Seq(Frame) /\ LoopQuota'
      <3>1. CASE req[m].callback
        BY <1>1, <2>1, <3>1, ReturnedStack DEF WaitIfSync
      <3>2. CASE ~req[m].callback
        BY <1>1, <2>1, <3>2, WaitsStack, HandleIoOutcome DEF WaitIfSync
      <3>3. QED
        BY <3>1, <3>2
    <2>3. pending' \in [Msgs -> BdevOps]
      BY <2>1, TypeParts DEF WaitIfSync, DeviceTypeOK, BdevOps
    <2>4. UNCHANGED <<status, completed>>
      BY <2>1 DEF WaitIfSync
    <2>5. QED
      BY <2>2, <2>3, <2>4, HandleIoOutcome, TypeParts DEF MsgTypeOK, DeviceTypeOK, IoTypeOK
  <1>4. QED
    BY <1>2, <1>3, HandleIoOutcome

\* The start of a call keeps the types; the thread it belongs to is the only one that moves.
LEMMA NewMessageType ==
    ASSUME TypeInv, NEW c \in Clients, NEW m \in Msgs, NEW r \in Request,
           NewMessage(c, m, r),
           scan' \in [Clients -> -1 .. NumFds],
           \A d \in Clients \ {c} : scan'[d] = scan[d],
           held' \subseteq Fds
    PROVE  TypeInv'
  <1>1. UNCHANGED <<ring, devices, pending, unmapping, stack, dma, initialized, running, exited>>
    BY DEF NewMessage, lifeVars
  <1>2. MsgTypeOK'
    BY <1>1, TypeParts DEF NewMessage, xpdk_msg_alloc, MsgTypeOK, Status
  <1>3. DeviceTypeOK'
    <2>1. 0 \in Fds
      BY MsgAssumption, SMTT(30) DEF Fds
    <2>2. QED
      BY <1>1, <2>1, TypeParts DEF NewMessage, DeviceTypeOK
  <1>4. IoTypeOK'
    BY <1>1, TypeParts DEF NewMessage, IoTypeOK, Answers
  <1>5. LoopQuota'
    BY <1>1 DEF TypeInv, LoopQuota
  <1>6. /\ pc' = [pc EXCEPT ![c] = "send"]
        /\ cur' = [cur EXCEPT ![c] = m]
    BY DEF NewMessage
  <1>7. CallShape'
    BY <1>6, MsgAssumption DEF TypeInv, TypeOK, CallShape
  <1>8. QED
    BY <1>1, <1>2, <1>3, <1>4, <1>5, <1>6, <1>7 DEF TypeInv, TypeOK

\* The calls of the application keep the types.
LEMMA CallsType ==
    ASSUME TypeInv, NEW c \in Clients, Calls(c)
    PROVE  TypeInv'
  <1>1. CASE \E m \in pool, r \in Request : StartCall(c, m, r) /\ held' \subseteq Fds
    <2>1. PICK m \in pool, r \in Request : StartCall(c, m, r) /\ held' \subseteq Fds
      BY <1>1
    <2>2. scan' = scan /\ m \in Msgs /\ NewMessage(c, m, r)
      BY <2>1, TypeParts DEF StartCall, MsgTypeOK
    <2>3. QED
      BY <2>1, <2>2, NewMessageType DEF TypeInv, TypeOK
  <1>2. CASE xpdk_cleanup(c)
    <2>1. /\ UNCHANGED <<msgVars, devVars, ioVars, cur, lifeVars>>
          /\ pc' = [pc EXCEPT ![c] = "scan"]
          /\ scan' = [scan EXCEPT ![c] = 0]
          /\ held' = {}
          /\ pc[c] = "idle"
      BY <1>2 DEF xpdk_cleanup, Quiet
    <2>2. MsgTypeOK' /\ DeviceTypeOK' /\ IoTypeOK' /\ LoopQuota'
      BY <2>1, TypeParts
         DEF msgVars, devVars, ioVars, MsgTypeOK, DeviceTypeOK, IoTypeOK, LoopQuota
    <2>3. CallShape'
      BY <2>1, SMTT(60) DEF TypeInv, TypeOK, CallShape, NoFd
    <2>4. QED
      BY <2>1, <2>2, <2>3, MsgAssumption, SMTT(30) DEF TypeInv, TypeOK, lifeVars
  <1>3. QED
    BY <1>1, <1>2, CallsStart

\* The types of the parts a step of the application leaves alone.
LEMMA UnchangedParts ==
    ASSUME TypeInv
    PROVE  /\ UNCHANGED <<ring, req, status, completed>> /\ pool' \subseteq Msgs => MsgTypeOK'
           /\ UNCHANGED devVars => DeviceTypeOK'
           /\ UNCHANGED ioVars => IoTypeOK' /\ LoopQuota'
  BY TypeParts DEF MsgTypeOK, DeviceTypeOK, IoTypeOK, LoopQuota, devVars, ioVars

\* The end of a call clears the thread's message and moves it on.
LEMMA EndCallType ==
    ASSUME TypeInv, NEW c \in Clients, pc[c] \in {"send", "wait"}, EndCall(c),
           UNCHANGED <<ring, req, status, completed, devVars, ioVars, scan, lifeVars>>,
           held' \subseteq Fds
    PROVE  TypeInv'
  <1>1. cur[c] \in Msgs
    BY DEF TypeInv, TypeOK, CallShape
  <1>2. Resume(c) \in {"idle", "scan", "join"} /\ (Resume(c) # "idle" => scan[c] # NoFd)
    BY DEF Resume
  <1>3. /\ pool' = pool \cup {cur[c]}
        /\ cur' = [cur EXCEPT ![c] = NoMsg]
        /\ pc' = [pc EXCEPT ![c] = Resume(c)]
    BY DEF EndCall, xpdk_msg_free
  <1>4. pool' \subseteq Msgs
    BY <1>1, <1>3, TypeParts DEF MsgTypeOK
  <1>5. MsgTypeOK' /\ DeviceTypeOK' /\ IoTypeOK' /\ LoopQuota'
    BY <1>4, UnchangedParts
  <1>6. /\ pc' \in [Clients -> {"idle", "send", "wait", "scan", "join"}]
        /\ cur' \in [Clients -> Msgs \cup {NoMsg}]
    BY <1>2, <1>3 DEF TypeInv, TypeOK
  <1>7. CallShape'
    BY <1>2, <1>3 DEF TypeInv, TypeOK, CallShape
  <1>8. QED
    BY <1>5, <1>6, <1>7 DEF TypeInv, TypeOK, lifeVars

\* The steps of a call.
LEMMA CallStepType ==
    ASSUME TypeInv, NEW c \in Clients, CallStep(c)
    PROVE  TypeInv'
  <1>1. CASE xpdk_msg_send_sync(c) \/ xpdk_msg_send_async(c)
    <2>1. pc[c] = "send" /\ spdk_ring_enqueue(cur[c]) /\ cur[c] \in Msgs
      BY <1>1 DEF xpdk_msg_send_sync, xpdk_msg_send_async, TypeInv, TypeOK, CallShape
    <2>2. UNCHANGED <<pool, req, status, completed, devVars, stack, dma, ctx, filled,
                      scan, held, lifeVars>>
      BY <1>1 DEF xpdk_msg_send_sync, xpdk_msg_send_async, ioVars
    <2>3. answer' \in [Msgs -> Answers]
      BY <1>1, TypeParts, ZenonT(60)
      DEF xpdk_msg_send_sync, xpdk_msg_send_async, ioVars, IoTypeOK, Answers
    <2>4. MsgTypeOK'
      BY <2>1, <2>2, EnqueueType, TypeParts DEF MsgTypeOK
    <2>5. DeviceTypeOK' /\ IoTypeOK' /\ LoopQuota'
      BY <2>2, <2>3, UnchangedParts, TypeParts DEF IoTypeOK, LoopQuota
    <2>6. /\ pc' \in [Clients -> {"idle", "send", "wait", "scan", "join"}]
          /\ cur' \in [Clients -> Msgs \cup {NoMsg}]
          /\ CallShape'
      <3>1. CASE pc' = [pc EXCEPT ![c] = "wait"] /\ cur' = cur
        BY <2>1, <2>2, <3>1 DEF TypeInv, TypeOK, CallShape
      <3>2. CASE pc' = [pc EXCEPT ![c] = "idle"] /\ cur' = [cur EXCEPT ![c] = NoMsg]
        BY <2>1, <2>2, <3>2 DEF TypeInv, TypeOK, CallShape
      <3>3. QED
        BY <1>1, <3>1, <3>2 DEF xpdk_msg_send_sync, xpdk_msg_send_async
    <2>7. QED
      BY <2>2, <2>4, <2>5, <2>6 DEF TypeInv, TypeOK, lifeVars
  <1>2. CASE SendBusy(c)
    <2>1. held' \subseteq Fds
      BY <1>2 DEF SendBusy, TypeInv, TypeOK
    <2>2. QED
      BY <1>2, <2>1, EndCallType DEF SendBusy
  <1>3. CASE ReturnSync(c)
    <2>1. cur[c] \in Msgs
      BY <1>3 DEF ReturnSync, TypeInv, TypeOK, CallShape
    <2>2. held' \subseteq Fds
      BY <1>3, <2>1, TypeParts DEF ReturnSync, DeviceTypeOK, TypeInv, TypeOK
    <2>3. QED
      BY <1>3, <2>2, EndCallType DEF ReturnSync
  <1>4. CASE CleanupDevice(c)
    <2>1. /\ pc[c] = "scan" /\ scan[c] < NumFds /\ held' = held
          /\ scan' = [scan EXCEPT ![c] = scan[c] + 1]
      BY <1>4 DEF CleanupDevice
    <2>2. scan[c] \in 0 .. NumFds - 1
      BY <2>1, MsgAssumption, SMTT(30) DEF TypeInv, TypeOK, CallShape, NoFd
    <2>3. /\ scan' \in [Clients -> -1 .. NumFds] /\ scan'[c] # NoFd
          /\ \A d \in Clients \ {c} : scan'[d] = scan[d]
      BY <2>1, <2>2, MsgAssumption, SMTT(30) DEF TypeInv, TypeOK, NoFd
    <2>4. CASE \E m \in pool : NewMessage(c, m, [Blank("CLOSE") EXCEPT !.fd = scan[c]])
      <3>1. [Blank("CLOSE") EXCEPT !.fd = scan[c]] \in Request
        BY <2>2, BlankType, SMTT(30) DEF Request, MsgTypes, Fds
      <3>2. held' \subseteq Fds /\ pool \subseteq Msgs
        BY <2>1, TypeParts DEF MsgTypeOK, TypeInv, TypeOK
      <3>3. QED
        BY <2>3, <2>4, <3>1, <3>2, NewMessageType
    <2>5. CASE UNCHANGED <<msgVars, devVars, ioVars, pc, cur, lifeVars>>
      <3>1. MsgTypeOK' /\ DeviceTypeOK' /\ IoTypeOK' /\ LoopQuota'
        BY <2>5, UnchangedParts, TypeParts DEF msgVars, MsgTypeOK
      <3>2. CallShape'
        BY <2>1, <2>3, <2>5 DEF TypeInv, TypeOK, CallShape
      <3>3. QED
        BY <2>1, <2>3, <2>5, <3>1, <3>2 DEF TypeInv, TypeOK, lifeVars
    <2>6. QED
      BY <1>4, <2>4, <2>5 DEF CleanupDevice
  <1>5. CASE xpdk_cleanup_spdk_thread(c)
    <2>1. pc[c] = "scan" /\ UNCHANGED <<scan, held>>
      BY <1>5 DEF xpdk_cleanup_spdk_thread
    <2>2. CASE \E m \in pool : NewMessage(c, m, Blank("SHUTDOWN"))
      <3>1. /\ Blank("SHUTDOWN") \in Request
            /\ held' \subseteq Fds /\ pool \subseteq Msgs
            /\ scan' \in [Clients -> -1 .. NumFds]
        BY <2>1, BlankType, TypeParts DEF MsgTypes, MsgTypeOK, TypeInv, TypeOK
      <3>2. QED
        BY <2>1, <2>2, <3>1, NewMessageType
    <2>3. CASE /\ pc' = [pc EXCEPT ![c] = "join"]
               /\ UNCHANGED <<msgVars, devVars, ioVars, cur, lifeVars>>
      <3>1. MsgTypeOK' /\ DeviceTypeOK' /\ IoTypeOK' /\ LoopQuota'
        BY <2>3, UnchangedParts, TypeParts DEF msgVars, MsgTypeOK
      <3>2. CallShape'
        BY <2>1, <2>3 DEF TypeInv, TypeOK, CallShape
      <3>3. QED
        BY <2>1, <2>3, <3>1, <3>2 DEF TypeInv, TypeOK, lifeVars
    <2>4. QED
      BY <1>5, <2>2, <2>3 DEF xpdk_cleanup_spdk_thread
  <1>6. CASE CleanupJoin(c)
    <2>1. /\ pc[c] = "join" /\ pool' = {} /\ ring' = <<>> /\ initialized' = FALSE
          /\ pc' = [pc EXCEPT ![c] = "idle"]
          /\ scan' = [scan EXCEPT ![c] = NoFd]
          /\ UNCHANGED <<req, status, completed, devVars, ioVars, cur, held, running, exited>>
      BY <1>6 DEF CleanupJoin
    <2>2. MsgTypeOK' /\ DeviceTypeOK' /\ IoTypeOK' /\ LoopQuota'
      BY <2>1, UnchangedParts, MsgAssumption, TypeParts, SMTT(30) DEF MsgTypeOK
    <2>3. CallShape'
      BY <2>1 DEF TypeInv, TypeOK, CallShape
    <2>4. scan' \in [Clients -> -1 .. NumFds]
      BY <2>1, MsgAssumption, SMTT(30) DEF TypeInv, TypeOK, NoFd
    <2>5. QED
      BY <2>1, <2>2, <2>3, <2>4 DEF TypeInv, TypeOK
  <1>7. QED
    BY <1>1, <1>2, <1>3, <1>4, <1>5, <1>6 DEF CallStep

\* The application's state is well typed as long as nobody but it changes it.
LEMMA SameCalls ==
    ASSUME TypeInv, UNCHANGED <<pc, cur, scan, held>>,
           MsgTypeOK', DeviceTypeOK', IoTypeOK', LoopQuota',
           initialized' \in BOOLEAN, running' \in BOOLEAN, exited' \in BOOLEAN
    PROVE  TypeInv'
  BY DEF TypeInv, TypeOK, CallShape

\* The steps of the SPDK thread.
LEMMA SpdkThreadType ==
    ASSUME TypeInv, SpdkThread
    PROVE  TypeInv'
  <1>1. stack \in Seq(Frame) /\ LoopQuota
    BY TypeParts DEF IoTypeOK
  <1>2. initialized \in BOOLEAN /\ running \in BOOLEAN /\ exited \in BOOLEAN
    BY DEF TypeInv, TypeOK
  <1>3. CASE xpdk_msg_process_poller
    <2> DEFINE m == Head(ring)
    <2>1. m \in Msgs
      BY <1>3, PollerFrame
    <2>2. ASSUME status' \in [Msgs -> Status], completed' \in [Msgs -> BOOLEAN]
          PROVE  MsgTypeOK'
      BY <1>3, <2>2, PollerFrame, TypeParts DEF MsgTypeOK
    <2>3. CASE HandleIo(m) /\ UNCHANGED running
      <3>1. DeviceTypeOK' /\ IoTypeOK' /\ LoopQuota' /\ MsgTypeOK'
        BY <2>1, <2>2, <2>3, HandleIoType
      <3>2. QED
        BY <1>2, <1>3, <2>3, <3>1, PollerFrame, SameCalls
    <2>4. CASE /\ HandleDevice(m) \/ HandleUnknown(m)
               /\ Returned
               /\ UNCHANGED <<running, dma, ctx, filled, answer>>
      <3>1. DeviceTypeOK' /\ MsgTypeOK'
        BY <2>1, <2>2, <2>4, HandleDeviceType DEF TypeInv
      <3>2. IoTypeOK' /\ LoopQuota'
        BY <1>1, <2>4, ReturnedStack, TypeParts DEF IoTypeOK
      <3>3. QED
        BY <1>2, <1>3, <2>4, <3>1, <3>2, PollerFrame, SameCalls
    <2>5. CASE HandleShutdown(m) /\ UNCHANGED <<dma, ctx, filled, answer>>
      <3>1. /\ running' = FALSE
            /\ completed' = [completed EXCEPT ![m] = TRUE]
            /\ stack' = Below
            /\ UNCHANGED <<status, devVars, dma, ctx, filled, answer>>
        BY <2>5 DEF HandleShutdown
      <3>2. MsgTypeOK'
        BY <2>1, <2>2, <3>1, TypeParts DEF MsgTypeOK
      <3>3. DeviceTypeOK' /\ IoTypeOK' /\ LoopQuota'
        BY <1>1, <3>1, BelowFrames, UnchangedParts, TypeParts DEF IoTypeOK, LoopQuota
      <3>4. QED
        BY <1>2, <1>3, <3>1, <3>2, <3>3, PollerFrame, SameCalls
    <2>6. QED
      BY <1>3, <2>3, <2>4, <2>5 DEF xpdk_msg_process_poller
  <1>4. CASE PollerBreak
    <2>1. /\ stack # <<>> /\ stack' = Popped
          /\ UNCHANGED <<msgVars, devVars, dma, ctx, filled, answer, appVars, lifeVars>>
      BY <1>4 DEF PollerBreak, InLoop
    <2>2. MsgTypeOK' /\ DeviceTypeOK'
      BY <2>1, UnchangedParts, TypeParts DEF msgVars, MsgTypeOK
    <2>3. IoTypeOK' /\ LoopQuota'
      <3>1. stack' \in Seq(Frame) /\ LoopQuota'
        BY <1>1, <2>1, PoppedFrames, SMTT(30) DEF LoopQuota
      <3>2. QED
        BY <2>1, <3>1, TypeParts DEF IoTypeOK
    <2>4. QED
      BY <1>2, <2>1, <2>2, <2>3, SameCalls DEF appVars, lifeVars
  <1>5. CASE HandlerFinish
    <2>1. /\ stack # <<>>
          /\ stack' = IF Top.quota = 0 THEN Popped
                      ELSE Append(Popped, Loop(Top.quota))
          /\ UNCHANGED <<msgVars, devVars, ctx, answer, appVars, lifeVars>>
      BY <1>5 DEF HandlerFinish, FinishWait, InWait
    <2>2. MsgTypeOK' /\ DeviceTypeOK'
      BY <2>1, UnchangedParts, TypeParts DEF msgVars, MsgTypeOK
    <2>3. stack' \in Seq(Frame) /\ LoopQuota'
      <3>1. /\ Popped \in Seq(Frame)
            /\ \A i \in 1 .. Len(Popped) :
                 Popped[i].msg = NoMsg => Popped[i].quota # 0
        BY <1>1, <2>1, PoppedFrames, SMTT(30) DEF LoopQuota
      <3>2. CASE Top.quota = 0
        BY <2>1, <3>1, <3>2 DEF LoopQuota
      <3>3. CASE Top.quota # 0
        <4>1. Loop(Top.quota) \in Frame /\ Loop(Top.quota).quota # 0
          BY <1>1, <2>1, <3>3, PoppedFrames DEF Loop, Frame
        <4>2. QED
          BY <2>1, <3>1, <3>3, <4>1, PushFrame
      <3>4. QED
        BY <3>2, <3>3
    <2>4. dma' \subseteq Bufs /\ filled' \subseteq Buffers
      <3>1. Top.msg \in Msgs
        BY <1>1, <1>5, PoppedFrames DEF HandlerFinish, FinishWait, InWait, Frame
      <3>2. req[Top.msg].buffer \in Buffers
        BY <3>1, TypeParts DEF MsgTypeOK, Request
      <3>3. QED
        BY <1>5, <3>2, TypeParts DEF HandlerFinish, FinishWait, IoTypeOK
    <2>5. IoTypeOK'
      BY <2>1, <2>3, <2>4, TypeParts DEF IoTypeOK
    <2>6. QED
      BY <1>2, <2>1, <2>2, <2>3, <2>5, SameCalls DEF appVars, lifeVars
  <1>6. CASE SpdkThreadExit
    <2>1. /\ exited' = TRUE
          /\ UNCHANGED <<msgVars, devVars, ioVars, appVars, initialized, running>>
      BY <1>6 DEF SpdkThreadExit
    <2>2. MsgTypeOK' /\ DeviceTypeOK' /\ IoTypeOK' /\ LoopQuota'
      BY <2>1, UnchangedParts, TypeParts DEF msgVars, MsgTypeOK
    <2>3. QED
      BY <1>2, <2>1, <2>2, SameCalls DEF appVars
  <1>7. QED
    BY <1>3, <1>4, <1>5, <1>6 DEF SpdkThread

\* The completions of the bdev layer.
LEMMA BdevType ==
    ASSUME TypeInv, NEW m \in Msgs, BdevCompletes(m)
    PROVE  TypeInv'
  <1>1. /\ UNCHANGED <<pc, cur, scan, held, initialized, running, exited>>
        /\ initialized \in BOOLEAN /\ running \in BOOLEAN /\ exited \in BOOLEAN
    BY DEF BdevCompletes, appVars, lifeVars, TypeInv, TypeOK
  <1>2. CASE /\ bdev_open_complete(m) \/ xpdk_qos_set_limits_complete(m)
             /\ UNCHANGED <<pool, ring, req, ioVars>>
    <2>1. /\ UNCHANGED <<pool, ring, req, ioVars, result_fd, unmapping>>
          /\ \E s \in Status : Reply(m, s)
          /\ pending' = [pending EXCEPT ![m] = "none"]
      BY <1>2 DEF bdev_open_complete, xpdk_qos_set_limits_complete, Status
    <2>2. IoTypeOK' /\ LoopQuota'
      BY <2>1, UnchangedParts
    <2>3. MsgTypeOK'
      BY <2>1, ReplyType, TypeParts DEF MsgTypeOK
    <2>4. devices' \in [Fds -> Device]
      <3> DEFINE fd == result_fd[m]
      <3>1. fd \in Fds /\ devices \in [Fds -> Device]
        BY TypeParts DEF DeviceTypeOK
      <3>2. ASSUME NEW b \in BOOLEAN
            PROVE  [devices EXCEPT ![fd].desc = b, ![fd].channel = b] \in [Fds -> Device]
        <4>1. devices[fd] \in Device
          BY <3>1
        <4>2. [devices[fd] EXCEPT !.desc = b, !.channel = b] \in Device
          BY <4>1 DEF Device
        <4>3. [devices EXCEPT ![fd].desc = b, ![fd].channel = b]
                = [devices EXCEPT ![fd] = [devices[fd] EXCEPT !.desc = b, !.channel = b]]
          BY <3>1
        <4>4. QED
          BY <3>1, <4>2, <4>3
      <3>3. \/ devices' = [devices EXCEPT ![fd].desc = TRUE, ![fd].channel = TRUE]
            \/ devices' = [devices EXCEPT ![fd].desc = FALSE, ![fd].channel = FALSE]
            \/ devices' = devices
        BY <1>2 DEF bdev_open_complete, xpdk_qos_set_limits_complete
      <3>4. QED
        BY <3>1, <3>2, <3>3
    <2>5. DeviceTypeOK'
      BY <2>1, <2>4, TypeParts DEF DeviceTypeOK, BdevOps
    <2>6. QED
      BY <1>1, <2>2, <2>3, <2>5, SameCalls
  <1>3. CASE sync_io_completion_cb(m)
    <2>1. PICK success \in BOOLEAN :
            /\ stack' = [i \in DOMAIN stack |->
                           IF stack[i].msg = m /\ ~stack[i].done
                           THEN [stack[i] EXCEPT !.done = TRUE, !.ok = success]
                           ELSE stack[i]]
            /\ Reply(m, IF success THEN "SUCCESS" ELSE "IO")
      BY <1>3, ZenonT(60) DEF sync_io_completion_cb
    <2>2. /\ filled' = filled \cup {req[m].buffer} \/ filled' = filled
          /\ pending' = [pending EXCEPT ![m] = "none"]
          /\ UNCHANGED <<pool, ring, req, devices, result_fd, unmapping, dma, ctx, answer>>
      BY <1>3, ZenonT(60) DEF sync_io_completion_cb
    <2>3. MsgTypeOK'
      <3>1. (IF success THEN "SUCCESS" ELSE "IO") \in Status
        BY DEF Status
      <3>2. QED
        BY <2>1, <2>2, <3>1, ReplyType, TypeParts DEF MsgTypeOK
    <2>4. DeviceTypeOK'
      BY <2>2, TypeParts DEF DeviceTypeOK, BdevOps
    <2>5. stack' \in Seq(Frame) /\ LoopQuota'
      <3>1. /\ stack \in Seq(Frame) /\ LoopQuota
            /\ \A i \in 1 .. Len(stack) : stack[i] \in Frame
            /\ DOMAIN stack = 1 .. Len(stack) /\ Len(stack) \in Nat
        BY SeqElements, TypeParts DEF IoTypeOK
      <3>2. \A f \in Frame : [f EXCEPT !.done = TRUE, !.ok = success] \in Frame
        BY DEF Frame
      <3>3. \A i \in 1 .. Len(stack) :
              stack'[i] \in Frame /\ stack'[i].msg = stack[i].msg
                                  /\ stack'[i].quota = stack[i].quota
        BY <2>1, <3>1, <3>2, ZenonT(60) DEF Frame
      <3>4. DOMAIN stack' = 1 .. Len(stack) /\ stack' \in Seq(Frame) /\ Len(stack') = Len(stack)
        <4>1. stack' = [i \in 1 .. Len(stack) |-> stack'[i]]
          BY <2>1, <3>1, ZenonT(60)
        <4>2. [i \in 1 .. Len(stack) |-> stack'[i]] \in Seq(Frame)
          BY <3>1, <3>3, SMTT(30)
        <4>3. QED
          BY <3>1, <4>1, <4>2, SeqElements, SMTT(60)
      <3>5. QED
        BY <3>1, <3>3, <3>4 DEF LoopQuota
    <2>6. IoTypeOK'
      BY <2>2, <2>5, TypeParts DEF IoTypeOK, MsgTypeOK, Request
    <2>7. QED
      BY <1>1, <2>3, <2>4, <2>5, <2>6, SameCalls
  <1>4. CASE async_io_completion_cb(m)
    <2>1. /\ filled' = filled \cup {req[m].buffer} \/ filled' = filled
          /\ answer' \in [Msgs -> Answers]
          /\ dma' = dma \ {ctx[m]}
          /\ pool' = pool \cup {m}
          /\ pending' = [pending EXCEPT ![m] = "none"]
          /\ UNCHANGED <<ring, req, status, completed, devices, result_fd, unmapping,
                         stack, ctx>>
      BY <1>4, TypeParts
         DEF async_io_completion_cb, xpdk_msg_free, IoTypeOK, Answers, Status
    <2>2. MsgTypeOK'
      BY <2>1, TypeParts DEF MsgTypeOK
    <2>3. DeviceTypeOK'
      BY <2>1, TypeParts DEF DeviceTypeOK, BdevOps
    <2>4. IoTypeOK' /\ LoopQuota'
      BY <2>1, TypeParts, ZenonT(60) DEF IoTypeOK, MsgTypeOK, Request, LoopQuota
    <2>5. QED
      BY <1>1, <2>2, <2>3, <2>4, SameCalls
  <1>5. QED
    BY <1>2, <1>3, <1>4 DEF BdevCompletes

\* Every step keeps the types.
LEMMA TypeStep ==
    ASSUME TypeInv, [Next]_vars
    PROVE  TypeInv'
  <1>1. CASE xpdk_init_opts
    <2>1. /\ pool' = Msgs /\ ring' = <<>> /\ devices' = [fd \in Fds |-> FreeSlot]
          /\ answer' = [m \in Msgs |-> "none"]
          /\ initialized' = TRUE /\ running' = TRUE /\ exited' = FALSE
          /\ UNCHANGED <<req, status, completed, result_fd, pending, unmapping,
                         stack, dma, ctx, filled, pc, cur, scan, held>>
      BY <1>1 DEF xpdk_init_opts, appVars
    <2>2. MsgTypeOK'
      BY <2>1, MsgAssumption, TypeParts, SMTT(30) DEF MsgTypeOK
    <2>3. DeviceTypeOK'
      BY <2>1, TypeParts DEF DeviceTypeOK, FreeSlot, Device, AccessModes
    <2>4. IoTypeOK' /\ LoopQuota'
      BY <2>1, TypeParts DEF IoTypeOK, LoopQuota, Answers
    <2>5. QED
      BY <2>1, <2>2, <2>3, <2>4, SameCalls, ZenonT(60)
  <1>2. ASSUME NEW fd \in Fds, BdevUnmaps(fd)
        PROVE  TypeInv'
    <2>1. /\ unmapping' = unmapping \ {fd}
          /\ UNCHANGED <<msgVars, ioVars, devices, result_fd, pending, appVars, lifeVars>>
      BY <1>2 DEF BdevUnmaps, UnmapDone
    <2>2. MsgTypeOK' /\ IoTypeOK' /\ LoopQuota'
      BY <2>1, UnchangedParts, TypeParts DEF msgVars, MsgTypeOK
    <2>3. DeviceTypeOK'
      BY <2>1, TypeParts DEF DeviceTypeOK
    <2>4. QED
      BY <2>1, <2>2, <2>3, SameCalls DEF appVars, lifeVars, TypeInv, TypeOK
  <1>3. CASE UNCHANGED vars
    <2>1. UNCHANGED <<msgVars, devVars, ioVars, appVars, lifeVars>>
      BY <1>3 DEF vars
    <2>2. MsgTypeOK' /\ DeviceTypeOK' /\ IoTypeOK' /\ LoopQuota'
      BY <2>1, UnchangedParts, TypeParts DEF msgVars, MsgTypeOK
    <2>3. QED
      BY <2>1, <2>2, SameCalls DEF appVars, lifeVars, TypeInv, TypeOK
  <1>4. QED
    BY <1>1, <1>2, <1>3, CallsType, CallStepType, SpdkThreadType, BdevType DEF Next

\* The initial state is well typed.
LEMMA TypeInit ==
    ASSUME Init
    PROVE  TypeInv
  <1>1. MsgTypeOK
    <2>1. Blank("OPEN") \in Request
      BY BlankType DEF MsgTypes
    <2>2. QED
      BY <2>1, MsgAssumption, SMTT(30) DEF Init, MsgInit, MsgTypeOK, Status
  <1>2. DeviceTypeOK
    BY MsgAssumption, SMTT(30)
       DEF Init, DeviceInit, DeviceTypeOK, FreeSlot, Device, AccessModes, Fds, BdevOps
  <1>3. IoTypeOK /\ LoopQuota
    <2>1. IoTypeOK
      BY SMTT(30) DEF Init, IoInit, IoTypeOK, Answers
    <2>2. LoopQuota
      BY SMTT(30) DEF Init, IoInit, LoopQuota
    <2>3. QED
      BY <2>1, <2>2
  <1>4. /\ pc = [c \in Clients |-> "idle"]
        /\ cur = [c \in Clients |-> NoMsg]
        /\ scan = [c \in Clients |-> NoFd]
        /\ held = {} /\ initialized = FALSE /\ running = FALSE /\ exited = FALSE
    BY DEF Init
  <1>5. CallShape
    BY <1>4 DEF CallShape
  <1>6. scan \in [Clients -> -1 .. NumFds]
    BY <1>4, MsgAssumption, SMTT(30) DEF NoFd
  <1>7. QED
    BY <1>1, <1>2, <1>3, <1>4, <1>5, <1>6 DEF TypeInv, TypeOK

(***************************************************************************)
(* Type correctness: through every interleaving of calls, handlers,        *)
(* completions, faults and shutdowns each variable stays in its type, the  *)
(* ring within its capacity, and every poller invocation within its quota. *)
(***************************************************************************)
THEOREM TypeCorrect == Spec => []TypeInv
  <1>1. Init => TypeInv
    BY TypeInit
  <1>2. TypeInv /\ [Next]_vars => TypeInv'
    BY TypeStep
  <1>3. QED
    BY <1>1, <1>2, PTL DEF Spec

(***************************************************************************)
(* The type invariant the runs check; it is not inductive by itself, since *)
(* the ranges of cur and of a frame's quota rest on CallShape and on       *)
(* LoopQuota.                                                              *)
(***************************************************************************)
THEOREM TypesHold == Spec => []TypeOK
  <1>1. TypeInv => TypeOK
    BY DEF TypeInv
  <1>2. QED
    BY <1>1, TypeCorrect, PTL

-----------------------------------------------------------------------------
(***************************************************************************)
(* A step that changes nothing about messages.                             *)
(***************************************************************************)
LEMMA SameOwners ==
    ASSUME MessageInv, UNCHANGED <<pool, ring, req, completed, pending, pc, cur>>
    PROVE  Owners'
  BY DEF MessageInv, Owners, OneOwner, RingOwnsMessage, BdevOwnsMessage, CallOwnsMessage,
         NoStrandedCall, CallFresh, InFlight, InRing

\* A step that has nothing to do with start, shutdown or traffic.
LEMMA SameLife ==
    ASSUME MessageInv, UNCHANGED <<ring, req, pending, pc, cur, scan, initialized>>
    PROVE  CleanupAlone' /\ DownIsQuiet'
  BY SMTT(30) DEF MessageInv, CleanupAlone, DownIsQuiet, Quiet

(***************************************************************************)
(* A call takes a message from the pool: nobody else had it.               *)
(***************************************************************************)
LEMMA NewMessageOwners ==
    ASSUME MessageInv, NEW c \in Clients, NEW m \in pool, NEW r \in Request,
           NewMessage(c, m, r), cur[c] = NoMsg
    PROVE  Owners'
  <1> USE DEF MessageInv, OneOwner
  <1>1. /\ pool' = pool \ {m} /\ m \in Msgs /\ UNCHANGED <<ring, pending>>
        /\ ~completed'[m] /\ pc'[c] = "send" /\ cur'[c] = m
        /\ \A n \in Msgs \ {m} : completed'[n] = completed[n] /\ req'[n] = req[n]
        /\ \A d \in Clients \ {c} : cur'[d] = cur[d] /\ pc'[d] = pc[d]
    BY DEF NewMessage, xpdk_msg_alloc, TypeInv, TypeOK, MsgTypeOK
  <1>2. \A n \in Msgs : InFlight(n)' <=> InFlight(n)
    BY <1>1 DEF InFlight, InRing
  <1>3. ~InFlight(m)
    BY DEF InFlight, InRing, RingOwnsMessage, BdevOwnsMessage, TypeInv, TypeOK, MsgTypeOK
  <1>4. \A d \in Clients \ {c} : cur[d] # m
    BY <1>1, MsgAssumption DEF CallOwnsMessage
  <1>5. RingOwnsMessage'
    BY <1>1, RingHoldsMessages, SMTT(30) DEF RingOwnsMessage
  <1>6. BdevOwnsMessage'
    BY <1>1 DEF BdevOwnsMessage
  <1>7. CallOwnsMessage'
    BY <1>1, <1>2, <1>3, <1>4, HoldsMessage, SMTT(30) DEF CallOwnsMessage
  <1>8. NoStrandedCall'
    BY <1>1, <1>2, <1>4, HoldsMessage, SMTT(30) DEF NoStrandedCall
  <1>9. CallFresh'
    BY <1>1, <1>4, HoldsMessage, SMTT(30) DEF CallFresh
  <1>10. QED
    BY <1>5, <1>6, <1>7, <1>8, <1>9 DEF Owners

(***************************************************************************)
(* A message enters the ring: its sender held it and it was nowhere else.  *)
(***************************************************************************)
LEMMA EnqueueOwners ==
    ASSUME MessageInv, NEW c \in Clients, pc[c] = "send", spdk_ring_enqueue(cur[c]),
           UNCHANGED <<pool, req, completed, pending>>,
           \A d \in Clients \ {c} : cur'[d] = cur[d] /\ pc'[d] = pc[d],
           \/ pc'[c] = "wait" /\ cur'[c] = cur[c] /\ ~req[cur[c]].callback
           \/ pc'[c] = "idle" /\ cur'[c] = NoMsg
    PROVE  Owners'
  <1> DEFINE m == cur[c]
  <1> USE DEF MessageInv, OneOwner
  <1>1. m \in Msgs /\ ~InFlight(m) /\ m \notin pool /\ ~completed[m]
    BY HoldsMessage, MsgAssumption DEF CallOwnsMessage, CallFresh
  <1>2. \A d \in Clients \ {c} : cur[d] # m
    BY <1>1, MsgAssumption DEF CallOwnsMessage
  <1>3. /\ Len(ring) \in Nat /\ Len(ring') = Len(ring) + 1
        /\ \A i \in 1 .. Len(ring) : ring'[i] = ring[i] /\ ring[i] # m
        /\ ring'[Len(ring) + 1] = m
    BY <1>1, EnqueueType, RingHoldsMessages DEF InFlight, InRing
  <1> HIDE DEF m
  <1>4. \A n \in Msgs : InFlight(n)' <=> InFlight(n) \/ n = m
    BY <1>3, SMTT(30) DEF InFlight, InRing
  <1>5. RingOwnsMessage'
    <2>1. pending[m] = "none"
      BY <1>1 DEF InFlight
    <2>2. QED
      BY <1>1, <1>3, <2>1, SMTT(30) DEF RingOwnsMessage
  <1>6. BdevOwnsMessage'
    BY DEF BdevOwnsMessage
  <1>7. CallOwnsMessage'
    BY <1>1, <1>2, <1>4, HoldsMessage, SMTT(30) DEF CallOwnsMessage, m
  <1>8. NoStrandedCall'
    BY <1>1, <1>2, <1>4, HoldsMessage DEF NoStrandedCall, m
  <1>9. CallFresh'
    BY <1>1, <1>2, HoldsMessage, SMTT(30) DEF CallFresh, m
  <1>10. QED
    BY <1>5, <1>6, <1>7, <1>8, <1>9 DEF Owners

\* The poller hands the head of the ring to one new owner.
LEMMA PollerOwners ==
    ASSUME MessageInv, xpdk_msg_process_poller
    PROVE  Owners' /\ CleanupAlone' /\ DownIsQuiet'
  <1> DEFINE m == Head(ring)
  <1> USE DEF MessageInv, OneOwner
  <1>1. /\ m \in Msgs
        /\ UNCHANGED <<pool, req, pc, cur, scan, initialized>>
        /\ Len(ring) \in Nat \ {0} /\ Len(ring') = Len(ring) - 1
        /\ ring[1] = m
        /\ \A i \in 1 .. Len(ring') : ring'[i] = ring[i + 1]
    <2>1. ring \in Seq(Msgs) /\ ring # <<>> /\ ring' = Tail(ring)
      BY PollerFrame DEF TypeInv, TypeOK, MsgTypeOK
    <2>2. /\ Len(Tail(ring)) = Len(ring) - 1
          /\ \A i \in 1 .. Len(Tail(ring)) : Tail(ring)[i] = ring[i + 1]
          /\ Len(ring) \in Nat \ {0}
          /\ Head(ring) = ring[1]
      BY <2>1, TailElements, SeqElements, SMTT(30)
    <2>3. QED
      BY <2>1, <2>2, PollerFrame
  <1>2. m \notin pool /\ pending[m] = "none" /\ ~completed[m]
    BY <1>1, SMTT(30) DEF RingOwnsMessage
  <1>3. \A i \in 1 .. Len(ring') : ring'[i] # m
    BY <1>1, SMTT(30) DEF RingOwnsMessage
  <1>4. \A n \in Msgs \ {m} : InRing(n)' <=> InRing(n)
    <2>1. ASSUME NEW n \in Msgs \ {m}, InRing(n)
          PROVE  InRing(n)'
      <3>1. PICK i \in 1 .. Len(ring) : ring[i] = n
        BY <2>1 DEF InRing
      <3>2. i - 1 \in 1 .. Len(ring') /\ ring'[i - 1] = n
        BY <1>1, <3>1, SMTT(30)
      <3>3. QED
        BY <3>2 DEF InRing
    <2>2. ASSUME NEW n \in Msgs \ {m}, InRing(n)'
          PROVE  InRing(n)
      <3>1. PICK i \in 1 .. Len(ring') : ring'[i] = n
        BY <2>2 DEF InRing
      <3>2. i + 1 \in 1 .. Len(ring) /\ ring[i + 1] = n
        BY <1>1, <3>1, SMTT(30)
      <3>3. QED
        BY <3>2 DEF InRing
    <2>3. QED
      BY <2>1, <2>2
  <1>5. InFlight(m)
    BY <1>1, SMTT(30) DEF InFlight, InRing
  <1>6. /\ Replied(m) \/ Submitted(m)
        /\ req[m].type \in {"CLOSE", "SHUTDOWN"} => Replied(m)
    BY HandlerOutcome
  <1> HIDE DEF m
  <1>7. /\ \A n \in Msgs \ {m} : pending'[n] = pending[n] /\ completed'[n] = completed[n]
        /\ (completed'[m] /\ pending'[m] = "none") \/ (~completed'[m] /\ pending'[m] # "none")
    BY <1>1, <1>2, <1>6, SMTT(30)
       DEF Replied, Submitted, TypeInv, TypeOK, MsgTypeOK, DeviceTypeOK
  <1>8. \A n \in Msgs \ {m} : InFlight(n)' <=> InFlight(n)
    BY <1>4, <1>7 DEF InFlight
  <1>9. RingOwnsMessage'
    <2>1. \A i \in 1 .. Len(ring') : ring'[i] \in Msgs \ {m}
      BY <1>1, <1>3, RingHoldsMessages, SMTT(30)
    <2>2. QED
      BY <1>1, <1>7, <2>1, SMTT(60) DEF RingOwnsMessage
  <1>10. BdevOwnsMessage'
    BY <1>1, <1>2, <1>7 DEF BdevOwnsMessage
  <1>11. CallOwnsMessage'
    BY <1>1, <1>5, <1>8, HoldsMessage DEF CallOwnsMessage
  <1>12. NoStrandedCall'
    <2>1. \A n \in Msgs : n = m => completed'[n] \/ InFlight(n)'
      BY <1>7 DEF InFlight
    <2>2. QED
      BY <1>1, <1>7, <1>8, <2>1, HoldsMessage DEF NoStrandedCall
  <1>13. CallFresh'
    BY <1>1, <1>5, <1>7, HoldsMessage, MsgAssumption, SMTT(60)
       DEF CallFresh, CallOwnsMessage
  <1>14. CleanupAlone'
    <2> SUFFICES ASSUME NEW c \in Clients, scan[c] # NoFd
                 PROVE  /\ \A n \in Msgs : pending'[n] = "none"
                        /\ \A i \in 1 .. Len(ring') : ring'[i] = cur[c]
      BY <1>1, SMTT(30) DEF CleanupAlone
    <2>1. m = cur[c]
      BY <1>1, SMTT(30) DEF CleanupAlone
    <2>2. req[m].type \in {"CLOSE", "SHUTDOWN"}
      BY <1>1, <2>1, HoldsMessage, MsgAssumption, SMTT(30) DEF CleanupAlone
    <2>3. pending' = pending
      BY <1>6, <2>2 DEF Replied
    <2>4. QED
      BY <1>1, <2>3, SMTT(30) DEF CleanupAlone
  <1>15. DownIsQuiet'
    BY <1>1, SMTT(30) DEF DownIsQuiet, Quiet
  <1>16. QED
    BY <1>9, <1>10, <1>11, <1>12, <1>13, <1>14, <1>15 DEF Owners

(***************************************************************************)
(* A completion ends the bdev layer's hold on a message.  Either it marks  *)
(* the message completed, or (an I/O with a callback, whose sender has     *)
(* left) it frees it.                                                      *)
(***************************************************************************)
LEMMA BdevOwners ==
    ASSUME MessageInv, NEW m \in Msgs, BdevCompletes(m)
    PROVE  Owners' /\ CleanupAlone' /\ DownIsQuiet'
  <1> USE DEF MessageInv, OneOwner
  <1>1. /\ UNCHANGED <<ring, req, pc, cur, scan, initialized>>
        /\ pending[m] # "none"
        /\ pending' = [pending EXCEPT ![m] = "none"]
        /\ \/ pool' = pool /\ completed' = [completed EXCEPT ![m] = TRUE]
           \/ pool' = pool \cup {m} /\ completed' = completed /\ req[m].callback
    <2>1. CASE bdev_open_complete(m) /\ UNCHANGED <<pool, ring, req>>
      BY <2>1 DEF BdevCompletes, bdev_open_complete, Reply, appVars, lifeVars
    <2>2. CASE xpdk_qos_set_limits_complete(m) /\ UNCHANGED <<pool, ring, req>>
      BY <2>2 DEF BdevCompletes, xpdk_qos_set_limits_complete, Reply, appVars, lifeVars
    <2>3. CASE sync_io_completion_cb(m)
      BY <2>3, ZenonT(60) DEF BdevCompletes, sync_io_completion_cb, Reply, appVars, lifeVars
    <2>4. CASE async_io_completion_cb(m)
      BY <2>4 DEF BdevCompletes, async_io_completion_cb, xpdk_msg_free, appVars, lifeVars
    <2>5. QED
      BY <2>1, <2>2, <2>3, <2>4 DEF BdevCompletes
  <1>2. /\ pending'[m] = "none"
        /\ \A n \in Msgs \ {m} : pending'[n] = pending[n] /\ completed'[n] = completed[n]
        /\ pool' = pool => completed'[m]
    BY <1>1 DEF TypeInv, TypeOK, MsgTypeOK, DeviceTypeOK, BdevOwnsMessage
  <1>3. InFlight(m) /\ m \notin pool /\ ~InRing(m)
    BY <1>1 DEF InFlight, InRing, BdevOwnsMessage, RingOwnsMessage
  <1>4. \A n \in Msgs \ {m} : InFlight(n)' <=> InFlight(n)
    BY <1>1, <1>2 DEF InFlight, InRing
  <1>5. ~InFlight(m)'
    BY <1>1, <1>2, <1>3 DEF InFlight, InRing
  <1>6. pool' # pool => \A c \in Clients : cur[c] # m
    BY <1>1, <1>3, HoldsMessage, MsgAssumption DEF CallOwnsMessage, CallFresh
  <1>7. RingOwnsMessage'
    <2>1. \A i \in 1 .. Len(ring) : ring[i] \in Msgs \ {m}
      BY <1>3, RingHoldsMessages DEF InRing
    <2>2. QED
      BY <1>1, <1>2, <2>1, SMTT(30) DEF RingOwnsMessage
  <1>8. BdevOwnsMessage'
    BY <1>1, <1>2 DEF BdevOwnsMessage
  <1>9. CallOwnsMessage'
    BY <1>1, <1>4, <1>5, <1>6, HoldsMessage DEF CallOwnsMessage
  <1>10. NoStrandedCall'
    BY <1>1, <1>2, <1>4, <1>6, HoldsMessage DEF NoStrandedCall
  <1>11. CallFresh'
    BY <1>1, <1>2, <1>3, HoldsMessage, MsgAssumption, SMTT(30)
       DEF CallFresh, CallOwnsMessage
  <1>12. CleanupAlone' /\ DownIsQuiet'
    BY <1>1 DEF CleanupAlone, DownIsQuiet, Quiet
  <1>13. QED
    BY <1>7, <1>8, <1>9, <1>10, <1>11, <1>12 DEF Owners

(***************************************************************************)
(* The calls of the application.                                           *)
(***************************************************************************)
LEMMA CallsOwners ==
    ASSUME MessageInv, NEW c \in Clients, Calls(c)
    PROVE  Owners' /\ CleanupAlone' /\ DownIsQuiet'
  <1> USE DEF MessageInv
  <1>1. CASE \E m \in pool, r \in Request : StartCall(c, m, r)
    <2>1. PICK m \in pool, r \in Request : StartCall(c, m, r)
      BY <1>1
    <2>2. /\ pc[c] = "idle" /\ NewMessage(c, m, r) /\ initialized
          /\ initialized' = initialized
          /\ \A d \in Clients : scan'[d] = NoFd
      BY <2>1 DEF StartCall, NewMessage, lifeVars
    <2>3. Owners'
      BY <2>2, HoldsMessage, NewMessageOwners
    <2>4. CleanupAlone' /\ DownIsQuiet'
      BY <2>2 DEF CleanupAlone, DownIsQuiet
    <2>5. QED
      BY <2>3, <2>4
  <1>2. CASE xpdk_cleanup(c)
    <2>1. /\ UNCHANGED <<pool, ring, req, completed, pending, cur, initialized>>
          /\ pc' = [pc EXCEPT ![c] = "scan"]
          /\ scan' = [scan EXCEPT ![c] = 0]
          /\ initialized /\ Quiet
      BY <1>2 DEF xpdk_cleanup, msgVars, devVars, lifeVars
    <2>2. /\ pc'[c] = "scan" /\ pc[c] = "idle"
          /\ \A d \in Clients \ {c} : pc'[d] = pc[d] /\ scan'[d] = scan[d] /\ pc[d] = "idle"
      BY <2>1 DEF TypeInv, TypeOK, Quiet
    <2>3. \A d \in Clients : cur[d] = NoMsg
      BY <2>2, HoldsMessage
    <2>4. Owners'
      <3>1. RingOwnsMessage' /\ BdevOwnsMessage'
        BY <2>1 DEF OneOwner, RingOwnsMessage, BdevOwnsMessage
      <3>2. CallOwnsMessage' /\ NoStrandedCall' /\ CallFresh'
        BY <2>1, <2>2, <2>3 DEF CallOwnsMessage, NoStrandedCall, CallFresh
      <3>3. QED
        BY <3>1, <3>2 DEF Owners, OneOwner
    <2>5. CleanupAlone'
      BY <2>1, <2>2, SMTT(30) DEF CleanupAlone, Quiet
    <2>6. DownIsQuiet'
      BY <2>1 DEF DownIsQuiet
    <2>7. QED
      BY <2>4, <2>5, <2>6
  <1>3. QED
    BY <1>1, <1>2, CallsStart

(***************************************************************************)
(* The steps of a call.                                                    *)
(***************************************************************************)
LEMMA CallStepOwners ==
    ASSUME MessageInv, NEW c \in Clients, CallStep(c)
    PROVE  Owners' /\ CleanupAlone' /\ DownIsQuiet'
  <1> USE DEF MessageInv
  <1>1. pc[c] # "idle" /\ initialized /\ \A d \in Clients \ {c} : scan[d] = NoFd
    <2>1. pc[c] # "idle"
      BY DEF CallStep, xpdk_msg_send_sync, xpdk_msg_send_async, SendBusy, ReturnSync,
             CleanupDevice, xpdk_cleanup_spdk_thread, CleanupJoin
    <2>2. QED
      BY <2>1, CleanupExcludes, UpWhileCalled
  <1>2. CASE xpdk_msg_send_sync(c) \/ xpdk_msg_send_async(c)
    <2>1. /\ pc[c] = "send" /\ spdk_ring_enqueue(cur[c])
          /\ UNCHANGED <<pool, req, completed, pending, scan, initialized>>
          /\ \A d \in Clients \ {c} : cur'[d] = cur[d] /\ pc'[d] = pc[d]
          /\ \/ pc'[c] = "wait" /\ cur'[c] = cur[c] /\ ~req[cur[c]].callback
             \/ pc'[c] = "idle" /\ cur'[c] = NoMsg /\ req[cur[c]].callback
      BY <1>2
         DEF xpdk_msg_send_sync, xpdk_msg_send_async, devVars, lifeVars, TypeInv, TypeOK
    <2>2. Owners'
      BY <2>1, EnqueueOwners
    <2>3. CleanupAlone'
      <3> SUFFICES ASSUME scan[c] # NoFd
                   PROVE  CleanupAlone'
        BY <1>1, <2>1 DEF CleanupAlone
      <3>1. ~req[cur[c]].callback /\ pc'[c] = "wait" /\ cur'[c] = cur[c]
        BY <2>1 DEF CleanupAlone
      <3>2. cur[c] \in Msgs
        BY <2>1, HoldsMessage
      <3>3. \A i \in 1 .. Len(ring') : ring'[i] = cur'[c]
        BY <2>1, <3>1, <3>2, EnqueueType, RingHoldsMessages, SMTT(30) DEF CleanupAlone
      <3>4. QED
        BY <1>1, <2>1, <3>1, <3>3, SMTT(30) DEF CleanupAlone
    <2>4. QED
      BY <1>1, <2>1, <2>2, <2>3 DEF DownIsQuiet
  <1>3. CASE SendBusy(c) \/ ReturnSync(c)
    <2>1. /\ pc[c] = "send" \/ (pc[c] = "wait" /\ completed[cur[c]])
          /\ EndCall(c)
          /\ UNCHANGED <<ring, req, completed, pending, scan, initialized>>
      BY <1>3 DEF SendBusy, ReturnSync, devVars, lifeVars
    <2>2. Owners' /\ ~InFlight(cur[c])
      BY <2>1, EndCallOwners
    <2>3. /\ scan[c] # NoFd => pc'[c] \in {"scan", "join"}
          /\ \A d \in Clients \ {c} : pc'[d] = pc[d] /\ cur'[d] = cur[d]
      BY <2>1 DEF EndCall, Resume, TypeInv, TypeOK
    <2>4. CleanupAlone'
      <3> SUFFICES ASSUME scan[c] # NoFd
                   PROVE  CleanupAlone'
        BY <1>1, <2>1 DEF CleanupAlone
      <3>1. /\ pc'[c] # "idle" /\ pc'[c] \notin {"send", "wait"}
            /\ \A d \in Clients \ {c} : pc'[d] = "idle" /\ scan'[d] = NoFd
            /\ \A n \in Msgs : pending'[n] = "none"
        BY <1>1, <2>1, <2>3, SMTT(30) DEF CleanupAlone
      <3>2. \A i \in 1 .. Len(ring) : ring[i] = cur[c]
        BY DEF CleanupAlone
      <3>3. \A i \in 1 .. Len(ring') : FALSE
        BY <2>1, <2>2, <3>2 DEF InFlight, InRing
      <3>4. QED
        BY <1>1, <2>1, <3>1, <3>3, SMTT(30) DEF CleanupAlone
    <2>5. QED
      BY <1>1, <2>1, <2>2, <2>4 DEF DownIsQuiet
  <1>4. ASSUME NEW m \in pool, NEW r \in Request, NewMessage(c, m, r),
               pc[c] = "scan", scan'[c] # NoFd,
               \A d \in Clients \ {c} : scan'[d] = scan[d],
               r.type \in {"CLOSE", "SHUTDOWN"} /\ ~r.callback
        PROVE  Owners' /\ CleanupAlone' /\ DownIsQuiet'
    <2>1. Owners'
      BY <1>4, HoldsMessage, NewMessageOwners
    <2>2. /\ UNCHANGED <<ring, pending, initialized>>
          /\ pc'[c] = "send" /\ cur'[c] = m /\ req'[m] = r
          /\ \A d \in Clients \ {c} : pc'[d] = pc[d] /\ cur'[d] = cur[d]
      BY <1>4 DEF NewMessage, xpdk_msg_alloc, lifeVars, TypeInv, TypeOK, MsgTypeOK
    <2>3. scan[c] # NoFd /\ cur[c] = NoMsg
      BY <1>4, HoldsMessage DEF TypeInv, CallShape
    <2>4. \A i \in 1 .. Len(ring) : FALSE
      BY <2>3, RingHoldsMessages, MsgAssumption DEF CleanupAlone
    <2>5. CleanupAlone'
      <3>1. /\ \A n \in Msgs : pending'[n] = "none"
            /\ \A d \in Clients \ {c} : pc'[d] = "idle" /\ scan'[d] = NoFd
        BY <1>1, <1>4, <2>2, <2>3, SMTT(30) DEF CleanupAlone
      <3>2. req'[cur'[c]].type \in {"CLOSE", "SHUTDOWN"} /\ ~req'[cur'[c]].callback
        BY <1>4, <2>2
      <3>3. initialized' /\ pc'[c] # "idle" /\ \A i \in 1 .. Len(ring') : FALSE
        BY <1>1, <2>2, <2>4
      <3>4. \A d \in Clients : scan'[d] # NoFd => d = c
        BY <3>1
      <3>5. SUFFICES /\ initialized' /\ pc'[c] # "idle"
                     /\ \A d \in Clients : d # c => pc'[d] = "idle"
                     /\ \A n \in Msgs : pending'[n] = "none"
                     /\ \A i \in 1 .. Len(ring') : ring'[i] = cur'[c]
                     /\ req'[cur'[c]].type \in {"CLOSE", "SHUTDOWN"}
                     /\ ~req'[cur'[c]].callback
        BY <3>4, SMTT(30) DEF CleanupAlone
      <3>6. QED
        BY <3>1, <3>2, <3>3
    <2>6. QED
      BY <1>1, <2>1, <2>2, <2>5 DEF DownIsQuiet
  <1>5. CASE CleanupDevice(c)
    <2>1. /\ pc[c] = "scan" /\ scan[c] < NumFds
          /\ scan' = [scan EXCEPT ![c] = scan[c] + 1]
      BY <1>5 DEF CleanupDevice
    <2>2. scan[c] \in 0 .. NumFds - 1
      BY <2>1, MsgAssumption, SMTT(30) DEF TypeInv, TypeOK, CallShape, NoFd
    <2>3. scan'[c] # NoFd /\ \A d \in Clients \ {c} : scan'[d] = scan[d]
      BY <2>1, <2>2, MsgAssumption, SMTT(30) DEF TypeInv, TypeOK, NoFd
    <2>4. CASE \E m \in pool : NewMessage(c, m, [Blank("CLOSE") EXCEPT !.fd = scan[c]])
      <3>1. [Blank("CLOSE") EXCEPT !.fd = scan[c]] \in Request
        BY <2>2, BlankType, SMTT(30) DEF Request, MsgTypes, Fds
      <3>2. /\ [Blank("CLOSE") EXCEPT !.fd = scan[c]].type = "CLOSE"
            /\ ~[Blank("CLOSE") EXCEPT !.fd = scan[c]].callback
        BY DEF Blank
      <3>3. QED
        BY <1>4, <2>1, <2>3, <2>4, <3>1, <3>2
    <2>5. CASE UNCHANGED <<msgVars, devVars, ioVars, pc, cur, lifeVars>>
      <3>1. UNCHANGED <<pool, ring, req, completed, pending, pc, cur, initialized>>
        BY <2>5 DEF msgVars, devVars, lifeVars
      <3>2. scan[c] # NoFd
        BY <2>1 DEF TypeInv, CallShape
      <3>3. CleanupAlone'
        BY <1>1, <2>3, <3>1, <3>2, SMTT(30) DEF CleanupAlone
      <3>4. QED
        BY <1>1, <3>1, <3>3, SameOwners DEF DownIsQuiet
    <2>6. QED
      BY <1>5, <2>4, <2>5 DEF CleanupDevice
  <1>6. CASE xpdk_cleanup_spdk_thread(c)
    <2>1. pc[c] = "scan" /\ scan' = scan /\ scan[c] # NoFd
      BY <1>6 DEF xpdk_cleanup_spdk_thread, TypeInv, CallShape
    <2>2. CASE \E m \in pool : NewMessage(c, m, Blank("SHUTDOWN"))
      <3>1. /\ Blank("SHUTDOWN") \in Request
            /\ Blank("SHUTDOWN").type = "SHUTDOWN" /\ ~Blank("SHUTDOWN").callback
        BY BlankType DEF MsgTypes, Blank
      <3>2. QED
        BY <1>4, <2>1, <2>2, <3>1
    <2>3. CASE /\ pc' = [pc EXCEPT ![c] = "join"]
               /\ UNCHANGED <<msgVars, devVars, ioVars, cur, lifeVars>>
      <3>1. /\ UNCHANGED <<pool, ring, req, completed, pending, cur, initialized>>
            /\ pc'[c] = "join" /\ cur[c] = NoMsg
            /\ \A d \in Clients \ {c} : pc'[d] = pc[d]
        BY <2>1, <2>3, HoldsMessage DEF msgVars, devVars, lifeVars, TypeInv, TypeOK
      <3>2. RingOwnsMessage' /\ BdevOwnsMessage'
        BY <3>1 DEF OneOwner, RingOwnsMessage, BdevOwnsMessage
      <3>3. CallOwnsMessage' /\ NoStrandedCall' /\ CallFresh'
        BY <3>1 DEF OneOwner, CallOwnsMessage, NoStrandedCall, CallFresh, InFlight, InRing
      <3>4. CleanupAlone'
        <4>1. /\ \A n \in Msgs : pending'[n] = "none"
              /\ \A d \in Clients \ {c} : pc'[d] = "idle" /\ scan'[d] = NoFd
              /\ \A i \in 1 .. Len(ring) : ring[i] = cur[c]
          BY <1>1, <2>1, <3>1, SMTT(30) DEF CleanupAlone
        <4>2. QED
          BY <1>1, <3>1, <4>1, SMTT(30) DEF CleanupAlone
      <3>5. QED
        BY <1>1, <3>1, <3>2, <3>3, <3>4 DEF Owners, OneOwner, DownIsQuiet
    <2>4. QED
      BY <1>6, <2>2, <2>3 DEF xpdk_cleanup_spdk_thread
  <1>7. CASE CleanupJoin(c)
    <2>1. /\ pc[c] = "join" /\ pool' = {} /\ ring' = <<>> /\ initialized' = FALSE
          /\ pc' = [pc EXCEPT ![c] = "idle"]
          /\ scan' = [scan EXCEPT ![c] = NoFd]
          /\ UNCHANGED <<completed, pending, cur>>
      BY <1>7 DEF CleanupJoin, devVars
    <2>2. scan[c] # NoFd
      BY <2>1 DEF TypeInv, CallShape
    <2>3. /\ \A n \in Msgs : pending[n] = "none"
          /\ \A d \in Clients : pc'[d] = "idle" /\ scan'[d] = NoFd
      BY <1>1, <2>1, <2>2 DEF CleanupAlone, TypeInv, TypeOK
    <2>4. \A d \in Clients : cur'[d] = NoMsg
      BY <2>1, <2>2, HoldsMessage DEF CleanupAlone
    <2>5. RingOwnsMessage' /\ BdevOwnsMessage' /\ CallOwnsMessage'
      <3>1. RingOwnsMessage'
        <4>1. \A i \in 1 .. Len(ring') : FALSE
          BY <2>1, SMTT(30)
        <4>2. QED
          BY <4>1 DEF RingOwnsMessage
      <3>2. BdevOwnsMessage'
        BY <2>1, <2>3 DEF BdevOwnsMessage
      <3>3. CallOwnsMessage'
        BY <2>4 DEF CallOwnsMessage
      <3>4. QED
        BY <3>1, <3>2, <3>3
    <2>6. NoStrandedCall' /\ CallFresh' /\ CleanupAlone'
      BY <2>3 DEF NoStrandedCall, CallFresh, CleanupAlone
    <2>7. DownIsQuiet'
      BY <2>1, <2>3 DEF DownIsQuiet, Quiet
    <2>8. QED
      BY <2>5, <2>6, <2>7 DEF Owners, OneOwner
  <1>8. QED
    BY <1>2, <1>3, <1>5, <1>6, <1>7 DEF CallStep

(***************************************************************************)
(* xpdk_init_opts fills the pool: no message is in use.                    *)
(***************************************************************************)
LEMMA InitOwners ==
    ASSUME MessageInv, xpdk_init_opts
    PROVE  Owners' /\ CleanupAlone' /\ DownIsQuiet'
  <1> USE DEF MessageInv
  <1>1. /\ ~initialized /\ initialized' = TRUE /\ ring' = <<>>
        /\ UNCHANGED <<pending, pc, cur, scan>>
    BY DEF xpdk_init_opts, appVars
  <1>2. Quiet /\ \A c \in Clients : scan[c] = NoFd /\ cur[c] = NoMsg
    BY <1>1, HoldsMessage DEF DownIsQuiet, CleanupAlone, Quiet
  <1>3. RingOwnsMessage' /\ BdevOwnsMessage' /\ CallOwnsMessage'
    BY <1>1, <1>2, SMTT(30) DEF RingOwnsMessage, BdevOwnsMessage, CallOwnsMessage, Quiet
  <1>4. NoStrandedCall' /\ CallFresh' /\ CleanupAlone' /\ DownIsQuiet'
    BY <1>1, <1>2 DEF NoStrandedCall, CallFresh, CleanupAlone, DownIsQuiet, Quiet
  <1>5. QED
    BY <1>3, <1>4 DEF Owners, OneOwner

\* Every step keeps the invariant.
LEMMA MessageStep ==
    ASSUME MessageInv, [Next]_vars
    PROVE  MessageInv'
  <1> SUFFICES Owners' /\ CleanupAlone' /\ DownIsQuiet'
    BY TypeStep DEF MessageInv, Owners
  <1>1. ASSUME UNCHANGED <<pool, ring, req, completed, pending, pc, cur, scan, initialized>>
        PROVE  Owners' /\ CleanupAlone' /\ DownIsQuiet'
    BY <1>1, SameOwners, SameLife
  <1>2. CASE PollerBreak \/ HandlerFinish \/ SpdkThreadExit
    BY <1>1, <1>2 DEF PollerBreak, HandlerFinish, FinishWait, SpdkThreadExit, msgVars,
                      devVars, appVars, lifeVars
  <1>3. ASSUME NEW fd \in Fds, BdevUnmaps(fd)
        PROVE  Owners' /\ CleanupAlone' /\ DownIsQuiet'
    BY <1>1, <1>3 DEF BdevUnmaps, UnmapDone, msgVars, appVars, lifeVars
  <1>4. CASE UNCHANGED vars
    BY <1>1, <1>4 DEF vars, msgVars, devVars, appVars, lifeVars
  <1>5. QED
    BY <1>2, <1>3, <1>4, PollerOwners, InitOwners, CallsOwners, CallStepOwners, BdevOwners
       DEF Next, SpdkThread

\* At first the library is not started and no message is in use.
LEMMA MessageInit ==
    ASSUME Init
    PROVE  MessageInv
  <1>1. /\ ring = <<>> /\ pool = {}
        /\ \A m \in Msgs : pending[m] = "none"
        /\ \A c \in Clients : pc[c] = "idle" /\ cur[c] = NoMsg /\ scan[c] = NoFd
    BY DEF Init, MsgInit, DeviceInit
  <1>2. OneOwner
    BY <1>1, SMTT(30) DEF OneOwner, RingOwnsMessage, BdevOwnsMessage, CallOwnsMessage
  <1>3. NoStrandedCall /\ CallFresh /\ CleanupAlone /\ DownIsQuiet
    BY <1>1 DEF NoStrandedCall, CallFresh, CleanupAlone, DownIsQuiet, Quiet
  <1>4. QED
    BY <1>2, <1>3, TypeInit DEF MessageInv

\* The inductive invariant holds in every reachable state.
THEOREM MessageInvariant == Spec => []MessageInv
  <1>1. Init => MessageInv
    BY MessageInit
  <1>2. MessageInv /\ [Next]_vars => MessageInv'
    BY MessageStep
  <1>3. QED
    BY <1>1, <1>2, PTL DEF Spec

(***************************************************************************)
(* No message is ever in two places: what the ring, the bdev layer or a    *)
(* call holds is not in the pool, and no two of them work on the same      *)
(* message unless one is the call that waits for it.                       *)
(***************************************************************************)
THEOREM MessagesHaveOneOwner == Spec => []OneOwner
  <1>1. MessageInv => OneOwner
    BY DEF MessageInv
  <1>2. QED
    BY <1>1, MessageInvariant, PTL

(***************************************************************************)
(* A thread in xpdk_msg_send_sync never waits for a message that was       *)
(* dropped: it is completed, queued or in the bdev layer.                  *)
(***************************************************************************)
THEOREM CallsAreNotStranded == Spec => []NoStrandedCall
  <1>1. MessageInv => NoStrandedCall
    BY DEF MessageInv
  <1>2. QED
    BY <1>1, MessageInvariant, PTL

=============================================================================
