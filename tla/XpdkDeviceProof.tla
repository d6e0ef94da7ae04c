-------------------------- MODULE XpdkDeviceProof --------------------------
(***************************************************************************)
(* The device table.  For every number of threads, messages and slots and  *)
(* every way an open can fail: a descriptor the application has open       *)
(* stands for an open bdev descriptor and a channel, overlapping opens     *)
(* have their slots to themselves (FdTable), and no bdev descriptor is     *)
(* left behind in a slot nobody can close (NoDescriptorLeak).  Where no    *)
(* open fails after it has claimed its slot, no slot is lost either        *)
(* (NoSlotLeak).                                                           *)
(*                                                                         *)
(* The inductive invariant is DeviceInv.  It adds to these that a close    *)
(* has its slot to itself until it is handled (ClosingOwnsSlot), which is  *)
(* why a close that finds the ring full may hand the descriptor back, and  *)
(* that whoever sent an open or a close still waits for it (SyncWaited).   *)
(***************************************************************************)
EXTENDS XpdkHandlerProof

\* Most leaves are first-order reasoning about sets and functions.
USE ZenonT(30)

\* The parts of the invariant that are about requests, and those about slots.
RequestParts == RequestShape /\ SyncWaited

SlotParts == FdTable /\ ClosingOwnsSlot /\ SlotsOwned /\ NothingHeld

(***************************************************************************)
(* The step means the same to a thread's open or close as no step at all.  *)
(***************************************************************************)
SameUse(c) ==
    /\ Opening(c)' <=> Opening(c)
    /\ Opening(c) => /\ result_fd'[cur'[c]] = result_fd[cur[c]]
                     /\ completed'[cur'[c]] <=> completed[cur[c]]
    /\ ToClose(c)' <=> ToClose(c)
    /\ ToClose(c) => req'[cur'[c]].fd = req[cur[c]].fd /\ scan'[c] = scan[c]

\* A thread that does not move, and whose message is left alone, is not concerned.
LEMMA UntouchedThread ==
    ASSUME NEW c \in Clients,
           pc'[c] = pc[c], cur'[c] = cur[c], scan'[c] = scan[c],
           pc[c] \in {"send", "wait"} =>
             /\ req'[cur[c]] = req[cur[c]]
             /\ status'[cur[c]] = status[cur[c]]
             /\ completed'[cur[c]] = completed[cur[c]]
             /\ pending'[cur[c]] = pending[cur[c]]
             /\ result_fd'[cur[c]] = result_fd[cur[c]]
    PROVE  SameUse(c)
  BY DEF SameUse, Opening, ToClose, Closing

\* Nor is one that neither opens nor closes a device, before or after.
LEMMA OtherThread ==
    ASSUME NEW c \in Clients, ~Opening(c), ~Opening(c)', ~ToClose(c), ~ToClose(c)'
    PROVE  SameUse(c)
  BY DEF SameUse

\* Nor does it change what the table says about a slot.
SameSlot(fd) ==
    /\ devices'[fd].in_use = devices[fd].in_use
    /\ devices'[fd].desc = devices[fd].desc
    /\ devices'[fd].channel = devices[fd].channel

(***************************************************************************)
(* Where every open that is under way after the step was so before it, the *)
(* opens keep their slots as long as these do not change and are not given *)
(* to the application; and so do the closes, as long as no new open gets   *)
(* their slots either.                                                     *)
(***************************************************************************)
LEMMA OtherOpenings ==
    ASSUME OpeningOwnsSlot,
           \A d \in Clients : Opening(d)' =>
             SameUse(d) /\ SameSlot(result_fd[cur[d]]) /\ result_fd[cur[d]] \notin held'
    PROVE  OpeningOwnsSlot'
  <1> SUFFICES ASSUME NEW d \in Clients, Opening(d)'
               PROVE  LET n == cur'[d]
                          e == result_fd'[n]
                      IN  /\ devices'[e].in_use
                          /\ e \notin held'
                          /\ devices'[e].desc <=> completed'[n]
                          /\ devices'[e].channel <=> completed'[n]
                          /\ \A a \in Clients : Opening(a)' /\ result_fd'[cur'[a]] = e => a = d
    BY DEF OpeningOwnsSlot
  <1>1. Opening(d) /\ result_fd'[cur'[d]] = result_fd[cur[d]]
    BY DEF SameUse
  <1>2. SameSlot(result_fd[cur[d]]) /\ result_fd[cur[d]] \notin held'
    OBVIOUS
  <1>3. completed'[cur'[d]] <=> completed[cur[d]]
    BY <1>1 DEF SameUse
  <1>4. ASSUME NEW a \in Clients, Opening(a)', result_fd'[cur'[a]] = result_fd'[cur'[d]]
        PROVE  a = d
    <2>1. Opening(a) /\ result_fd[cur[a]] = result_fd[cur[d]]
      BY <1>1, <1>4 DEF SameUse
    <2>2. QED
      BY <1>1, <2>1 DEF OpeningOwnsSlot
  <1>5. QED
    BY <1>1, <1>2, <1>3, <1>4 DEF OpeningOwnsSlot, SameSlot

\* The closes under way keep their slots.
LEMMA OtherClosings ==
    ASSUME ClosingOwnsSlot, \A d \in Clients : ToClose(d)' => SameUse(d),
           \A d \in Clients : ToClose(d)' /\ req[cur[d]].fd \in Fds =>
             /\ SameSlot(req[cur[d]].fd) /\ req[cur[d]].fd \notin held' \ held
             /\ \A c \in Clients : Opening(c)' =>
                  SameUse(c) \/ result_fd'[cur'[c]] # req[cur[d]].fd
    PROVE  ClosingOwnsSlot'
  <1> SUFFICES ASSUME NEW d \in Clients, ToClose(d)', scan'[d] = NoFd, req'[cur'[d]].fd \in Fds
               PROVE  LET f == req'[cur'[d]].fd
                      IN  /\ devices'[f].in_use /\ devices'[f].desc /\ devices'[f].channel
                          /\ f \notin held'
                          /\ \A a \in Clients : ToClose(a)' /\ req'[cur'[a]].fd = f => a = d
                          /\ \A a \in Clients : Opening(a)' => result_fd'[cur'[a]] # f
    BY DEF ClosingOwnsSlot
  <1> DEFINE fd == req[cur[d]].fd
  <1>1. ToClose(d) /\ req'[cur'[d]].fd = fd /\ scan[d] = NoFd
    BY DEF SameUse
  <1>2. SameSlot(fd) /\ fd \notin held' \ held
    BY <1>1
  <1>3. devices[fd].in_use /\ devices[fd].desc /\ devices[fd].channel /\ fd \notin held
    BY <1>1 DEF ClosingOwnsSlot
  <1>4. ASSUME NEW a \in Clients, ToClose(a)', req'[cur'[a]].fd = fd
        PROVE  a = d
    <2>1. ToClose(a) /\ req[cur[a]].fd = fd
      BY <1>4 DEF SameUse
    <2>2. QED
      BY <1>1, <2>1 DEF ClosingOwnsSlot
  <1>5. ASSUME NEW a \in Clients, Opening(a)'
        PROVE  result_fd'[cur'[a]] # fd
    <2>1. CASE ~SameUse(a)
      BY <1>1, <1>5, <2>1
    <2>2. CASE SameUse(a)
      <3>1. Opening(a) /\ result_fd'[cur'[a]] = result_fd[cur[a]]
        BY <1>5, <2>2 DEF SameUse
      <3>2. QED
        BY <1>1, <3>1 DEF ClosingOwnsSlot
    <2>3. QED
      BY <2>1, <2>2
  <1>6. QED
    BY <1>1, <1>2, <1>3, <1>4, <1>5 DEF SameSlot

\* The slot of an open is a slot of the table.
LEMMA OpeningSlot ==
    ASSUME MessageInv, NEW c \in Clients, Opening(c)
    PROVE  result_fd[cur[c]] \in Fds
  <1>1. cur[c] \in Msgs
    BY OwnMessage DEF Opening
  <1>2. pending[cur[c]] = "open" \/ (completed[cur[c]] /\ status[cur[c]] = "SUCCESS")
    BY DEF Opening
  <1>3. QED
    BY <1>1, <1>2 DEF Opening, MessageInv, TypeInv, TypeOK, DeviceTypeOK

\* A step that leaves the table and every use of it alone.
LEMMA SameSlots ==
    ASSUME SlotParts, UNCHANGED <<devices, held>>, InUse' <=> InUse,
           \A c \in Clients : SameUse(c)
    PROVE  SlotParts'
  <1> USE DEF SlotParts, FdTable, SameUse
  <1>1. HeldIsOpen' /\ FreeSlotIsEmpty'
    BY DEF HeldIsOpen, FreeSlotIsEmpty
  <1>2. OpeningOwnsSlot'
    <2>1. \A d \in Clients : Opening(d)' =>
            SameUse(d) /\ SameSlot(result_fd[cur[d]]) /\ result_fd[cur[d]] \notin held'
      BY DEF OpeningOwnsSlot, SameSlot
    <2>2. QED
      BY <2>1, OtherOpenings
  <1>3. ClosingOwnsSlot'
    BY OtherClosings DEF SameSlot
  <1>4. SlotsOwned'
    BY SMTT(30) DEF SlotsOwned, Occupied
  <1>5. NothingHeld'
    BY DEF NothingHeld
  <1>6. QED
    BY <1>1, <1>2, <1>3, <1>4, <1>5

(***************************************************************************)
(* While the library is down, or xpdk_cleanup takes it down, the           *)
(* application has nothing open and no open or close of its own under way. *)
(***************************************************************************)
LEMMA DownSlots ==
    ASSUME MessageInv', ~InUse', held' = {}, FreeSlotIsEmpty'
    PROVE  SlotParts'
  <1> USE DEF MessageInv
  <1>1. \A c \in Clients : ~Opening(c)' /\ (ToClose(c)' => scan'[c] # NoFd)
    <2>1. CASE ~initialized'
      BY <2>1 DEF DownIsQuiet, Quiet, Opening, ToClose, Closing
    <2>2. CASE \E e \in Clients : scan'[e] # NoFd
      <3>1. PICK e \in Clients : scan'[e] # NoFd
        BY <2>2
      <3>2. \A c \in Clients : c # e => pc'[c] = "idle"
        BY <3>1 DEF CleanupAlone
      <3>3. pc'[e] \in {"send", "wait"} => req'[cur'[e]].type \in {"CLOSE", "SHUTDOWN"}
        BY <3>1 DEF CleanupAlone
      <3>4. QED
        BY <3>1, <3>2, <3>3 DEF Opening, ToClose, Closing
    <2>3. QED
      BY <2>1, <2>2 DEF InUse
  <1>2. FdTable'
    BY <1>1 DEF FdTable, HeldIsOpen, OpeningOwnsSlot
  <1>3. ClosingOwnsSlot' /\ SlotsOwned' /\ NothingHeld'
    BY <1>1 DEF ClosingOwnsSlot, SlotsOwned, NothingHeld
  <1>4. QED
    BY <1>2, <1>3 DEF SlotParts

\* Nobody is in xpdk_cleanup while the application uses the library.
LEMMA InUseScan ==
    ASSUME InUse, NEW c \in Clients
    PROVE  scan[c] = NoFd
  BY DEF InUse

(***************************************************************************)
(* Requests.  A step that puts nothing in flight, and lets no thread go    *)
(* whose message still is, keeps a waiting thread for every message.       *)
(***************************************************************************)
LEMMA SameWaiters ==
    ASSUME SyncWaited,
           \A n \in Msgs : InFlight(n)' => InFlight(n) /\ req'[n] = req[n],
           \A c \in Clients, n \in Msgs :
             pc[c] = "wait" /\ cur[c] = n /\ InFlight(n)' => pc'[c] = "wait" /\ cur'[c] = n
    PROVE  SyncWaited'
  BY DEF SyncWaited

\* A step that sends nothing new to the bdev layer.
LEMMA SameShape ==
    ASSUME RequestShape, UNCHANGED req,
           \A n \in Msgs : pending'[n] = pending[n] \/ pending'[n] = "none"
    PROVE  RequestShape'
  <1> SUFFICES ASSUME NEW n \in Msgs
               PROVE  /\ pending'[n] = "open" => req[n].type = "OPEN"
                      /\ pending'[n] = "io" => req[n].type \in {"READ", "WRITE", "FLUSH"}
                      /\ pending'[n] = "qos" => req[n].type = "QOS_SET_LIMITS"
                      /\ req[n].callback => req[n].type \in {"READ", "WRITE", "BATCH_SUBMIT"}
    BY DEF RequestShape
  <1>1. pending'[n] = pending[n] \/ pending'[n] = "none"
    OBVIOUS
  <1>2. QED
    BY <1>1 DEF RequestShape

\* A new message is not in flight.
LEMMA NewMessageRequests ==
    ASSUME DeviceInv, NEW c \in Clients, NEW m \in pool, NEW r \in Request,
           NewMessage(c, m, r), pc[c] # "wait",
           r.callback => r.type \in {"READ", "WRITE", "BATCH_SUBMIT"}
    PROVE  RequestParts'
  <1> USE DEF DeviceInv, MessageInv
  <1>1. /\ m \in Msgs /\ UNCHANGED <<ring, pending>> /\ req'[m] = r
        /\ \A n \in Msgs \ {m} : req'[n] = req[n]
        /\ \A d \in Clients \ {c} : cur'[d] = cur[d] /\ pc'[d] = pc[d]
    BY DEF NewMessage, xpdk_msg_alloc, TypeInv, TypeOK, MsgTypeOK
  <1>2. ~InFlight(m)
    BY DEF InFlight, InRing, OneOwner, RingOwnsMessage, BdevOwnsMessage, TypeInv, TypeOK,
           MsgTypeOK
  <1>3. \A n \in Msgs : InFlight(n)' => InFlight(n) /\ n # m
    BY <1>1, <1>2 DEF InFlight, InRing
  <1>4. SyncWaited'
    BY <1>1, <1>3, SameWaiters
  <1>5. RequestShape'
    <2>1. pending'[m] = "none"
      BY <1>1, <1>2 DEF InFlight
    <2>2. ASSUME NEW n \in Msgs \ {m}
          PROVE  req'[n] = req[n] /\ pending'[n] = pending[n]
      BY <1>1
    <2>3. QED
      BY <1>1, <2>1, <2>2, SMTT(30) DEF RequestShape
  <1>6. QED
    BY <1>4, <1>5 DEF RequestParts

\* A call that ends has no message in flight.
LEMMA EndCallRequests ==
    ASSUME DeviceInv, NEW c \in Clients, EndCall(c),
           pc[c] = "send" \/ (pc[c] = "wait" /\ completed[cur[c]]),
           UNCHANGED <<ring, req, completed, pending>>
    PROVE  RequestParts'
  <1> USE DEF DeviceInv, MessageInv
  <1>1. ~InFlight(cur[c])
    BY EndCallOwners
  <1>2. \A n \in Msgs : InFlight(n)' <=> InFlight(n)
    BY DEF InFlight, InRing
  <1>3. \A d \in Clients \ {c} : cur'[d] = cur[d] /\ pc'[d] = pc[d]
    BY DEF EndCall, TypeInv, TypeOK
  <1>4. SyncWaited'
    <2>1. \A d \in Clients, n \in Msgs : cur[d] = n /\ InFlight(n)' => d # c
      BY <1>1, <1>2
    <2>2. QED
      BY <1>2, <1>3, <2>1, SameWaiters
  <1>5. RequestShape'
    BY SameShape
  <1>6. QED
    BY <1>4, <1>5 DEF RequestParts

\* A message enters the ring: a synchronous one with its sender waiting.
LEMMA SendRequests ==
    ASSUME DeviceInv, NEW c \in Clients, xpdk_msg_send_sync(c) \/ xpdk_msg_send_async(c)
    PROVE  RequestParts'
  <1> DEFINE m == cur[c]
  <1> USE DEF DeviceInv, MessageInv
  <1>1. /\ pc[c] = "send" /\ spdk_ring_enqueue(m)
        /\ UNCHANGED <<req, pending>>
        /\ \A d \in Clients \ {c} : cur'[d] = cur[d] /\ pc'[d] = pc[d]
        /\ ~req[m].callback => pc'[c] = "wait" /\ cur'[c] = m
    BY DEF xpdk_msg_send_sync, xpdk_msg_send_async, devVars, TypeInv, TypeOK
  <1>2. m \in Msgs
    BY <1>1, HoldsMessage
  <1>3. \A n \in Msgs \ {m} : InFlight(n)' => InFlight(n)
    BY <1>1, <1>2, EnqueueType, RingHoldsMessages, SMTT(30) DEF InFlight, InRing
  <1> HIDE DEF m
  <1>4. SyncWaited'
    <2> SUFFICES ASSUME NEW n \in Msgs, InFlight(n)', ~req[n].callback
                 PROVE  \E d \in Clients : pc'[d] = "wait" /\ cur'[d] = n
      BY <1>1 DEF SyncWaited
    <2>1. CASE n = m
      BY <1>1, <2>1
    <2>2. CASE n # m
      BY <1>1, <1>3, <2>2, SMTT(30) DEF SyncWaited
    <2>3. QED
      BY <2>1, <2>2
  <1>5. RequestShape'
    BY <1>1, SameShape
  <1>6. QED
    BY <1>4, <1>5 DEF RequestParts

(***************************************************************************)
(* The calls of the application.  A new message concerns no thread but its *)
(* own.                                                                    *)
(***************************************************************************)
LEMMA NewMessageThreads ==
    ASSUME DeviceInv, NEW c \in Clients, NEW m \in pool, NEW r \in Request,
           NewMessage(c, m, r), pc[c] \notin {"send", "wait"},
           \A d \in Clients \ {c} : scan'[d] = scan[d]
    PROVE  /\ \A d \in Clients \ {c} : SameUse(d)
           /\ ~Opening(c) /\ ~Opening(c)' /\ ~ToClose(c)
           /\ ToClose(c)' <=> r.type = "CLOSE"
           /\ cur'[c] = m /\ req'[m] = r
           /\ UNCHANGED <<devices, initialized>>
  <1> USE DEF DeviceInv, MessageInv
  <1>1. /\ m \in Msgs /\ UNCHANGED <<pending, devices, initialized>>
        /\ pc'[c] = "send" /\ cur'[c] = m /\ req'[m] = r /\ ~completed'[m]
        /\ \A n \in Msgs \ {m} : /\ req'[n] = req[n] /\ status'[n] = status[n]
                                 /\ completed'[n] = completed[n]
                                 /\ result_fd'[n] = result_fd[n]
        /\ \A d \in Clients \ {c} : cur'[d] = cur[d] /\ pc'[d] = pc[d]
    BY DEF NewMessage, xpdk_msg_alloc, lifeVars, TypeInv, TypeOK, MsgTypeOK, DeviceTypeOK
  <1>2. ASSUME NEW d \in Clients \ {c}
        PROVE  SameUse(d)
    <2>1. pc[d] \in {"send", "wait"} => cur[d] \in Msgs \ {m}
      BY OwnMessage
    <2>2. QED
      BY <1>1, <2>1, UntouchedThread
  <1>3. ~Opening(c) /\ ~Opening(c)' /\ ~ToClose(c) /\ (ToClose(c)' <=> r.type = "CLOSE")
    BY <1>1 DEF Opening, ToClose, Closing
  <1>4. QED
    BY <1>1, <1>2, <1>3

(***************************************************************************)
(* xpdk_close takes over the slot from the descriptor the application had. *)
(***************************************************************************)
LEMMA CloseSlots ==
    ASSUME DeviceInv, NEW c \in Clients, NEW fd \in held \cup (FdArgs \ Fds),
           InUse, InUse', UNCHANGED <<devices>>, held' = held \ {fd},
           \A d \in Clients \ {c} : SameUse(d),
           ~Opening(c), ~Opening(c)', ~ToClose(c), ToClose(c)', req'[cur'[c]].fd = fd
    PROVE  SlotParts'
  <1> USE DEF DeviceInv, FdTable, SameUse
  <1>1. \A d \in Clients : scan[d] = NoFd /\ scan'[d] = NoFd
    BY InUseScan DEF InUse
  <1>2. fd \in Fds => fd \in held
    OBVIOUS
  <1>3. held \subseteq Fds
    BY DEF MessageInv, TypeInv, TypeOK
  <1>4. HeldIsOpen' /\ FreeSlotIsEmpty'
    BY DEF HeldIsOpen, FreeSlotIsEmpty
  <1>5. OpeningOwnsSlot'
    <2>1. \A d \in Clients : Opening(d)' =>
            SameUse(d) /\ SameSlot(result_fd[cur[d]]) /\ result_fd[cur[d]] \notin held'
      BY DEF OpeningOwnsSlot, SameSlot
    <2>2. QED
      BY <2>1, OtherOpenings
  <1>6. \A d \in Clients \ {c} : ToClose(d) => req[cur[d]].fd # fd \/ fd \notin Fds
    BY <1>1, <1>2 DEF ClosingOwnsSlot
  <1>7. \A d \in Clients : Opening(d) => result_fd[cur[d]] # fd \/ fd \notin Fds
    BY <1>2 DEF OpeningOwnsSlot
  <1>8. ClosingOwnsSlot'
    <2> SUFFICES ASSUME NEW d \in Clients, ToClose(d)', req'[cur'[d]].fd \in Fds
                 PROVE  LET f == req'[cur'[d]].fd
                        IN  /\ devices[f].in_use /\ devices[f].desc /\ devices[f].channel
                            /\ f \notin held'
                            /\ \A e \in Clients : ToClose(e)' /\ req'[cur'[e]].fd = f => e = d
                            /\ \A e \in Clients : Opening(e)' => result_fd'[cur'[e]] # f
      BY DEF ClosingOwnsSlot
    <2>1. CASE d = c
      BY <1>2, <1>6, <1>7, <2>1, SMTT(30) DEF HeldIsOpen
    <2>2. CASE d # c
      BY <1>1, <1>6, <2>2, SMTT(30) DEF ClosingOwnsSlot
    <2>3. QED
      BY <2>1, <2>2
  <1>9. SlotsOwned'
    <2> SUFFICES ASSUME NEW f \in Fds, Occupied(f)
                 PROVE  \/ f \in held'
                        \/ \E d \in Clients : Opening(d)' /\ result_fd'[cur'[d]] = f
                        \/ \E d \in Clients : ToClose(d)' /\ req'[cur'[d]].fd = f
      BY DEF SlotsOwned, Occupied
    <2>1. CASE f = fd
      BY <2>1
    <2>2. CASE f \in held /\ f # fd
      BY <2>2
    <2>3. CASE \E d \in Clients : Opening(d) /\ result_fd[cur[d]] = f
      BY <2>3
    <2>4. CASE \E d \in Clients : ToClose(d) /\ req[cur[d]].fd = f
      BY <2>4
    <2>5. QED
      BY <2>1, <2>2, <2>3, <2>4 DEF SlotsOwned
  <1>10. NothingHeld'
    BY DEF NothingHeld
  <1>11. QED
    BY <1>4, <1>5, <1>8, <1>9, <1>10 DEF SlotParts

\* A new call claims no slot; a close takes its descriptor from the application.
LEMMA CallsSlots ==
    ASSUME DeviceInv, MessageInv', NEW c \in Clients, Calls(c)
    PROVE  RequestParts' /\ SlotParts'
  <1> USE DEF DeviceInv
  <1>1. ASSUME NEW m \in pool, NEW r \in Request, StartCall(c, m, r), CallRequest(c, m, r)
        PROVE  RequestParts' /\ SlotParts'
    <2>1. /\ pc[c] = "idle" /\ NewMessage(c, m, r) /\ InUse /\ scan' = scan
      BY <1>1 DEF StartCall, InUse
    <2>2. RequestParts'
      BY <1>1, <2>1, NewMessageRequests DEF CallRequest
    <2>3. /\ \A d \in Clients \ {c} : SameUse(d)
          /\ ~Opening(c) /\ ~Opening(c)' /\ ~ToClose(c)
          /\ ToClose(c)' <=> r.type = "CLOSE"
          /\ cur'[c] = m /\ req'[m] = r
          /\ UNCHANGED <<devices, initialized>>
      BY <2>1, NewMessageThreads
    <2>4. InUse'
      BY <2>1, <2>3 DEF InUse
    <2>5. CASE r.type = "CLOSE"
      <3>1. r.fd \in held \cup (FdArgs \ Fds) /\ held' = held \ {r.fd}
        BY <1>1, <2>5 DEF CallRequest
      <3>2. ToClose(c)' /\ req'[cur'[c]].fd = r.fd /\ UNCHANGED <<devices>>
        BY <2>3, <2>5
      <3>3. SlotParts'
        BY <2>1, <2>3, <2>4, <3>1, <3>2, CloseSlots
      <3>4. QED
        BY <2>2, <3>3
    <2>6. CASE r.type # "CLOSE"
      <3>1. \A d \in Clients : SameUse(d)
        BY <2>3, <2>6, OtherThread
      <3>2. held' = held
        BY <1>1, <2>6 DEF CallRequest
      <3>3. QED
        BY <2>1, <2>2, <2>3, <2>4, <3>1, <3>2, SameSlots DEF SlotParts
    <2>7. QED
      BY <2>2, <2>5, <2>6
  <1>2. CASE xpdk_cleanup(c)
    <2>1. /\ UNCHANGED <<req, devices, pending, ring, cur>> /\ Quiet
          /\ pc' = [pc EXCEPT ![c] = "scan"]
          /\ scan' = [scan EXCEPT ![c] = 0]
          /\ held' = {}
      BY <1>2 DEF xpdk_cleanup, msgVars, devVars
    <2>2. ~InUse'
      BY <2>1, SMTT(30) DEF InUse, MessageInv, TypeInv, TypeOK, NoFd
    <2>3. SlotParts'
      BY <2>1, <2>2, DownSlots DEF FdTable, FreeSlotIsEmpty
    <2>4. \A n \in Msgs : ~InFlight(n)'
      BY <2>1, SMTT(30) DEF Quiet, InFlight, InRing
    <2>5. RequestParts'
      BY <2>1, <2>4, SameShape DEF RequestParts, SyncWaited
    <2>6. QED
      BY <2>3, <2>5
  <1>3. QED
    BY <1>1, <1>2, CallsStart DEF MessageInv

-----------------------------------------------------------------------------
(***************************************************************************)
(* The steps of a call.                                                    *)
(***************************************************************************)

\* What ends with a call of thread c concerns no other thread.
LEMMA EndCallThreads ==
    ASSUME DeviceInv, NEW c \in Clients, EndCall(c),
           UNCHANGED <<ring, req, status, completed, devVars, scan, lifeVars>>
    PROVE  /\ \A d \in Clients \ {c} : SameUse(d)
           /\ ~Opening(c)' /\ ~ToClose(c)'
           /\ devices' = devices
           /\ InUse' <=> InUse
  <1>1. /\ \A d \in Clients \ {c} : pc'[d] = pc[d] /\ cur'[d] = cur[d]
        /\ pc'[c] \in {"idle", "scan", "join"}
    BY DEF EndCall, Resume, DeviceInv, MessageInv, TypeInv, TypeOK
  <1>2. \A d \in Clients \ {c} : SameUse(d)
    BY <1>1, UntouchedThread DEF devVars
  <1>3. ~Opening(c)' /\ ~ToClose(c)'
    BY <1>1 DEF Opening, ToClose, Closing
  <1>4. QED
    BY <1>2, <1>3 DEF InUse, devVars, lifeVars

(***************************************************************************)
(* The application gets a descriptor: from an open that has succeeded, or  *)
(* back from a close that could not be sent.  Whose slot it was is open    *)
(* and has no other user.                                                  *)
(***************************************************************************)
LEMMA GainSlot ==
    ASSUME DeviceInv, NEW c \in Clients, NEW fd \in Fds,
           InUse, InUse', UNCHANGED <<devices>>, held' = held \cup {fd},
           \A d \in Clients \ {c} : SameUse(d),
           ~Opening(c)', ~ToClose(c)',
           devices[fd].in_use /\ devices[fd].desc /\ devices[fd].channel,
           \/ Opening(c) /\ ~ToClose(c) /\ result_fd[cur[c]] = fd
           \/ ToClose(c) /\ ~Opening(c) /\ req[cur[c]].fd = fd
    PROVE  SlotParts'
  <1> USE DEF DeviceInv, FdTable, SameUse
  <1>1. \A d \in Clients : scan[d] = NoFd
    BY InUseScan
  <1>2. HeldIsOpen' /\ FreeSlotIsEmpty'
    BY DEF HeldIsOpen, FreeSlotIsEmpty
  <1>3. \A d \in Clients \ {c} : Opening(d) => result_fd[cur[d]] # fd
    BY <1>1, SMTT(30) DEF OpeningOwnsSlot, ClosingOwnsSlot
  <1>4. \A d \in Clients \ {c} : ToClose(d) => req[cur[d]].fd # fd
    BY <1>1, SMTT(30) DEF ClosingOwnsSlot
  <1>5. OpeningOwnsSlot'
    <2>1. \A d \in Clients : Opening(d)' =>
            SameUse(d) /\ SameSlot(result_fd[cur[d]]) /\ result_fd[cur[d]] \notin held'
      BY <1>3 DEF OpeningOwnsSlot, SameSlot
    <2>2. QED
      BY <2>1, OtherOpenings
  <1>6. ClosingOwnsSlot'
    <2>1. \A d \in Clients : ToClose(d)' =>
            SameUse(d) /\ SameSlot(req[cur[d]].fd) /\ req[cur[d]].fd \notin held' \ held
      BY <1>4 DEF SameSlot
    <2>2. QED
      BY <2>1, OtherClosings
  <1>7. SlotsOwned'
    <2> SUFFICES ASSUME NEW f \in Fds, Occupied(f), f # fd, f \notin held
                 PROVE  \/ \E d \in Clients : Opening(d)' /\ result_fd'[cur'[d]] = f
                        \/ \E d \in Clients : ToClose(d)' /\ req'[cur'[d]].fd = f
      BY DEF SlotsOwned, Occupied
    <2>1. CASE \E d \in Clients : Opening(d) /\ result_fd[cur[d]] = f
      BY <2>1
    <2>2. CASE \E d \in Clients : ToClose(d) /\ req[cur[d]].fd = f
      BY <2>2
    <2>3. QED
      BY <2>1, <2>2 DEF SlotsOwned
  <1>8. NothingHeld'
    BY DEF NothingHeld
  <1>9. QED
    BY <1>2, <1>5, <1>6, <1>7, <1>8 DEF SlotParts

\* A call that ends without an open or a close of the application changes no slot.
LEMMA EndOther ==
    ASSUME DeviceInv, MessageInv', NEW c \in Clients, held' = held, devices' = devices,
           InUse' <=> InUse, \A d \in Clients \ {c} : SameUse(d),
           ~Opening(c)', ~ToClose(c)',
           ~InUse \/ (~Opening(c) /\ (ToClose(c) => req[cur[c]].fd \notin Fds))
    PROVE  SlotParts'
  <1>1. CASE ~InUse
    BY <1>1, DownSlots DEF DeviceInv, FdTable, FreeSlotIsEmpty, NothingHeld
  <1>2. CASE ~Opening(c) /\ (ToClose(c) => req[cur[c]].fd \notin Fds)
    <2> USE DEF DeviceInv, FdTable, SameUse
    <2>1. HeldIsOpen' /\ FreeSlotIsEmpty' /\ NothingHeld'
      BY DEF HeldIsOpen, FreeSlotIsEmpty, NothingHeld
    <2>2. OpeningOwnsSlot'
      <3>1. \A d \in Clients : Opening(d)' =>
              SameUse(d) /\ SameSlot(result_fd[cur[d]]) /\ result_fd[cur[d]] \notin held'
        BY DEF OpeningOwnsSlot, SameSlot
      <3>2. QED
        BY <3>1, OtherOpenings
    <2>3. ClosingOwnsSlot'
      BY OtherClosings DEF SameSlot
    <2>4. SlotsOwned'
      BY <1>2, SMTT(30) DEF SlotsOwned, Occupied
    <2>5. QED
      BY <2>1, <2>2, <2>3, <2>4 DEF SlotParts
  <1>3. QED
    BY <1>1, <1>2

\* A full ring: a close hands its descriptor back.
LEMMA SendBusySlots ==
    ASSUME DeviceInv, MessageInv', NEW c \in Clients, SendBusy(c)
    PROVE  RequestParts' /\ SlotParts'
  <1> USE DEF DeviceInv
  <1>1. /\ pc[c] = "send" /\ EndCall(c)
        /\ UNCHANGED <<ring, req, status, completed, devVars, scan, lifeVars>>
        /\ UNCHANGED pending
        /\ IF req[cur[c]].type = "CLOSE" /\ scan[c] = NoFd
           THEN held' = held \cup ({req[cur[c]].fd} \cap Fds) ELSE held' = held
    BY DEF SendBusy, devVars
  <1>2. RequestParts'
    BY <1>1, EndCallRequests
  <1>3. /\ \A d \in Clients \ {c} : SameUse(d)
        /\ ~Opening(c)' /\ ~ToClose(c)' /\ devices' = devices /\ (InUse' <=> InUse)
    BY <1>1, EndCallThreads
  <1>4. ~Opening(c) /\ (ToClose(c) <=> req[cur[c]].type = "CLOSE")
    BY <1>1 DEF Opening, ToClose, Closing, MessageInv, CallFresh
  <1>5. initialized /\ \A d \in Clients \ {c} : scan[d] = NoFd
    BY <1>1, CleanupExcludes, UpWhileCalled DEF MessageInv
  <1> DEFINE fd == req[cur[c]].fd
  <1>6. CASE ToClose(c) /\ scan[c] = NoFd /\ fd \in Fds
    <2>1. InUse
      BY <1>5, <1>6 DEF InUse
    <2>2. held' = held \cup {fd}
      BY <1>1, <1>4, <1>6
    <2>3. devices[fd].in_use /\ devices[fd].desc /\ devices[fd].channel
      BY <1>6 DEF ClosingOwnsSlot
    <2>4. QED
      BY <1>2, <1>3, <1>4, <1>6, <2>1, <2>2, <2>3, GainSlot
  <1>7. CASE ToClose(c) /\ scan[c] = NoFd /\ fd \notin Fds
    <2>1. held' = held
      BY <1>1, <1>4, <1>7
    <2>2. QED
      BY <1>2, <1>3, <1>4, <1>7, <2>1, EndOther
  <1>8. CASE scan[c] # NoFd
    BY <1>1, <1>2, <1>3, <1>8, EndOther DEF InUse
  <1>9. CASE ~ToClose(c)
    BY <1>1, <1>2, <1>3, <1>4, <1>9, EndOther
  <1>10. QED
    BY <1>6, <1>7, <1>8, <1>9

\* A call that returns: an open hands its descriptor to the application.
LEMMA ReturnSyncSlots ==
    ASSUME DeviceInv, MessageInv', NEW c \in Clients, ReturnSync(c)
    PROVE  RequestParts' /\ SlotParts'
  <1> USE DEF DeviceInv
  <1>1. /\ pc[c] = "wait" /\ completed[cur[c]] /\ EndCall(c)
        /\ UNCHANGED <<ring, req, status, completed, devVars, scan, lifeVars>>
        /\ UNCHANGED pending
        /\ IF req[cur[c]].type = "OPEN" /\ status[cur[c]] = "SUCCESS"
           THEN held' = held \cup {result_fd[cur[c]]} ELSE held' = held
    BY DEF ReturnSync, devVars
  <1>2. RequestParts'
    BY <1>1, EndCallRequests
  <1>3. /\ \A d \in Clients \ {c} : SameUse(d)
        /\ ~Opening(c)' /\ ~ToClose(c)' /\ devices' = devices /\ (InUse' <=> InUse)
    BY <1>1, EndCallThreads
  <1>4. ~ToClose(c) /\ (Opening(c) <=> req[cur[c]].type = "OPEN" /\ status[cur[c]] = "SUCCESS")
    BY <1>1, OwnMessage DEF Opening, ToClose
  <1> DEFINE fd == result_fd[cur[c]]
  <1>5. CASE Opening(c)
    <2>1. initialized /\ \A d \in Clients : scan[d] = NoFd
      <3>1. scan[c] = NoFd
        BY <1>1, <1>4, <1>5 DEF MessageInv, CleanupAlone
      <3>2. QED
        BY <1>1, <3>1, CleanupExcludes, UpWhileCalled DEF MessageInv
    <2>2. InUse
      BY <2>1 DEF InUse
    <2>3. fd \in Fds /\ held' = held \cup {fd}
      BY <1>1, <1>4, <1>5, OwnMessage DEF MessageInv, TypeInv, TypeOK, DeviceTypeOK
    <2>4. devices[fd].in_use /\ devices[fd].desc /\ devices[fd].channel
      BY <1>1, <1>5 DEF FdTable, OpeningOwnsSlot
    <2>5. QED
      BY <1>2, <1>3, <1>4, <1>5, <2>2, <2>3, <2>4, GainSlot
  <1>6. CASE ~Opening(c)
    BY <1>1, <1>2, <1>3, <1>4, <1>6, EndOther
  <1>7. QED
    BY <1>5, <1>6

\* Sending a message claims and frees nothing.
LEMMA SendSlots ==
    ASSUME DeviceInv, NEW c \in Clients, xpdk_msg_send_sync(c) \/ xpdk_msg_send_async(c)
    PROVE  RequestParts' /\ SlotParts'
  <1> USE DEF DeviceInv
  <1>1. /\ pc[c] = "send"
        /\ UNCHANGED <<req, status, completed, devices, result_fd, pending, scan, held,
                       initialized>>
        /\ \A d \in Clients \ {c} : cur'[d] = cur[d] /\ pc'[d] = pc[d]
        /\ \/ pc'[c] = "wait" /\ cur'[c] = cur[c]
           \/ pc'[c] = "idle" /\ req[cur[c]].callback
    BY DEF xpdk_msg_send_sync, xpdk_msg_send_async, devVars, lifeVars, MessageInv, TypeInv,
           TypeOK
  <1>2. \A d \in Clients \ {c} : SameUse(d)
    BY <1>1, UntouchedThread
  <1>3. SameUse(c)
    <2>1. cur[c] \in Msgs /\ ~InFlight(cur[c]) /\ ~completed[cur[c]]
      BY <1>1, OwnMessage, MsgAssumption
         DEF MessageInv, OneOwner, CallOwnsMessage, CallFresh
    <2>2. pending[cur[c]] = "none"
      BY <2>1 DEF InFlight
    <2>3. req[cur[c]].callback => req[cur[c]].type # "CLOSE"
      BY <2>1 DEF RequestShape
    <2>4. QED
      BY <1>1, <2>1, <2>2, <2>3 DEF SameUse, Opening, ToClose, Closing
  <1>4. SlotParts'
    BY <1>1, <1>2, <1>3, SameSlots DEF SlotParts, InUse
  <1>5. QED
    BY <1>4, SendRequests

(***************************************************************************)
(* xpdk_cleanup: the application has nothing open, and the messages are    *)
(* xpdk_cleanup's own.                                                     *)
(***************************************************************************)
LEMMA CleanupSlots ==
    ASSUME DeviceInv, MessageInv', NEW c \in Clients,
           CleanupDevice(c) \/ xpdk_cleanup_spdk_thread(c) \/ CleanupJoin(c)
    PROVE  RequestParts' /\ SlotParts'
  <1> USE DEF DeviceInv
  <1>1. pc[c] \in {"scan", "join"} /\ scan[c] # NoFd
    BY DEF CleanupDevice, xpdk_cleanup_spdk_thread, CleanupJoin, MessageInv, TypeInv,
           CallShape
  <1>2. held = {} /\ held' = held
    BY <1>1 DEF NothingHeld, InUse, CleanupDevice, xpdk_cleanup_spdk_thread, CleanupJoin
  <1>3. devices' = devices
    BY DEF CleanupDevice, xpdk_cleanup_spdk_thread, CleanupJoin, NewMessage, devVars
  <1>4. ~InUse'
    <2>1. CASE CleanupDevice(c)
      <3>1. scan' = [scan EXCEPT ![c] = scan[c] + 1] /\ scan[c] \in -1 .. NumFds
        BY <2>1 DEF CleanupDevice, MessageInv, TypeInv, TypeOK
      <3>2. scan'[c] # NoFd
        BY <1>1, <3>1, MsgAssumption, SMTT(30) DEF MessageInv, TypeInv, TypeOK, NoFd
      <3>3. QED
        BY <3>2 DEF InUse
    <2>2. CASE xpdk_cleanup_spdk_thread(c)
      BY <1>1, <2>2 DEF xpdk_cleanup_spdk_thread, InUse
    <2>3. CASE CleanupJoin(c)
      BY <2>3 DEF CleanupJoin, InUse
    <2>4. QED
      BY <2>1, <2>2, <2>3
  <1>5. SlotParts'
    BY <1>2, <1>3, <1>4, DownSlots DEF FdTable, FreeSlotIsEmpty
  <1>6. ASSUME NEW m \in pool, NEW r \in Request, NewMessage(c, m, r), ~r.callback
        PROVE  RequestParts'
    BY <1>1, <1>6, NewMessageRequests
  <1>7. ASSUME UNCHANGED <<req, pending, cur>>, ring' = ring \/ ring' = <<>>,
               \A d \in Clients : pc[d] = "wait" => pc'[d] = "wait"
        PROVE  RequestParts'
    <2>1. \A n \in Msgs : InFlight(n)' => InFlight(n)
      BY <1>7, SMTT(30) DEF InFlight, InRing
    <2>2. QED
      BY <1>7, <2>1, SameWaiters, SameShape DEF RequestParts
  <1>8. RequestParts'
    <2>1. CASE CleanupDevice(c)
      <3>1. CASE \E m \in pool : NewMessage(c, m, [Blank("CLOSE") EXCEPT !.fd = scan[c]])
        <4>1. scan[c] \in 0 .. NumFds - 1
          BY <1>1, <2>1, MsgAssumption, SMTT(30)
             DEF CleanupDevice, MessageInv, TypeInv, TypeOK, CallShape, NoFd
        <4>2. [Blank("CLOSE") EXCEPT !.fd = scan[c]] \in Request
          BY <4>1, BlankType, SMTT(30) DEF Request, MsgTypes, Fds
        <4>3. ~[Blank("CLOSE") EXCEPT !.fd = scan[c]].callback
          BY DEF Blank
        <4>4. QED
          BY <1>6, <3>1, <4>2, <4>3
      <3>2. CASE UNCHANGED <<msgVars, devVars, ioVars, pc, cur, lifeVars>>
        BY <1>7, <3>2 DEF msgVars, devVars
      <3>3. QED
        BY <2>1, <3>1, <3>2 DEF CleanupDevice
    <2>2. CASE xpdk_cleanup_spdk_thread(c)
      <3>1. CASE \E m \in pool : NewMessage(c, m, Blank("SHUTDOWN"))
        <4>1. Blank("SHUTDOWN") \in Request /\ ~Blank("SHUTDOWN").callback
          BY BlankType DEF MsgTypes, Blank
        <4>2. QED
          BY <1>6, <3>1, <4>1
      <3>2. CASE /\ pc' = [pc EXCEPT ![c] = "join"]
                 /\ UNCHANGED <<msgVars, devVars, ioVars, cur, lifeVars>>
        BY <1>1, <1>7, <3>2 DEF msgVars, devVars, MessageInv, TypeInv, TypeOK
      <3>3. QED
        BY <2>2, <3>1, <3>2 DEF xpdk_cleanup_spdk_thread
    <2>3. CASE CleanupJoin(c)
      BY <1>1, <1>7, <2>3 DEF CleanupJoin, devVars, MessageInv, TypeInv, TypeOK
    <2>4. QED
      BY <2>1, <2>2, <2>3
  <1>9. QED
    BY <1>5, <1>8

\* xpdk_init_opts finds nobody at work and clears the table.
LEMMA InitSlots ==
    ASSUME DeviceInv, xpdk_init_opts
    PROVE  RequestParts' /\ SlotParts'
  <1> USE DEF DeviceInv
  <1>1. /\ ~initialized /\ ring' = <<>> /\ devices' = [fd \in Fds |-> FreeSlot]
        /\ UNCHANGED <<req, pending, pc, cur, scan, held>>
    BY DEF xpdk_init_opts, appVars
  <1>2. Quiet /\ held = {}
    BY <1>1 DEF MessageInv, DownIsQuiet, NothingHeld, InUse
  <1>3. \A c \in Clients : ~Opening(c)' /\ ~ToClose(c)'
    BY <1>1, <1>2 DEF Quiet, Opening, ToClose, Closing
  <1>4. \A fd \in Fds : ~devices'[fd].in_use /\ ~devices'[fd].desc /\ ~devices'[fd].channel
    BY <1>1 DEF FreeSlot
  <1>5. FdTable'
    BY <1>1, <1>2, <1>3, <1>4 DEF FdTable, HeldIsOpen, OpeningOwnsSlot, FreeSlotIsEmpty
  <1>6. ClosingOwnsSlot' /\ SlotsOwned' /\ NothingHeld'
    BY <1>1, <1>2, <1>3, <1>4 DEF ClosingOwnsSlot, SlotsOwned, Occupied, NothingHeld
  <1>7. \A n \in Msgs : ~InFlight(n)'
    BY <1>1, <1>2, SMTT(30) DEF Quiet, InFlight, InRing
  <1>8. RequestParts'
    BY <1>1, <1>7, SameShape DEF RequestParts, SyncWaited
  <1>9. QED
    BY <1>5, <1>6, <1>8 DEF SlotParts

(***************************************************************************)
(* The SPDK thread takes a message out of the ring and handles it.         *)
(***************************************************************************)
LEMMA PollerRequests ==
    ASSUME DeviceInv, xpdk_msg_process_poller
    PROVE  RequestParts'
  <1> DEFINE m == Head(ring)
  <1> USE DEF DeviceInv, MessageInv
  <1>1. /\ m \in Msgs /\ ring # <<>> /\ ring' = Tail(ring)
        /\ UNCHANGED <<req, pc, cur>>
    BY PollerFrame
  <1>2. /\ InRing(m) /\ pending[m] = "none"
        /\ \A n \in Msgs \ {m} : InRing(n)' <=> InRing(n)
    BY <1>1, Dequeued
  <1>3. /\ \A n \in Msgs \ {m} : pending'[n] = pending[n]
        /\ \/ pending'[m] = pending[m]
           \/ pending'[m] = "open" /\ req[m].type = "OPEN"
           \/ pending'[m] = "io" /\ req[m].type \in {"READ", "WRITE", "FLUSH"}
           \/ pending'[m] = "qos" /\ req[m].type = "QOS_SET_LIMITS"
    BY <1>1, HandlerStores
  <1> HIDE DEF m
  <1>4. RequestShape'
    BY <1>1, <1>3 DEF RequestShape
  <1>5. \A n \in Msgs : InFlight(n)' => InFlight(n)
    BY <1>2, <1>3 DEF InFlight
  <1>6. SyncWaited'
    BY <1>1, <1>5, SameWaiters
  <1>7. QED
    BY <1>4, <1>6 DEF RequestParts

(***************************************************************************)
(* A slot that concerns one thread's open or close only.  What happens to  *)
(* it keeps the table in order as long as the thread's open, if it goes    *)
(* on, still finds the slot as it should, and nothing stays behind in the  *)
(* slot otherwise.                                                         *)
(***************************************************************************)
LEMMA OneSlot ==
    ASSUME DeviceInv, InUse, InUse', held' = held, NEW c \in Clients, NEW fd \in Fds,
           \A d \in Clients \ {c} : SameUse(d), \A e \in Fds \ {fd} : SameSlot(e),
           fd \notin held,
           \A d \in Clients \ {c} : /\ Opening(d) => result_fd[cur[d]] # fd
                                    /\ ToClose(d) => req[cur[d]].fd # fd,
           Opening(c) => result_fd[cur[c]] = fd, ToClose(c) => req[cur[c]].fd = fd,
           ~ToClose(c)',
           Opening(c)' => /\ result_fd'[cur'[c]] = fd /\ devices'[fd].in_use
                          /\ devices'[fd].desc <=> completed'[cur'[c]]
                          /\ devices'[fd].channel <=> completed'[cur'[c]],
           ~devices'[fd].in_use => ~devices'[fd].desc /\ ~devices'[fd].channel,
           Occupied(fd)' => Opening(c)'
    PROVE  SlotParts'
  <1> USE DEF DeviceInv, FdTable, SameUse, SameSlot
  <1>1. \A d \in Clients : scan[d] = NoFd /\ scan'[d] = NoFd
    BY DEF InUse
  <1>2. held \subseteq Fds
    BY DEF MessageInv, TypeInv, TypeOK
  <1>3. \A d \in Clients : Opening(d) => result_fd[cur[d]] \in Fds
    BY OpeningSlot
  <1>4. HeldIsOpen' /\ FreeSlotIsEmpty' /\ NothingHeld'
    BY <1>2, SMTT(30) DEF HeldIsOpen, FreeSlotIsEmpty, NothingHeld
  <1>5. OpeningOwnsSlot'
    <2> SUFFICES ASSUME NEW d \in Clients, Opening(d)'
                 PROVE  LET n == cur'[d]
                            e == result_fd'[n]
                        IN  /\ devices'[e].in_use
                            /\ e \notin held
                            /\ devices'[e].desc <=> completed'[n]
                            /\ devices'[e].channel <=> completed'[n]
                            /\ \A a \in Clients : Opening(a)' /\ result_fd'[cur'[a]] = e => a = d
      BY DEF OpeningOwnsSlot
    <2>1. CASE d = c
      BY <2>1, SMTT(30)
    <2>2. CASE d # c
      BY <1>3, <2>2, SMTT(30) DEF OpeningOwnsSlot
    <2>3. QED
      BY <2>1, <2>2
  <1>6. ClosingOwnsSlot'
    <2>1. \A d \in Clients : ToClose(d)' => d # c /\ SameUse(d)
      OBVIOUS
    <2>2. \A d \in Clients : ToClose(d)' /\ req[cur[d]].fd \in Fds =>
            /\ SameSlot(req[cur[d]].fd) /\ req[cur[d]].fd \notin held' \ held
            /\ Opening(c)' => result_fd'[cur'[c]] # req[cur[d]].fd
      OBVIOUS
    <2>3. QED
      BY <2>1, <2>2, OtherClosings
  <1>7. SlotsOwned'
    <2> SUFFICES ASSUME NEW e \in Fds, Occupied(e)'
                 PROVE  \/ e \in held
                        \/ \E d \in Clients : Opening(d)' /\ result_fd'[cur'[d]] = e
                        \/ \E d \in Clients : ToClose(d)' /\ req'[cur'[d]].fd = e
      BY DEF SlotsOwned
    <2>1. CASE e = fd
      BY <2>1
    <2>2. CASE e # fd
      <3>1. Occupied(e)
        BY <2>2 DEF Occupied
      <3>2. \/ e \in held
            \/ \E d \in Clients \ {c} : Opening(d) /\ result_fd[cur[d]] = e
            \/ \E d \in Clients \ {c} : ToClose(d) /\ req[cur[d]].fd = e
        BY <2>2, <3>1, SMTT(30) DEF SlotsOwned
      <3>3. QED
        BY <3>2, SMTT(30)
    <2>3. QED
      BY <2>1, <2>2
  <1>8. QED
    BY <1>4, <1>5, <1>6, <1>7 DEF SlotParts

\* A step that changes no slot in what the invariant looks at.
LEMMA SameTable ==
    ASSUME DeviceInv, held' = held, InUse' <=> InUse, \A c \in Clients : SameUse(c),
           \A e \in Fds : SameSlot(e)
    PROVE  SlotParts'
  <1> USE DEF DeviceInv, FdTable, SameUse, SameSlot
  <1>1. held \subseteq Fds
    BY DEF MessageInv, TypeInv, TypeOK
  <1>2. \A d \in Clients : Opening(d) => result_fd[cur[d]] \in Fds
    BY OpeningSlot
  <1>3. HeldIsOpen' /\ FreeSlotIsEmpty' /\ NothingHeld'
    BY <1>1 DEF HeldIsOpen, FreeSlotIsEmpty, NothingHeld
  <1>4. OpeningOwnsSlot'
    <2>1. \A d \in Clients : Opening(d)' =>
            SameUse(d) /\ SameSlot(result_fd[cur[d]]) /\ result_fd[cur[d]] \notin held'
      BY <1>2 DEF OpeningOwnsSlot
    <2>2. QED
      BY <2>1, OtherOpenings
  <1>5. ClosingOwnsSlot'
    BY OtherClosings
  <1>6. SlotsOwned'
    BY SMTT(30) DEF SlotsOwned, Occupied
  <1>7. QED
    BY <1>3, <1>4, <1>5, <1>6 DEF SlotParts

(***************************************************************************)
(* A step of the SPDK thread that stores into one message concerns the     *)
(* thread that waits for it and no other.                                  *)
(***************************************************************************)
LEMMA OtherThreads ==
    ASSUME DeviceInv, NEW m \in Msgs, UNCHANGED <<req, pc, cur, scan>>,
           \A n \in Msgs \ {m} : /\ status'[n] = status[n] /\ completed'[n] = completed[n]
                                 /\ pending'[n] = pending[n] /\ result_fd'[n] = result_fd[n]
    PROVE  \A d \in Clients : cur[d] # m => SameUse(d)
  <1> SUFFICES ASSUME NEW d \in Clients, cur[d] # m
               PROVE  SameUse(d)
    OBVIOUS
  <1>1. pc[d] \in {"send", "wait"} => cur[d] \in Msgs \ {m}
    BY OwnMessage DEF DeviceInv
  <1>2. QED
    BY <1>1, UntouchedThread

\* An open that is handled or completed was sent by a thread that waits for it,
\* while the application uses the library.
LEMMA OpenWaited ==
    ASSUME DeviceInv, NEW m \in Msgs, InFlight(m), req[m].type = "OPEN"
    PROVE  /\ \E c \in Clients : /\ pc[c] = "wait" /\ cur[c] = m
                                 /\ \A d \in Clients \ {c} : cur[d] # m
           /\ InUse
  <1> USE DEF DeviceInv, MessageInv
  <1>1. PICK c \in Clients : pc[c] = "wait" /\ cur[c] = m
    BY DEF SyncWaited, RequestShape
  <1>2. \A d \in Clients \ {c} : cur[d] # m
    BY <1>1, OwnMessage
  <1>3. InUse
    <2>1. scan[c] = NoFd
      BY <1>1 DEF CleanupAlone
    <2>2. QED
      BY <1>1, <2>1, CleanupExcludes, UpWhileCalled DEF InUse
  <1>4. QED
    BY <1>1, <1>2, <1>3

\* handle_open claims a free slot, or none.
LEMMA OpenSlots ==
    ASSUME DeviceInv, NEW m \in Msgs, InFlight(m), pending[m] = "none", ~completed[m],
           req[m].type = "OPEN", xpdk_spdk_handle_open(m),
           UNCHANGED <<req, pc, cur, scan, held, initialized>>,
           \A d \in Clients : cur[d] # m => SameUse(d)
    PROVE  SlotParts'
  <1> USE DEF DeviceInv
  <1>1. InUse /\ InUse'
    BY OpenWaited DEF InUse
  <1>2. PICK c \in Clients : pc[c] = "wait" /\ cur[c] = m /\ \A d \in Clients \ {c} : cur[d] # m
    BY OpenWaited
  <1>3. ~Opening(c) /\ ~ToClose(c) /\ ~ToClose(c)'
    BY <1>2 DEF Opening, ToClose, Closing
  <1>4. \A d \in Clients \ {c} : SameUse(d)
    BY <1>2
  <1>5. devices \in [Fds -> Device] /\ status \in [Msgs -> Status] /\ completed \in [Msgs -> BOOLEAN]
        /\ result_fd \in [Msgs -> Fds] /\ pending \in [Msgs -> BdevOps]
    BY DEF MessageInv, TypeInv, TypeOK, MsgTypeOK, DeviceTypeOK
  <1>6. ASSUME pending' = pending, status'[m] # "SUCCESS", \A e \in Fds : SameSlot(e)
        PROVE  SlotParts'
    <2>1. ~Opening(c)'
      BY <1>2, <1>6 DEF Opening
    <2>2. SameUse(c)
      BY <1>3, <2>1, OtherThread
    <2>3. QED
      BY <1>1, <1>4, <1>6, <2>2, SameTable
  <1>7. CASE (Reply(m, "NODEV") \/ Reply(m, "NOMEM")) /\ UNCHANGED <<devices, pending>>
    BY <1>5, <1>6, <1>7 DEF Reply, SameSlot
  <1>8. CASE \E fd \in Fds :
               /\ xpdk_find_free_fd(fd)
               /\ result_fd' = [result_fd EXCEPT ![m] = fd]
               /\ \/ /\ devices' = Claimed(fd, req[m].flags)
                     /\ pending' = [pending EXCEPT ![m] = "open"]
                     /\ UNCHANGED <<status, completed>>
                  \/ /\ devices' = [devices EXCEPT ![fd].flags = req[m].flags]
                     /\ Reply(m, "IO")
                     /\ UNCHANGED pending
    <2>1. PICK fd \in Fds :
               /\ xpdk_find_free_fd(fd)
               /\ result_fd' = [result_fd EXCEPT ![m] = fd]
               /\ \/ /\ devices' = Claimed(fd, req[m].flags)
                     /\ pending' = [pending EXCEPT ![m] = "open"]
                     /\ UNCHANGED <<status, completed>>
                  \/ /\ devices' = [devices EXCEPT ![fd].flags = req[m].flags]
                     /\ Reply(m, "IO")
                     /\ UNCHANGED pending
      BY <1>8
    <2>2. CASE /\ devices' = [devices EXCEPT ![fd].flags = req[m].flags]
               /\ Reply(m, "IO")
               /\ UNCHANGED pending
      <3>1. \A e \in Fds : SameSlot(e)
        BY <1>5, <2>2 DEF SameSlot, Device
      <3>2. status'[m] = "IO"
        BY <1>5, <2>2 DEF Reply
      <3>3. QED
        BY <1>6, <2>2, <3>1, <3>2
    <2>3. CASE /\ devices' = Claimed(fd, req[m].flags)
               /\ pending' = [pending EXCEPT ![m] = "open"]
               /\ UNCHANGED <<status, completed>>
      <3>1. ~devices[fd].in_use /\ ~devices[fd].desc /\ ~devices[fd].channel
        BY <2>1 DEF xpdk_find_free_fd, FdTable, FreeSlotIsEmpty
      <3>2. \A e \in Fds \ {fd} : SameSlot(e)
        BY <1>5, <2>3 DEF SameSlot, Claimed
      <3>3. devices'[fd].in_use /\ ~devices'[fd].desc /\ ~devices'[fd].channel
        BY <1>5, <2>3, <3>1 DEF Claimed, Device
      <3>4. Opening(c)' /\ result_fd'[cur'[c]] = fd /\ ~completed'[cur'[c]]
        BY <1>2, <1>5, <2>1, <2>3 DEF Opening
      <3>5. fd \notin held
        BY <3>1 DEF FdTable, HeldIsOpen
      <3>6. ASSUME NEW d \in Clients \ {c}
            PROVE  /\ Opening(d) => result_fd[cur[d]] # fd
                   /\ ToClose(d) => req[cur[d]].fd # fd
        <4>1. scan[d] = NoFd
          BY <1>1, InUseScan
        <4>2. QED
          BY <3>1, <4>1 DEF FdTable, OpeningOwnsSlot, ClosingOwnsSlot
      <3>7. QED
        BY <1>1, <1>3, <1>4, <3>2, <3>3, <3>4, <3>5, <3>6, OneSlot
    <2>4. QED
      BY <2>1, <2>2, <2>3
  <1>9. QED
    BY <1>7, <1>8 DEF xpdk_spdk_handle_open

\* handle_close empties the slot its sender has given up.
LEMMA CloseHandled ==
    ASSUME DeviceInv, MessageInv', NEW m \in Msgs, InFlight(m), ~completed[m],
           req[m].type = "CLOSE", xpdk_spdk_handle_close(m),
           UNCHANGED <<req, pc, cur, scan, held, initialized>>,
           \A d \in Clients : cur[d] # m => SameUse(d)
    PROVE  SlotParts'
  <1> USE DEF DeviceInv
  <1>0. PICK fd : fd = req[m].fd
    OBVIOUS
  <1>1. PICK c \in Clients : pc[c] = "wait" /\ cur[c] = m
    BY DEF SyncWaited, RequestShape
  <1>2. \A d \in Clients \ {c} : SameUse(d)
    BY <1>1, OwnMessage
  <1>3. devices \in [Fds -> Device] /\ completed \in [Msgs -> BOOLEAN]
    BY DEF MessageInv, TypeInv, TypeOK, MsgTypeOK, DeviceTypeOK
  <1>4. completed'[m]
    BY <1>3 DEF xpdk_spdk_handle_close, Reply
  <1>5. ToClose(c) /\ ~ToClose(c)' /\ ~Opening(c) /\ ~Opening(c)'
    BY <1>1, <1>4 DEF ToClose, Closing, Opening
  <1>6. InUse' <=> InUse
    BY DEF InUse
  <1>7. CASE xpdk_get_device(fd)
    <2>1. fd \in Fds /\ devices' = [devices EXCEPT ![fd] = FreeSlot]
      BY <1>0, <1>7 DEF xpdk_get_device, xpdk_spdk_handle_close, Closed
    <2>2. ~devices'[fd].in_use /\ ~devices'[fd].desc /\ ~devices'[fd].channel
      BY <1>3, <2>1 DEF FreeSlot
    <2>3. \A e \in Fds \ {fd} : devices'[e] = devices[e]
      BY <1>3, <2>1
    <2>4. CASE ~InUse
      <3>1. FreeSlotIsEmpty'
        BY <2>2, <2>3 DEF FdTable, FreeSlotIsEmpty
      <3>2. QED
        BY <1>6, <2>4, <3>1, DownSlots DEF NothingHeld
    <2>5. CASE InUse
      <3>1. req[cur[c]].fd = fd /\ scan[c] = NoFd
        BY <1>0, <1>1, <2>5, InUseScan
      <3>2. /\ fd \notin held
            /\ \A d \in Clients \ {c} : /\ Opening(d) => result_fd[cur[d]] # fd
                                        /\ ToClose(d) => req[cur[d]].fd # fd
        BY <1>5, <2>1, <3>1 DEF ClosingOwnsSlot
      <3>3. ~Occupied(fd)'
        BY <2>2 DEF Occupied
      <3>4. InUse' /\ held' = held /\ \A e \in Fds \ {fd} : SameSlot(e)
        BY <1>6, <2>3, <2>5 DEF SameSlot
      <3>5. ~Opening(c)' /\ ~Opening(c) /\ ~ToClose(c)'
        BY <1>5
      <3>6. QED
        BY <1>2, <2>1, <2>2, <2>5, <3>1, <3>2, <3>3, <3>4, <3>5, OneSlot
    <2>6. QED
      BY <2>4, <2>5
  <1>8. CASE ~xpdk_get_device(fd)
    <2>1. devices' = devices
      BY <1>0, <1>8 DEF xpdk_spdk_handle_close
    <2>2. InUse => fd \notin Fds
      <3>1. ASSUME InUse, fd \in Fds
            PROVE  FALSE
        <4>1. scan[c] = NoFd
          BY <3>1, InUseScan
        <4>2. devices[fd].in_use
          BY <1>0, <1>1, <1>5, <3>1, <4>1 DEF ClosingOwnsSlot
        <4>3. QED
          BY <1>8, <3>1, <4>2 DEF xpdk_get_device
      <3>2. QED
        BY <3>1
    <2>3. QED
      BY <1>0, <1>1, <1>2, <1>5, <1>6, <2>1, <2>2, EndOther
  <1>9. QED
    BY <1>7, <1>8

\* The handlers: an open claims a free slot, a close releases its own.
LEMMA PollerSlots ==
    ASSUME DeviceInv, MessageInv', xpdk_msg_process_poller
    PROVE  RequestParts' /\ SlotParts'
  <1> USE DEF DeviceInv
  <1>1. PICK m \in Msgs : m = Head(ring)
    BY PollerFrame DEF MessageInv
  <1>2. ring # <<>> /\ ring' = Tail(ring) /\ UNCHANGED <<req, pc, cur, scan, held, initialized>>
    BY PollerFrame DEF MessageInv
  <1>3. InFlight(m) /\ pending[m] = "none" /\ ~completed[m]
    BY <1>1, <1>2, Dequeued DEF InFlight
  <1>4. /\ \A n \in Msgs \ {m} : /\ status'[n] = status[n] /\ completed'[n] = completed[n]
                                 /\ pending'[n] = pending[n] /\ result_fd'[n] = result_fd[n]
        /\ req[m].type = "OPEN" => xpdk_spdk_handle_open(m)
        /\ req[m].type = "CLOSE" => xpdk_spdk_handle_close(m)
        /\ req[m].type \notin {"OPEN", "CLOSE"} => devices' = devices
    BY <1>1, HandlerStores DEF MessageInv
  <1>5. \A d \in Clients : cur[d] # m => SameUse(d)
    BY <1>2, <1>4, OtherThreads
  <1>6. SlotParts'
    <2>1. CASE req[m].type = "OPEN"
      BY <1>2, <1>3, <1>4, <1>5, <2>1, OpenSlots
    <2>2. CASE req[m].type = "CLOSE"
      BY <1>2, <1>3, <1>4, <1>5, <2>2, CloseHandled
    <2>3. CASE req[m].type \notin {"OPEN", "CLOSE"}
      <3>1. \A d \in Clients : cur[d] = m => SameUse(d)
        BY <1>2, <2>3 DEF SameUse, Opening, ToClose, Closing
      <3>2. QED
        BY <1>2, <1>4, <1>5, <2>3, <3>1, SameSlots DEF SlotParts, InUse
    <2>4. QED
      BY <2>1, <2>2, <2>3
  <1>7. QED
    BY <1>6, PollerRequests

-----------------------------------------------------------------------------
(***************************************************************************)
(* The bdev layer completes an operation.                                  *)
(***************************************************************************)

\* bdev_open_complete fills the slot of its own open, or leaves it empty.
LEMMA OpenCompleted ==
    ASSUME DeviceInv, NEW m \in Msgs, pending[m] = "open", bdev_open_complete(m),
           UNCHANGED <<req, result_fd, pc, cur, scan, held, initialized>>,
           \A d \in Clients : cur[d] # m => SameUse(d)
    PROVE  SlotParts'
  <1> USE DEF DeviceInv
  <1>1. InFlight(m) /\ req[m].type = "OPEN" /\ ~completed[m]
    BY DEF InFlight, RequestShape, MessageInv, OneOwner, BdevOwnsMessage
  <1>2. InUse /\ InUse'
    BY <1>1, OpenWaited DEF InUse
  <1>3. PICK c \in Clients : pc[c] = "wait" /\ cur[c] = m /\ \A d \in Clients \ {c} : cur[d] # m
    BY <1>1, OpenWaited
  <1>4. \A d \in Clients \ {c} : SameUse(d)
    BY <1>3
  <1>5. Opening(c) /\ ~ToClose(c) /\ ~ToClose(c)'
    BY <1>1, <1>3 DEF Opening, ToClose, Closing
  <1>6. devices \in [Fds -> Device] /\ status \in [Msgs -> Status] /\ completed \in [Msgs -> BOOLEAN]
        /\ result_fd \in [Msgs -> Fds] /\ pending \in [Msgs -> BdevOps]
    BY DEF MessageInv, TypeInv, TypeOK, MsgTypeOK, DeviceTypeOK
  <1>7. PICK fd \in Fds : fd = result_fd[m]
    BY <1>6
  <1>8. /\ devices[fd].in_use /\ ~devices[fd].desc /\ ~devices[fd].channel
        /\ fd \notin held
        /\ \A d \in Clients \ {c} : Opening(d) => result_fd[cur[d]] # fd
    BY <1>1, <1>3, <1>5, <1>7 DEF FdTable, OpeningOwnsSlot
  <1>9. \A d \in Clients \ {c} : ToClose(d) => req[cur[d]].fd # fd
    <2>1. \A d \in Clients : scan[d] = NoFd
      BY <1>2, InUseScan
    <2>2. QED
      BY <1>3, <1>5, <1>7, <2>1 DEF ClosingOwnsSlot
  <1>10. result_fd[cur[c]] = fd /\ result_fd'[cur'[c]] = fd /\ completed'[cur'[c]]
    BY <1>3, <1>6, <1>7 DEF bdev_open_complete, Reply
  <1>11. CASE devices' = [devices EXCEPT ![fd].desc = TRUE, ![fd].channel = TRUE]
              /\ Reply(m, "SUCCESS")
    <2>1. devices'[fd].in_use /\ devices'[fd].desc /\ devices'[fd].channel
      BY <1>6, <1>8, <1>11 DEF Device
    <2>2. \A e \in Fds \ {fd} : SameSlot(e)
      BY <1>6, <1>11 DEF SameSlot
    <2>3. Opening(c)'
      BY <1>1, <1>3, <1>6, <1>11 DEF Opening, Reply
    <2>4. QED
      BY <1>2, <1>4, <1>5, <1>8, <1>9, <1>10, <2>1, <2>2, <2>3, OneSlot
  <1>12. CASE /\ Faults \cap {"open_status", "no_channel"} # {}
              /\ devices' = [devices EXCEPT ![fd].desc = FALSE, ![fd].channel = FALSE]
                   \/ devices' = devices
              /\ Reply(m, "IO")
    <2>1. devices'[fd].in_use /\ ~devices'[fd].desc /\ ~devices'[fd].channel
      BY <1>6, <1>8, <1>12, SMTT(30) DEF Device
    <2>2. \A e \in Fds \ {fd} : SameSlot(e)
      BY <1>6, <1>12 DEF SameSlot
    <2>3. ~Occupied(fd)'
      BY <1>12, <2>1 DEF Occupied
    <2>4. status'[m] = "IO" /\ pending'[m] = "none"
      BY <1>6, <1>12 DEF Reply, bdev_open_complete
    <2>5. ~Opening(c)'
      BY <1>3, <2>4 DEF Opening
    <2>6. QED
      BY <1>2, <1>4, <1>5, <1>8, <1>9, <1>10, <2>1, <2>2, <2>3, <2>5, OneSlot
  <1>13. QED
    BY <1>7, <1>11, <1>12 DEF bdev_open_complete

\* The completion of an open fills the slot it claimed, and no other.
LEMMA BdevSlots ==
    ASSUME DeviceInv, NEW m \in Msgs, BdevCompletes(m)
    PROVE  RequestParts' /\ SlotParts'
  <1> USE DEF DeviceInv
  <1>1. /\ UNCHANGED <<ring, req, result_fd, pc, cur, scan, held, initialized>>
        /\ pending[m] # "none" /\ pending'[m] = "none"
        /\ \A n \in Msgs \ {m} : /\ status'[n] = status[n] /\ completed'[n] = completed[n]
                                 /\ pending'[n] = pending[n]
        /\ \/ pending[m] = "open" /\ bdev_open_complete(m)
           \/ pending[m] \in {"io", "qos"} /\ devices' = devices
    BY CompletionStores DEF MessageInv
  <1>2. RequestShape'
    BY <1>1, SameShape
  <1>3. SyncWaited'
    <2>1. \A n \in Msgs : InFlight(n)' => InFlight(n)
      BY <1>1 DEF InFlight, InRing
    <2>2. QED
      BY <1>1, <2>1, SameWaiters
  <1>4. \A d \in Clients : cur[d] # m => SameUse(d)
    BY <1>1, OtherThreads
  <1>5. CASE pending[m] = "open" /\ bdev_open_complete(m)
    BY <1>1, <1>2, <1>3, <1>4, <1>5, OpenCompleted DEF RequestParts
  <1>6. CASE pending[m] \in {"io", "qos"} /\ devices' = devices
    <2>1. req[m].type \notin {"OPEN", "CLOSE"}
      BY <1>6 DEF RequestShape
    <2>2. \A d \in Clients : cur[d] = m => SameUse(d)
      BY <1>1, <2>1 DEF SameUse, Opening, ToClose, Closing
    <2>3. QED
      BY <1>1, <1>2, <1>3, <1>4, <1>6, <2>2, SameSlots DEF SlotParts, InUse, RequestParts
  <1>7. QED
    BY <1>1, <1>5, <1>6

\* A step that touches neither the requests nor the table.
LEMMA SameDevices ==
    ASSUME DeviceInv, UNCHANGED <<ring, req, status, completed, devices, result_fd, pending>>,
           UNCHANGED <<pc, cur, scan, held, initialized>>
    PROVE  RequestParts' /\ SlotParts'
  <1> USE DEF DeviceInv
  <1>1. \A c \in Clients : SameUse(c)
    BY UntouchedThread
  <1>2. SlotParts'
    BY <1>1, SameSlots DEF SlotParts, InUse
  <1>3. RequestParts'
    BY SameShape DEF RequestParts, SyncWaited, InFlight, InRing
  <1>4. QED
    BY <1>2, <1>3

\* Every step keeps the invariant of the device table.
LEMMA TableStep ==
    ASSUME DeviceInv, MessageInv', [Next]_vars
    PROVE  DeviceInv'
  <1> SUFFICES RequestParts' /\ SlotParts'
    BY DEF DeviceInv, RequestParts, SlotParts
  <1>1. CASE xpdk_init_opts
    BY <1>1, InitSlots
  <1>2. ASSUME NEW c \in Clients, Calls(c)
        PROVE  RequestParts' /\ SlotParts'
    BY <1>2, CallsSlots
  <1>3. ASSUME NEW c \in Clients, CallStep(c)
        PROVE  RequestParts' /\ SlotParts'
    BY <1>3, SendSlots, SendBusySlots, ReturnSyncSlots, CleanupSlots DEF CallStep
  <1>4. CASE xpdk_msg_process_poller
    BY <1>4, PollerSlots
  <1>5. CASE PollerBreak \/ HandlerFinish \/ SpdkThreadExit
    BY <1>5, SameDevices
       DEF PollerBreak, HandlerFinish, FinishWait, SpdkThreadExit, msgVars, devVars,
           appVars, lifeVars
  <1>6. ASSUME NEW m \in Msgs, BdevCompletes(m)
        PROVE  RequestParts' /\ SlotParts'
    BY <1>6, BdevSlots
  <1>7. ASSUME NEW fd \in Fds, BdevUnmaps(fd)
        PROVE  RequestParts' /\ SlotParts'
    BY <1>7, SameDevices DEF BdevUnmaps, UnmapDone, msgVars, appVars, lifeVars
  <1>8. CASE UNCHANGED vars
    BY <1>8, SameDevices DEF vars, msgVars, devVars, appVars, lifeVars
  <1>9. QED
    BY <1>1, <1>2, <1>3, <1>4, <1>5, <1>6, <1>7, <1>8 DEF Next, SpdkThread

\* At first the table is empty.
LEMMA TableInit ==
    ASSUME Init, MessageInv
    PROVE  DeviceInv
  <1>1. /\ ring = <<>> /\ held = {}
        /\ \A m \in Msgs : pending[m] = "none" /\ ~req[m].callback
        /\ \A fd \in Fds : ~devices[fd].in_use /\ ~devices[fd].desc /\ ~devices[fd].channel
        /\ \A c \in Clients : pc[c] = "idle"
    BY DEF Init, MsgInit, DeviceInit, Blank, FreeSlot
  <1>2. RequestShape /\ SyncWaited
    BY <1>1, SMTT(30) DEF RequestShape, SyncWaited, InFlight, InRing
  <1>3. FdTable
    BY <1>1 DEF FdTable, HeldIsOpen, OpeningOwnsSlot, FreeSlotIsEmpty, Opening
  <1>4. ClosingOwnsSlot /\ SlotsOwned /\ NothingHeld
    BY <1>1 DEF ClosingOwnsSlot, SlotsOwned, NothingHeld, Occupied, ToClose, Closing
  <1>5. QED
    BY <1>2, <1>3, <1>4 DEF DeviceInv

=============================================================================
