---------------------------- MODULE XpdkIoProof ----------------------------
(***************************************************************************)
(* Synchronous and asynchronous I/O on the SPDK thread.  For every number  *)
(* of threads, messages and DMA buffers, in both polling modes and however *)
(* deep the poller nests: a completion finds the handler that waits for it *)
(* (SyncContextAlive), no DMA buffer is freed early, freed twice or shared *)
(* (BufferSafe), none is lost unless an I/O fails (NoBufferLeak), and an   *)
(* aligned read that reports success has filled its caller's buffer        *)
(* (SyncReadDelivers, AsyncReadDelivers).                                  *)
(*                                                                         *)
(* The inductive invariant is IoInv.  It adds what a waiting handler and   *)
(* its message know of each other (FrameShape): the handler's stack frame  *)
(* and msg->ctx name the same DMA buffer, which is why the handler and the *)
(* completion callback agree on who frees it.                              *)
(***************************************************************************)
EXTENDS XpdkHandlerProof

\* Most leaves are first-order reasoning about sets and functions.
USE ZenonT(30)

(***************************************************************************)
(* The stack.  A step of the SPDK thread changes at most one frame: the    *)
(* one on top, or the one above it.                                        *)
(***************************************************************************)
OnlyFrame(p) ==
    \A i \in Nat \ {p} :
      /\ i \in DOMAIN stack' <=> i \in DOMAIN stack
      /\ i \in DOMAIN stack => stack'[i] = stack[i]

\* A poller invocation between two messages, in the stack before and after the step.
IdleBefore(p) == p \in DOMAIN stack => stack[p].msg = NoMsg

IdleAfter(p) ==
    p \in DOMAIN stack' => /\ stack'[p].msg = NoMsg /\ stack'[p].buffer = NoMsg
                           /\ ~stack'[p].done

\* The stack is a sequence of frames.
LEMMA StackFrames ==
    ASSUME TypeInv
    PROVE  /\ stack \in Seq(Frame) /\ Len(stack) \in Nat /\ DOMAIN stack = 1 .. Len(stack)
           /\ \A i \in DOMAIN stack : stack[i] \in Frame
  <1>1. stack \in Seq(Frame)
    BY DEF TypeInv, TypeOK, IoTypeOK
  <1>2. QED
    BY <1>1, SeqElements

\* The new top of the stack is the frame that changes.
LEMMA TopFrame ==
    ASSUME TypeInv, NEW s \in Seq(Frame), NEW p \in Nat \ {0}, Len(s) = p - 1,
           Len(stack) \in {p - 1, p}, \A i \in 1 .. p - 1 : s[i] = stack[i],
           \/ stack' = s
           \/ \E f \in Frame : stack' = Append(s, f)
    PROVE  OnlyFrame(p)
  <1>1. DOMAIN stack = 1 .. Len(stack) /\ DOMAIN s = 1 .. p - 1
    BY StackFrames, SeqElements
  <1>2. \A i \in Nat \ {p} : i \in DOMAIN stack <=> i \in 1 .. p - 1
    <2>1. CASE Len(stack) = p - 1
      BY <1>1, <2>1
    <2>2. CASE Len(stack) = p
      BY <1>1, <2>2, SMTT(30)
    <2>3. QED
      BY <2>1, <2>2
  <1>3. CASE stack' = s
    BY <1>2, <1>1, <1>3 DEF OnlyFrame
  <1>4. ASSUME NEW f \in Frame, stack' = Append(s, f)
        PROVE  OnlyFrame(p)
    <2>1. /\ Append(s, f) \in Seq(Frame) /\ Len(Append(s, f)) = p
          /\ \A i \in 1 .. p - 1 : Append(s, f)[i] = s[i]
      BY AppendElements, SMTT(30)
    <2>2. DOMAIN stack' = 1 .. p
      BY <1>4, <2>1, SeqElements
    <2>3. QED
      BY <1>2, <1>4, <2>1, <2>2, SMTT(30) DEF OnlyFrame
  <1>5. QED
    BY <1>3, <1>4

\* Under the running invocation the stack is as it was.
LEMMA BelowTop ==
    ASSUME TypeInv
    PROVE  \E p \in Nat \ {0} :
             /\ Below \in Seq(Frame) /\ Len(Below) = p - 1 /\ Len(stack) \in {p - 1, p}
             /\ \A i \in 1 .. p - 1 : Below[i] = stack[i]
             /\ IdleBefore(p)
  <1>1. CASE InLoop
    <2>1. stack # <<>> /\ Below = Popped /\ stack[Len(stack)].msg = NoMsg
      BY <1>1 DEF InLoop, Below, Top
    <2>2. /\ Len(stack) \in Nat \ {0} /\ Popped \in Seq(Frame) /\ Len(Popped) = Len(stack) - 1
          /\ \A i \in 1 .. Len(stack) - 1 : Popped[i] = stack[i]
      BY <2>1, StackFrames, PoppedFrames
    <2>3. QED
      BY <2>1, <2>2 DEF IdleBefore
  <1>2. CASE ~InLoop
    <2>1. Below = stack /\ Len(stack) + 1 \in Nat \ {0} /\ Len(stack) + 1 \notin DOMAIN stack
      BY <1>2, StackFrames, SMTT(30) DEF Below
    <2>2. /\ Below \in Seq(Frame) /\ Len(Below) = (Len(stack) + 1) - 1
          /\ Len(stack) = (Len(stack) + 1) - 1 /\ IdleBefore(Len(stack) + 1)
      BY <2>1, StackFrames, SMTT(30) DEF IdleBefore
    <2>3. QED
      BY <2>1, <2>2
  <1>3. QED
    BY <1>1, <1>2

\* A handler that returns leaves a poller invocation in its loop, or none.
LEMMA ReturnedFrame ==
    ASSUME TypeInv, Returned \/ stack' = Below
    PROVE  \E p \in Nat : OnlyFrame(p) /\ IdleBefore(p) /\ IdleAfter(p)
  <1>1. PICK p \in Nat \ {0} :
             /\ Below \in Seq(Frame) /\ Len(Below) = p - 1 /\ Len(stack) \in {p - 1, p}
             /\ \A i \in 1 .. p - 1 : Below[i] = stack[i]
             /\ IdleBefore(p)
    BY BelowTop
  <1>2. CASE stack' = Below
    <2>1. OnlyFrame(p)
      BY <1>1, <1>2, TopFrame
    <2>2. p \notin DOMAIN stack'
      BY <1>1, <1>2, SeqElements, SMTT(30)
    <2>3. QED
      BY <1>1, <2>1, <2>2 DEF IdleAfter
  <1>3. CASE stack' = Append(Below, Loop(Quota - 1)) /\ Quota # 1
    <2>1. Quota \in 1 .. MaxBatch
      BY StackFrames, QuotaRange DEF TypeInv
    <2>2. Loop(Quota - 1) \in Frame
      BY IoAssumption, <1>3, <2>1, SMTT(30) DEF Loop, Frame
    <2>3. OnlyFrame(p)
      BY <1>1, <1>3, <2>2, TopFrame
    <2>4. stack'[p] = Loop(Quota - 1)
      BY <1>1, <1>3, <2>2, AppendElements, SMTT(30)
    <2>5. QED
      BY <1>1, <2>3, <2>4, SMTT(30) DEF IdleAfter, Loop
  <1>4. QED
    BY <1>2, <1>3 DEF Returned

\* A handler that waits has its frame on top.
LEMMA WaitsFrame ==
    ASSUME TypeInv, NEW m \in Msgs, NEW b \in Bufs \cup {NoMsg},
           req[m].type \in {"READ", "WRITE", "FLUSH"}, Waits(m, b)
    PROVE  \E p \in Nat :
             /\ OnlyFrame(p) /\ IdleBefore(p) /\ p \in DOMAIN stack'
             /\ stack'[p].msg = m /\ stack'[p].type = req[m].type /\ stack'[p].buffer = b
             /\ ~stack'[p].done
  <1> DEFINE f == [quota |-> Quota - 1, msg |-> m, type |-> req[m].type,
                   buffer |-> b, done |-> FALSE, ok |-> FALSE]
  <1>1. PICK p \in Nat \ {0} :
             /\ Below \in Seq(Frame) /\ Len(Below) = p - 1 /\ Len(stack) \in {p - 1, p}
             /\ \A i \in 1 .. p - 1 : Below[i] = stack[i]
             /\ IdleBefore(p)
    BY BelowTop
  <1>2. f \in Frame
    BY IoAssumption, MsgAssumption, StackFrames, QuotaRange, SMTT(30) DEF Frame, TypeInv
  <1>3. stack' = Append(Below, f)
    BY DEF Waits
  <1>4. f.msg = m /\ f.type = req[m].type /\ f.buffer = b /\ ~f.done
    OBVIOUS
  <1> HIDE DEF f
  <1>5. OnlyFrame(p)
    BY <1>1, <1>2, <1>3, TopFrame
  <1>6. stack'[p] = f /\ DOMAIN stack' = 1 .. p
    BY <1>1, <1>2, <1>3, AppendElements, SeqElements, SMTT(30)
  <1>7. QED
    BY <1>1, <1>4, <1>5, <1>6, SMTT(30)

\* A handler that has waited leaves its invocation in its loop, or none.
LEMMA FinishFrame ==
    ASSUME TypeInv, FinishWait
    PROVE  \E p \in Nat :
             /\ OnlyFrame(p) /\ IdleAfter(p)
             /\ p \in DOMAIN stack /\ stack[p] = Top /\ stack[p].msg # NoMsg /\ stack[p].done
  <1> DEFINE p == Len(stack)
  <1>1. stack # <<>> /\ Top.msg # NoMsg /\ Top.done
        /\ stack' = IF Top.quota = 0 THEN Popped ELSE Append(Popped, Loop(Top.quota))
    BY DEF FinishWait, InWait
  <1>2. /\ p \in Nat \ {0} /\ Popped \in Seq(Frame) /\ Len(Popped) = p - 1
        /\ \A i \in 1 .. p - 1 : Popped[i] = stack[i]
        /\ Top \in Frame /\ Top = stack[p]
    BY <1>1, StackFrames, PoppedFrames DEF Top
  <1>3. p \in DOMAIN stack
    BY <1>2, StackFrames, SMTT(30)
  <1>4. CASE stack' = Popped
    <2>1. OnlyFrame(p)
      BY <1>2, <1>4, TopFrame
    <2>2. p \notin DOMAIN stack'
      BY <1>2, <1>4, SeqElements, SMTT(30)
    <2>3. QED
      BY <1>1, <1>2, <1>3, <2>1, <2>2 DEF IdleAfter
  <1>5. CASE stack' = Append(Popped, Loop(Top.quota))
    <2>1. Loop(Top.quota) \in Frame
      BY <1>2 DEF Loop, Frame
    <2>2. OnlyFrame(p)
      BY <1>2, <1>5, <2>1, TopFrame
    <2>3. stack'[p] = Loop(Top.quota)
      BY <1>2, <1>5, <2>1, AppendElements, SMTT(30)
    <2>4. IdleAfter(p)
      BY <2>3, SMTT(30) DEF IdleAfter, Loop
    <2>5. QED
      BY <1>1, <1>2, <1>3, <2>2, <2>4
  <1>6. QED
    BY <1>1, <1>4, <1>5

(***************************************************************************)
(* DMA buffers.  The parts of the invariant that are about them.           *)
(***************************************************************************)
BufferParts ==
    /\ SyncContextAlive /\ BufferSafe /\ FrameShape /\ BufferUsers
    /\ "io" \notin Faults =>
         NoBufferLeak /\ \A i \in DOMAIN stack : stack[i].done => stack[i].ok

\* The waiting handlers are the same; poller invocations in their loop do not matter.
SameFrames ==
    /\ \A i \in DOMAIN stack :
         stack[i].msg # NoMsg => i \in DOMAIN stack' /\ stack'[i] = stack[i]
    /\ \A i \in DOMAIN stack' :
         IF stack'[i].msg # NoMsg THEN i \in DOMAIN stack /\ stack'[i] = stack[i]
         ELSE /\ stack'[i].buffer = NoMsg
              /\ stack'[i].done => i \in DOMAIN stack /\ stack'[i] = stack[i]

\* A step that changes one frame, in which no handler waits before or after.
LEMMA IdleFrames ==
    ASSUME TypeInv, TypeInv', FrameShape, NEW p \in Nat, OnlyFrame(p), IdleBefore(p), IdleAfter(p)
    PROVE  SameFrames
  <1>1. DOMAIN stack \subseteq Nat /\ DOMAIN stack' \subseteq Nat
    <2>1. stack' \in Seq(Frame)
      BY DEF TypeInv, TypeOK, IoTypeOK
    <2>2. QED
      BY <2>1, StackFrames, SeqElements, SMTT(30)
  <1>2. ASSUME NEW i \in DOMAIN stack, stack[i].msg # NoMsg
        PROVE  i \in DOMAIN stack' /\ stack'[i] = stack[i]
    BY <1>1, <1>2 DEF OnlyFrame, IdleBefore
  <1>3. ASSUME NEW i \in DOMAIN stack'
        PROVE  IF stack'[i].msg # NoMsg THEN i \in DOMAIN stack /\ stack'[i] = stack[i]
               ELSE /\ stack'[i].buffer = NoMsg
                    /\ stack'[i].done => i \in DOMAIN stack /\ stack'[i] = stack[i]
    <2>1. CASE i = p
      BY <2>1 DEF IdleAfter
    <2>2. CASE i # p
      BY <1>1, <2>2, SMTT(30) DEF OnlyFrame, FrameShape
    <2>3. QED
      BY <2>1, <2>2
  <1>4. QED
    BY <1>2, <1>3 DEF SameFrames

\* A poller that returns, or goes on, leaves the waiting handlers alone.
LEMMA ReturnedSame ==
    ASSUME TypeInv, TypeInv', FrameShape,
           Returned \/ stack' = Below \/ stack' = stack
    PROVE  SameFrames
  <1>1. CASE stack' = stack
    BY <1>1 DEF SameFrames, FrameShape
  <1>2. CASE Returned \/ stack' = Below
    <2>1. PICK p \in Nat : OnlyFrame(p) /\ IdleBefore(p) /\ IdleAfter(p)
      BY <1>2, ReturnedFrame
    <2>2. QED
      BY <2>1, IdleFrames
  <1>3. QED
    BY <1>1, <1>2

(***************************************************************************)
(* A step that submits and completes no I/O and leaves the handlers that   *)
(* wait where they are.                                                    *)
(***************************************************************************)
LEMMA SameBuffers ==
    ASSUME TypeInv, BufferParts, SameFrames, dma' = dma,
           \A m \in Msgs : /\ pending'[m] = "io" <=> pending[m] = "io"
                           /\ pending[m] = "io" => /\ ctx'[m] = ctx[m]
                                                   /\ req'[m].callback = req[m].callback
    PROVE  BufferParts'
  <1> USE DEF BufferParts, SameFrames
  <1>1. \A i \in DOMAIN stack : stack[i].msg \in Msgs \cup {NoMsg}
    BY StackFrames DEF Frame
  <1>2. \A m \in Msgs : UsedByIo(m)' <=> UsedByIo(m)
    BY DEF UsedByIo
  <1>3. \A i : i \in DOMAIN stack /\ WaitingFrame(i) <=> i \in DOMAIN stack' /\ WaitingFrame(i)'
    BY DEF WaitingFrame
  <1>4. NoMsg \notin Msgs
    BY MsgAssumption
  <1>5. SyncContextAlive'
    <2> SUFFICES ASSUME NEW m \in Msgs, pending'[m] = "io", ~req'[m].callback
                 PROVE  \E i \in DOMAIN stack' :
                          /\ stack'[i].msg = m /\ ~stack'[i].done
                          /\ \A j \in DOMAIN stack' :
                               stack'[j].msg = m /\ ~stack'[j].done => j = i
      BY DEF SyncContextAlive
    <2>1. PICK i \in DOMAIN stack :
            /\ stack[i].msg = m /\ ~stack[i].done
            /\ \A j \in DOMAIN stack : stack[j].msg = m /\ ~stack[j].done => j = i
      BY SMTT(30) DEF SyncContextAlive
    <2>2. QED
      BY <1>4, <2>1, SMTT(30)
  <1>6. \A i \in DOMAIN stack : \A b : b # NoMsg /\ stack[i].buffer = b =>
          stack[i].msg # NoMsg /\ i \in DOMAIN stack' /\ stack'[i] = stack[i]
    BY DEF FrameShape
  <1>7. \A i \in DOMAIN stack' : \A b : b # NoMsg /\ stack'[i].buffer = b =>
          stack'[i].msg # NoMsg /\ i \in DOMAIN stack /\ stack'[i] = stack[i]
    OBVIOUS
  <1>8. BufferSafe'
    <2>1. ASSUME NEW i \in DOMAIN stack', stack'[i].buffer # NoMsg
          PROVE  /\ stack'[i].buffer \in dma'
                 /\ \A j \in DOMAIN stack' : stack'[j].buffer = stack'[i].buffer => j = i
      BY <1>7, <2>1, SMTT(30) DEF BufferSafe
    <2>2. ASSUME NEW m \in Msgs, UsedByIo(m)'
          PROVE  /\ ctx'[m] \in dma'
                 /\ \A n \in Msgs : UsedByIo(n)' /\ ctx'[n] = ctx'[m] => n = m
                 /\ \A i \in DOMAIN stack' : stack'[i].buffer = ctx'[m] => stack'[i].msg = m
      BY <1>2, <1>7, <2>2, SMTT(30) DEF BufferSafe, UsedByIo
    <2>3. QED
      BY <2>1, <2>2 DEF BufferSafe
  <1>9. FrameShape'
    <2> SUFFICES ASSUME NEW i \in DOMAIN stack'
                 PROVE  /\ stack'[i].msg = NoMsg => stack'[i].buffer = NoMsg
                        /\ stack'[i].type = "FLUSH" => stack'[i].buffer = NoMsg
                        /\ WaitingFrame(i)' =>
                             /\ pending'[stack'[i].msg] = "io"
                             /\ ~req'[stack'[i].msg].callback
                             /\ ctx'[stack'[i].msg] = stack'[i].buffer
                             /\ \A j \in DOMAIN stack' :
                                  WaitingFrame(j)' /\ stack'[j].msg = stack'[i].msg => j = i
      BY DEF FrameShape
    <2>1. CASE stack'[i].msg = NoMsg
      BY <2>1 DEF WaitingFrame
    <2>2. CASE stack'[i].msg # NoMsg
      <3>1. i \in DOMAIN stack /\ stack'[i] = stack[i] /\ stack[i].msg \in Msgs
        BY <1>1, <2>2
      <3>2. QED
        BY <1>3, <3>1, SMTT(30) DEF FrameShape, WaitingFrame
    <2>3. QED
      BY <2>1, <2>2
  <1>10. BufferUsers'
    BY <1>2, <1>7, SMTT(30) DEF BufferUsers, UsedByIo
  <1>11. ASSUME "io" \notin Faults
         PROVE  NoBufferLeak' /\ \A i \in DOMAIN stack' : stack'[i].done => stack'[i].ok
    <2>1. \A b : b # NoMsg /\ UsedByHandler(b) => UsedByHandler(b)'
      BY <1>6, SMTT(30) DEF UsedByHandler
    <2>2. NoMsg \notin dma
      BY IoAssumption DEF TypeInv, TypeOK, IoTypeOK
    <2>3. NoBufferLeak'
      BY <1>2, <1>11, <2>1, <2>2, SMTT(30) DEF NoBufferLeak, UsedByIo
    <2>4. QED
      BY <1>11, <2>3
  <1>12. QED
    BY <1>5, <1>8, <1>9, <1>10, <1>11

(***************************************************************************)
(* An I/O is submitted.  Its buffer b, if it has one, is fresh; if it is   *)
(* synchronous, its handler waits in frame p with the same buffer.         *)
(***************************************************************************)
Submits(m, b) ==
    /\ pending[m] # "io" /\ pending'[m] = "io" /\ ctx'[m] = b /\ req' = req
    /\ \A n \in Msgs \ {m} : pending'[n] = pending[n] /\ ctx'[n] = ctx[n]
    /\ IF b = NoMsg THEN dma' = dma ELSE b \notin dma /\ dma' = dma \cup {b}

\* A DMA buffer that is not allocated is known to nobody.
LEMMA FreshBuffer ==
    ASSUME TypeInv, BufferParts, NEW m \in Msgs, NEW b, b # NoMsg, b \notin dma
    PROVE  /\ \A i \in DOMAIN stack : stack[i].buffer # b
           /\ \A n \in Msgs : UsedByIo(n) => ctx[n] # b
  BY SMTT(30) DEF BufferParts, BufferSafe

\* An asynchronous request is submitted: msg->ctx has its DMA buffer.
LEMMA SubmitAsync ==
    ASSUME TypeInv, BufferParts, NEW m \in Msgs, NEW b \in Bufs \cup {NoMsg},
           Submits(m, b), req[m].callback, SameFrames
    PROVE  BufferParts'
  <1> USE DEF BufferParts
  <1>1. \A i \in DOMAIN stack : stack[i].msg \in Msgs \cup {NoMsg}
    BY StackFrames DEF Frame
  <1>2. /\ \A n \in Msgs \ {m} : UsedByIo(n)' <=> UsedByIo(n)
        /\ UsedByIo(m)' <=> b # NoMsg
        /\ ~UsedByIo(m)
    BY DEF UsedByIo, Submits
  <1>3. \A i : i \in DOMAIN stack /\ WaitingFrame(i) <=> i \in DOMAIN stack' /\ WaitingFrame(i)'
    BY DEF WaitingFrame, SameFrames
  <1>4. \A i \in DOMAIN stack' : \A e : e # NoMsg /\ stack'[i].buffer = e =>
          stack'[i].msg # NoMsg /\ i \in DOMAIN stack /\ stack'[i] = stack[i]
    BY DEF SameFrames
  <1>5. SyncContextAlive'
    <2> SUFFICES ASSUME NEW n \in Msgs \ {m}, pending[n] = "io", ~req[n].callback
                 PROVE  \E i \in DOMAIN stack' :
                          /\ stack'[i].msg = n /\ ~stack'[i].done
                          /\ \A j \in DOMAIN stack' :
                               stack'[j].msg = n /\ ~stack'[j].done => j = i
      BY SMTT(30) DEF SyncContextAlive, Submits
    <2>1. PICK i \in DOMAIN stack :
            /\ stack[i].msg = n /\ ~stack[i].done
            /\ \A j \in DOMAIN stack : stack[j].msg = n /\ ~stack[j].done => j = i
      BY DEF SyncContextAlive
    <2>2. QED
      BY <2>1, MsgAssumption, SMTT(30) DEF SameFrames
  <1>6. BufferSafe'
    <2>1. ASSUME NEW i \in DOMAIN stack', stack'[i].buffer # NoMsg
          PROVE  /\ stack'[i].buffer \in dma'
                 /\ \A j \in DOMAIN stack' : stack'[j].buffer = stack'[i].buffer => j = i
      BY <1>4, <2>1, SMTT(30) DEF BufferSafe, Submits
    <2>2. ASSUME NEW n \in Msgs, UsedByIo(n)'
          PROVE  /\ ctx'[n] \in dma'
                 /\ \A k \in Msgs : UsedByIo(k)' /\ ctx'[k] = ctx'[n] => k = n
                 /\ \A i \in DOMAIN stack' : stack'[i].buffer = ctx'[n] => stack'[i].msg = n
      <3>1. CASE n = m
        BY <1>2, <1>4, <2>2, <3>1, FreshBuffer, SMTT(30) DEF Submits
      <3>2. CASE n # m
        <4>1. UsedByIo(n) /\ ctx'[n] = ctx[n] /\ ctx[n] \in dma /\ ctx[n] # NoMsg
          BY <1>2, <2>2, <3>2 DEF BufferSafe, Submits, UsedByIo
        <4>2. \A i \in DOMAIN stack' : stack'[i].buffer = ctx'[n] => stack'[i].msg = n
          BY <1>4, <4>1, SMTT(30) DEF BufferSafe
        <4>3. \A k \in Msgs : UsedByIo(k)' /\ ctx'[k] = ctx'[n] => k = n
          BY <1>2, <4>1 DEF BufferSafe, Submits
        <4>4. QED
          BY <4>1, <4>2, <4>3, SMTT(30) DEF Submits
      <3>3. QED
        BY <3>1, <3>2
    <2>3. QED
      BY <2>1, <2>2 DEF BufferSafe
  <1>7. FrameShape'
    <2> SUFFICES ASSUME NEW i \in DOMAIN stack'
                 PROVE  /\ stack'[i].msg = NoMsg => stack'[i].buffer = NoMsg
                        /\ stack'[i].type = "FLUSH" => stack'[i].buffer = NoMsg
                        /\ WaitingFrame(i)' =>
                             /\ pending'[stack'[i].msg] = "io"
                             /\ ~req'[stack'[i].msg].callback
                             /\ ctx'[stack'[i].msg] = stack'[i].buffer
                             /\ \A j \in DOMAIN stack' :
                                  WaitingFrame(j)' /\ stack'[j].msg = stack'[i].msg => j = i
      BY DEF FrameShape
    <2>1. CASE stack'[i].msg = NoMsg
      BY <2>1 DEF WaitingFrame, SameFrames
    <2>2. CASE stack'[i].msg # NoMsg
      <3>1. i \in DOMAIN stack /\ stack'[i] = stack[i] /\ stack[i].msg \in Msgs
        BY <1>1, <2>2 DEF SameFrames
      <3>2. WaitingFrame(i) => stack[i].msg # m
        BY <3>1 DEF FrameShape, Submits
      <3>3. \A j \in DOMAIN stack' : WaitingFrame(j)' => j \in DOMAIN stack /\ stack'[j] = stack[j]
        BY DEF SameFrames, WaitingFrame
      <3>4. QED
        BY <1>3, <3>1, <3>2, <3>3, SMTT(30) DEF FrameShape, Submits, WaitingFrame
    <2>3. QED
      BY <2>1, <2>2
  <1>8. BufferUsers'
    <2> SUFFICES ASSUME NEW n \in Msgs, UsedByIo(n)', NEW i \in DOMAIN stack',
                        stack'[i].buffer = ctx'[n]
                 PROVE  stack'[i].msg = n /\ ~stack'[i].done
      BY DEF BufferUsers
    <2>1. ctx'[n] # NoMsg /\ i \in DOMAIN stack /\ stack'[i] = stack[i]
      BY <1>4 DEF UsedByIo
    <2>2. n # m
      BY <1>2, <2>1, FreshBuffer, SMTT(30) DEF Submits
    <2>3. QED
      BY <1>2, <2>1, <2>2, SMTT(30) DEF BufferUsers, Submits
  <1>9. ASSUME "io" \notin Faults
        PROVE  NoBufferLeak' /\ \A i \in DOMAIN stack' : stack'[i].done => stack'[i].ok
    <2>1. \A e \in dma : UsedByHandler(e) => UsedByHandler(e)'
      <3>1. \A e \in dma, i \in DOMAIN stack : stack[i].buffer = e => stack[i].msg # NoMsg
        BY IoAssumption, SMTT(30) DEF FrameShape, TypeInv, TypeOK, IoTypeOK
      <3>2. QED
        BY <3>1 DEF UsedByHandler, SameFrames
    <2>2. NoBufferLeak'
      BY <1>2, <1>9, <2>1 DEF NoBufferLeak, Submits
    <2>3. QED
      BY <1>9, <2>2 DEF SameFrames
  <1>10. QED
    BY <1>5, <1>6, <1>7, <1>8, <1>9

\* A synchronous one is: the frame of its handler has it too.
LEMMA SubmitSync ==
    ASSUME TypeInv, TypeInv', BufferParts, NEW m \in Msgs, NEW b \in Bufs \cup {NoMsg},
           Submits(m, b), ~req[m].callback, req[m].type = "FLUSH" => b = NoMsg,
           NEW p \in Nat, OnlyFrame(p), IdleBefore(p), p \in DOMAIN stack',
           stack'[p].msg = m, stack'[p].type = req[m].type, stack'[p].buffer = b, ~stack'[p].done
    PROVE  BufferParts'
  <1> USE DEF BufferParts
  <1>1. \A i \in DOMAIN stack : stack[i].msg \in Msgs \cup {NoMsg}
    BY StackFrames DEF Frame
  <1>2. /\ \A n \in Msgs \ {m} : UsedByIo(n)' <=> UsedByIo(n)
        /\ UsedByIo(m)' <=> b # NoMsg
        /\ ~UsedByIo(m)
    BY DEF UsedByIo, Submits
  <1>3. /\ \A i \in DOMAIN stack' : i # p => i \in DOMAIN stack /\ stack'[i] = stack[i]
        /\ \A i \in DOMAIN stack : stack[i].msg # NoMsg =>
             i # p /\ i \in DOMAIN stack' /\ stack'[i] = stack[i]
    <2>1. DOMAIN stack \subseteq Nat /\ DOMAIN stack' \subseteq Nat
      <3>1. stack' \in Seq(Frame)
        BY DEF TypeInv, TypeOK, IoTypeOK
      <3>2. QED
        BY <3>1, StackFrames, SeqElements, SMTT(30)
    <2>2. QED
      BY <2>1 DEF OnlyFrame, IdleBefore
  <1>4. \A i \in DOMAIN stack : WaitingFrame(i) => stack[i].msg # m
    BY DEF FrameShape, Submits
  <1>5. \A i \in DOMAIN stack : stack[i].buffer # NoMsg => stack[i].buffer # b
    BY FreshBuffer DEF Submits, BufferSafe
  <1>6. NoMsg \notin Msgs
    BY MsgAssumption
  <1>7. SyncContextAlive'
    <2> SUFFICES ASSUME NEW n \in Msgs, pending'[n] = "io", ~req'[n].callback
                 PROVE  \E i \in DOMAIN stack' :
                          /\ stack'[i].msg = n /\ ~stack'[i].done
                          /\ \A j \in DOMAIN stack' :
                               stack'[j].msg = n /\ ~stack'[j].done => j = i
      BY DEF SyncContextAlive
    <2>1. CASE n = m
      BY <1>3, <1>4, <1>6, <2>1, SMTT(30) DEF WaitingFrame
    <2>2. CASE n # m
      <3>1. PICK i \in DOMAIN stack :
              /\ stack[i].msg = n /\ ~stack[i].done
              /\ \A j \in DOMAIN stack : stack[j].msg = n /\ ~stack[j].done => j = i
        BY <2>2 DEF SyncContextAlive, Submits
      <3>2. QED
        BY <1>3, <1>6, <2>2, <3>1, SMTT(30)
    <2>3. QED
      BY <2>1, <2>2
  <1>8. BufferSafe'
    <2>1. ASSUME NEW i \in DOMAIN stack', stack'[i].buffer # NoMsg
          PROVE  /\ stack'[i].buffer \in dma'
                 /\ \A j \in DOMAIN stack' : stack'[j].buffer = stack'[i].buffer => j = i
      BY <1>3, <1>5, <2>1, SMTT(30) DEF BufferSafe, Submits
    <2>2. ASSUME NEW n \in Msgs, UsedByIo(n)'
          PROVE  /\ ctx'[n] \in dma'
                 /\ \A k \in Msgs : UsedByIo(k)' /\ ctx'[k] = ctx'[n] => k = n
                 /\ \A i \in DOMAIN stack' : stack'[i].buffer = ctx'[n] => stack'[i].msg = n
      <3>1. CASE n = m
        BY <1>2, <1>3, <1>5, <2>2, <3>1, FreshBuffer, SMTT(30) DEF Submits
      <3>2. CASE n # m
        <4>1. UsedByIo(n) /\ ctx'[n] = ctx[n] /\ ctx[n] \in dma /\ ctx[n] # NoMsg
          BY <1>2, <2>2, <3>2 DEF BufferSafe, Submits, UsedByIo
        <4>2. ctx[n] # b
          BY <4>1 DEF Submits
        <4>3. \A i \in DOMAIN stack' : stack'[i].buffer = ctx'[n] => stack'[i].msg = n
          BY <1>3, <4>1, <4>2, SMTT(30) DEF BufferSafe
        <4>4. \A k \in Msgs : UsedByIo(k)' /\ ctx'[k] = ctx'[n] => k = n
          BY <1>2, <4>1, <4>2, SMTT(30) DEF BufferSafe, Submits
        <4>5. QED
          BY <4>1, <4>3, <4>4, SMTT(30) DEF Submits
      <3>3. QED
        BY <3>1, <3>2
    <2>3. QED
      BY <2>1, <2>2 DEF BufferSafe
  <1>9. FrameShape'
    <2> SUFFICES ASSUME NEW i \in DOMAIN stack'
                 PROVE  /\ stack'[i].msg = NoMsg => stack'[i].buffer = NoMsg
                        /\ stack'[i].type = "FLUSH" => stack'[i].buffer = NoMsg
                        /\ WaitingFrame(i)' =>
                             /\ pending'[stack'[i].msg] = "io"
                             /\ ~req'[stack'[i].msg].callback
                             /\ ctx'[stack'[i].msg] = stack'[i].buffer
                             /\ \A j \in DOMAIN stack' :
                                  WaitingFrame(j)' /\ stack'[j].msg = stack'[i].msg => j = i
      BY DEF FrameShape
    <2>1. \A j \in DOMAIN stack' \ {p} : WaitingFrame(j)' => /\ WaitingFrame(j) /\ j \in DOMAIN stack
                                                             /\ stack'[j] = stack[j]
                                                             /\ stack[j].msg \in Msgs \ {m}
      BY <1>1, <1>3, <1>4, SMTT(30) DEF WaitingFrame
    <2>2. CASE i = p
      BY <1>6, <2>1, <2>2 DEF Submits
    <2>3. CASE i # p
      BY <1>3, <2>1, <2>3, SMTT(30) DEF FrameShape, Submits
    <2>4. QED
      BY <2>2, <2>3
  <1>10. BufferUsers'
    <2> SUFFICES ASSUME NEW n \in Msgs, UsedByIo(n)', NEW i \in DOMAIN stack',
                        stack'[i].buffer = ctx'[n]
                 PROVE  stack'[i].msg = n /\ ~stack'[i].done
      BY DEF BufferUsers
    <2>1. ctx'[n] # NoMsg
      BY DEF UsedByIo
    <2>2. CASE n = m
      BY <1>3, <1>5, <2>1, <2>2, SMTT(30) DEF Submits
    <2>3. CASE n # m
      <3>1. UsedByIo(n) /\ ctx'[n] = ctx[n] /\ ctx[n] \in dma
        BY <1>2, <2>3 DEF BufferSafe, Submits
      <3>2. i # p
        BY <2>1, <3>1, SMTT(30) DEF Submits
      <3>3. QED
        BY <1>3, <3>1, <3>2, SMTT(30) DEF BufferUsers
    <2>4. QED
      BY <2>2, <2>3
  <1>11. ASSUME "io" \notin Faults
         PROVE  NoBufferLeak' /\ \A i \in DOMAIN stack' : stack'[i].done => stack'[i].ok
    <2>1. \A e \in dma : UsedByHandler(e) => UsedByHandler(e)'
      <3>1. \A e \in dma, i \in DOMAIN stack : stack[i].buffer = e => stack[i].msg # NoMsg
        BY IoAssumption, SMTT(30) DEF FrameShape, TypeInv, TypeOK, IoTypeOK
      <3>2. QED
        BY <1>3, <3>1 DEF UsedByHandler
    <2>2. NoBufferLeak'
      BY <1>2, <1>11, <2>1, SMTT(30) DEF NoBufferLeak, Submits
    <2>3. QED
      BY <1>3, <1>11, <2>2
  <1>12. QED
    BY <1>7, <1>8, <1>9, <1>10, <1>11

(***************************************************************************)
(* sync_io_completion_cb marks the one handler that waits for the message, *)
(* which keeps the buffer.                                                 *)
(***************************************************************************)
LEMMA SyncDone ==
    ASSUME TypeInv, BufferParts, NEW m \in Msgs, sync_io_completion_cb(m)
    PROVE  BufferParts'
  <1> USE DEF BufferParts
  <1>1. PICK success \in BOOLEAN :
          /\ "io" \notin Faults => success
          /\ stack' = [i \in DOMAIN stack |->
                         IF stack[i].msg = m /\ ~stack[i].done
                         THEN [stack[i] EXCEPT !.done = TRUE, !.ok = success]
                         ELSE stack[i]]
    <2>1. PICK success \in {TRUE} \cup (IF "io" \in Faults THEN {FALSE} ELSE {}) :
            stack' = [i \in DOMAIN stack |->
                         IF stack[i].msg = m /\ ~stack[i].done
                         THEN [stack[i] EXCEPT !.done = TRUE, !.ok = success]
                         ELSE stack[i]]
      BY DEF sync_io_completion_cb
    <2>2. success \in BOOLEAN /\ ("io" \notin Faults => success)
      OBVIOUS
    <2>3. QED
      BY <2>1, <2>2
  <1>2. /\ pending[m] = "io" /\ ~req[m].callback /\ UNCHANGED <<req, ctx, dma>>
        /\ pending' = [pending EXCEPT ![m] = "none"]
    BY DEF sync_io_completion_cb
  <1>3. pending'[m] = "none" /\ \A n \in Msgs \ {m} : pending'[n] = pending[n]
    BY <1>2 DEF TypeInv, TypeOK, DeviceTypeOK
  <1>4. DOMAIN stack' = DOMAIN stack
    BY <1>1
  <1>5. \A i \in DOMAIN stack : stack[i] \in Frame
    BY StackFrames
  <1>6. ASSUME NEW i \in DOMAIN stack
        PROVE  /\ stack'[i].msg = stack[i].msg /\ stack'[i].buffer = stack[i].buffer
               /\ stack'[i].type = stack[i].type
               /\ IF stack[i].msg = m /\ ~stack[i].done
                  THEN stack'[i].done /\ (stack'[i].ok = success) ELSE stack'[i] = stack[i]
    <2>1. CASE stack[i].msg = m /\ ~stack[i].done
      <3>1. stack'[i] = [stack[i] EXCEPT !.done = TRUE, !.ok = success]
        BY <1>1, <2>1
      <3>2. QED
        BY <1>5, <2>1, <3>1, SMTT(30) DEF Frame
    <2>2. CASE ~(stack[i].msg = m /\ ~stack[i].done)
      <3>1. stack'[i] = stack[i]
        BY <1>1, <2>2
      <3>2. QED
        BY <2>2, <3>1
    <2>3. QED
      BY <2>1, <2>2
  <1>7. \A i \in DOMAIN stack :
          WaitingFrame(i)' => /\ WaitingFrame(i) /\ stack[i].msg \in Msgs \ {m}
                              /\ stack'[i] = stack[i]
    BY <1>5, <1>6, MsgAssumption DEF WaitingFrame, Frame
  <1>8. \A n \in Msgs : UsedByIo(n)' => UsedByIo(n) /\ n # m
    BY <1>2, <1>3 DEF UsedByIo
  <1>9. SyncContextAlive'
    <2> SUFFICES ASSUME NEW n \in Msgs \ {m}, pending[n] = "io", ~req[n].callback
                 PROVE  \E i \in DOMAIN stack :
                          /\ stack'[i].msg = n /\ ~stack'[i].done
                          /\ \A j \in DOMAIN stack :
                               stack'[j].msg = n /\ ~stack'[j].done => j = i
      BY <1>2, <1>3, <1>4, SMTT(30) DEF SyncContextAlive
    <2>1. PICK i \in DOMAIN stack :
            /\ stack[i].msg = n /\ ~stack[i].done
            /\ \A j \in DOMAIN stack : stack[j].msg = n /\ ~stack[j].done => j = i
      BY DEF SyncContextAlive
    <2>2. QED
      BY <1>6, <2>1, SMTT(30)
  <1>10. BufferSafe'
    BY <1>2, <1>4, <1>6, <1>8, SMTT(30) DEF BufferSafe
  <1>11. FrameShape'
    <2>1. \A i \in DOMAIN stack : /\ stack'[i].msg = NoMsg => stack'[i].buffer = NoMsg
                                  /\ stack'[i].type = "FLUSH" => stack'[i].buffer = NoMsg
      BY <1>6, SMTT(30) DEF FrameShape
    <2>2. QED
      BY <1>2, <1>3, <1>4, <1>7, <2>1, SMTT(30) DEF FrameShape
  <1>12. BufferUsers'
    BY <1>2, <1>4, <1>6, <1>8, SMTT(30) DEF BufferUsers
  <1>13. ASSUME "io" \notin Faults
         PROVE  NoBufferLeak' /\ \A i \in DOMAIN stack' : stack'[i].done => stack'[i].ok
    <2>1. ASSUME NEW b \in dma
          PROVE  UsedByHandler(b)' \/ \E n \in Msgs : UsedByIo(n)' /\ ctx'[n] = b
      <3>1. CASE UsedByHandler(b)
        BY <1>4, <1>6, <3>1 DEF UsedByHandler
      <3>2. ASSUME NEW n \in Msgs, UsedByIo(n), ctx[n] = b
            PROVE  UsedByHandler(b)' \/ \E k \in Msgs : UsedByIo(k)' /\ ctx'[k] = b
        <4>1. CASE n # m
          BY <1>2, <1>3, <3>2, <4>1 DEF UsedByIo
        <4>2. CASE n = m
          <5>1. PICK i \in DOMAIN stack : stack[i].msg = m /\ ~stack[i].done
            BY <1>2 DEF SyncContextAlive
          <5>2. stack[i].buffer = b
            BY <3>2, <4>2, <5>1, MsgAssumption DEF FrameShape, WaitingFrame
          <5>3. QED
            BY <1>4, <1>6, <5>2 DEF UsedByHandler
        <4>3. QED
          BY <4>1, <4>2
      <3>3. QED
        BY <1>13, <3>1, <3>2 DEF NoBufferLeak
    <2>2. NoBufferLeak'
      BY <1>2, <2>1 DEF NoBufferLeak
    <2>3. ASSUME NEW i \in DOMAIN stack', stack'[i].done
          PROVE  stack'[i].ok
      <3>1. i \in DOMAIN stack /\ success
        BY <1>1, <1>4, <1>13
      <3>2. stack[i].done => stack[i].ok
        BY <1>13, <3>1
      <3>3. CASE stack[i].msg = m /\ ~stack[i].done
        BY <1>6, <3>1, <3>3
      <3>4. CASE ~(stack[i].msg = m /\ ~stack[i].done)
        BY <1>6, <2>3, <3>1, <3>2, <3>4
      <3>5. QED
        BY <3>3, <3>4
    <2>4. QED
      BY <2>2, <2>3
  <1>14. QED
    BY <1>9, <1>10, <1>11, <1>12, <1>13

(***************************************************************************)
(* async_io_completion_cb frees the DMA buffer: no handler has it, since   *)
(* only the handler of a synchronous I/O shares a buffer with its message. *)
(***************************************************************************)
LEMMA AsyncDone ==
    ASSUME TypeInv, BufferParts, NEW m \in Msgs, async_io_completion_cb(m)
    PROVE  BufferParts'
  <1> USE DEF BufferParts
  <1>1. /\ pending[m] = "io" /\ req[m].callback /\ UNCHANGED <<req, ctx, stack>>
        /\ dma' = dma \ {ctx[m]}
        /\ pending' = [pending EXCEPT ![m] = "none"]
    BY DEF async_io_completion_cb
  <1>2. pending'[m] = "none" /\ \A n \in Msgs \ {m} : pending'[n] = pending[n]
    BY <1>1 DEF TypeInv, TypeOK, DeviceTypeOK
  <1>3. \A n \in Msgs : UsedByIo(n)' <=> UsedByIo(n) /\ n # m
    BY <1>1, <1>2 DEF UsedByIo
  <1>4. \A i \in DOMAIN stack : WaitingFrame(i) => stack[i].msg # m
    BY <1>1 DEF FrameShape
  <1>5. \A i \in DOMAIN stack : stack[i].buffer # NoMsg => stack[i].buffer # ctx[m]
    <2> SUFFICES ASSUME NEW i \in DOMAIN stack, stack[i].buffer # NoMsg, stack[i].buffer = ctx[m]
                 PROVE  FALSE
      OBVIOUS
    <2>1. stack[i].msg = m /\ ~stack[i].done
      BY <1>1 DEF BufferUsers, UsedByIo
    <2>2. QED
      BY <1>4, <2>1, MsgAssumption DEF WaitingFrame
  <1>6. \A n \in Msgs : UsedByIo(n)' => ctx[n] # ctx[m]
    BY <1>1, <1>3 DEF BufferSafe, UsedByIo
  <1>7. SyncContextAlive'
    BY <1>1, <1>2, SMTT(30) DEF SyncContextAlive
  <1>8. BufferSafe'
    BY <1>1, <1>3, <1>5, <1>6 DEF BufferSafe
  <1>9. FrameShape'
    <2>1. \A i \in DOMAIN stack : stack[i].msg \in Msgs \cup {NoMsg}
      BY StackFrames DEF Frame
    <2>2. QED
      BY <1>1, <1>2, <1>4, <2>1, SMTT(30) DEF FrameShape, WaitingFrame
  <1>10. BufferUsers'
    BY <1>1, <1>3 DEF BufferUsers
  <1>11. ASSUME "io" \notin Faults
         PROVE  NoBufferLeak' /\ \A i \in DOMAIN stack' : stack'[i].done => stack'[i].ok
    BY <1>1, <1>3, <1>11 DEF NoBufferLeak, UsedByHandler
  <1>12. QED
    BY <1>7, <1>8, <1>9, <1>10, <1>11

(***************************************************************************)
(* A handler that has waited frees its buffer and leaves.  The I/O it      *)
(* waited for is over, so nobody else has the buffer.                      *)
(***************************************************************************)
LEMMA FinishBuffers ==
    ASSUME TypeInv, TypeInv', BufferParts, FinishWait
    PROVE  BufferParts'
  <1> USE DEF BufferParts
  <1>1. PICK p \in Nat :
          /\ OnlyFrame(p) /\ IdleAfter(p)
          /\ p \in DOMAIN stack /\ stack[p] = Top /\ stack[p].msg # NoMsg /\ stack[p].done
    BY FinishFrame
  <1>2. /\ UNCHANGED <<req, ctx, pending>>
        /\ dma' = dma \/ dma' = dma \ {stack[p].buffer}
        /\ \/ dma' = dma \ {stack[p].buffer}
           \/ stack[p].type = "READ" /\ (stack[p].buffer = NoMsg \/ ~stack[p].ok)
           \/ stack[p].type \notin {"READ", "WRITE"}
    BY <1>1 DEF FinishWait, msgVars, devVars
  <1>3. /\ \A i \in DOMAIN stack : i # p => i \in DOMAIN stack' /\ stack'[i] = stack[i]
        /\ \A i \in DOMAIN stack' :
             \/ i # p /\ i \in DOMAIN stack /\ stack'[i] = stack[i]
             \/ stack'[i].msg = NoMsg /\ stack'[i].buffer = NoMsg /\ ~stack'[i].done
    <2>1. DOMAIN stack \subseteq Nat /\ DOMAIN stack' \subseteq Nat
      <3>1. stack' \in Seq(Frame)
        BY DEF TypeInv, TypeOK, IoTypeOK
      <3>2. QED
        BY <3>1, StackFrames, SeqElements, SMTT(30)
    <2>2. QED
      BY <1>1, <2>1 DEF OnlyFrame, IdleAfter
  <1>4. \A n \in Msgs : UsedByIo(n)' <=> UsedByIo(n)
    BY <1>2 DEF UsedByIo
  <1>5. \A n \in Msgs : UsedByIo(n) => ctx[n] # stack[p].buffer
    BY <1>1 DEF BufferUsers
  <1>6. \A i \in DOMAIN stack : i # p /\ stack[i].buffer # NoMsg => stack[i].buffer # stack[p].buffer
    BY <1>1 DEF BufferSafe
  <1>7. SyncContextAlive'
    <2> SUFFICES ASSUME NEW n \in Msgs, pending[n] = "io", ~req[n].callback
                 PROVE  \E i \in DOMAIN stack' :
                          /\ stack'[i].msg = n /\ ~stack'[i].done
                          /\ \A j \in DOMAIN stack' :
                               stack'[j].msg = n /\ ~stack'[j].done => j = i
      BY <1>2 DEF SyncContextAlive
    <2>1. PICK i \in DOMAIN stack :
            /\ stack[i].msg = n /\ ~stack[i].done
            /\ \A j \in DOMAIN stack : stack[j].msg = n /\ ~stack[j].done => j = i
      BY DEF SyncContextAlive
    <2>2. QED
      BY <1>1, <1>3, <2>1, MsgAssumption, SMTT(30)
  <1>8. BufferSafe'
    <2>1. ASSUME NEW i \in DOMAIN stack', stack'[i].buffer # NoMsg
          PROVE  /\ stack'[i].buffer \in dma'
                 /\ \A j \in DOMAIN stack' : stack'[j].buffer = stack'[i].buffer => j = i
      BY <1>2, <1>3, <1>6, <2>1 DEF BufferSafe
    <2>2. ASSUME NEW n \in Msgs, UsedByIo(n)'
          PROVE  /\ ctx'[n] \in dma'
                 /\ \A k \in Msgs : UsedByIo(k)' /\ ctx'[k] = ctx'[n] => k = n
                 /\ \A i \in DOMAIN stack' : stack'[i].buffer = ctx'[n] => stack'[i].msg = n
      BY <1>2, <1>3, <1>4, <1>5, <2>2, SMTT(30) DEF BufferSafe, UsedByIo
    <2>3. QED
      BY <2>1, <2>2 DEF BufferSafe
  <1>9. FrameShape'
    <2>1. \A i \in DOMAIN stack' : WaitingFrame(i)' =>
            i \in DOMAIN stack /\ stack'[i] = stack[i] /\ WaitingFrame(i)
      BY <1>3 DEF WaitingFrame
    <2>2. \A i \in DOMAIN stack' : /\ stack'[i].msg = NoMsg => stack'[i].buffer = NoMsg
                                   /\ stack'[i].type = "FLUSH" => stack'[i].buffer = NoMsg
      BY <1>3 DEF FrameShape
    <2>3. QED
      BY <1>2, <2>1, <2>2, SMTT(30) DEF FrameShape
  <1>10. BufferUsers'
    BY <1>2, <1>3, <1>4, SMTT(30) DEF BufferUsers, UsedByIo
  <1>11. ASSUME "io" \notin Faults
         PROVE  NoBufferLeak' /\ \A i \in DOMAIN stack' : stack'[i].done => stack'[i].ok
    <2>1. stack[p].ok /\ NoMsg \notin dma
      BY <1>1, <1>11, IoAssumption DEF TypeInv, TypeOK, IoTypeOK
    <2>2. stack[p].type \in {"READ", "WRITE", "FLUSH"}
      BY <1>1, StackFrames DEF Frame
    <2>3. stack[p].buffer \notin dma'
      BY <1>1, <1>2, <2>1, <2>2, SMTT(30) DEF FrameShape
    <2>4. ASSUME NEW b \in dma'
          PROVE  UsedByHandler(b)' \/ \E n \in Msgs : UsedByIo(n)' /\ ctx'[n] = b
      <3>1. b \in dma /\ b # stack[p].buffer
        BY <1>2, <2>3
      <3>2. CASE UsedByHandler(b)
        BY <1>3, <3>1, <3>2 DEF UsedByHandler
      <3>3. QED
        BY <1>2, <1>4, <1>11, <3>1, <3>2 DEF NoBufferLeak
    <2>5. NoBufferLeak'
      BY <2>4 DEF NoBufferLeak
    <2>6. QED
      BY <1>3, <1>11, <2>5
  <1>12. QED
    BY <1>7, <1>8, <1>9, <1>10, <1>11

(***************************************************************************)
(* Reads, and the messages nobody has handled yet.                         *)
(***************************************************************************)
ReadParts == ReadBuffer /\ ReadFilled /\ ReadsAligned

\* The requests and the threads in calls are the same, and whoever sees a read newly
\* completed with success has its data.
LEMMA SameReads ==
    ASSUME ReadParts, UNCHANGED <<req, pc, cur>>, filled \subseteq filled',
           \A c \in Clients :
             /\ pc[c] = "wait" /\ completed'[cur[c]]
             /\ req[cur[c]].type = "READ" /\ req[cur[c]].aligned /\ status'[cur[c]] = "SUCCESS"
             => (completed[cur[c]] /\ status[cur[c]] = "SUCCESS") \/ c \in filled'
    PROVE  ReadParts'
  <1> USE DEF ReadParts
  <1>1. ReadBuffer' /\ ReadsAligned'
    BY DEF ReadBuffer, ReadsAligned
  <1>2. ReadFilled'
    BY DEF ReadFilled
  <1>3. QED
    BY <1>1, <1>2

\* Threads that leave or finish a call have nothing to lose.
LEMMA ThreadReads ==
    ASSUME ReadParts, UNCHANGED <<req, status, completed, filled>>,
           \A c \in Clients : pc'[c] \in {"send", "wait"} =>
             /\ pc[c] \in {"send", "wait"} /\ cur'[c] = cur[c]
             /\ pc'[c] = "wait" /\ pc[c] = "send" => ~completed[cur[c]]
    PROVE  ReadParts'
  <1> USE DEF ReadParts
  <1>1. ReadBuffer' /\ ReadsAligned'
    BY DEF ReadBuffer, ReadsAligned
  <1>2. ReadFilled'
    BY DEF ReadFilled
  <1>3. QED
    BY <1>1, <1>2

\* A message that was not handled yet has no DMA buffer, as before.
LEMMA SameFresh ==
    ASSUME FreshHasNoBuffer,
           \A n \in Msgs : InRing(n)' =>
             /\ ctx'[n] = ctx[n]
             /\ InRing(n) \/ \E c \in Clients : pc[c] = "send" /\ cur[c] = n,
           \A c \in Clients : pc'[c] = "send" =>
             /\ pc[c] = "send" /\ cur'[c] = cur[c] /\ ctx'[cur[c]] = ctx[cur[c]]
    PROVE  FreshHasNoBuffer'
  BY SMTT(30) DEF FreshHasNoBuffer

(***************************************************************************)
(* The calls of the application.                                           *)
(***************************************************************************)
\* A message in the pool is nowhere else.
LEMMA PoolMessage ==
    ASSUME MessageInv, NEW m \in pool
    PROVE  m \in Msgs /\ ~InRing(m) /\ pending[m] = "none" /\ \A d \in Clients : cur[d] # m
  <1>1. m \in Msgs /\ m # NoMsg
    BY MsgAssumption DEF MessageInv, TypeInv, TypeOK, MsgTypeOK
  <1>2. ~InRing(m)
    BY DEF InRing, MessageInv, OneOwner, RingOwnsMessage
  <1>3. pending[m] = "none"
    BY <1>1 DEF MessageInv, OneOwner, BdevOwnsMessage
  <1>4. ASSUME NEW d \in Clients
        PROVE  cur[d] # m
    BY <1>1, HoldsMessage DEF MessageInv, OneOwner, CallOwnsMessage
  <1>5. QED
    BY <1>1, <1>2, <1>3, <1>4

\* A call takes its message from the pool and starts without a DMA buffer.
LEMMA NewMessageIo ==
    ASSUME IoInv, MessageInv', NEW c \in Clients, NEW m \in pool, NEW r \in Request,
           NewMessage(c, m, r), pc[c] \notin {"send", "wait"}, r.buffer \in {c, m, NoMsg},
           r.type = "READ" => r.buffer = (IF r.callback THEN m ELSE c),
           Alignments \subseteq {TRUE} => r.aligned
    PROVE  IoInv'
  <1> USE DEF IoInv
  <1>1. /\ m \in Msgs /\ UNCHANGED <<ring, pending, stack, dma>>
        /\ pc'[c] = "send" /\ cur'[c] = m /\ req'[m] = r /\ ctx'[m] = NoMsg /\ ~completed'[m]
        /\ filled' = filled \ {r.buffer}
        /\ \A n \in Msgs \ {m} : /\ req'[n] = req[n] /\ ctx'[n] = ctx[n]
                                 /\ completed'[n] = completed[n] /\ status'[n] = status[n]
        /\ \A d \in Clients \ {c} : cur'[d] = cur[d] /\ pc'[d] = pc[d]
    BY SMTT(30)
       DEF NewMessage, xpdk_msg_alloc, MessageInv, TypeInv, TypeOK, MsgTypeOK, IoTypeOK
  <1>2. ~InRing(m) /\ pending[m] = "none" /\ \A d \in Clients : cur[d] # m
    BY PoolMessage
  <1>3. BufferParts'
    <2>1. SameFrames
      BY <1>1, ReturnedSame DEF MessageInv
    <2>2. QED
      BY <1>1, <1>2, <2>1, SameBuffers DEF BufferParts, MessageInv
  <1>4. FreshHasNoBuffer'
    <2>1. \A n \in Msgs : InRing(n)' => InRing(n) /\ n # m
      BY <1>1, <1>2 DEF InRing
    <2>2. \A d \in Clients \ {c} : pc[d] = "send" => cur[d] \in Msgs \ {m}
      BY <1>2, HoldsMessage DEF MessageInv
    <2>3. QED
      BY <1>1, <2>1, <2>2, SMTT(30) DEF FreshHasNoBuffer
  <1>5. ReadBuffer' /\ ReadFilled'
    <2>1. \A d \in Clients \ {c} : pc[d] \in {"send", "wait"} => cur[d] \in Msgs \ {m}
      BY <1>2, HoldsMessage DEF MessageInv
    <2>2. \A d \in Clients \ {c} : d # r.buffer
      BY <1>1, MsgAssumption, SMTT(30)
    <2>3. ReadBuffer'
      BY <1>1, <2>1, SMTT(30) DEF ReadBuffer
    <2>4. ReadFilled'
      BY <1>1, <2>1, <2>2, SMTT(30) DEF ReadFilled
    <2>5. QED
      BY <2>3, <2>4
  <1>6. ReadsAligned'
    BY <1>1 DEF ReadsAligned
  <1>7. QED
    BY <1>3, <1>4, <1>5, <1>6 DEF BufferParts

\* A call begins with a message that refers to no DMA buffer.
LEMMA CallsIo ==
    ASSUME IoInv, MessageInv', NEW c \in Clients, Calls(c)
    PROVE  IoInv'
  <1>1. ASSUME NEW m \in pool, NEW r \in Request, StartCall(c, m, r), CallRequest(c, m, r)
        PROVE  IoInv'
    <2>1. pc[c] = "idle" /\ NewMessage(c, m, r)
      BY <1>1 DEF StartCall
    <2>2. /\ r.buffer \in {c, m, NoMsg}
          /\ r.type = "READ" => r.buffer = IF r.callback THEN m ELSE c
          /\ Alignments \subseteq {TRUE} => r.aligned
      BY <1>1 DEF CallRequest
    <2>3. QED
      BY <2>1, <2>2, NewMessageIo
  <1>2. CASE xpdk_cleanup(c)
    <2> USE DEF IoInv
    <2>1. /\ UNCHANGED <<ring, req, status, completed, pending, ioVars, cur>>
          /\ pc' = [pc EXCEPT ![c] = "scan"]
          /\ UNCHANGED <<stack, dma, ctx, filled>>
      BY <1>2 DEF xpdk_cleanup, msgVars, devVars, ioVars
    <2>2. pc'[c] = "scan" /\ \A d \in Clients \ {c} : pc'[d] = pc[d]
      BY <2>1 DEF MessageInv, TypeInv, TypeOK
    <2>3. BufferParts'
      <3>1. SameFrames
        BY <2>1, ReturnedSame DEF MessageInv
      <3>2. QED
        BY <2>1, <3>1, SameBuffers DEF BufferParts, MessageInv
    <2>4. FreshHasNoBuffer'
      BY <2>1, <2>2, SameFresh DEF InRing
    <2>5. ReadParts'
      BY <2>1, <2>2, ThreadReads DEF ReadParts
    <2>6. QED
      BY <2>3, <2>4, <2>5 DEF BufferParts, ReadParts
  <1>3. QED
    BY <1>1, <1>2, CallsStart DEF IoInv, MessageInv

\* A step of a thread that neither allocates a message nor touches an I/O.
LEMMA ThreadIo ==
    ASSUME IoInv, MessageInv',
           UNCHANGED <<req, status, completed, pending, stack, dma, ctx, filled>>,
           \A c \in Clients : pc'[c] \in {"send", "wait"} =>
             /\ pc[c] \in {"send", "wait"} /\ cur'[c] = cur[c]
             /\ pc'[c] = "wait" /\ pc[c] = "send" => ~completed[cur[c]]
             /\ pc'[c] = "send" => pc[c] = "send",
           \A n \in Msgs : InRing(n)' =>
             InRing(n) \/ \E c \in Clients : pc[c] = "send" /\ cur[c] = n
    PROVE  IoInv'
  <1> USE DEF IoInv
  <1>1. BufferParts'
    <2>1. SameFrames
      BY ReturnedSame DEF MessageInv
    <2>2. QED
      BY <2>1, SameBuffers DEF BufferParts, MessageInv
  <1>2. FreshHasNoBuffer'
    BY SameFresh
  <1>3. ReadParts'
    BY ThreadReads DEF ReadParts
  <1>4. QED
    BY <1>1, <1>2, <1>3 DEF BufferParts, ReadParts

\* The other steps of a call concern neither frames nor buffers in use.
LEMMA CallStepIo ==
    ASSUME IoInv, MessageInv', NEW c \in Clients, CallStep(c)
    PROVE  IoInv'
  <1> USE DEF IoInv, MessageInv
  <1>1. CASE xpdk_msg_send_sync(c) \/ xpdk_msg_send_async(c)
    <2>1. /\ pc[c] = "send" /\ spdk_ring_enqueue(cur[c]) /\ ~completed[cur[c]]
          /\ UNCHANGED <<req, status, completed, pending, stack, dma, ctx, filled>>
          /\ \A d \in Clients \ {c} : cur'[d] = cur[d] /\ pc'[d] = pc[d]
          /\ \/ pc'[c] = "wait" /\ cur'[c] = cur[c]
             \/ pc'[c] = "idle"
      BY <1>1, SMTT(30)
         DEF xpdk_msg_send_sync, xpdk_msg_send_async, devVars, ioVars, TypeInv, TypeOK,
             CallFresh
    <2>2. \A n \in Msgs : InRing(n)' => InRing(n) \/ cur[c] = n
      <3>1. cur[c] \in Msgs
        BY <2>1, HoldsMessage
      <3>2. QED
        BY <2>1, <3>1, EnqueueType, RingHoldsMessages, SMTT(30) DEF InRing
    <2>3. QED
      BY <2>1, <2>2, ThreadIo
  <1>2. CASE SendBusy(c) \/ ReturnSync(c)
    <2>1. /\ UNCHANGED <<ring, req, status, completed, pending, stack, dma, ctx, filled>>
          /\ EndCall(c)
      BY <1>2 DEF SendBusy, ReturnSync, devVars, ioVars
    <2>2. /\ \A d \in Clients \ {c} : cur'[d] = cur[d] /\ pc'[d] = pc[d]
          /\ pc'[c] \notin {"send", "wait"}
      BY <2>1 DEF EndCall, Resume, TypeInv, TypeOK
    <2>3. QED
      BY <2>1, <2>2, ThreadIo DEF InRing
  <1>3. ASSUME NEW m \in pool, NEW r \in Request, pc[c] = "scan", NewMessage(c, m, r),
               r.type # "READ", r.aligned, r.buffer = NoMsg
        PROVE  IoInv'
    BY <1>3, NewMessageIo
  <1>4. ASSUME UNCHANGED <<req, status, completed, pending, stack, dma, ctx, filled, cur>>,
               ring' = ring \/ ring' = <<>>,
               \A d \in Clients \ {c} : pc'[d] = pc[d], pc'[c] \notin {"send", "wait"}
        PROVE  IoInv'
    BY <1>4, ThreadIo, SMTT(30) DEF InRing
  <1>5. CASE CleanupDevice(c)
    <2>1. CASE \E m \in pool : NewMessage(c, m, [Blank("CLOSE") EXCEPT !.fd = scan[c]])
      <3>1. scan[c] \in Fds /\ pc[c] = "scan"
        BY <1>5, MsgAssumption, SMTT(30)
           DEF CleanupDevice, TypeInv, TypeOK, CallShape, NoFd, Fds
      <3>2. [Blank("CLOSE") EXCEPT !.fd = scan[c]] \in Request
        BY <3>1, BlankType DEF Request, MsgTypes
      <3>3. LET r == [Blank("CLOSE") EXCEPT !.fd = scan[c]]
            IN  r.type = "CLOSE" /\ r.aligned /\ r.buffer = NoMsg
        BY BlankFields, SMTT(30)
      <3>4. QED
        BY <1>3, <2>1, <3>1, <3>2, <3>3
    <2>2. CASE UNCHANGED <<msgVars, devVars, ioVars, pc, cur, lifeVars>>
      BY <1>4, <1>5, <2>2 DEF CleanupDevice, msgVars, devVars, ioVars
    <2>3. QED
      BY <1>5, <2>1, <2>2 DEF CleanupDevice
  <1>6. CASE xpdk_cleanup_spdk_thread(c)
    <2>1. CASE \E m \in pool : NewMessage(c, m, Blank("SHUTDOWN"))
      <3>1. /\ Blank("SHUTDOWN") \in Request /\ Blank("SHUTDOWN").type = "SHUTDOWN"
            /\ Blank("SHUTDOWN").aligned /\ Blank("SHUTDOWN").buffer = NoMsg
        BY BlankType, BlankFields DEF MsgTypes
      <3>2. QED
        BY <1>3, <1>6, <2>1, <3>1 DEF xpdk_cleanup_spdk_thread
    <2>2. CASE /\ pc' = [pc EXCEPT ![c] = "join"]
               /\ UNCHANGED <<msgVars, devVars, ioVars, cur, lifeVars>>
      BY <1>4, <2>2 DEF msgVars, devVars, ioVars, TypeInv, TypeOK
    <2>3. QED
      BY <1>6, <2>1, <2>2 DEF xpdk_cleanup_spdk_thread
  <1>7. CASE CleanupJoin(c)
    BY <1>4, <1>7 DEF CleanupJoin, devVars, ioVars, TypeInv, TypeOK
  <1>8. QED
    BY <1>1, <1>2, <1>5, <1>6, <1>7 DEF CallStep

(***************************************************************************)
(* The poller.  An I/O handler refuses its message, or submits an I/O with *)
(* a fresh DMA buffer or none.                                             *)
(***************************************************************************)
LEMMA HandleIoBuffers ==
    ASSUME TypeInv, NEW m \in Msgs, HandleIo(m), ctx[m] = NoMsg, pending[m] = "none", req' = req
    PROVE  \/ /\ \E s \in Status \ {"SUCCESS"} : Refuse(m, s)
              /\ dma' = dma /\ \A n \in Msgs \ {m} : ctx'[n] = ctx[n]
           \/ \E b \in Bufs \cup {NoMsg} :
                WaitIfSync(m, b) /\ Submits(m, b) /\ (req[m].type = "FLUSH" => b = NoMsg)
  <1> USE DEF TypeInv, TypeOK, IoTypeOK, DeviceTypeOK
  <1>1. \A s \in {"INVALID", "IO", "NOMEM"} : s \in Status \ {"SUCCESS"}
    BY DEF Status
  <1>2. ASSUME NEW s \in {"INVALID", "IO", "NOMEM"}, Refuse(m, s), dma' = dma,
               \/ ctx' = ctx
               \/ \E b \in Bufs \ dma : ctx' = [ctx EXCEPT ![m] = b]
        PROVE  /\ \E t \in Status \ {"SUCCESS"} : Refuse(m, t)
               /\ dma' = dma /\ \A n \in Msgs \ {m} : ctx'[n] = ctx[n]
    BY <1>1, <1>2
  <1>3. ASSUME WaitIfSync(m, NoMsg), UNCHANGED <<dma, ctx>>
        PROVE  WaitIfSync(m, NoMsg) /\ Submits(m, NoMsg)
    BY <1>3 DEF WaitIfSync, Submits
  <1>4. ASSUME NEW b \in Bufs \ dma, WaitIfSync(m, b), dma' = dma \cup {b},
               ctx' = [ctx EXCEPT ![m] = b]
        PROVE  WaitIfSync(m, b) /\ Submits(m, b)
    BY <1>4, IoAssumption DEF WaitIfSync, Submits
  <1>5. CASE xpdk_spdk_handle_read(m) /\ req[m].type = "READ"
    BY <1>2, <1>3, <1>4, <1>5, ZenonT(60) DEF xpdk_spdk_handle_read
  <1>6. CASE xpdk_spdk_handle_write(m) /\ req[m].type = "WRITE"
    BY <1>2, <1>4, <1>6, ZenonT(60) DEF xpdk_spdk_handle_write
  <1>7. CASE xpdk_spdk_handle_flush(m) /\ req[m].type = "FLUSH"
    BY <1>2, <1>3, <1>7, ZenonT(60) DEF xpdk_spdk_handle_flush
  <1>8. QED
    BY <1>5, <1>6, <1>7 DEF HandleIo

\* The poller: each handler replies, or submits with a buffer of its own.
LEMMA PollerIo ==
    ASSUME IoInv, MessageInv', xpdk_msg_process_poller
    PROVE  IoInv'
  <1> USE DEF IoInv
  <1>1. PICK m \in Msgs : m = Head(ring)
    BY PollerFrame DEF MessageInv
  <1>2. ring # <<>> /\ ring' = Tail(ring) /\ UNCHANGED <<req, pc, cur>>
    BY PollerFrame DEF MessageInv
  <1>3. /\ InRing(m) /\ ~InRing(m)' /\ pending[m] = "none" /\ ~completed[m]
        /\ \A n \in Msgs \ {m} : InRing(n)' <=> InRing(n)
    BY <1>1, <1>2, Dequeued
  <1>4. /\ \A n \in Msgs \ {m} : /\ status'[n] = status[n] /\ completed'[n] = completed[n]
                                 /\ pending'[n] = pending[n]
        /\ pending'[m] = "io" => req[m].type \in {"READ", "WRITE", "FLUSH"}
    BY <1>1, <1>3, HandlerStores DEF MessageInv
  <1>5. ctx[m] = NoMsg
    BY <1>3 DEF FreshHasNoBuffer
  <1>6. /\ filled' = filled /\ \A n \in Msgs \ {m} : ctx'[n] = ctx[n]
        /\ BufferParts'
        /\ req[m].type = "READ" => ~(completed'[m] /\ status'[m] = "SUCCESS")
    <2> USE DEF MessageInv
    <2>1. ASSUME Returned \/ stack' = Below, dma' = dma, pending'[m] # "io",
                 \A n \in Msgs \ {m} : ctx'[n] = ctx[n]
          PROVE  BufferParts'
      <3>1. SameFrames
        BY <2>1, ReturnedSame
      <3>2. QED
        BY <1>2, <1>3, <1>4, <2>1, <3>1, SameBuffers DEF BufferParts
    <2>2. CASE HandleIo(m)
      <3>1. filled' = filled
        BY <2>2, HandleIoOutcome
      <3>2. ASSUME NEW s \in Status \ {"SUCCESS"}, Refuse(m, s), dma' = dma,
                   \A n \in Msgs \ {m} : ctx'[n] = ctx[n]
            PROVE  BufferParts' /\ status'[m] = s
        BY <1>3, <2>1, <3>2 DEF Refuse, Reply, TypeInv, TypeOK, MsgTypeOK
      <3>3. ASSUME NEW b \in Bufs \cup {NoMsg}, WaitIfSync(m, b), Submits(m, b),
                   req[m].type = "FLUSH" => b = NoMsg
            PROVE  BufferParts' /\ completed' = completed /\ \A n \in Msgs \ {m} : ctx'[n] = ctx[n]
        <4>1. completed' = completed /\ \A n \in Msgs \ {m} : ctx'[n] = ctx[n]
          BY <3>3 DEF WaitIfSync, Submits
        <4>2. CASE req[m].callback
          <5>1. SameFrames
            BY <3>3, <4>2, ReturnedSame DEF WaitIfSync
          <5>2. QED
            BY <3>3, <4>1, <4>2, <5>1, SubmitAsync DEF BufferParts
        <4>3. CASE ~req[m].callback
          <5>1. req[m].type \in {"READ", "WRITE", "FLUSH"} /\ Waits(m, b)
            BY <2>2, <3>3, <4>3, HandleIoOutcome DEF WaitIfSync
          <5>2. PICK p \in Nat :
                  /\ OnlyFrame(p) /\ IdleBefore(p) /\ p \in DOMAIN stack'
                  /\ stack'[p].msg = m /\ stack'[p].type = req[m].type /\ stack'[p].buffer = b
                  /\ ~stack'[p].done
            BY <5>1, WaitsFrame, SMTT(30)
          <5>3. QED
            BY <3>3, <4>1, <4>3, <5>2, SubmitSync DEF BufferParts
        <4>4. QED
          BY <4>2, <4>3
      <3>4. QED
        BY <1>2, <1>3, <1>5, <2>2, <3>1, <3>2, <3>3, HandleIoBuffers
    <2>3. CASE HandleDevice(m) \/ HandleUnknown(m)
      <3>1. req[m].type \notin {"READ", "WRITE", "FLUSH"}
        BY <2>3 DEF HandleDevice, HandleUnknown
      <3>2. CASE Returned /\ UNCHANGED <<dma, ctx, filled>>
        BY <1>4, <2>1, <3>1, <3>2
      <3>3. CASE HandleIo(m) \/ HandleShutdown(m)
        BY <2>3, <3>1, <3>3 DEF HandleIo, HandleShutdown, HandleDevice, HandleUnknown
      <3>4. QED
        BY <1>1, <3>2, <3>3 DEF xpdk_msg_process_poller
    <2>4. CASE HandleShutdown(m)
      <3>1. req[m].type = "SHUTDOWN"
        BY <2>4 DEF HandleShutdown
      <3>2. CASE stack' = Below /\ UNCHANGED <<dma, ctx, filled>>
        BY <1>4, <2>1, <3>1, <3>2
      <3>3. CASE HandleIo(m) \/ HandleDevice(m) \/ HandleUnknown(m)
        BY <3>1, <3>3 DEF HandleIo, HandleDevice, HandleUnknown
      <3>4. QED
        BY <1>1, <2>4, <3>2, <3>3 DEF xpdk_msg_process_poller, HandleShutdown
    <2>5. QED
      BY <1>1, <2>2, <2>3, <2>4 DEF xpdk_msg_process_poller
  <1>7. \A c \in Clients : pc[c] \in {"send", "wait"} => cur[c] \in Msgs
    BY HoldsMessage DEF MessageInv
  <1>8. FreshHasNoBuffer'
    <2>1. \A c \in Clients : pc[c] = "send" => cur[c] # m
      BY <1>3, <1>7, MsgAssumption DEF MessageInv, OneOwner, CallOwnsMessage, InFlight
    <2>2. QED
      BY <1>2, <1>3, <1>6, <1>7, <2>1, SameFresh
  <1>9. ReadParts'
    BY <1>2, <1>4, <1>6, <1>7, SameReads DEF ReadParts
  <1>10. QED
    BY <1>6, <1>8, <1>9 DEF BufferParts, ReadParts

(***************************************************************************)
(* The bdev layer completes an operation.                                  *)
(***************************************************************************)
LEMMA BdevIo ==
    ASSUME IoInv, RequestShape, MessageInv', NEW m \in Msgs, BdevCompletes(m)
    PROVE  IoInv'
  <1> USE DEF IoInv, MessageInv
  <1>1. /\ UNCHANGED <<ring, req, pc, cur>> /\ pending[m] # "none" /\ pending'[m] = "none"
        /\ \A n \in Msgs \ {m} : /\ status'[n] = status[n] /\ completed'[n] = completed[n]
                                 /\ pending'[n] = pending[n]
    BY CompletionStores
  <1>2. \A c \in Clients : pc[c] \in {"send", "wait"} => cur[c] \in Msgs
    BY HoldsMessage
  <1>3. ASSUME ctx' = ctx
        PROVE  FreshHasNoBuffer'
    BY <1>1, <1>3, SameFresh DEF InRing
  <1>4. CASE (bdev_open_complete(m) \/ xpdk_qos_set_limits_complete(m)) /\ UNCHANGED ioVars
    <2>1. pending[m] \in {"open", "qos"} /\ UNCHANGED <<stack, dma, ctx, filled>>
      BY <1>4 DEF bdev_open_complete, xpdk_qos_set_limits_complete, ioVars
    <2>2. BufferParts'
      <3>1. SameFrames
        BY <2>1, ReturnedSame
      <3>2. QED
        BY <1>1, <2>1, <3>1, SameBuffers DEF BufferParts
    <2>3. req[m].type # "READ"
      BY <2>1 DEF RequestShape
    <2>4. ReadParts'
      BY <1>1, <1>2, <2>1, <2>3, SameReads DEF ReadParts
    <2>5. QED
      BY <1>3, <2>1, <2>2, <2>4 DEF BufferParts, ReadParts
  <1>5. CASE sync_io_completion_cb(m)
    <2>1. BufferParts'
      BY <1>5, SyncDone DEF BufferParts
    <2>2. ctx' = ctx /\ ~req[m].callback
      BY <1>5 DEF sync_io_completion_cb
    <2>3. /\ filled \subseteq filled'
          /\ req[m].type = "READ" /\ req[m].aligned /\ status'[m] = "SUCCESS"
               => req[m].buffer \in filled'
      <3>1. PICK success \in BOOLEAN :
              /\ Reply(m, IF success THEN "SUCCESS" ELSE "IO")
              /\ filled' = IF success /\ req[m].type = "READ" /\ req[m].aligned
                           THEN filled \cup {req[m].buffer} ELSE filled
        BY <1>5, ZenonT(30) DEF sync_io_completion_cb
      <3>2. status'[m] = IF success THEN "SUCCESS" ELSE "IO"
        BY <3>1 DEF Reply, TypeInv, TypeOK, MsgTypeOK
      <3>3. status'[m] = "SUCCESS" => success
        BY <3>2
      <3>4. QED
        BY <3>1, <3>3
    <2>4. ReadParts'
      <3>1. ASSUME NEW c \in Clients, pc[c] = "wait", completed'[cur[c]],
                   req[cur[c]].type = "READ", req[cur[c]].aligned, status'[cur[c]] = "SUCCESS"
            PROVE  (completed[cur[c]] /\ status[cur[c]] = "SUCCESS") \/ c \in filled'
        <4>1. CASE cur[c] = m
          BY <2>2, <2>3, <3>1, <4>1 DEF ReadBuffer
        <4>2. CASE cur[c] # m
          BY <1>1, <1>2, <3>1, <4>2
        <4>3. QED
          BY <4>1, <4>2
      <3>2. QED
        BY <1>1, <2>3, <3>1, SameReads DEF ReadParts
    <2>5. QED
      BY <1>3, <2>1, <2>2, <2>4 DEF BufferParts, ReadParts
  <1>6. CASE async_io_completion_cb(m)
    <2>1. BufferParts'
      BY <1>6, AsyncDone DEF BufferParts
    <2>2. UNCHANGED <<ctx, status, completed>> /\ filled \subseteq filled'
      BY <1>6, ZenonT(30) DEF async_io_completion_cb
    <2>3. ReadParts'
      BY <1>1, <2>2, SameReads DEF ReadParts
    <2>4. QED
      BY <1>3, <2>1, <2>2, <2>3 DEF BufferParts, ReadParts
  <1>7. QED
    BY <1>4, <1>5, <1>6 DEF BdevCompletes

\* A handler that has waited: it copies and frees what its own frame names.
LEMMA FinishIo ==
    ASSUME IoInv, MessageInv', HandlerFinish
    PROVE  IoInv'
  <1> USE DEF IoInv, MessageInv
  <1>1. /\ UNCHANGED <<ring, req, status, completed, ctx, pc, cur>> /\ filled \subseteq filled'
        /\ FinishWait
    BY DEF HandlerFinish, FinishWait, msgVars, appVars
  <1>2. BufferParts'
    BY <1>1, FinishBuffers DEF BufferParts
  <1>3. FreshHasNoBuffer'
    BY <1>1, SameFresh DEF InRing
  <1>4. ReadParts'
    BY <1>1, SameReads DEF ReadParts
  <1>5. QED
    BY <1>2, <1>3, <1>4 DEF BufferParts, ReadParts

\* A step that touches neither messages in flight nor I/O.
LEMMA SameIo ==
    ASSUME IoInv, MessageInv', UNCHANGED <<req, status, completed, pending, dma, ctx, filled>>,
           UNCHANGED <<pc, cur>>, ring' = ring \/ ring' = <<>>, stack' = stack \/ stack' = Below
    PROVE  IoInv'
  <1> USE DEF IoInv, MessageInv
  <1>1. BufferParts'
    <2>1. SameFrames
      BY ReturnedSame
    <2>2. QED
      BY <2>1, SameBuffers DEF BufferParts
  <1>2. FreshHasNoBuffer'
    BY SameFresh, SMTT(30) DEF InRing
  <1>3. ReadParts'
    BY SameReads DEF ReadParts
  <1>4. QED
    BY <1>1, <1>2, <1>3 DEF BufferParts, ReadParts

\* Every step keeps the invariant of handlers and buffers.
LEMMA IoStep ==
    ASSUME IoInv, RequestShape, MessageInv', [Next]_vars
    PROVE  IoInv'
  <1>1. CASE xpdk_init_opts
    BY <1>1, SameIo DEF xpdk_init_opts, appVars
  <1>2. ASSUME NEW c \in Clients, Calls(c) \/ CallStep(c)
        PROVE  IoInv'
    BY <1>2, CallsIo, CallStepIo
  <1>3. CASE xpdk_msg_process_poller
    BY <1>3, PollerIo
  <1>4. CASE PollerBreak
    <2>1. stack' = Below
      BY <1>4 DEF PollerBreak, Below
    <2>2. QED
      BY <1>4, <2>1, SameIo DEF PollerBreak, msgVars, devVars, appVars
  <1>5. CASE HandlerFinish
    BY <1>5, FinishIo
  <1>6. CASE SpdkThreadExit
    BY <1>6, SameIo DEF SpdkThreadExit, msgVars, devVars, ioVars, appVars
  <1>7. ASSUME NEW m \in Msgs, BdevCompletes(m)
        PROVE  IoInv'
    BY <1>7, BdevIo
  <1>8. ASSUME NEW fd \in Fds, BdevUnmaps(fd)
        PROVE  IoInv'
    BY <1>8, SameIo DEF BdevUnmaps, UnmapDone, msgVars, ioVars, appVars
  <1>9. CASE UNCHANGED vars
    BY <1>9, SameIo DEF vars, msgVars, devVars, ioVars, appVars
  <1>10. QED
    BY <1>1, <1>2, <1>3, <1>4, <1>5, <1>6, <1>7, <1>8, <1>9 DEF Next, SpdkThread

\* At first there is no frame and no buffer.
LEMMA BuffersInit ==
    ASSUME Init, MessageInv
    PROVE  IoInv
  <1>1. /\ ring = <<>> /\ stack = <<>> /\ dma = {}
        /\ \A m \in Msgs : pending[m] = "none" /\ req[m].aligned
        /\ \A c \in Clients : pc[c] = "idle"
    BY DEF Init, MsgInit, DeviceInit, IoInit, Blank
  <1>2. DOMAIN stack = {}
    BY <1>1, SMTT(30)
  <1>3. SyncContextAlive /\ BufferSafe /\ FrameShape /\ BufferUsers
    BY <1>1, <1>2 DEF SyncContextAlive, BufferSafe, FrameShape, BufferUsers, UsedByIo
  <1>4. FreshHasNoBuffer
    BY <1>1, SMTT(30) DEF FreshHasNoBuffer, InRing
  <1>5. NoBufferLeak /\ \A i \in DOMAIN stack : stack[i].done => stack[i].ok
    BY <1>1, <1>2 DEF NoBufferLeak
  <1>6. ReadBuffer /\ ReadFilled /\ ReadsAligned
    BY <1>1 DEF ReadBuffer, ReadFilled, ReadsAligned
  <1>7. QED
    BY <1>3, <1>4, <1>5, <1>6 DEF IoInv

(***************************************************************************)
(* What a read delivers.  A thread leaves the wait of xpdk_msg_send_sync   *)
(* only with its message completed, and only async_io_completion_cb calls  *)
(* back.                                                                   *)
(***************************************************************************)
LEMMA WaitEnds ==
    ASSUME TypeInv, NEW c \in Clients, [Next]_vars, Returns(c)
    PROVE  completed[cur[c]]
  <1>1. pc' # pc
    BY DEF Returns
  <1>2. ASSUME NEW d \in Clients, Calls(d)
        PROVE  FALSE
    <2>1. CASE \E m \in pool, r \in Request : StartCall(d, m, r)
      BY <2>1 DEF StartCall, NewMessage, Returns, TypeInv, TypeOK
    <2>2. CASE xpdk_cleanup(d)
      BY <2>2 DEF xpdk_cleanup, Quiet, Returns
    <2>3. QED
      BY <1>2, <2>1, <2>2, CallsStart
  <1>3. ASSUME NEW d \in Clients, CallStep(d)
        PROVE  completed[cur[c]]
    <2>1. CASE d # c
      <3>1. pc'[c] = pc[c]
        BY <1>3, <2>1
           DEF CallStep, xpdk_msg_send_sync, xpdk_msg_send_async, SendBusy, ReturnSync,
               CleanupDevice, xpdk_cleanup_spdk_thread, CleanupJoin, EndCall, NewMessage,
               TypeInv, TypeOK
      <3>2. QED
        BY <3>1 DEF Returns
    <2>2. CASE d = c
      BY <1>3, <2>2
         DEF CallStep, xpdk_msg_send_sync, xpdk_msg_send_async, SendBusy, ReturnSync,
             CleanupDevice, xpdk_cleanup_spdk_thread, CleanupJoin, Returns
    <2>3. QED
      BY <2>1, <2>2
  <1>4. QED
    BY <1>1, <1>2, <1>3
       DEF Next, SpdkThread, xpdk_init_opts, xpdk_msg_process_poller, PollerBreak,
           HandlerFinish, SpdkThreadExit, BdevCompletes, BdevUnmaps, vars, appVars

\* Only the completion callback tells an asynchronous caller of success.
LEMMA SuccessAnswered ==
    ASSUME TypeInv, NEW m \in Msgs, [Next]_vars, answer[m] = "owed", answer'[m] = "SUCCESS"
    PROVE  async_io_completion_cb(m)
  <1>1. answer \in [Msgs -> Answers]
    BY DEF TypeInv, TypeOK, IoTypeOK
  <1>2. ASSUME NEW n, answer' = [answer EXCEPT ![n] = "none"] \/ answer' = [answer EXCEPT ![n] = "owed"]
        PROVE  FALSE
    BY <1>1, <1>2
  <1>3. ASSUME NEW d \in Clients, Calls(d)
        PROVE  FALSE
    <2>1. CASE \E n \in pool, r \in Request : StartCall(d, n, r)
      BY <1>2, <2>1 DEF StartCall, NewMessage
    <2>2. CASE xpdk_cleanup(d)
      BY <2>2 DEF xpdk_cleanup, ioVars
    <2>3. QED
      BY <1>3, <2>1, <2>2, CallsStart
  <1>4. ASSUME NEW d \in Clients, CallStep(d)
        PROVE  FALSE
    BY <1>2, <1>4
       DEF CallStep, xpdk_msg_send_sync, xpdk_msg_send_async, SendBusy, ReturnSync,
           CleanupDevice, xpdk_cleanup_spdk_thread, CleanupJoin, NewMessage, ioVars
  <1>5. CASE xpdk_msg_process_poller
    <2>1. CASE HandleIo(Head(ring))
      BY <2>1, HandleIoOutcome, PollerFrame, <1>5
    <2>2. QED
      BY <1>5, <2>1 DEF xpdk_msg_process_poller
  <1>6. ASSUME NEW n \in Msgs, BdevCompletes(n)
        PROVE  async_io_completion_cb(m)
    <2>1. CASE async_io_completion_cb(n)
      <3>1. n = m
        BY <1>1, <2>1 DEF async_io_completion_cb
      <3>2. QED
        BY <2>1, <3>1
    <2>2. CASE UNCHANGED answer
      BY <2>2
    <2>3. QED
      BY <1>6, <2>1, <2>2 DEF BdevCompletes, sync_io_completion_cb, ioVars
  <1>7. CASE xpdk_init_opts
    BY <1>7 DEF xpdk_init_opts
  <1>8. QED
    BY <1>3, <1>4, <1>5, <1>6, <1>7
       DEF Next, SpdkThread, PollerBreak, HandlerFinish, FinishWait, SpdkThreadExit,
           BdevUnmaps, vars, ioVars

=============================================================================
