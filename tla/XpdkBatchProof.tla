--------------------------- MODULE XpdkBatchProof ---------------------------
(***************************************************************************)
(* Batch contexts, for any number of threads and operations and any        *)
(* capacity.                                                               *)
(*                                                                         *)
(* The pending count: PendingCounts and NoCallbackAfterFree, from the      *)
(* inductive invariant PendingInv.  Entries and operations can be mixed up *)
(* for good, when completions come in another order or a refused           *)
(* submission drops the entry of another thread.  The count is right all   *)
(* the same, because every step that takes an operation out of the sum     *)
(* takes out one entry.                                                    *)
(*                                                                         *)
(* The reports: ReportedOnce, from the inductive invariant ReportInv.  As  *)
(* long as nothing is mixed up, the entries that wait are those from the   *)
(* index of the one thread that takes them on, or from 0 on if there is    *)
(* none, and the move at the end of its loop takes them back there.        *)
(*                                                                         *)
(* The operations: a context makes only steps of XpdkAsync with them.      *)
(*                                                                         *)
(* The writes of the callback: what the application must do for NoOverrun, *)
(* from the inductive invariant RoomInv.                                   *)
(***************************************************************************)
EXTENDS XpdkBatch, FiniteSetTheorems, SequenceTheorems, TLAPS

\* Most leaves are first-order reasoning about sets and functions.
USE ZenonT(30)

\* Both sets that are counted are finite.
LEMMA CountsAreNumbers ==
    /\ IsFiniteSet(Owed) /\ Cardinality(Owed) \in Nat
    /\ IsFiniteSet(Submitting) /\ Cardinality(Submitting) \in Nat
  <1>1. Owed \in SUBSET Ios /\ Submitting \in SUBSET Threads
    BY DEF Owed, Submitting
  <1>2. IsFiniteSet(Owed) /\ IsFiniteSet(Submitting)
    BY <1>1, BatchAssumption, FS_Subset, SMTT(30)
  <1>3. QED
    BY <1>2, FS_CardinalityType

(***************************************************************************)
(* A step that leaves the queue, the operations in flight and the calls    *)
(* about to submit as they are.                                            *)
(***************************************************************************)
LEMMA SameCount ==
    ASSUME PendingInv, PendingTypeOK', life = "live", life' = "live",
           UNCHANGED pending_queue, Owed' = Owed, Submitting' = Submitting
    PROVE  PendingCounts'
  BY DEF PendingInv, PendingCounts

-----------------------------------------------------------------------------
(***************************************************************************)
(* xpdk_batch_submit_one: one entry more and one call more.                *)
(***************************************************************************)
LEMMA SubmitCounts ==
    ASSUME PendingInv, NEW t \in Threads, NEW o \in Ios, xpdk_batch_submit_one(t, o)
    PROVE  PendingInv'
  <1> USE DEF PendingInv, PendingTypeOK
  <1>1. /\ life = "live" /\ life' = "live" /\ pc[t] = "idle"
        /\ pending_queue' = Append(pending_queue, o) /\ Len(pending_queue) < max_ios
        /\ answer' = answer /\ io' = [io EXCEPT ![t] = o]
        /\ pc' = [pc EXCEPT ![t] = "submit"]
        /\ \A u \in Threads : pc[u] \notin {"cleanup", "sleep"}
    BY DEF xpdk_batch_submit_one, InUse, Goto
  <1>2. Len(pending_queue) \in Nat /\ Len(pending_queue') = Len(pending_queue) + 1
    BY <1>1, AppendProperties, LenProperties, SMTT(30)
  <1>3. Owed' = Owed /\ Submitting' = Submitting \cup {t} /\ t \notin Submitting
    BY <1>1, SMTT(30) DEF Owed, Submitting
  <1>4. Cardinality(Submitting') = Cardinality(Submitting) + 1
    BY <1>3, CountsAreNumbers, FS_AddElement
  <1>5. PendingCounts'
    BY <1>1, <1>2, <1>3, <1>4, CountsAreNumbers, BatchAssumption, SMTT(30) DEF PendingCounts
  <1>6. PendingTypeOK'
    <2>1. pending_queue' \in Seq(Ios)
      BY <1>1, AppendProperties
    <2>2. QED
      BY <1>1, <2>1 DEF Submitting
  <1>7. QED
    BY <1>1, <1>5, <1>6

(***************************************************************************)
(* The operation is accepted: the call is counted no more, the operation   *)
(* is.                                                                     *)
(***************************************************************************)
LEMMA AcceptCounts ==
    ASSUME PendingInv, life = "live", NEW t \in Threads, SubmitAccepted(t)
    PROVE  PendingInv'
  <1> USE DEF PendingInv, PendingTypeOK
  <1> DEFINE o == io[t]
  <1>1. /\ life' = life /\ pc[t] = "submit" /\ pending_queue' = pending_queue
        /\ answer[o] = "none" /\ answer' = [answer EXCEPT ![o] = "owed"]
        /\ io' = [io EXCEPT ![t] = NoIo]
        /\ pc' = [pc EXCEPT ![t] = "idle"]
    BY DEF SubmitAccepted, Async!Accept, Goto, ctxVars
  <1>2. o \in Ios
    BY <1>1 DEF Submitting
  <1> HIDE DEF o
  <1>3. /\ Owed' = Owed \cup {o} /\ o \notin Owed
        /\ Submitting' = Submitting \ {t} /\ t \in Submitting
    BY <1>1, <1>2, SMTT(30) DEF Owed, Submitting
  <1>4. /\ Cardinality(Owed') = Cardinality(Owed) + 1
        /\ Cardinality(Submitting') = Cardinality(Submitting) - 1
    BY <1>3, CountsAreNumbers, FS_AddElement, FS_RemoveElement
  <1>5. PendingCounts'
    BY <1>1, <1>4, CountsAreNumbers, SMTT(30) DEF PendingCounts
  <1>6. PendingTypeOK'
    BY <1>1, <1>2 DEF Submitting
  <1>7. QED
    BY <1>1, <1>5, <1>6

\* Taking back a submission drops one entry.  There is one, since the call is counted.
LEMMA UndoDropsOne ==
    ASSUME PendingInv, life = "live", NEW t \in Threads, SubmitUndo(t)
    PROVE  /\ Len(pending_queue) \in Nat \ {0}
           /\ pending_queue' \in Seq(Ios) /\ Len(pending_queue') = Len(pending_queue) - 1
  <1> USE DEF PendingInv, PendingTypeOK
  <1>1. /\ pc[t] = "undo"
        /\ pending_queue' = SubSeq(pending_queue, 1, Len(pending_queue) - 1)
    BY DEF SubmitUndo, LastDropped
  <1>2. Submitting # {}
    BY <1>1 DEF Submitting
  <1>3. Len(pending_queue) \in Nat \ {0}
    <2>1. Cardinality(Submitting) \in Nat \ {0}
      BY <1>2, CountsAreNumbers, FS_EmptySet, SMTT(30)
    <2>2. QED
      BY <2>1, CountsAreNumbers, LenProperties, SMTT(30) DEF PendingCounts
  <1> DEFINE n == Len(pending_queue) - 1
  <1>4. n \in Nat /\ \A i \in 1 .. n : pending_queue[i] \in Ios
    BY <1>3, ElementOfSeq, SMTT(30)
  <1> HIDE DEF n
  <1>5. /\ SubSeq(pending_queue, 1, n) \in Seq(Ios)
        /\ Len(SubSeq(pending_queue, 1, n)) = IF 1 <= n THEN n - 1 + 1 ELSE 0
    BY <1>4, SubSeqProperties, SMTT(30)
  <1>6. pending_queue' = SubSeq(pending_queue, 1, n)
    BY <1>1 DEF n
  <1>7. pending_queue' \in Seq(Ios) /\ Len(pending_queue') = n
    BY <1>4, <1>5, <1>6, SMTT(30)
  <1>8. QED
    BY <1>3, <1>7 DEF n

(***************************************************************************)
(* The operation is refused: the last entry goes, whose ever it is.        *)
(***************************************************************************)
LEMMA RefuseCounts ==
    ASSUME PendingInv, life = "live", NEW t \in Threads, SubmitRefused(t) \/ SubmitUndo(t)
    PROVE  PendingInv'
  <1> USE DEF PendingInv, PendingTypeOK
  <1>1. CASE SubmitRefused(t)
    <2>1. /\ life' = life /\ pc[t] = "submit" /\ UNCHANGED <<pending_queue, answer, io>>
          /\ pc' = [pc EXCEPT ![t] = "undo"]
      BY <1>1 DEF SubmitRefused, Goto, ctxVars
    <2>2. Owed' = Owed /\ Submitting' = Submitting
      BY <2>1 DEF Owed, Submitting
    <2>3. PendingTypeOK'
      BY <2>1 DEF Submitting
    <2>4. QED
      BY <2>1, <2>2, <2>3, SameCount
  <1>2. CASE SubmitUndo(t)
    <2>1. /\ life' = life /\ pc[t] = "undo" /\ answer' = answer
          /\ pending_queue' = SubSeq(pending_queue, 1, Len(pending_queue) - 1)
          /\ io' = [io EXCEPT ![t] = NoIo]
          /\ pc' = [pc EXCEPT ![t] = "idle"]
      BY <1>2 DEF SubmitUndo, LastDropped, Goto
    <2>2. Owed' = Owed /\ Submitting' = Submitting \ {t} /\ t \in Submitting
      BY <2>1 DEF Owed, Submitting
    <2>3. /\ Cardinality(Submitting') = Cardinality(Submitting) - 1
          /\ Cardinality(Submitting') \in Nat
      BY <2>2, CountsAreNumbers, FS_RemoveElement, FS_CardinalityType
    <2>4. Len(pending_queue) \in Nat \ {0}
      BY <1>2, UndoDropsOne
    <2>5. pending_queue' \in Seq(Ios) /\ Len(pending_queue') = Len(pending_queue) - 1
      BY <1>2, UndoDropsOne
    <2>6. PendingCounts'
      BY <2>1, <2>2, <2>3, <2>4, <2>5, CountsAreNumbers, BatchAssumption, SMTT(30)
         DEF PendingCounts
    <2>7. PendingTypeOK'
      BY <2>1, <2>5 DEF Submitting
    <2>8. QED
      BY <2>1, <2>6, <2>7, SMTT(30)
  <1>3. QED
    BY <1>1, <1>2

-----------------------------------------------------------------------------
(***************************************************************************)
(* xpdk_batch_completion_callback takes one entry, whichever operation it  *)
(* was called for.  There is one, since the operation is counted.          *)
(***************************************************************************)
LEMMA CompletionTakesOne ==
    ASSUME PendingInv, NEW o \in Ios, Completes(o)
    PROVE  /\ Len(pending_queue) \in Nat \ {0} /\ pending_queue # <<>>
           /\ pending_queue' \in Seq(Ios) /\ Len(pending_queue') = Len(pending_queue) - 1
  <1> USE DEF PendingInv, PendingTypeOK
  <1>1. PICK s \in Async!Outcomes : xpdk_batch_completion_callback(o, s)
    BY DEF Completes
  <1>2. life = "live" /\ Owed # {}
    BY <1>1 DEF xpdk_batch_completion_callback, Async!Answer, Owed
  <1>3. Cardinality(Owed) \in Nat \ {0}
    BY <1>2, CountsAreNumbers, FS_EmptySet, SMTT(30)
  <1>4. Len(pending_queue) \in Nat \ {0}
    BY <1>2, <1>3, CountsAreNumbers, LenProperties, SMTT(30) DEF PendingCounts
  <1>5. pending_queue # <<>>
    BY <1>4, EmptySeq
  <1>6. pending_queue' = Tail(pending_queue)
    BY <1>1, <1>5 DEF xpdk_batch_completion_callback
  <1>7. QED
    BY <1>4, <1>5, <1>6, HeadTailProperties

\* So the count is right after it.
LEMMA CompletionCounts ==
    ASSUME PendingInv, NEW o \in Ios, Completes(o)
    PROVE  PendingInv'
  <1> USE DEF PendingInv, PendingTypeOK
  <1>1. PICK s \in Async!Outcomes : xpdk_batch_completion_callback(o, s)
    BY DEF Completes
  <1>2. /\ life = "live" /\ answer[o] = "owed" /\ answer' = [answer EXCEPT ![o] = s]
        /\ pc' = [t \in Threads |-> IF pc[t] = "sleep" THEN "cleanup" ELSE pc[t]]
        /\ io' = io
    BY <1>1 DEF xpdk_batch_completion_callback, Async!Answer, Signalled
  <1>3. s # "owed"
    BY DEF Async!Outcomes
  <1>4. /\ Owed' = Owed \ {o} /\ o \in Owed
        /\ Submitting' = Submitting
    BY <1>2, <1>3 DEF Owed, Submitting
  <1>5. /\ Cardinality(Owed') = Cardinality(Owed) - 1
        /\ Cardinality(Owed') \in Nat
    BY <1>4, CountsAreNumbers, FS_RemoveElement, FS_CardinalityType
  <1>6. Len(pending_queue) \in Nat \ {0} /\ pending_queue # <<>>
    BY CompletionTakesOne
  <1>7. pending_queue' \in Seq(Ios) /\ Len(pending_queue') = Len(pending_queue) - 1
    BY CompletionTakesOne
  <1>8. life' \in {"live", "corrupt"}
    BY <1>1, <1>2, <1>6 DEF xpdk_batch_completion_callback
  <1>9. PendingCounts'
    BY <1>2, <1>4, <1>5, <1>6, <1>7, CountsAreNumbers, BatchAssumption, SMTT(30)
       DEF PendingCounts
  <1>10. PendingTypeOK'
    BY <1>2, <1>4, <1>7
  <1>11. \A t \in Threads : pc'[t] \in {"cleanup", "sleep"} =>
             \A u \in Threads : u # t => pc'[u] = "idle"
    BY <1>2
  <1>12. QED
    BY <1>8, <1>9, <1>10, <1>11

(***************************************************************************)
(* xpdk_batch_init, and the steps of xpdk_batch_process_completions, which *)
(* is about the other queue.                                               *)
(***************************************************************************)
LEMMA OtherCounts ==
    ASSUME PendingInv, NEW t \in Threads,
           \/ xpdk_batch_init(t)
           \/ \E m \in {1, max_ios} : ProcessSilently(t, m) \/ ProcessStart(t, m)
           \/ life = "live" /\ (ProcessCallback(t) \/ ProcessNext(t))
    PROVE  PendingInv'
  <1> USE DEF PendingInv, PendingTypeOK
  <1>1. CASE xpdk_batch_init(t)
    <2>1. /\ life = "none" /\ life' = "live"
          /\ UNCHANGED <<pending_queue, answer, pc, io>>
      BY <1>1 DEF xpdk_batch_init
    <2>2. /\ Owed' = Owed /\ Submitting' = Submitting
          /\ Owed = {} /\ Submitting = {} /\ Len(pending_queue) = 0
      BY <2>1, EmptySeq DEF Owed, Submitting
    <2>3. PendingCounts'
      BY <2>1, <2>2, FS_EmptySet, BatchAssumption, SMTT(30) DEF PendingCounts
    <2>4. QED
      BY <2>1, <2>2, <2>3
  <1>2. ASSUME life = "live", life' = "live", UNCHANGED <<pending_queue, answer, io>>,
               NEW l \in {"idle", "callback", "relock"}, pc' = [pc EXCEPT ![t] = l],
               pc[t] \in {"callback", "relock"} \/
                 (pc[t] = "idle" /\ \A u \in Threads : pc[u] \notin {"cleanup", "sleep"})
        PROVE  PendingInv'
    <2>1. Owed' = Owed /\ Submitting' = Submitting
      BY <1>2 DEF Owed, Submitting
    <2>2. PendingTypeOK'
      BY <1>2, <2>1
    <2>3. \A u \in Threads : pc'[u] \notin {"cleanup", "sleep"}
      BY <1>2
    <2>4. QED
      BY <1>2, <2>1, <2>2, <2>3, SameCount
  <1>3. CASE \E m \in {1, max_ios} : ProcessSilently(t, m)
    <2>1. /\ life = "live" /\ UNCHANGED <<life, pending_queue, answer, pc, io>>
      BY <1>3 DEF ProcessSilently, InUse
    <2>2. QED
      BY <2>1 DEF PendingCounts, Owed, Submitting
  <1>4. CASE \E m \in {1, max_ios} : ProcessStart(t, m)
    BY <1>2, <1>4 DEF ProcessStart, InUse, Goto, ctxVars
  <1>5. CASE life = "live" /\ ProcessCallback(t)
    BY <1>2, <1>5 DEF ProcessCallback, Goto, ctxVars
  <1>6. CASE life = "live" /\ ProcessNext(t)
    BY <1>2, <1>6 DEF ProcessNext, Goto
  <1>7. QED
    BY <1>1, <1>3, <1>4, <1>5, <1>6

(***************************************************************************)
(* xpdk_batch_cleanup sleeps while the queue has entries; once it has none *)
(* no operation is owed an answer and the context may go.                  *)
(***************************************************************************)
LEMMA CleanupCounts ==
    ASSUME PendingInv, NEW t \in Threads,
           xpdk_batch_cleanup(t) \/ (life = "live" /\ (CleanupSleep(t) \/ CleanupFree(t)))
    PROVE  PendingInv'
  <1> USE DEF PendingInv, PendingTypeOK
  <1>1. ASSUME life = "live", life' = "live", UNCHANGED <<pending_queue, answer, io>>,
               NEW l \in {"cleanup", "sleep"}, pc' = [pc EXCEPT ![t] = l],
               pc[t] \in {"idle", "cleanup"}, \A u \in Threads : u # t => pc[u] = "idle"
        PROVE  PendingInv'
    <2>1. Owed' = Owed /\ Submitting' = Submitting
      BY <1>1 DEF Owed, Submitting
    <2>2. PendingTypeOK'
      BY <1>1, <2>1
    <2>3. QED
      BY <1>1, <2>1, <2>2, SameCount
  <1>2. CASE xpdk_batch_cleanup(t)
    BY <1>1, <1>2 DEF xpdk_batch_cleanup, InUse, Goto, ctxVars
  <1>3. CASE life = "live" /\ CleanupSleep(t)
    BY <1>1, <1>3 DEF CleanupSleep, Goto, ctxVars
  <1>4. CASE life = "live" /\ CleanupFree(t)
    <2>1. /\ life' = "none" /\ pending_queue = <<>> /\ pending_queue' = <<>> /\ io' = io
          /\ pc[t] = "cleanup" /\ pc' = [pc EXCEPT ![t] = "idle"]
          /\ answer' = [o \in Ios |-> IF answer[o] = "owed" THEN "owed" ELSE "none"]
      BY <1>4 DEF CleanupFree, NonePending, Goto
    <2>2. Cardinality(Owed) = 0 /\ Cardinality(Submitting) = 0
      BY <1>4, <2>1, EmptySeq, CountsAreNumbers, SMTT(30) DEF PendingCounts
    <2>3. Owed = {} /\ Submitting = {}
      BY <2>2, CountsAreNumbers, FS_EmptySet
    <2>4. Owed' = {} /\ Submitting' = {}
      BY <2>1, <2>3 DEF Owed, Submitting
    <2>5. PendingTypeOK'
      BY <2>1, <2>4
    <2>6. QED
      BY <2>1, <2>4, <2>5 DEF PendingCounts
  <1>5. QED
    BY <1>2, <1>3, <1>4

-----------------------------------------------------------------------------
\* Every step keeps the invariant.
LEMMA PendingStep ==
    ASSUME PendingInv, [Next]_vars
    PROVE  PendingInv'
  <1>1. CASE UNCHANGED vars
    BY <1>1 DEF vars, ctxVars, PendingInv, PendingTypeOK, PendingCounts, Owed, Submitting
  <1>2. QED
    BY <1>1, SubmitCounts, AcceptCounts, RefuseCounts, CompletionCounts, OtherCounts,
       CleanupCounts DEF Next, ThreadStep

\* At first there is no context and nothing pending.
LEMMA PendingInit ==
    ASSUME Init
    PROVE  PendingInv
  <1>1. /\ life = "none" /\ pending_queue = <<>>
        /\ answer = [o \in Ios |-> "none"]
        /\ pc = [t \in Threads |-> "idle"]
        /\ io = [t \in Threads |-> NoIo]
    BY DEF Init, Async!Init
  <1>2. Owed = {} /\ Submitting = {}
    BY <1>1 DEF Owed, Submitting
  <1>3. pending_queue \in Seq(Ios)
    BY <1>1, EmptySeq
  <1>4. QED
    BY <1>1, <1>2, <1>3 DEF PendingInv, PendingTypeOK, PendingCounts

\* The inductive invariant holds in every reachable state.
THEOREM PendingInvariant == Spec => []PendingInv
  <1>1. Init => PendingInv
    BY PendingInit
  <1>2. PendingInv /\ [Next]_vars => PendingInv'
    BY PendingStep
  <1>3. QED
    BY <1>1, <1>2, PTL DEF Spec

(***************************************************************************)
(* pending_ios is right in every live context, however completions are     *)
(* ordered and whatever is refused, and never exceeds max_ios.             *)
(***************************************************************************)
THEOREM PendingCountIsRight == Spec => []PendingCounts
  <1>1. PendingInv => PendingCounts
    BY DEF PendingInv
  <1>2. QED
    BY <1>1, PendingInvariant, PTL

(***************************************************************************)
(* When xpdk_batch_cleanup frees the context, no operation submitted to it *)
(* still has its callback to come.                                         *)
(***************************************************************************)
THEOREM ContextOutlivesOperations == Spec => []NoCallbackAfterFree
  <1>1. PendingInv => NoCallbackAfterFree
    BY DEF PendingInv, NoCallbackAfterFree
  <1>2. QED
    BY <1>1, PendingInvariant, PTL

-----------------------------------------------------------------------------
\* An operation that has been answered is neither new nor in flight.
LEMMA OutcomesAreFinal == "none" \notin Async!Outcomes /\ "owed" \notin Async!Outcomes
  BY DEF Async!Outcomes

(***************************************************************************)
(* A step that concerns neither completed_queue nor the threads that take  *)
(* entries from it, and answers no operation.                              *)
(***************************************************************************)
LEMMA QuietReports ==
    ASSUME ReportInv, life' = life, tangled \subseteq tangled',
           UNCHANGED <<completed_queue, completed_ios, global_callback, processed, reports>>,
           Processing' = Processing, \A t \in Processing : pc'[t] = pc[t],
           \A o \in Ios : answer'[o] = answer[o] \/
             (answer[o] \notin Async!Outcomes /\ answer'[o] \notin Async!Outcomes),
           life = "none" => tangled' = tangled /\ answer' = answer
    PROVE  ReportInv'
  <1>1. ASSUME life = "live", tangled' = {} PROVE EntriesAgree'
    <2>1. EntriesAgree
      BY <1>1 DEF ReportInv
    <2>2. \A b \in Nat, n \in Int : QueueFrom(b, n) => QueueFrom(b, n)'
      BY SMTT(30) DEF QueueFrom, Waiting
    <2>3. \A t \in Processing : processed[t] \in Nat
      BY DEF ReportInv, Processing
    <2>4. \A o \in Ios : reports[o] # <<>> => answer'[o] = answer[o]
      BY <2>1 DEF EntriesAgree
    <2>5. /\ QueueFrom(0, completed_ios) => QueueFrom(0, completed_ios)'
          /\ \A t \in Processing :
               QueueFrom(processed[t], completed_ios) => QueueFrom(processed[t], completed_ios)'
      BY <2>2, <2>3 DEF ReportInv
    <2> QED
      BY <2>1, <2>4, <2>5, SMTT(30) DEF EntriesAgree, Waiting
  <1> QED
    BY <1>1 DEF ReportInv

\* The steps of xpdk_batch_submit_one.
LEMMA SubmitReports ==
    ASSUME PendingInv, ReportInv, NEW t \in Threads,
           \/ \E o \in Ios : xpdk_batch_submit_one(t, o)
           \/ life = "live" /\ (SubmitAccepted(t) \/ SubmitRefused(t) \/ SubmitUndo(t))
    PROVE  ReportInv'
  <1>1. /\ life = "live" /\ life' = life
        /\ UNCHANGED <<completed_queue, completed_ios, global_callback, processed, reports>>
    BY DEF xpdk_batch_submit_one, InUse, SubmitAccepted, SubmitRefused, SubmitUndo,
           ctxVars, procVars
  <1>2. tangled \subseteq tangled'
    BY DEF xpdk_batch_submit_one, SubmitAccepted, SubmitRefused, SubmitUndo
  <1>3. PICK l \in {"idle", "submit", "undo"} :
          pc[t] \in {"idle", "submit", "undo"} /\ pc' = [pc EXCEPT ![t] = l]
    BY DEF xpdk_batch_submit_one, SubmitAccepted, SubmitRefused, SubmitUndo, Goto
  <1>4. Processing' = Processing /\ \A u \in Processing : pc'[u] = pc[u]
    BY <1>3 DEF PendingInv, PendingTypeOK, Processing
  <1>5. \A o \in Ios : answer'[o] = answer[o] \/
             (answer[o] \notin Async!Outcomes /\ answer'[o] \notin Async!Outcomes)
    <2>1. CASE answer' = answer
      BY <2>1
    <2>2. CASE Async!Accept(io[t])
      BY <2>2, OutcomesAreFinal DEF Async!Accept, PendingInv, PendingTypeOK
    <2> QED
      BY <2>1, <2>2 DEF xpdk_batch_submit_one, SubmitAccepted, SubmitRefused, SubmitUndo
  <1> QED
    BY <1>1, <1>2, <1>4, <1>5, QuietReports

\* xpdk_batch_cleanup before it frees.
LEMMA CleanupReports ==
    ASSUME PendingInv, ReportInv, NEW t \in Threads,
           xpdk_batch_cleanup(t) \/ (life = "live" /\ CleanupSleep(t))
    PROVE  ReportInv'
  <1>1. /\ life' = life /\ tangled' = tangled /\ answer' = answer
        /\ UNCHANGED <<completed_queue, completed_ios, global_callback, processed, reports>>
    BY DEF xpdk_batch_cleanup, CleanupSleep, ctxVars, procVars
  <1>2. PICK l \in {"cleanup", "sleep"} :
          pc[t] \in {"idle", "cleanup"} /\ pc' = [pc EXCEPT ![t] = l]
    BY DEF xpdk_batch_cleanup, CleanupSleep, Goto
  <1>3. Processing' = Processing /\ \A u \in Processing : pc'[u] = pc[u]
    BY <1>2 DEF PendingInv, PendingTypeOK, Processing
  <1> QED
    BY <1>1, <1>3, QuietReports

\* It frees: nothing is pending, so every operation is one of an earlier context.
LEMMA FreeReports ==
    ASSUME PendingInv, ReportInv, life = "live", NEW t \in Threads, CleanupFree(t)
    PROVE  ReportInv'
  <1>1. /\ life' = "none" /\ completed_ios' = 0 /\ tangled' = {} /\ processed' = processed
        /\ completed_queue' = [i \in Cells |-> Unset] /\ reports' = [o \in Ios |-> <<>>]
        /\ answer' = [o \in Ios |-> IF answer[o] = "owed" THEN "owed" ELSE "none"]
        /\ pc[t] = "cleanup" /\ pc' = [pc EXCEPT ![t] = "idle"]
        /\ pending_queue = <<>>
    BY DEF CleanupFree, NonePending, procVars, Goto
  <1>2. Owed = {}
    <2>1. Cardinality(Owed) = 0
      BY <1>1, EmptySeq, CountsAreNumbers, SMTT(30) DEF PendingInv, PendingCounts
    <2> QED
      BY <2>1, CountsAreNumbers, FS_EmptySet
  <1>3. \A o \in Ios : answer'[o] = "none"
    BY <1>1, <1>2 DEF Owed
  <1>4. Processing = {} /\ Processing' = {}
    BY <1>1 DEF PendingInv, PendingTypeOK, Processing
  <1>5. completed_queue' \in [Cells -> [io : Ios \cup {"unset"},
                                        status : Async!Outcomes \cup {"unset"}]]
    BY <1>1 DEF Unset
  <1> QED
    BY <1>1, <1>3, <1>4, <1>5, SMTT(30) DEF ReportInv

\* xpdk_batch_init: a new context has no entries.
LEMMA InitReports ==
    ASSUME ReportInv, NEW t \in Threads, xpdk_batch_init(t)
    PROVE  ReportInv'
  <1>1. /\ life = "none" /\ life' = "live"
        /\ UNCHANGED <<completed_queue, completed_ios, answer, pc, processed, reports, tangled>>
    BY DEF xpdk_batch_init, procVars
  <1>2. /\ completed_ios = 0 /\ Processing = {} /\ Processing' = {}
        /\ \A o \in Ios : answer[o] = "none" /\ reports[o] = <<>>
    BY <1>1 DEF ReportInv, Processing
  <1>3. QueueFrom(0, completed_ios)'
    BY <1>1, <1>2, OutcomesAreFinal, BatchAssumption, SMTT(30) DEF QueueFrom, Waiting
  <1>4. EntriesAgree'
    BY <1>1, <1>2, <1>3, SMTT(30) DEF EntriesAgree, Waiting
  <1> QED
    BY <1>1, <1>2, <1>4 DEF ReportInv

-----------------------------------------------------------------------------
(***************************************************************************)
(* The memmove at the end of xpdk_batch_process_completions: the n entries *)
(* from index k on are found at the front, in their order.                 *)
(***************************************************************************)
LEMMA ShiftMovesEntries ==
    ASSUME ReportInv, NEW k \in Nat, NEW n \in Nat, k + n <= max_ios,
           completed_queue' = Shifted(k, n)
    PROVE  \A i \in 0 .. n - 1 : completed_queue'[i] = completed_queue[k + i]
  <1>1. \A i \in 0 .. n - 1 : i \in Cells /\ k + i \in Cells
    BY BatchAssumption, SMTT(30) DEF Cells
  <1>2. CASE n = 0
    BY <1>2, SMTT(30) DEF Shifted, ReportInv
  <1>3. CASE n > 0
    <2>1. completed_queue' = [i \in Cells |-> IF i < n THEN Cell(k + i) ELSE completed_queue[i]]
      BY <1>3 DEF Shifted
    <2>2. \A i \in Cells : i < n => i \in 0 .. n - 1
      BY SMTT(30) DEF Cells
    <2>3. \A i \in 0 .. n - 1 : Cell(k + i) = completed_queue[k + i]
      BY <1>1 DEF Cell
    <2> QED
      BY <1>1, <2>1, <2>2, <2>3, SMTT(30) DEF ReportInv
  <1> QED
    BY <1>2, <1>3, SMTT(30)

\* The move writes nothing but entries, also when the context is tangled.
LEMMA ShiftKeepsType ==
    ASSUME ReportInv, NEW k \in Nat, NEW n \in Int
    PROVE  Shifted(k, n) \in [Cells -> [io : Ios \cup {"unset"},
                                        status : Async!Outcomes \cup {"unset"}]]
  <1>1. \A i \in Cells : Cell(k + i) \in [io : Ios \cup {"unset"},
                                          status : Async!Outcomes \cup {"unset"}]
    BY DEF ReportInv, Cell, Unset
  <1> QED
    BY <1>1 DEF Shifted, ReportInv

\* The entries that were right at index k are right at the front.
LEMMA ShiftKeepsQueue ==
    ASSUME ReportInv, NEW k \in Nat, NEW n \in Nat, QueueFrom(k, n),
           completed_queue' = Shifted(k, n), UNCHANGED <<answer, reports, global_callback>>
    PROVE  QueueFrom(0, n)'
  <1>1. k + n <= max_ios /\ n <= max_ios
    <2>1. k + n <= max_ios
      BY DEF QueueFrom
    <2> QED
      BY <2>1, BatchAssumption, SMTT(30)
  <1>2. \A i \in Waiting(0, n) : k + i \in Waiting(k, n) /\ completed_queue'[i] = completed_queue[k + i]
    BY <1>1, ShiftMovesEntries, SMTT(30) DEF Waiting
  <1>3. \A j \in Waiting(k, n) : j - k \in Waiting(0, n) /\ k + (j - k) = j
    BY SMTT(30) DEF Waiting
  <1>4. \A i, j \in Waiting(0, n) : completed_queue'[i].io = completed_queue'[j].io => i = j
    <2> SUFFICES ASSUME NEW i \in Waiting(0, n), NEW j \in Waiting(0, n),
                        completed_queue'[i].io = completed_queue'[j].io
                 PROVE  i = j
      OBVIOUS
    <2>1. completed_queue[k + i].io = completed_queue[k + j].io
      BY <1>2
    <2>2. k + i = k + j
      BY <1>2, <2>1 DEF QueueFrom
    <2> QED
      BY <2>2, SMTT(30) DEF Waiting
  <1>5. ASSUME global_callback, NEW o \in Ios, answer[o] \in Async!Outcomes, reports[o] = <<>>
        PROVE  \E i \in Waiting(0, n) : completed_queue'[i].io = o
    <2>1. PICK j \in Waiting(k, n) : completed_queue[j].io = o
      BY <1>5 DEF QueueFrom
    <2>2. completed_queue'[j - k].io = o
      BY <2>1, <1>2, <1>3
    <2> QED
      BY <2>2, <1>3
  <1>6. \A i \in Waiting(0, n) :
         /\ completed_queue'[i].io \in Ios
         /\ answer[completed_queue'[i].io] \in Async!Outcomes
         /\ completed_queue'[i].status = answer[completed_queue'[i].io]
    BY <1>2, SMTT(30) DEF QueueFrom
  <1> QED
    BY <1>1, <1>4, <1>5, <1>6, SMTT(30) DEF QueueFrom, Waiting

(***************************************************************************)
(* Without the first k entries the others are still as they should be, if  *)
(* those that were left out have been reported, or nobody is told.         *)
(***************************************************************************)
LEMMA QueueDrops ==
    ASSUME NEW b \in Nat, NEW n \in Nat, NEW k \in 0 .. n, QueueFrom(b, n),
           ~global_callback \/ \A i \in Waiting(b, k) : reports[completed_queue[i].io] # <<>>
    PROVE  QueueFrom(b + k, n - k)
  <1>1. Waiting(b + k, n - k) \subseteq Waiting(b, n)
    BY SMTT(30) DEF Waiting
  <1>2. Waiting(b, n) = Waiting(b, k) \cup Waiting(b + k, n - k)
    BY SMTT(30) DEF Waiting
  <1>3. n - k >= 0 /\ (b + k) + (n - k) <= max_ios
    BY BatchAssumption, SMTT(30) DEF QueueFrom
  <1>4. ASSUME global_callback, NEW o \in Ios, answer[o] \in Async!Outcomes, reports[o] = <<>>
        PROVE  \E i \in Waiting(b + k, n - k) : completed_queue[i].io = o
    <2>1. PICK i \in Waiting(b, n) : completed_queue[i].io = o
      BY <1>4 DEF QueueFrom
    <2> QED
      BY <1>2, <1>4, <2>1
  <1> QED
    BY <1>1, <1>3, <1>4 DEF QueueFrom

\* xpdk_batch_process_completions without a callback.
LEMMA SilentReports ==
    ASSUME ReportInv, NEW t \in Threads, NEW m \in {1, max_ios}, ProcessSilently(t, m)
    PROVE  ReportInv'
  <1>1. PICK k : k = Min(completed_ios, m)
    OBVIOUS
  <1>2. /\ life = "live" /\ life' = life /\ ~global_callback /\ completed_ios > 0
        /\ completed_ios' = completed_ios - k
        /\ completed_queue' = Shifted(k, completed_ios - k)
        /\ UNCHANGED <<global_callback, answer, pc, processed, reports, tangled>>
    BY <1>1 DEF ProcessSilently, InUse, procVars
  <1>3. completed_ios \in Nat /\ k \in 0 .. completed_ios
    BY <1>1, <1>2, BatchAssumption, SMTT(30) DEF Min, ReportInv
  <1>4. completed_queue' \in [Cells -> [io : Ios \cup {"unset"},
                                        status : Async!Outcomes \cup {"unset"}]]
    BY <1>2, <1>3, ShiftKeepsType, SMTT(30)
  <1>5. Processing' = Processing
    BY <1>2 DEF Processing
  <1>6. ASSUME tangled = {} PROVE EntriesAgree'
    <2>1. EntriesAgree /\ Processing = {}
      BY <1>2, <1>6 DEF ReportInv, EntriesAgree
    <2>2. PICK n \in Nat : n = completed_ios - k
      BY <1>3, SMTT(30)
    <2>3. QueueFrom(0, completed_ios)
      BY <2>1 DEF EntriesAgree
    <2>4. QueueFrom(k, n)
      <3>1. QueueFrom(0 + k, completed_ios - k)
        BY <1>2, <1>3, <2>3, QueueDrops
      <3> QED
        BY <3>1, <2>2, <1>3, SMTT(30)
    <2>5. QueueFrom(0, n)'
      BY <1>2, <1>3, <2>2, <2>4, ShiftKeepsQueue, SMTT(30)
    <2>6. \A i \in Waiting(0, n) : reports'[completed_queue'[i].io] = <<>>
      <3>1. k + n <= max_ios
        BY <2>4 DEF QueueFrom
      <3>2. \A i \in 0 .. n - 1 : completed_queue'[i] = completed_queue[k + i]
        BY <1>2, <1>3, <2>2, <3>1, ShiftMovesEntries, SMTT(30)
      <3>3. \A i \in 0 .. n - 1 : k + i \in Waiting(0, completed_ios)
        BY <1>3, <2>2, SMTT(30) DEF Waiting
      <3> QED
        BY <1>2, <2>1, <3>2, <3>3, SMTT(30) DEF EntriesAgree, Waiting
    <2>7. completed_ios' = n
      BY <1>2, <2>2
    <2> QED
      BY <1>2, <1>5, <2>1, <2>5, <2>6, <2>7 DEF EntriesAgree
  <1> QED
    BY <1>2, <1>3, <1>4, <1>5, <1>6, SMTT(30) DEF ReportInv

\* It starts to take entries, and is the only one, or the context counts as tangled.
LEMMA StartReports ==
    ASSUME PendingInv, ReportInv, NEW t \in Threads, NEW m \in {1, max_ios}, ProcessStart(t, m)
    PROVE  ReportInv'
  <1>1. /\ life = "live" /\ life' = life /\ global_callback /\ completed_ios > 0
        /\ pc[t] = "idle" /\ pc' = [pc EXCEPT ![t] = "callback"]
        /\ UNCHANGED <<completed_queue, completed_ios, global_callback, answer, processed, reports>>
        /\ tangled' = IF Processing = {} THEN tangled ELSE tangled \cup {"window"}
    BY DEF ProcessStart, InUse, ctxVars, Goto
  <1>2. Processing' = Processing \cup {t} /\ t \notin Processing /\ pc'[t] = "callback"
    BY <1>1, SMTT(30) DEF Processing, PendingInv, PendingTypeOK
  <1>3. processed[t] = 0
    BY <1>2 DEF ReportInv
  <1>4. ASSUME tangled' = {} PROVE EntriesAgree'
    <2>1. Processing = {} /\ EntriesAgree
      BY <1>1, <1>4 DEF ReportInv
    <2>2. QueueFrom(processed[t], completed_ios) /\ QueueFrom(0, completed_ios)
      BY <1>3, <2>1 DEF EntriesAgree
    <2>3. QueueFrom(processed[t], completed_ios)'
      BY <1>1, <2>2, SMTT(30) DEF QueueFrom, Waiting
    <2> QED
      BY <1>1, <1>2, <1>3, <2>1, <2>3 DEF EntriesAgree, Waiting
  <1> QED
    BY <1>1, <1>2, <1>4 DEF ReportInv

\* A thread that takes entries from a context that is not tangled.
LEMMA TheProcessor ==
    ASSUME ReportInv, life = "live", tangled = {}, NEW t \in Processing
    PROVE  /\ EntriesAgree /\ Processing = {t} /\ global_callback
           /\ completed_ios \in Nat \ {0} /\ processed[t] \in Cells
           /\ QueueFrom(processed[t], completed_ios)
           /\ processed[t] \in Waiting(processed[t], completed_ios)
           /\ Cell(processed[t]) = completed_queue[processed[t]]
  <1>1. EntriesAgree /\ processed[t] \in Nat /\ completed_ios \in Int
    BY DEF ReportInv, Processing
  <1>2. completed_ios > 0 /\ processed[t] + completed_ios <= max_ios
    BY <1>1 DEF EntriesAgree, QueueFrom
  <1>3. processed[t] \in Cells /\ processed[t] \in Waiting(processed[t], completed_ios)
    BY <1>1, <1>2, BatchAssumption, SMTT(30) DEF Cells, Waiting
  <1> QED
    BY <1>1, <1>2, <1>3, SMTT(30) DEF EntriesAgree, Cell

\* The callback is told of the entry at processed, for the first time.
LEMMA CallbackReports ==
    ASSUME PendingInv, ReportInv, life = "live", NEW t \in Threads, ProcessCallback(t)
    PROVE  ReportInv'
  <1>1. /\ life' = life /\ pc[t] = "callback" /\ pc' = [pc EXCEPT ![t] = "relock"]
        /\ UNCHANGED <<completed_queue, completed_ios, global_callback, answer, processed, tangled>>
    BY DEF ProcessCallback, ctxVars, procVars, Goto
  <1>2. t \in Processing /\ Processing' = Processing /\ pc'[t] = "relock"
    BY <1>1 DEF Processing, PendingInv, PendingTypeOK
  <1>3. CASE tangled # {}
    <2>1. reports' = reports
      BY <1>3 DEF ProcessCallback
    <2> QED
      BY <1>1, <1>2, <1>3, <2>1 DEF ReportInv
  <1>4. CASE tangled = {}
    <2>1. PICK b \in Cells : b = processed[t]
      BY <1>2, <1>4, TheProcessor
    <2>2. PICK o, s : o = completed_queue[b].io /\ s = completed_queue[b].status
      OBVIOUS
    <2>3. /\ EntriesAgree /\ Processing = {t} /\ QueueFrom(b, completed_ios)
          /\ b \in Waiting(b, completed_ios)
      BY <1>2, <1>4, <2>1, TheProcessor
    <2>4. /\ o \in Ios /\ s = answer[o] /\ s \in Async!Outcomes
      BY <2>2, <2>3 DEF QueueFrom
    <2>5. \A i \in Waiting(b, completed_ios) : reports[completed_queue[i].io] = <<>>
      BY <1>1, <2>1, <2>3 DEF EntriesAgree
    <2>6. reports' = [reports EXCEPT ![o] = Append(reports[o], s)]
      BY <1>2, <1>4, <2>1, <2>2, TheProcessor DEF ProcessCallback
    <2>7. reports[o] = <<>>
      BY <2>2, <2>3, <2>5
    <2>8. /\ reports' = [q \in Ios |-> reports'[q]] /\ reports'[o] = <<s>> /\ <<s>> # <<>>
          /\ \A q \in Ios \ {o} : reports'[q] = reports[q]
      <3>1. Append(reports[o], s) = <<s>> /\ <<s>> # <<>>
        BY <2>7, SMTT(30)
      <3> QED
        BY <2>4, <2>6, <3>1 DEF ReportInv
    <2>9. \A i \in Waiting(b, completed_ios) : reports'[completed_queue[i].io] # <<>> <=> i = b
      <3> SUFFICES ASSUME NEW i \in Waiting(b, completed_ios), i # b
                   PROVE  reports'[completed_queue[i].io] = <<>>
        BY <2>2, <2>8
      <3>1. completed_queue[i].io \in Ios \ {o}
        BY <2>2, <2>3 DEF QueueFrom
      <3> QED
        BY <3>1, <2>5, <2>8
    <2>10. QueueFrom(b, completed_ios)'
      BY <1>1, <2>1, <2>3, <2>8, SMTT(30) DEF QueueFrom, Waiting
    <2>11. \A q \in Ios : reports'[q] # <<>> => answer'[q] \in Async!Outcomes /\ reports'[q] = <<answer'[q]>>
      BY <1>1, <2>3, <2>4, <2>8 DEF EntriesAgree
    <2>12. EntriesAgree'
      BY <1>1, <1>2, <2>1, <2>3, <2>9, <2>10, <2>11, SMTT(30) DEF EntriesAgree, Waiting
    <2> QED
      BY <1>1, <1>2, <2>8, <2>12 DEF ReportInv
  <1> QED
    BY <1>3, <1>4

\* The thread goes on to the next entry, or moves what remains to the front.
LEMMA NextReports ==
    ASSUME PendingInv, ReportInv, life = "live", NEW t \in Threads, ProcessNext(t)
    PROVE  ReportInv'
  <1>1. PICK k, n : k = processed[t] + 1 /\ n = completed_ios - 1
    OBVIOUS
  <1>2. /\ life' = life /\ pc[t] = "relock" /\ completed_ios' = n
        /\ UNCHANGED <<global_callback, answer, reports, tangled>>
    BY <1>1 DEF ProcessNext
  <1>3. k \in Nat /\ n \in Int /\ processed[t] \in Nat
    BY <1>1, SMTT(30) DEF ReportInv
  <1>4. t \in Processing
    BY <1>2 DEF Processing
  <1>5. ASSUME tangled = {}
        PROVE  /\ EntriesAgree /\ Processing = {t} /\ n \in Nat /\ global_callback
               /\ QueueFrom(k, n) /\ k + n <= max_ios
               /\ \A i \in Waiting(k, n) : reports[completed_queue[i].io] = <<>>
    <2>1. PICK b \in Nat : b = processed[t]
      BY <1>3
    <2>2. /\ EntriesAgree /\ Processing = {t} /\ global_callback
          /\ completed_ios \in Nat \ {0} /\ QueueFrom(b, completed_ios)
      BY <1>4, <1>5, <2>1, TheProcessor
    <2>3. \A i \in Waiting(b, completed_ios) : reports[completed_queue[i].io] # <<>> <=> i = b
      BY <1>2, <2>1, <2>2 DEF EntriesAgree
    <2>4. \A i \in Waiting(b, 1) : i = b /\ i \in Waiting(b, completed_ios)
      BY <2>2, SMTT(30) DEF Waiting
    <2>5. QueueFrom(b + 1, completed_ios - 1)
      BY <2>2, <2>3, <2>4, QueueDrops, SMTT(30)
    <2>6. \A i \in Waiting(k, n) : i \in Waiting(b, completed_ios) /\ i # b
      BY <1>1, <2>1, <2>2, SMTT(30) DEF Waiting
    <2>7. QueueFrom(k, n)
      BY <1>1, <2>1, <2>5
    <2> QED
      BY <1>1, <2>2, <2>3, <2>6, <2>7, SMTT(30) DEF QueueFrom
  <1>6. CASE n > 0 /\ k < max[t]
    <2>1. /\ processed' = [processed EXCEPT ![t] = k] /\ pc' = [pc EXCEPT ![t] = "callback"]
          /\ completed_queue' = completed_queue
      BY <1>1, <1>6 DEF ProcessNext, Goto
    <2>2. Processing' = Processing /\ pc'[t] = "callback" /\ processed'[t] = k
      BY <1>2, <2>1 DEF Processing, PendingInv, PendingTypeOK, ReportInv
    <2>3. processed' \in [Threads -> Nat] /\ \A u \in Threads \ Processing : processed'[u] = 0
      BY <1>3, <1>4, <2>1 DEF ReportInv
    <2>4. ASSUME tangled = {} PROVE EntriesAgree'
      <3>1. QueueFrom(k, n)'
        BY <1>2, <1>5, <2>1, <2>4 DEF QueueFrom, Waiting
      <3> QED
        BY <1>2, <1>5, <1>6, <2>1, <2>2, <2>4, <3>1 DEF EntriesAgree, Waiting
    <2> QED
      BY <1>2, <1>3, <2>1, <2>2, <2>3, <2>4 DEF ReportInv
  <1>7. CASE ~(n > 0 /\ k < max[t])
    <2>1. /\ processed' = [processed EXCEPT ![t] = 0] /\ pc' = [pc EXCEPT ![t] = "idle"]
          /\ completed_queue' = Shifted(k, n)
      BY <1>1, <1>7 DEF ProcessNext, Goto
    <2>2. Processing' = Processing \ {t}
      BY <1>2, <2>1 DEF Processing, PendingInv, PendingTypeOK
    <2>3. processed' \in [Threads -> Nat] /\ \A u \in Threads \ Processing' : processed'[u] = 0
      BY <2>1, <2>2 DEF ReportInv
    <2>4. completed_queue' \in [Cells -> [io : Ios \cup {"unset"},
                                          status : Async!Outcomes \cup {"unset"}]]
      BY <1>3, <2>1, ShiftKeepsType
    <2>5. ASSUME tangled = {} PROVE EntriesAgree'
      <3>1. QueueFrom(0, n)'
        BY <1>2, <1>3, <1>5, <2>1, <2>5, ShiftKeepsQueue
      <3>2. \A i \in Waiting(0, n) : reports'[completed_queue'[i].io] = <<>>
        <4>1. \A i \in 0 .. n - 1 : completed_queue'[i] = completed_queue[k + i]
          BY <1>3, <1>5, <2>1, <2>5, ShiftMovesEntries
        <4>2. \A i \in 0 .. n - 1 : k + i \in Waiting(k, n)
          BY <1>3, SMTT(30) DEF Waiting
        <4> QED
          BY <1>2, <1>5, <2>5, <4>1, <4>2, SMTT(30) DEF Waiting
      <3> QED
        BY <1>2, <1>5, <2>2, <2>5, <3>1, <3>2 DEF EntriesAgree
    <2> QED
      BY <1>2, <1>3, <2>3, <2>4, <2>5 DEF ReportInv
  <1> QED
    BY <1>6, <1>7

(***************************************************************************)
(* xpdk_batch_completion_callback: there is an entry, and unless it is     *)
(* another operation's the queue gets an operation it does not have yet.   *)
(***************************************************************************)
LEMMA CompletionReports ==
    ASSUME PendingInv, ReportInv, NEW o \in Ios, Completes(o)
    PROVE  ReportInv'
  <1>1. PICK s \in Async!Outcomes : xpdk_batch_completion_callback(o, s)
    BY DEF Completes
  <1>2. /\ life = "live" /\ answer[o] = "owed" /\ answer' = [answer EXCEPT ![o] = s]
        /\ pc' = [t \in Threads |-> IF pc[t] = "sleep" THEN "cleanup" ELSE pc[t]]
        /\ UNCHANGED <<global_callback, processed, reports>>
    BY <1>1 DEF xpdk_batch_completion_callback, Async!Answer, Signalled, procVars
  <1>3. Processing' = Processing /\ \A t \in Processing : pc'[t] = pc[t]
    BY <1>2 DEF Processing
  <1>4. pending_queue # <<>>
    <2>1. o \in Owed
      BY <1>2 DEF Owed
    <2>2. Cardinality(Owed) # 0
      BY <2>1, CountsAreNumbers, FS_EmptySet
    <2> QED
      BY <1>2, <2>2, CountsAreNumbers, EmptySeq, SMTT(30) DEF PendingInv, PendingCounts
  <1>5. PICK h : h = Head(pending_queue)
    OBVIOUS
  <1>6. h \in Ios
    BY <1>4, <1>5, HeadTailProperties DEF PendingInv, PendingTypeOK
  <1>7. /\ completed_ios' = completed_ios + 1
        /\ tangled \subseteq tangled'
        /\ h # o => "order" \in tangled'
        /\ (\E t \in Processing : processed[t] > 0) => "window" \in tangled'
    BY <1>1, <1>4, <1>5 DEF xpdk_batch_completion_callback
  <1>8. PICK e \in [io : Ios, status : Async!Outcomes] : e = [io |-> h, status |-> s]
    BY <1>6
  <1>9. e.io = h /\ e.status = s
    BY <1>8
  <1>10. CASE completed_ios \notin Cells
    <2>1. life' = "corrupt" /\ completed_queue' = completed_queue
      BY <1>1, <1>4, <1>10 DEF xpdk_batch_completion_callback
    <2> QED
      BY <1>2, <1>3, <1>7, <2>1, SMTT(30) DEF ReportInv
  <1>11. CASE completed_ios \in Cells
    <2>1. life' = "live" /\ completed_queue' = [completed_queue EXCEPT ![completed_ios] = e]
      BY <1>1, <1>2, <1>4, <1>5, <1>8, <1>11 DEF xpdk_batch_completion_callback
    <2>2. completed_queue' \in [Cells -> [io : Ios \cup {"unset"},
                                          status : Async!Outcomes \cup {"unset"}]]
      <3>1. e \in [io : Ios \cup {"unset"}, status : Async!Outcomes \cup {"unset"}]
        BY <1>8
      <3> QED
        BY <2>1, <3>1 DEF ReportInv
    <2>3. PICK n \in Nat : n = completed_ios /\ n < max_ios
      BY <1>11, BatchAssumption, SMTT(30) DEF Cells
    <2>4. completed_queue'[n] = e /\ \A i \in 0 .. n - 1 : completed_queue'[i] = completed_queue[i]
      BY <2>1, <2>3, <1>11, BatchAssumption, SMTT(30) DEF ReportInv, Cells
    <2>5. ASSUME tangled' = {} PROVE EntriesAgree'
      <3>1. EntriesAgree /\ h = o /\ \A t \in Processing : processed[t] = 0
        BY <1>2, <1>7, <2>5, SMTT(30) DEF ReportInv, Processing
      <3>2. /\ QueueFrom(0, n)
            /\ reports[o] = <<>>
        BY <1>2, <2>3, <3>1, OutcomesAreFinal, SMTT(30) DEF EntriesAgree
      <3>3. /\ answer'[o] = s /\ \A q \in Ios \ {o} : answer'[q] = answer[q]
        BY <1>2 DEF PendingInv, PendingTypeOK
      <3>4. \A i \in Waiting(0, n) :
              /\ completed_queue[i].io \in Ios \ {o}
              /\ completed_queue'[i] = completed_queue[i]
        BY <1>2, <2>4, <3>2, OutcomesAreFinal, SMTT(30) DEF QueueFrom, Waiting
      <3>5. Waiting(0, n + 1) = Waiting(0, n) \cup {n} /\ n \notin Waiting(0, n)
        BY SMTT(30) DEF Waiting
      <3>6. \A i \in Waiting(0, n + 1) :
              /\ completed_queue'[i].io \in Ios
              /\ answer'[completed_queue'[i].io] \in Async!Outcomes
              /\ completed_queue'[i].status = answer'[completed_queue'[i].io]
        <4>1. \A i \in Waiting(0, n) :
                /\ answer[completed_queue[i].io] \in Async!Outcomes
                /\ completed_queue[i].status = answer[completed_queue[i].io]
          BY <3>2 DEF QueueFrom
        <4> QED
          BY <1>9, <2>4, <3>1, <3>3, <3>4, <3>5, <4>1, SMTT(30)
      <3>7. \A i, j \in Waiting(0, n + 1) : completed_queue'[i].io = completed_queue'[j].io => i = j
        <4>1. \A i, j \in Waiting(0, n) : completed_queue[i].io = completed_queue[j].io => i = j
          BY <3>2 DEF QueueFrom
        <4> QED
          BY <1>9, <2>4, <3>1, <3>4, <3>5, <4>1
      <3>8. global_callback =>
              \A q \in Ios : answer'[q] \in Async!Outcomes /\ reports[q] = <<>> =>
                \E i \in Waiting(0, n + 1) : completed_queue'[i].io = q
        <4>1. global_callback =>
                \A q \in Ios : answer[q] \in Async!Outcomes /\ reports[q] = <<>> =>
                  \E i \in Waiting(0, n) : completed_queue[i].io = q
          BY <3>2 DEF QueueFrom
        <4> QED
          BY <1>9, <2>4, <3>1, <3>3, <3>4, <3>5, <4>1
      <3>9. QueueFrom(0, n + 1)'
        <4>1. n + 1 >= 0 /\ 0 + (n + 1) <= max_ios
          BY <1>2, <2>3, BatchAssumption, SMTT(30)
        <4> QED
          BY <1>2, <3>6, <3>7, <3>8, <4>1 DEF QueueFrom
      <3>10. \A q \in Ios :
               reports[q] # <<>> => answer'[q] \in Async!Outcomes /\ reports[q] = <<answer'[q]>>
        BY <3>1, <3>2, <3>3 DEF EntriesAgree
      <3>11. completed_ios' = n + 1
        BY <1>7, <2>3
      <3>12. Processing = {} =>
               \A i \in Waiting(0, n + 1) : reports[completed_queue'[i].io] = <<>>
        BY <1>9, <2>3, <2>4, <3>1, <3>2, <3>4, <3>5 DEF EntriesAgree
      <3>13. \A t \in Processing : \A i \in Waiting(0, n + 1) :
               reports[completed_queue'[i].io] # <<>> <=> pc[t] = "relock" /\ i = 0
        <4> SUFFICES ASSUME NEW t \in Processing PROVE \A i \in Waiting(0, n + 1) :
               reports[completed_queue'[i].io] # <<>> <=> pc[t] = "relock" /\ i = 0
          OBVIOUS
        <4>1. n > 0 /\ \A i \in Waiting(0, n) :
                reports[completed_queue[i].io] # <<>> <=> pc[t] = "relock" /\ i = 0
          BY <2>3, <3>1, SMTT(30) DEF EntriesAgree
        <4> QED
          BY <4>1, <1>9, <2>4, <3>1, <3>2, <3>4, <3>5, SMTT(30)
      <3>14. \A t \in Processing : processed'[t] = 0 /\ pc'[t] = pc[t] /\ completed_ios' > 0
        BY <1>2, <1>3, <3>1, <3>11, SMTT(30)
      <3> QED
        BY <1>2, <1>3, <3>1, <3>9, <3>10, <3>11, <3>12, <3>13, <3>14, SMTT(30)
           DEF EntriesAgree
    <2> QED
      BY <1>2, <1>3, <1>7, <2>1, <2>2, <2>5, SMTT(30) DEF ReportInv
  <1> QED
    BY <1>10, <1>11

-----------------------------------------------------------------------------
\* Every step keeps the invariant of the reports.
LEMMA ReportStep ==
    ASSUME PendingInv, ReportInv, [Next]_vars
    PROVE  ReportInv'
  <1>1. CASE UNCHANGED vars
    <2>1. /\ life' = life /\ tangled' = tangled /\ answer' = answer /\ pc' = pc
          /\ UNCHANGED <<completed_queue, completed_ios, global_callback, processed, reports>>
      BY <1>1 DEF vars, ctxVars, procVars
    <2>2. Processing' = Processing
      BY <2>1 DEF Processing
    <2> QED
      BY <2>1, <2>2, QuietReports
  <1> QED
    BY <1>1, SubmitReports, CleanupReports, FreeReports, InitReports, SilentReports,
       StartReports, CallbackReports, NextReports, CompletionReports
       DEF Next, ThreadStep

\* At first nothing has completed.
LEMMA ReportInit ==
    ASSUME Init
    PROVE  ReportInv
  <1>1. /\ life = "none" /\ completed_ios = 0 /\ tangled = {}
        /\ completed_queue = [i \in Cells |-> Unset] /\ reports = [o \in Ios |-> <<>>]
        /\ answer = [o \in Ios |-> "none"]
        /\ pc = [t \in Threads |-> "idle"] /\ processed = [t \in Threads |-> 0]
    BY DEF Init, Async!Init
  <1>2. Processing = {}
    BY <1>1 DEF Processing
  <1> QED
    BY <1>1, <1>2, SMTT(30) DEF ReportInv, Unset

(***************************************************************************)
(* Where the waiting entries are, and of which operations, in every        *)
(* context that is not tangled.                                            *)
(***************************************************************************)
THEOREM ReportInvariant == Spec => []ReportInv
  <1>1. Init => ReportInv
    BY ReportInit
  <1>2. PendingInv /\ ReportInv /\ [Next]_vars => ReportInv'
    BY ReportStep
  <1>3. QED
    BY <1>1, <1>2, PendingInvariant, PTL DEF Spec

(***************************************************************************)
(* An operation that completes in its turn is in completed_queue once, or  *)
(* its status has been given to global_callback once, for any number of    *)
(* threads and operations and any capacity.                                *)
(***************************************************************************)
THEOREM OperationsAreReportedOnce == Spec => []ReportedOnce
  <1>1. ASSUME ReportInv PROVE ReportedOnce
    <2> SUFFICES ASSUME life = "live", tangled = {} PROVE ReportedOnce
      BY DEF ReportedOnce
    <2>1. EntriesAgree
      BY <1>1 DEF ReportInv
    <2>2. \A o \in Ios : reports[o] \in {<<>>, <<answer[o]>>}
      BY <2>1 DEF EntriesAgree
    <2>3. ASSUME Processing = {}
          PROVE  /\ QueueFrom(0, completed_ios)
                 /\ Completed = {completed_queue[i] : i \in Waiting(0, completed_ios)}
                 /\ \A i \in Waiting(0, completed_ios) :
                      /\ reports[completed_queue[i].io] = <<>>
                      /\ completed_queue[i].io \in Ios
                      /\ answer[completed_queue[i].io] \in Async!Outcomes
                      /\ completed_queue[i].status = answer[completed_queue[i].io]
      BY <1>1, <2>1, <2>3, SMTT(30)
         DEF EntriesAgree, QueueFrom, Completed, Waiting, ReportInv
    <2>4. ASSUME Processing = {}, NEW i \in Waiting(0, completed_ios)
          PROVE  completed_queue[i] = [io |-> completed_queue[i].io,
                                       status |-> answer[completed_queue[i].io]]
      <3>1. i \in Cells
        <4>1. completed_ios \in Int /\ 0 + completed_ios <= max_ios
          BY <1>1, <2>3, <2>4 DEF QueueFrom, ReportInv
        <4> QED
          BY <2>4, <4>1, BatchAssumption, SMTT(30) DEF Waiting, Cells
      <3>2. completed_queue[i] \in [io : Ios \cup {"unset"}, status : Async!Outcomes \cup {"unset"}]
        BY <1>1, <3>1 DEF ReportInv
      <3>3. completed_queue[i] = [io |-> completed_queue[i].io, status |-> completed_queue[i].status]
        BY <3>2
      <3> QED
        BY <2>3, <2>4, <3>3
    <2>5. ASSUME Processing = {}, global_callback
          PROVE  Completed = {[io |-> o, status |-> answer[o]] :
                                o \in {q \in Ios : answer[q] \in Async!Outcomes /\ reports[q] = <<>>}}
      <3> DEFINE R == {q \in Ios : answer[q] \in Async!Outcomes /\ reports[q] = <<>>}
      <3>1. \A i \in Waiting(0, completed_ios) : completed_queue[i].io \in R
        BY <2>3, <2>5
      <3>2. \A o \in R : \E i \in Waiting(0, completed_ios) : completed_queue[i].io = o
        BY <2>3, <2>5 DEF QueueFrom
      <3> HIDE DEF R
      <3>3. ASSUME NEW e \in Completed PROVE e \in {[io |-> o, status |-> answer[o]] : o \in R}
        <4>1. PICK i \in Waiting(0, completed_ios) : e = completed_queue[i]
          BY <2>3, <2>5
        <4>2. e = [io |-> completed_queue[i].io, status |-> answer[completed_queue[i].io]]
          BY <2>4, <2>5, <4>1
        <4> QED
          BY <3>1, <4>2
      <3>4. ASSUME NEW o \in R PROVE [io |-> o, status |-> answer[o]] \in Completed
        BY <2>3, <2>4, <2>5, <3>2, SMTT(30)
      <3> QED
        BY <3>3, <3>4 DEF R
    <2> QED
      BY <2>2, <2>3, <2>5, SMTT(30) DEF ReportedOnce
  <1>2. QED
    BY <1>1, ReportInvariant, PTL

-----------------------------------------------------------------------------
(***************************************************************************)
(* What a batch context does with its operations is what XpdkAsync allows: *)
(* it submits one that is not on its way, has each answered at most once,  *)
(* and forgets them all together when the context is freed, at which none  *)
(* is owed an answer.  So XpdkBatch asks no more of xpdk_read_async and    *)
(* xpdk_write_async than XpdkSystem is proved to give                      *)
(* (LibraryImplementsAsync of XpdkSystemProof).                            *)
(***************************************************************************)
THEOREM ContextUsesAsync == Spec => Async!Spec
  <1>1. Init => Async!Init
    BY DEF Init
  <1>2. ASSUME PendingInv, [Next]_vars PROVE [Async!Next]_answer
    <2> USE DEF Async!Next
    <2>1. ASSUME NEW t \in Threads, pc[t] = "submit", Async!Accept(io[t]) PROVE Async!Next
      <3>1. io[t] \in Ios
        BY <1>2, <2>1 DEF PendingInv, PendingTypeOK, Submitting
      <3>2. QED
        BY <2>1, <3>1
    <2>2. ASSUME NEW o \in Ios, Completes(o) PROVE Async!Next
      BY <2>2 DEF Completes, xpdk_batch_completion_callback
    <2>3. ASSUME life = "live", NEW t \in Threads, CleanupFree(t) PROVE Async!Next
      <3>1. /\ pending_queue = <<>>
            /\ answer' = [o \in Ios |-> IF answer[o] = "owed" THEN "owed" ELSE "none"]
        BY <2>3 DEF CleanupFree, NonePending
      <3>2. Cardinality(Owed) = 0
        BY <1>2, <2>3, <3>1, EmptySeq, CountsAreNumbers, SMTT(30)
           DEF PendingInv, PendingTypeOK, PendingCounts
      <3>3. Owed = {}
        BY <1>2, <3>2, CountsAreNumbers, FS_EmptySet
      <3>4. answer' = [o \in Ios |-> "none"]
        BY <3>1, <3>3 DEF Owed
      <3>5. QED
        BY <3>4 DEF Async!Restart
    <2>4. CASE UNCHANGED vars
      BY <2>4 DEF vars
    <2>5. CASE \E t \in Threads :
                 \/ xpdk_batch_init(t) \/ xpdk_batch_cleanup(t)
                 \/ SubmitRefused(t) \/ SubmitUndo(t) \/ CleanupSleep(t)
                 \/ ProcessCallback(t) \/ ProcessNext(t)
                 \/ \E o \in Ios : xpdk_batch_submit_one(t, o)
                 \/ \E m \in {1, max_ios} : ProcessSilently(t, m) \/ ProcessStart(t, m)
      <3>1. answer' = answer
        BY <2>5 DEF xpdk_batch_init, xpdk_batch_cleanup, SubmitRefused, SubmitUndo,
                    CleanupSleep, ProcessCallback, ProcessNext, xpdk_batch_submit_one,
                    ProcessSilently, ProcessStart
      <3>2. QED
        BY <3>1
    <2>6. QED
      BY <1>2, <2>1, <2>2, <2>3, <2>4, <2>5 DEF Next, ThreadStep, SubmitAccepted
  <1>3. QED
    BY <1>1, <1>2, PendingInvariant, PTL DEF Spec, Async!Spec

-----------------------------------------------------------------------------
(***************************************************************************)
(* What the application must see to, since the library does not: it        *)
(* submits an operation only while the pending and the completed ones      *)
(* leave room for it, and takes completions in one thread at a time.       *)
(***************************************************************************)
RoomFirst ==
    Len(pending_queue') > Len(pending_queue) => Len(pending_queue) + completed_ios < max_ios

OneAtATime == \A t, u \in Processing : t = u

\* What a step must keep, beside PendingInv and ReportInv.
RoomParts ==
    /\ NoOverrun
    /\ completed_ios >= 0
    /\ Len(pending_queue) + completed_ios <= max_ios
    /\ Processing # {} => global_callback /\ completed_ios > 0

\* The counters are numbers.
LEMMA RoomNumbers ==
    ASSUME RoomInv
    PROVE  /\ completed_ios \in Nat /\ Len(pending_queue) \in Nat /\ max_ios \in Nat
           /\ Len(pending_queue) + completed_ios <= max_ios
  <1>1. /\ pending_queue \in Seq(Ios) /\ completed_ios \in Int /\ completed_ios >= 0
        /\ Len(pending_queue) + completed_ios <= max_ios
    BY DEF RoomInv, PendingInv, PendingTypeOK, ReportInv
  <1>2. Len(pending_queue) \in Nat
    BY <1>1, LenProperties
  <1>3. completed_ios \in Nat /\ max_ios \in Nat
    BY <1>1, BatchAssumption, SMTT(30)
  <1>4. QED
    BY <1>1, <1>2, <1>3

\* A step that changes no counter and after which no thread is new to taking entries.
LEMMA SameRoom ==
    ASSUME RoomInv, UNCHANGED <<pending_queue, completed_ios>>, life' # "corrupt",
           Processing' # {} => Processing # {} /\ global_callback' = global_callback
    PROVE  RoomParts'
  <1>1. NoOverrun'
    BY DEF NoOverrun
  <1>2. QED
    BY <1>1 DEF RoomInv, RoomParts

\* The calls that submit: one entry more where there is room, or one less.
LEMMA SubmitRoom ==
    ASSUME RoomInv, RoomFirst, NEW t \in Threads,
           \/ \E o \in Ios : xpdk_batch_submit_one(t, o)
           \/ SubmitAccepted(t) \/ SubmitRefused(t)
           \/ life = "live" /\ SubmitUndo(t)
    PROVE  RoomParts'
  <1> USE DEF RoomInv
  <1>1. /\ life' = life /\ UNCHANGED <<completed_ios, global_callback>>
        /\ \E l \in {"submit", "idle", "undo"} : pc' = [pc EXCEPT ![t] = l]
        /\ pc[t] \in {"idle", "submit", "undo"}
    BY DEF xpdk_batch_submit_one, SubmitAccepted, SubmitRefused, SubmitUndo, ctxVars, Goto
  <1>2. Processing' = Processing /\ NoOverrun'
    BY <1>1 DEF Processing, NoOverrun, PendingInv, PendingTypeOK
  <1>3. Len(pending_queue') + completed_ios <= max_ios
    <2>1. CASE \E o \in Ios : xpdk_batch_submit_one(t, o)
      <3>1. PICK o \in Ios : pending_queue' = Append(pending_queue, o)
        BY <2>1 DEF xpdk_batch_submit_one
      <3>2. Len(pending_queue') = Len(pending_queue) + 1
        BY <3>1, AppendProperties, SMTT(30) DEF PendingInv, PendingTypeOK
      <3>3. QED
        BY <3>2, RoomNumbers, SMTT(30) DEF RoomFirst
    <2>2. CASE SubmitAccepted(t) \/ SubmitRefused(t)
      BY <2>2 DEF SubmitAccepted, SubmitRefused, ctxVars
    <2>3. CASE life = "live" /\ SubmitUndo(t)
      <3>1. Len(pending_queue') = Len(pending_queue) - 1
        BY <2>3, UndoDropsOne
      <3>2. QED
        BY <3>1, RoomNumbers, SMTT(30)
    <2>4. QED
      BY <2>1, <2>2, <2>3
  <1>4. QED
    BY <1>1, <1>2, <1>3 DEF RoomParts

\* The callback moves an entry from one queue to the other: there is a cell for it.
LEMMA CompletionRoom ==
    ASSUME RoomInv, NEW o \in Ios, Completes(o)
    PROVE  RoomParts'
  <1> USE DEF RoomInv
  <1>1. /\ Len(pending_queue) \in Nat \ {0} /\ pending_queue # <<>>
        /\ Len(pending_queue') = Len(pending_queue) - 1
    BY CompletionTakesOne
  <1>2. completed_ios \in Cells
    BY <1>1, RoomNumbers, SMTT(30) DEF Cells
  <1>3. /\ completed_ios' = completed_ios + 1 /\ UNCHANGED <<life, global_callback>>
        /\ pc' = Signalled
    BY <1>1, <1>2 DEF Completes, xpdk_batch_completion_callback
  <1>4. Processing' = Processing /\ NoOverrun'
    BY <1>3 DEF Processing, Signalled, NoOverrun
  <1>5. /\ completed_ios' >= 0 /\ completed_ios' > 0
        /\ Len(pending_queue') + completed_ios' <= max_ios
    BY <1>1, <1>3, RoomNumbers, SMTT(30)
  <1>6. QED
    BY <1>3, <1>4, <1>5 DEF RoomParts

\* xpdk_batch_process_completions takes at most what is there.
LEMMA ProcessRoom ==
    ASSUME RoomInv, OneAtATime, NEW t \in Threads,
           \/ \E m \in {1, max_ios} : ProcessSilently(t, m) \/ ProcessStart(t, m)
           \/ ProcessCallback(t) \/ ProcessNext(t)
    PROVE  RoomParts'
  <1> USE DEF RoomInv
  <1>1. CASE \E m \in {1, max_ios} : ProcessSilently(t, m)
    <2>1. PICK m \in {1, max_ios} : ProcessSilently(t, m)
      BY <1>1
    <2>2. /\ ~global_callback /\ UNCHANGED <<life, pending_queue, pc>>
          /\ completed_ios' = completed_ios - Min(completed_ios, m)
      BY <2>1 DEF ProcessSilently
    <2>3. Processing = {} /\ Processing' = {} /\ NoOverrun'
      BY <2>2 DEF Processing, NoOverrun
    <2>4. completed_ios' >= 0 /\ Len(pending_queue) + completed_ios' <= max_ios
      BY <2>2, RoomNumbers, SMTT(30) DEF Min
    <2>5. QED
      BY <2>2, <2>3, <2>4 DEF RoomParts
  <1>2. CASE \E m \in {1, max_ios} : ProcessStart(t, m)
    <2>1. /\ global_callback /\ completed_ios > 0
          /\ UNCHANGED <<life, pending_queue, completed_ios, global_callback>>
      BY <1>2 DEF ProcessStart, ctxVars
    <2>2. QED
      BY <2>1 DEF RoomParts, NoOverrun
  <1>3. CASE ProcessCallback(t)
    <2>1. /\ UNCHANGED <<life, pending_queue, completed_ios, global_callback>>
          /\ pc[t] = "callback"
      BY <1>3 DEF ProcessCallback, ctxVars
    <2>2. Processing # {}
      BY <2>1 DEF Processing
    <2>3. QED
      BY <2>1, <2>2, SameRoom DEF NoOverrun
  <1>4. CASE ProcessNext(t)
    <2>1. /\ pc[t] = "relock" /\ completed_ios' = completed_ios - 1
          /\ UNCHANGED <<life, pending_queue, global_callback>>
          /\ \/ completed_ios - 1 > 0
             \/ pc' = [pc EXCEPT ![t] = "idle"]
      BY <1>4 DEF ProcessNext, Goto
    <2>2. t \in Processing /\ completed_ios > 0 /\ global_callback
      BY <2>1 DEF Processing
    <2>3. completed_ios' >= 0 /\ Len(pending_queue) + completed_ios' <= max_ios
      BY <2>1, <2>2, RoomNumbers, SMTT(30)
    <2>4. pc' = [pc EXCEPT ![t] = "idle"] => Processing' = {}
      BY <2>2 DEF Processing, OneAtATime, PendingInv, PendingTypeOK
    <2>5. Processing' # {} => completed_ios' > 0
      BY <2>1, <2>4
    <2>6. QED
      BY <2>1, <2>2, <2>3, <2>5 DEF RoomParts, NoOverrun
  <1>5. QED
    BY <1>1, <1>2, <1>3, <1>4

\* xpdk_batch_init and xpdk_batch_cleanup work on a context nobody takes entries from.
LEMMA ContextRoom ==
    ASSUME RoomInv, NEW t \in Threads,
           xpdk_batch_init(t) \/ xpdk_batch_cleanup(t) \/ CleanupSleep(t) \/ CleanupFree(t)
    PROVE  RoomParts'
  <1> USE DEF RoomInv
  <1>1. CASE xpdk_batch_init(t)
    <2>1. /\ life = "none" /\ life' = "live"
          /\ UNCHANGED <<pending_queue, completed_ios, pc>>
      BY <1>1 DEF xpdk_batch_init
    <2>2. Processing' = {}
      BY <2>1 DEF Processing, ReportInv
    <2>3. QED
      BY <2>1, <2>2, SameRoom
  <1>2. CASE xpdk_batch_cleanup(t) \/ CleanupSleep(t)
    <2>1. /\ UNCHANGED <<life, pending_queue, completed_ios, global_callback>>
          /\ pc' = [pc EXCEPT ![t] = "cleanup"] \/ pc' = [pc EXCEPT ![t] = "sleep"]
      BY <1>2 DEF xpdk_batch_cleanup, CleanupSleep, ctxVars, Goto
    <2>2. Processing' \subseteq Processing
      BY <2>1 DEF Processing, PendingInv, PendingTypeOK
    <2>3. QED
      BY <2>1, <2>2, SameRoom DEF NoOverrun
  <1>3. CASE CleanupFree(t)
    <2>1. /\ pc[t] = "cleanup" /\ pc' = [pc EXCEPT ![t] = "idle"]
          /\ pending_queue' = pending_queue /\ completed_ios' = 0 /\ life' = "none"
      BY <1>3 DEF CleanupFree, Goto
    <2>2. Processing' = {}
      BY <2>1 DEF Processing, PendingInv, PendingTypeOK
    <2>3. completed_ios' >= 0 /\ Len(pending_queue) + completed_ios' <= max_ios
      BY <2>1, RoomNumbers, SMTT(30)
    <2>4. QED
      BY <2>1, <2>2, <2>3 DEF RoomParts, NoOverrun
  <1>4. QED
    BY <1>1, <1>2, <1>3

\* Every step of such an application keeps the invariant.
LEMMA RoomStep ==
    ASSUME RoomInv, OneAtATime, [Next]_vars, [RoomFirst]_vars
    PROVE  RoomInv'
  <1>1. PendingInv' /\ ReportInv'
    BY PendingStep, ReportStep DEF RoomInv
  <1> SUFFICES RoomParts'
    BY <1>1 DEF RoomInv, RoomParts
  <1>2. CASE UNCHANGED vars
    BY <1>2, SameRoom DEF vars, ctxVars, Processing, RoomInv, NoOverrun
  <1>3. CASE Next /\ RoomFirst
    BY <1>3, SubmitRoom, CompletionRoom, ProcessRoom, ContextRoom DEF Next, ThreadStep
  <1>4. QED
    BY <1>2, <1>3

(***************************************************************************)
(* The callback never writes outside completed_queue (NoOverrun), if the   *)
(* application leaves room for what is pending and takes completions in    *)
(* one thread at a time.  Neither can be left out: xpdk_batch_submit_one   *)
(* counts the pending operations only, and two threads that take the last  *)
(* entry at once count below zero.                                         *)
(***************************************************************************)
THEOREM WritesStayInTheQueue ==
    Spec /\ [][RoomFirst]_vars /\ []OneAtATime => []NoOverrun
  <1>1. ASSUME Init PROVE RoomInv
    <2>1. PendingInv /\ ReportInv
      BY <1>1, PendingInit, ReportInit
    <2>2. pending_queue = <<>> /\ completed_ios = 0 /\ life = "none"
      BY <1>1 DEF Init
    <2>3. Processing = {}
      BY <2>1, <2>2 DEF ReportInv
    <2>4. completed_ios >= 0 /\ Len(pending_queue) + completed_ios <= max_ios
      BY <2>2, BatchAssumption, SMTT(30)
    <2>5. QED
      BY <2>1, <2>2, <2>3, <2>4 DEF RoomInv, NoOverrun
  <1>2. RoomInv /\ OneAtATime /\ [Next]_vars /\ [RoomFirst]_vars => RoomInv'
    BY RoomStep
  <1>3. RoomInv => NoOverrun
    BY DEF RoomInv
  <1>4. QED
    BY <1>1, <1>2, <1>3, PTL DEF Spec

=============================================================================
