------------------------- MODULE XpdkLifecycleProof -------------------------
(***************************************************************************)
(* The start and the shutdown of the library.  For every number of         *)
(* threads, of attempts and of calls, and whatever fails in                *)
(* xpdk_init_opts: an application that keeps its calls away from the start *)
(* and the end of the library never makes it use a ring or a pool that is  *)
(* not there (NoUseAfterFree); initialized means a library that works      *)
(* (InitializedWorks); nothing outlives the library (NothingLeftBehind);   *)
(* and a message is handled once (HandledOnce).                            *)
(*                                                                         *)
(* The inductive invariant is LifecycleInv.  There is one lemma per action *)
(* of the model and in it one step per conjunct.                           *)
(***************************************************************************)
EXTENDS XpdkLifecycle, TLAPS

\* Most leaves are first-order reasoning about sets and functions.
USE ZenonT(30)

-----------------------------------------------------------------------------
\* The invariant where no thread has died: the only states with a next step.
Good ==
    /\ TypeOK /\ Sound /\ HandledOnce
    /\ PointersCurrent /\ LiveHasObjects /\ StartingAlone /\ Started
    /\ WillBeReleased /\ SeenCurrent /\ Disciplined /\ OneConsumer

\* The values of pc.
Places ==
    {"idle", "alloc", "send", "wait", "batch_wait", "dead"} \cup Starting \cup Stopping

\* The values of g_xpdk_ctx.
Contexts ==
    [initialized : BOOLEAN, spdk_thread_running : BOOLEAN, msg_ring : 0 .. MaxInits,
     msg_pool : 0 .. MaxInits, spdk_thread_id : 0 .. MaxInits]


\* A thread goes to another place of its call.
LEMMA GotoFacts ==
    ASSUME TypeOK, NEW c \in Clients, NEW l \in Places, Goto(c, l)
    PROVE  /\ pc' \in [Clients -> Places]
           /\ pc'[c] = l /\ \A d \in Clients \ {c} : pc'[d] = pc[d]
  BY DEF TypeOK, Goto, Places

\* The types of the parts.
LEMMA Types ==
    ASSUME TypeOK
    PROVE  /\ ctx.initialized \in BOOLEAN /\ ctx.spdk_thread_running \in BOOLEAN
           /\ ctx.msg_ring \in Nat /\ ctx.msg_pool \in Nat /\ ctx.spdk_thread_id \in Nat
           /\ attempts \in Nat /\ MaxInits \in Nat /\ attempts <= MaxInits
           /\ rings \subseteq Attempts /\ pools \subseteq Attempts
           /\ NULL \notin Attempts
           /\ \A g \in Attempts : g \in Nat
  BY LifecycleAssumption, SMTT(30) DEF TypeOK, Attempts, NULL

\* What is in a ring was put there by a client.
LEMMA EntryType ==
    ASSUME TypeOK, NEW g \in Attempts
    PROVE  /\ Len(queue[g]) \in Nat /\ head[g] \in Nat
           /\ \A i \in 1 .. Len(queue[g]) : queue[g][i] \in Clients
           /\ \A i \in head[g] + 1 .. Len(queue[g]) : queue[g][i] \in Clients
  <1>1. queue[g] \in Seq(Clients) /\ head[g] \in Nat
    BY DEF TypeOK
  <1>2. QED
    BY <1>1, SMTT(30)

\* A step that leaves the rings' contents and the messages alone.
LEMMA SameConsumer ==
    ASSUME Good, UNCHANGED <<attempts, queue, head, seen, msg, submitted, races>>,
           rings' \subseteq rings,
           \A g \in Attempts : thread[g] = "loop" /\ seen[g] # NoEntry => thread'[g] = "loop",
           \A d \in Clients : \/ pc'[d] = pc[d]
                              \/ /\ pc[d] \in {"wait", "stop"} => msg[d].completed
                                 /\ pc[d] = "batch_wait" => seen[d] = NoEntry
                                 /\ pc'[d] \notin {"send", "shutdown", "batch_wait"}
    PROVE  HandledOnce' /\ SeenCurrent' /\ OneConsumer'
  <1> USE DEF Good
  <1>1. HandledOnce'
    BY DEF HandledOnce
  <1>2. SeenCurrent'
    BY DEF SeenCurrent
  <1>3. OneConsumer'
    <2> SUFFICES ASSUME "poll" \notin races
                 PROVE  OneConsumer'
      BY DEF OneConsumer
    <2>1. \A d \in Clients :
            /\ pc'[d] # "batch_wait"
            /\ pc'[d] \in {"send", "shutdown"} => ~msg[d].completed
            /\ submitted[d] > 0 => /\ submitted[d] = 1 /\ pc'[d] \in {"wait", "stop"}
                                   /\ ~msg[d].completed /\ msg[d].handled = 1
      BY DEF OneConsumer
    <2>2. CASE attempts \in rings'
      <3>1. attempts \in Attempts
        BY <2>2, Types
      <3>2. \A i \in head[attempts] + 1 .. Len(queue[attempts]) :
              pc'[queue[attempts][i]] \in {"wait", "stop"}
        BY <2>2, <3>1, EntryType DEF OneConsumer
      <3>3. QED
        BY <2>1, <2>2, <3>2, SMTT(30) DEF OneConsumer
    <2>3. QED
      BY <2>1, <2>2 DEF OneConsumer
  <1>4. QED
    BY <1>1, <1>2, <1>3

-----------------------------------------------------------------------------
(***************************************************************************)
(* xpdk_init_opts.                                                         *)
(***************************************************************************)
LEMMA InitStartStep ==
    ASSUME Good, NEW c \in Clients, InitStart(c)
    PROVE  Good'
  <1> USE DEF Good
  <1>1. /\ ~ctx.initialized /\ attempts < MaxInits /\ attempts' = attempts + 1
        /\ ctx' = ZeroCtx /\ races' = {}
        /\ \A d \in Clients : pc[d] = "idle"
        /\ UNCHANGED <<rings, pools, thread, queue, head, seen, total>>
    BY DEF InitStart, ringVars
  <1>2. /\ rings = {} /\ pools = {} /\ \A g \in Attempts : ~Live(g)
    BY <1>1 DEF WillBeReleased, IsStarting, Closes, Starting
  <1>3. /\ \A e \in Executors : seen[e] = NoEntry
        /\ \A g \in Attempts : g > attempts => queue[g] = <<>> /\ head[g] = 0
    BY <1>1, <1>2 DEF SeenCurrent, Executors, Live
  <1>4. /\ ~ctx'.initialized /\ ~ctx'.spdk_thread_running /\ ctx'.msg_ring = NULL
        /\ ctx'.msg_pool = NULL /\ ctx'.spdk_thread_id = NULL
        /\ ctx' \in Contexts
    BY <1>1, LifecycleAssumption, SMTT(30) DEF ZeroCtx, NULL, Contexts
  <1>5. /\ pc' \in [Clients -> Places] /\ pc'[c] \in {"ring", "idle"}
        /\ \A d \in Clients \ {c} : pc'[d] = "idle"
    BY <1>1, GotoFacts DEF InitStart, Places, Starting
  <1>6. /\ msg' \in [Clients -> [pool : 0 .. MaxInits, type : {"call", "OPEN", "SHUTDOWN"},
                                 completed : BOOLEAN, handled : Nat]]
        /\ submitted' \in [Clients -> Nat]
        /\ \A d \in Clients : /\ msg'[d].type # "SHUTDOWN" /\ msg'[d].handled = 0
                              /\ submitted'[d] = 0
    BY LifecycleAssumption, SMTT(30) DEF InitStart, NewMsg, NULL
  <1>7. attempts' \in Attempts /\ attempts' > attempts
    BY <1>1, Types, SMTT(30) DEF Attempts
  <1>8. TypeOK'
    BY <1>1, <1>4, <1>5, <1>6, <1>7, SMTT(30) DEF TypeOK, Attempts, Contexts, Places
  <1>9. Sound' /\ HandledOnce'
    BY <1>1, <1>5, <1>6, SMTT(30) DEF Sound, HandledOnce
  <1>10. PointersCurrent' /\ LiveHasObjects'
    BY <1>1, <1>2, <1>4 DEF PointersCurrent, LiveHasObjects, Live
  <1>11. StartingAlone'
    BY <1>1, <1>3, <1>4, <1>5, <1>6, <1>7, SMTT(30) DEF StartingAlone, Starting, Stopping
  <1>12. Started'
    BY <1>4, <1>5 DEF Started, Stopping, IsStopping
  <1>13. WillBeReleased'
    BY <1>1, <1>2, <1>6 DEF WillBeReleased, Live
  <1>14. SeenCurrent'
    BY <1>1, <1>3, <1>7, Types, SMTT(30) DEF SeenCurrent, Executors
  <1>15. Disciplined'
    BY <1>5 DEF Disciplined, Starting, Stopping, Closes
  <1>16. OneConsumer'
    BY <1>1, <1>2, <1>5, <1>6, SMTT(30) DEF OneConsumer
  <1>17. QED
    BY <1>8, <1>9, <1>10, <1>11, <1>12, <1>13, <1>14, <1>15, <1>16

\* The ring is created, or the start fails and leaves nothing.
LEMMA InitRingStep ==
    ASSUME Good, NEW c \in Clients, InitRing(c)
    PROVE  Good'
  <1> USE DEF Good
  <1>1. /\ pc[c] = "ring"
        /\ UNCHANGED <<attempts, pools, thread, queue, head, seen, msg, submitted, total, races>>
    BY DEF InitRing, ringVars
  <1>2. /\ pc[c] \in Starting /\ attempts \in Attempts /\ ~ctx.initialized
        /\ rings = {} /\ pools = {}
        /\ ctx.msg_ring = NULL /\ ctx.msg_pool = NULL /\ ctx.spdk_thread_id = NULL
        /\ queue[attempts] = <<>> /\ head[attempts] = 0
        /\ \A d \in Clients \ {c} : pc[d] \notin Starting \cup Stopping \cup {"batch_wait"}
        /\ \A d \in Clients : msg[d].type # "SHUTDOWN"
    BY <1>1, Types DEF StartingAlone, PointersCurrent, Starting
  <1>3. /\ \A g \in Attempts : ~Live(g) /\ ~ctx.spdk_thread_running
        /\ \A e \in Executors : seen[e] = NoEntry
        /\ seen[attempts] = NoEntry
    BY <1>1, <1>2, Types DEF LiveHasObjects, SeenCurrent, Executors, Starting, Live
  <1>4. /\ ctx' \in Contexts
        /\ UNCHANGED <<ctx.initialized, ctx.spdk_thread_running, ctx.msg_pool, ctx.spdk_thread_id>>
        /\ pc' \in [Clients -> Places] /\ \A d \in Clients \ {c} : pc'[d] = pc[d]
        /\ \/ pc'[c] = "pool" /\ ctx'.msg_ring = attempts /\ rings' = {attempts}
           \/ pc'[c] = "idle" /\ ctx' = ctx /\ rings' = rings
    <2>1. CASE Goto(c, "pool") /\ ctx' = [ctx EXCEPT !.msg_ring = attempts]
                 /\ rings' = rings \cup {attempts}
      BY <1>2, <2>1, GotoFacts DEF TypeOK, Contexts, Places, Starting
    <2>2. CASE Goto(c, "idle") /\ UNCHANGED <<ctx, rings>>
      BY <2>2, GotoFacts DEF TypeOK, Contexts, Places
    <2>3. QED
      BY <2>1, <2>2 DEF InitRing
  <1>5. TypeOK' /\ Sound' /\ HandledOnce'
    BY <1>1, <1>2, <1>4, SMTT(30) DEF TypeOK, Contexts, Places, Sound, HandledOnce
  <1>6. PointersCurrent'
    BY <1>1, <1>2, <1>4 DEF PointersCurrent
  <1>7. LiveHasObjects'
    BY <1>1, <1>2, <1>3, <1>4 DEF LiveHasObjects, Live
  <1>8. StartingAlone'
    BY <1>1, <1>2, <1>3, <1>4, SMTT(30) DEF StartingAlone, Starting
  <1>9. Started'
    BY <1>1, <1>2, <1>3, <1>4 DEF Started, Starting, Stopping, IsStopping
  <1>10. WillBeReleased'
    BY <1>1, <1>2, <1>3, <1>4 DEF WillBeReleased, Starting, IsStarting, Live
  <1>11. SeenCurrent'
    BY <1>1, <1>2, <1>3, <1>4 DEF SeenCurrent, Executors
  <1>12. Disciplined'
    BY <1>1, <1>2, <1>3, <1>4, SMTT(30) DEF Disciplined, Starting, Stopping, Closes
  <1>13. OneConsumer'
    <2>1. head[attempts] + 1 .. Len(queue[attempts]) = {}
      BY <1>2, SMTT(30)
    <2>2. QED
      BY <1>1, <1>2, <1>3, <1>4, <2>1, SMTT(30) DEF OneConsumer
  <1>14. QED
    BY <1>5, <1>6, <1>7, <1>8, <1>9, <1>10, <1>11, <1>12, <1>13

\* The pool is created, or the ring is freed again.
LEMMA InitPoolStep ==
    ASSUME Good, NEW c \in Clients, InitPool(c)
    PROVE  Good'
  <1> USE DEF Good
  <1>1. /\ pc[c] = "pool"
        /\ UNCHANGED <<attempts, thread, queue, head, seen, msg, submitted, total, races>>
    BY DEF InitPool, ringVars
  <1>2. /\ pc[c] \in Starting /\ attempts \in Attempts /\ ~ctx.initialized
        /\ rings = {attempts} /\ pools = {}
        /\ ctx.msg_ring = attempts /\ ctx.msg_pool = NULL /\ ctx.spdk_thread_id = NULL
        /\ \A d \in Clients \ {c} : pc[d] \notin Starting \cup Stopping \cup {"batch_wait"}
        /\ \A d \in Clients : msg[d].type # "SHUTDOWN"
    BY <1>1, Types DEF StartingAlone, PointersCurrent, Starting
  <1>3. \A g \in Attempts : ~Live(g) /\ ~ctx.spdk_thread_running
    BY <1>2, Types DEF LiveHasObjects, Live
  <1>4. /\ ctx' \in Contexts
        /\ UNCHANGED <<ctx.initialized, ctx.spdk_thread_running, ctx.msg_ring, ctx.spdk_thread_id>>
        /\ pc' \in [Clients -> Places] /\ \A d \in Clients \ {c} : pc'[d] = pc[d]
        /\ \/ /\ pc'[c] = "thread" /\ ctx'.msg_pool = attempts
              /\ pools' = {attempts} /\ rings' = rings
           \/ pc'[c] = "idle" /\ ctx' = ctx /\ rings' = {} /\ pools' = pools
    <2>1. CASE /\ Goto(c, "thread") /\ ctx' = [ctx EXCEPT !.msg_pool = attempts]
               /\ pools' = pools \cup {attempts} /\ rings' = rings
      BY <1>2, <2>1, GotoFacts DEF TypeOK, Contexts, Places, Starting
    <2>2. CASE Goto(c, "idle") /\ UNCHANGED <<ctx, pools>> /\ rings' = RingFreed
      BY <1>2, <2>2, GotoFacts DEF TypeOK, Contexts, Places, RingFreed
    <2>3. QED
      BY <2>1, <2>2 DEF InitPool
  <1>5. TypeOK' /\ Sound'
    BY <1>1, <1>2, <1>4 DEF TypeOK, Contexts, Places, Sound
  <1>6. PointersCurrent'
    BY <1>1, <1>2, <1>4 DEF PointersCurrent
  <1>7. LiveHasObjects'
    BY <1>1, <1>2, <1>3, <1>4 DEF LiveHasObjects, Live
  <1>8. StartingAlone'
    BY <1>1, <1>2, <1>3, <1>4, SMTT(30) DEF StartingAlone, Starting
  <1>9. Started'
    BY <1>1, <1>2, <1>3, <1>4 DEF Started, Starting, Stopping, IsStopping
  <1>10. WillBeReleased'
    BY <1>1, <1>2, <1>3, <1>4 DEF WillBeReleased, Starting, IsStarting, Live
  <1>11. Disciplined'
    BY <1>1, <1>2, <1>3, <1>4, SMTT(30) DEF Disciplined, Starting, Stopping, Closes
  <1>12. HandledOnce' /\ SeenCurrent' /\ OneConsumer'
    BY <1>1, <1>2, <1>4, SameConsumer
  <1>13. QED
    BY <1>5, <1>6, <1>7, <1>8, <1>9, <1>10, <1>11, <1>12

\* The thread is created, or pool and ring are freed again.
LEMMA InitThreadStep ==
    ASSUME Good, NEW c \in Clients, InitThread(c)
    PROVE  Good'
  <1> USE DEF Good
  <1>1. /\ pc[c] = "thread"
        /\ UNCHANGED <<attempts, queue, head, seen, msg, submitted, total, races>>
    BY DEF InitThread, ringVars
  <1>2. /\ pc[c] \in Starting /\ attempts \in Attempts /\ ~ctx.initialized
        /\ rings = {attempts} /\ pools = {attempts}
        /\ ctx.msg_ring = attempts /\ ctx.msg_pool = attempts /\ ctx.spdk_thread_id = NULL
        /\ \A d \in Clients \ {c} : pc[d] \notin Starting \cup Stopping \cup {"batch_wait"}
        /\ \A d \in Clients : msg[d].type # "SHUTDOWN"
    BY <1>1, Types DEF StartingAlone, PointersCurrent, Starting
  <1>3. \A g \in Attempts : ~Live(g) /\ ~ctx.spdk_thread_running
    BY <1>2, Types DEF LiveHasObjects, Live
  <1>4. /\ ctx' \in Contexts
        /\ UNCHANGED <<ctx.initialized, ctx.spdk_thread_running, ctx.msg_ring, ctx.msg_pool>>
        /\ pc' \in [Clients -> Places] /\ \A d \in Clients \ {c} : pc'[d] = pc[d]
        /\ \/ /\ pc'[c] = "ready" /\ ctx'.spdk_thread_id = attempts
              /\ thread' = [thread EXCEPT ![attempts] = "start"] /\ UNCHANGED <<rings, pools>>
           \/ /\ pc'[c] = "idle" /\ ctx' = ctx /\ rings' = {} /\ pools' = {}
              /\ thread' = thread
    <2>1. CASE /\ Goto(c, "ready") /\ ctx' = [ctx EXCEPT !.spdk_thread_id = attempts]
               /\ thread' = [thread EXCEPT ![attempts] = "start"] /\ UNCHANGED <<rings, pools>>
      BY <1>2, <2>1, GotoFacts DEF TypeOK, Contexts, Places, Starting
    <2>2. CASE /\ Goto(c, "idle") /\ UNCHANGED <<ctx, thread>> /\ rings' = RingFreed
               /\ pools' = pools \ {ctx.msg_pool}
      BY <1>2, <2>2, GotoFacts DEF TypeOK, Contexts, Places, RingFreed
    <2>3. QED
      BY <2>1, <2>2 DEF InitThread
  <1>5. /\ thread' \in [Attempts -> {"none", "start", "loop", "failed", "done", "dead"}]
        /\ \A g \in Attempts : thread'[g] = thread[g] \/ (g = attempts /\ thread'[g] = "start")
    <2>1. thread \in [Attempts -> {"none", "start", "loop", "failed", "done", "dead"}]
      BY DEF TypeOK
    <2>2. QED
      BY <1>2, <1>4, <2>1
  <1>6. TypeOK' /\ Sound'
    <2>1. TypeOK'
      BY <1>1, <1>2, <1>4, <1>5 DEF TypeOK, Contexts, Places
    <2>2. Sound'
      BY <1>1, <1>4, <1>5 DEF Sound
    <2>3. QED
      BY <2>1, <2>2
  <1>7. PointersCurrent'
    BY <1>1, <1>2, <1>4 DEF PointersCurrent
  <1>8. LiveHasObjects'
    BY <1>1, <1>2, <1>3, <1>4, <1>5 DEF LiveHasObjects, Live
  <1>9. StartingAlone'
    BY <1>1, <1>2, <1>3, <1>4 DEF StartingAlone, Starting
  <1>10. Started'
    BY <1>1, <1>2, <1>3, <1>4 DEF Started, Starting, Stopping, IsStopping
  <1>11. WillBeReleased'
    BY <1>1, <1>2, <1>3, <1>4, <1>5 DEF WillBeReleased, Starting, IsStarting, Live
  <1>12. Disciplined'
    BY <1>1, <1>2, <1>3, <1>4, SMTT(30) DEF Disciplined, Starting, Stopping, Closes
  <1>13. HandledOnce' /\ SeenCurrent' /\ OneConsumer'
    BY <1>1, <1>2, <1>3, <1>4, <1>5, SameConsumer DEF Live
  <1>14. QED
    BY <1>6, <1>7, <1>8, <1>9, <1>10, <1>11, <1>12, <1>13

\* The thread has announced itself and the library is initialized.
LEMMA InitReadyStep ==
    ASSUME Good, NEW c \in Clients, InitReady(c)
    PROVE  Good'
  <1> USE DEF Good
  <1>1. /\ pc[c] = "ready" /\ ctx.spdk_thread_running
        /\ UNCHANGED <<attempts, rings, pools, thread, queue, head, seen>>
        /\ UNCHANGED <<msg, submitted, total, races>>
    BY DEF InitReady, ThreadReady, objVars, ringVars
  <1>2. /\ pc[c] \in Starting /\ attempts \in Attempts /\ ctx.spdk_thread_id = attempts
        /\ \A d \in Clients \ {c} : pc[d] \notin Starting \cup Stopping \cup {"batch_wait"}
        /\ \A d \in Clients : msg[d].type # "SHUTDOWN"
    BY <1>1, Types DEF StartingAlone, Starting
  <1>3. thread[attempts] = "loop"
    BY <1>1 DEF LiveHasObjects
  <1>4. /\ ctx' \in Contexts /\ ctx'.initialized
        /\ UNCHANGED <<ctx.spdk_thread_running, ctx.msg_ring, ctx.msg_pool, ctx.spdk_thread_id>>
        /\ pc' \in [Clients -> Places] /\ \A d \in Clients \ {c} : pc'[d] = pc[d]
        /\ pc'[c] = "idle"
    BY GotoFacts DEF InitReady, TypeOK, Contexts, Places
  <1>5. TypeOK' /\ Sound'
    BY <1>1, <1>4, SMTT(30) DEF TypeOK, Contexts, Places, Sound
  <1>6. PointersCurrent' /\ LiveHasObjects'
    BY <1>1, <1>4 DEF PointersCurrent, LiveHasObjects, Live
  <1>7. StartingAlone'
    BY <1>2, <1>4 DEF StartingAlone, Starting
  <1>8. Started'
    BY <1>1, <1>2, <1>3, <1>4 DEF Started, Stopping
  <1>9. WillBeReleased'
    BY <1>1, <1>2, <1>4 DEF WillBeReleased
  <1>10. Disciplined'
    BY <1>1, <1>2, <1>4 DEF Disciplined, Starting, Stopping, Closes
  <1>11. HandledOnce' /\ SeenCurrent' /\ OneConsumer'
    BY <1>1, <1>2, <1>4, SameConsumer
  <1>12. QED
    BY <1>5, <1>6, <1>7, <1>8, <1>9, <1>10, <1>11


-----------------------------------------------------------------------------
(***************************************************************************)
(* The SPDK thread enters and leaves its loop.                             *)
(***************************************************************************)
LEMMA ThreadStartStep ==
    ASSUME Good, NEW g \in Attempts, ThreadStart(g)
    PROVE  Good'
  <1> USE DEF Good
  <1>1. /\ thread[g] = "start" /\ g = attempts
        /\ UNCHANGED <<attempts, rings, pools, queue, head, seen, pc, msg, submitted, total, races>>
    BY DEF ThreadStart, ringVars, LiveHasObjects, Live
  <1>2. /\ ctx.msg_ring = g /\ ctx.msg_pool = g /\ ctx.spdk_thread_id = g
        /\ g \in rings /\ g \in pools
        /\ ~ctx.initialized /\ ~IsStopping /\ IsStarting
    BY <1>1 DEF LiveHasObjects, Live, Started, WillBeReleased, Closes, IsStopping, Stopping
  <1>3. /\ ctx' \in Contexts
        /\ UNCHANGED <<ctx.initialized, ctx.msg_ring, ctx.msg_pool, ctx.spdk_thread_id>>
        /\ thread' \in [Attempts -> {"none", "start", "loop", "failed", "done", "dead"}]
        /\ \A h \in Attempts \ {g} : thread'[h] = thread[h]
        /\ \/ thread'[g] = "loop" /\ ctx'.spdk_thread_running
           \/ thread'[g] = "failed" /\ ctx' = ctx
    BY DEF ThreadStart, Announced, TypeOK, Contexts
  <1>4. ctx.spdk_thread_running => FALSE
    BY <1>1 DEF LiveHasObjects
  <1>5. TypeOK' /\ Sound'
    BY <1>1, <1>3 DEF TypeOK, Contexts, Sound
  <1>6. PointersCurrent' /\ LiveHasObjects'
    BY <1>1, <1>2, <1>3, <1>4 DEF PointersCurrent, LiveHasObjects, Live
  <1>7. StartingAlone'
    BY <1>1, <1>2, <1>3 DEF StartingAlone
  <1>8. Started'
    BY <1>1, <1>2, <1>3 DEF Started, IsStopping, Stopping
  <1>9. WillBeReleased'
    BY <1>1, <1>2, <1>3 DEF WillBeReleased, IsStarting, Closes
  <1>10. Disciplined'
    BY <1>1, <1>2, <1>3 DEF Disciplined, Closes, IsStopping, Stopping
  <1>11. HandledOnce' /\ SeenCurrent' /\ OneConsumer'
    BY <1>1, <1>3, SameConsumer
  <1>12. QED
    BY <1>5, <1>6, <1>7, <1>8, <1>9, <1>10, <1>11

\* The SPDK thread leaves its loop after SHUTDOWN.
LEMMA ThreadExitStep ==
    ASSUME Good, NEW g \in Attempts, ThreadExit(g)
    PROVE  Good'
  <1> USE DEF Good
  <1>1. /\ thread[g] = "loop" /\ seen[g] = NoEntry /\ ~ctx.spdk_thread_running
        /\ UNCHANGED <<ctx, attempts, rings, pools, queue, head, seen, pc>>
        /\ UNCHANGED <<msg, submitted, total, races>>
    BY DEF ThreadExit, ringVars
  <1>2. /\ thread' \in [Attempts -> {"none", "start", "loop", "failed", "done", "dead"}]
        /\ thread'[g] = "done" /\ \A h \in Attempts \ {g} : thread'[h] = thread[h]
    BY DEF ThreadExit, TypeOK
  <1>3. TypeOK' /\ Sound'
    BY <1>1, <1>2 DEF TypeOK, Sound
  <1>4. PointersCurrent' /\ LiveHasObjects'
    BY <1>1, <1>2 DEF PointersCurrent, LiveHasObjects, Live
  <1>5. StartingAlone'
    BY <1>1 DEF StartingAlone
  <1>6. Started'
    BY <1>1, <1>2 DEF Started, IsStopping
  <1>7. WillBeReleased'
    BY <1>1, <1>2 DEF WillBeReleased, IsStarting, Closes, Live
  <1>8. Disciplined'
    BY <1>1 DEF Disciplined, Closes
  <1>9. HandledOnce' /\ SeenCurrent' /\ OneConsumer'
    BY <1>1, <1>2, SameConsumer
  <1>10. QED
    BY <1>3, <1>4, <1>5, <1>6, <1>7, <1>8, <1>9

-----------------------------------------------------------------------------
(***************************************************************************)
(* The poller, on the SPDK thread or on the thread of a client.            *)
(***************************************************************************)
LEMMA SeenType ==
    ASSUME TypeOK, NEW e \in Executors
    PROVE  /\ seen[e] = <<seen[e][1], seen[e][2]>> /\ seen[e][1] \in 0 .. MaxInits
           /\ seen[e][2] \in Nat
           /\ seen[e][1] \in Attempts => seen[e] # NoEntry
  <1>1. seen[e] \in (0 .. MaxInits) \X Nat
    BY DEF TypeOK
  <1>2. QED
    BY <1>1, SMTT(30) DEF NoEntry, NULL, Attempts

\* A consumer of the ring reads its head.
LEMMA DequeueReadStep ==
    ASSUME Good, NEW e \in Executors, DequeueRead(e)
    PROVE  Good'
  <1> USE DEF Good
  <1>1. /\ Polls(e) /\ ctx.msg_ring \in rings /\ head[ctx.msg_ring] < Len(queue[ctx.msg_ring])
        /\ seen' = [seen EXCEPT ![e] = <<ctx.msg_ring, head[ctx.msg_ring] + 1>>]
        /\ UNCHANGED <<ctx, attempts, rings, pools, thread, queue, head, pc>>
        /\ UNCHANGED <<msg, submitted, total, races>>
    BY DEF DequeueRead, objVars, ringVars
  <1>2. ctx.msg_ring = attempts /\ attempts \in Attempts
    BY <1>1, Types DEF PointersCurrent
  <1>3. head[attempts] + 1 \in 1 .. Len(queue[attempts]) /\ head[attempts] + 1 \in Nat
    BY <1>1, <1>2, EntryType, SMTT(30)
  <1>4. /\ seen' \in [Executors -> (0 .. MaxInits) \X Nat]
        /\ seen'[e][1] = attempts /\ seen'[e][2] = head[attempts] + 1
        /\ \A f \in Executors \ {e} : seen'[f] = seen[f]
    <2>1. seen \in [Executors -> (0 .. MaxInits) \X Nat] /\ attempts \in 0 .. MaxInits
      BY DEF TypeOK
    <2>2. QED
      BY <1>1, <1>2, <1>3, <2>1
  <1>5. \/ e \in Clients /\ pc[e] = "batch_wait"
        \/ e \in Attempts \ Clients /\ e = attempts /\ thread[e] = "loop"
    BY <1>1 DEF Polls, LiveHasObjects, Live, Executors
  <1>6. TypeOK' /\ Sound' /\ HandledOnce'
    BY <1>1, <1>4 DEF TypeOK, Sound, HandledOnce
  <1>7. PointersCurrent' /\ LiveHasObjects' /\ StartingAlone'
    BY <1>1 DEF PointersCurrent, LiveHasObjects, Live, StartingAlone
  <1>8. Started' /\ WillBeReleased' /\ Disciplined'
    BY <1>1 DEF Started, IsStopping, WillBeReleased, IsStarting, Closes, Live, Disciplined
  <1>9. SeenCurrent'
    BY <1>1, <1>3, <1>4, <1>5, LifecycleAssumption, SMTT(30)
       DEF SeenCurrent, Executors, Attempts
  <1>10. OneConsumer'
    BY <1>1, <1>2, <1>4, <1>5, SMTT(30) DEF OneConsumer, Executors
  <1>11. QED
    BY <1>6, <1>7, <1>8, <1>9, <1>10

\* A client that polls goes on or returns; the SPDK thread goes on.
LEMMA PolledFacts ==
    ASSUME TypeOK, NEW e \in Executors, Polled(e), e \in Clients => pc[e] = "batch_wait"
    PROVE  /\ pc' \in [Clients -> Places] /\ total' \in [Clients -> Nat]
           /\ \A d \in Clients \ {e} : pc'[d] = pc[d]
           /\ e \in Clients => pc'[e] \in {"batch_wait", "idle"}
           /\ e \notin Clients => pc' = pc
  <1>1. CASE e \in Clients
    <2>1. total \in [Clients -> Nat] /\ pc \in [Clients -> Places] /\ pc[e] = "batch_wait"
      BY <1>1 DEF TypeOK, Places
    <2>2. CASE total' = [total EXCEPT ![e] = @ + 1] /\ pc' = pc
      BY <1>1, <2>1, <2>2, SMTT(30)
    <2>3. CASE total' = [total EXCEPT ![e] = 0] /\ Goto(e, "idle")
      BY <1>1, <2>1, <2>3, GotoFacts DEF Places
    <2>4. QED
      BY <1>1, <2>2, <2>3 DEF Polled
  <1>2. CASE e \notin Clients
    BY <1>2 DEF Polled, TypeOK, Places
  <1>3. QED
    BY <1>1, <1>2

\* It moves the head and handles the message it has read.
LEMMA DequeueTakeStep ==
    ASSUME Good, NEW e \in Executors, DequeueTake(e)
    PROVE  Good'
  <1> USE DEF Good
  <1>1. /\ seen[e][1] \in rings
        /\ UNCHANGED <<attempts, rings, pools, thread, queue, races>>
    BY DEF DequeueTake, objVars
  <1>2. /\ seen[e] # NoEntry /\ seen[e][1] = attempts /\ attempts \in rings /\ attempts \in Attempts
        /\ ctx.msg_ring = attempts /\ ctx.msg_ring # NULL
    BY <1>1, SeenType, Types DEF SeenCurrent, PointersCurrent
  <1>3. PICK i \in 1 .. Len(queue[attempts]) : i = seen[e][2] /\ i \in Nat
    BY <1>2, EntryType, SMTT(30) DEF SeenCurrent
  <1>4. PICK q \in Clients : q = queue[attempts][i]
    BY <1>2, EntryType
  <1>5. /\ head' = [head EXCEPT ![attempts] = i]
        /\ Handled(q)
        /\ ctx' = [ctx EXCEPT !.spdk_thread_running = @ /\ msg[q].type # "SHUTDOWN"]
        /\ seen' = [seen EXCEPT ![e] = NoEntry]
        /\ Polled(e)
    BY <1>2, <1>3, <1>4 DEF DequeueTake, HeadMoved
  <1>6. /\ ctx' \in Contexts
        /\ UNCHANGED <<ctx.initialized, ctx.msg_ring, ctx.msg_pool, ctx.spdk_thread_id>>
        /\ ctx'.spdk_thread_running <=> ctx.spdk_thread_running /\ msg[q].type # "SHUTDOWN"
    BY <1>5 DEF TypeOK, Contexts
  <1>7. /\ head' \in [Attempts -> Nat] /\ head'[attempts] = i
        /\ \A g \in Attempts \ {attempts} : head'[g] = head[g]
    BY <1>2, <1>3, <1>5 DEF TypeOK
  <1>8. /\ msg' \in [Clients -> [pool : 0 .. MaxInits, type : {"call", "OPEN", "SHUTDOWN"},
                                 completed : BOOLEAN, handled : Nat]]
        /\ submitted' \in [Clients -> Nat]
        /\ \A d \in Clients :
             /\ msg'[d].type = msg[d].type /\ msg'[d].pool = msg[d].pool
             /\ d # q => msg'[d] = msg[d] /\ submitted'[d] = submitted[d]
        /\ msg'[q].handled = msg[q].handled + 1
        /\ \/ submitted'[q] = submitted[q]
           \/ submitted'[q] = submitted[q] + 1 /\ msg'[q].completed = msg[q].completed
    <2>1. /\ msg \in [Clients -> [pool : 0 .. MaxInits, type : {"call", "OPEN", "SHUTDOWN"},
                                 completed : BOOLEAN, handled : Nat]]
          /\ submitted \in [Clients -> Nat]
      BY DEF TypeOK
    <2>2. msg[q].handled + 1 \in Nat /\ submitted[q] + 1 \in Nat
      BY <2>1, SMTT(30)
    <2>3. CASE /\ msg' = [msg EXCEPT ![q].completed = TRUE, ![q].handled = @ + 1]
               /\ UNCHANGED submitted
      <3>1. PICK n : n = [msg EXCEPT ![q].completed = TRUE]
        OBVIOUS
      <3>2. msg' = [n EXCEPT ![q].handled = msg[q].handled + 1]
        BY <2>3, <3>1
      <3>3. /\ n \in [Clients -> [pool : 0 .. MaxInits, type : {"call", "OPEN", "SHUTDOWN"},
                                 completed : BOOLEAN, handled : Nat]]
            /\ n[q].type = msg[q].type /\ n[q].pool = msg[q].pool
            /\ \A d \in Clients : d # q => n[d] = msg[d]
        BY <2>1, <3>1
      <3>4. /\ msg' \in [Clients -> [pool : 0 .. MaxInits, type : {"call", "OPEN", "SHUTDOWN"},
                                     completed : BOOLEAN, handled : Nat]]
            /\ msg'[q].type = n[q].type /\ msg'[q].pool = n[q].pool
            /\ msg'[q].handled = msg[q].handled + 1
            /\ \A d \in Clients : d # q => msg'[d] = n[d]
        BY <2>2, <3>2, <3>3
      <3>5. submitted' = submitted
        BY <2>3
      <3>6. QED
        BY <2>1, <3>3, <3>4, <3>5
    <2>4. CASE /\ msg' = [msg EXCEPT ![q].handled = @ + 1]
               /\ submitted' = [submitted EXCEPT ![q] = @ + 1]
      BY <2>1, <2>2, <2>4
    <2>5. QED
      BY <1>5, <2>3, <2>4 DEF Handled
  <1>9. /\ seen' \in [Executors -> (0 .. MaxInits) \X Nat] /\ seen'[e] = NoEntry
        /\ \A f \in Executors \ {e} : seen'[f] = seen[f]
    BY <1>5, LifecycleAssumption, SMTT(30) DEF TypeOK, NoEntry, NULL
  <1>10. /\ pc' \in [Clients -> Places] /\ total' \in [Clients -> Nat]
         /\ \A d \in Clients \ {e} : pc'[d] = pc[d]
         /\ e \in Clients => pc[e] = "batch_wait" /\ pc'[e] \in {"batch_wait", "idle"}
         /\ e \notin Clients => e = attempts /\ pc' = pc
    <2>1. e \in Clients => pc[e] = "batch_wait"
      BY <1>2 DEF SeenCurrent
    <2>2. e \notin Clients => e = attempts
      BY <1>2 DEF Executors, SeenCurrent, LiveHasObjects, Live
    <2>3. QED
      BY <1>5, <2>1, <2>2, PolledFacts
  <1>11. msg[q].type = "SHUTDOWN" => Closes(q)
    BY <1>2 DEF WillBeReleased
  <1>12. TypeOK' /\ Sound'
    <2>1. TypeOK'
      BY <1>1, <1>6, <1>7, <1>8, <1>9, <1>10 DEF TypeOK, Contexts, Places
    <2>2. Sound'
      BY <1>1, <1>10 DEF Sound
    <2>3. QED
      BY <2>1, <2>2
  <1>13. PointersCurrent' /\ LiveHasObjects'
    BY <1>1, <1>6 DEF PointersCurrent, LiveHasObjects, Live
  <1>14. StartingAlone'
    <2>1. \A d \in Clients : pc[d] # "ring"
      BY <1>2 DEF StartingAlone, Starting
    <2>2. \A d \in Clients : /\ pc'[d] = pc[d] \/ (pc[d] = "batch_wait" /\ pc'[d] = "idle")
                             /\ msg'[d].type = msg[d].type
      BY <1>8, <1>10
    <2>3. QED
      BY <1>1, <1>6, <2>1, <2>2, SMTT(30) DEF StartingAlone, Starting
  <1>15. Started'
    BY <1>1, <1>4, <1>6, <1>10, <1>11 DEF Started, IsStopping, Stopping, Closes
  <1>16. WillBeReleased'
    <2>1. \A d \in Clients : Closes(d)' <=> Closes(d)
      BY <1>10 DEF Closes
    <2>2. IsStarting' <=> IsStarting
      BY <1>10 DEF IsStarting, Starting
    <2>3. QED
      BY <1>1, <1>4, <1>6, <1>8, <1>11, <2>1, <2>2 DEF WillBeReleased, Live
  <1>17. SeenCurrent'
    <2>1. \A g \in Attempts : g > attempts => queue[g] = <<>> /\ head'[g] = 0
      BY <1>7, Types, SMTT(30) DEF SeenCurrent
    <2>2. \A f \in Executors : seen'[f] # NoEntry => f # e /\ seen'[f] = seen[f]
      BY <1>9
    <2>3. \A d \in Clients \ {e} : pc'[d] = pc[d]
      BY <1>10
    <2>4. QED
      BY <1>1, <2>1, <2>2, <2>3 DEF SeenCurrent, Executors
  <1>18. Disciplined'
    <2>1. \A d \in Clients : Closes(d)' <=> Closes(d)
      BY <1>10 DEF Closes
    <2>2. \A d \in Clients : /\ pc'[d] = pc[d] \/ (pc[d] = "batch_wait" /\ pc'[d] = "idle")
                             /\ msg'[d].pool = msg[d].pool
      BY <1>8, <1>10
    <2>3. ASSUME NEW d \in Clients, pc[d] = "begin", races \cap {"stop", "uninit"} = {}
          PROVE  ctx'.spdk_thread_running
      <3>1. ctx.spdk_thread_running /\ \A f \in Clients \ {d} : pc[f] = "idle"
        BY <2>3 DEF Disciplined, Stopping
      <3>2. ~Closes(q)
        BY <2>3, <3>1 DEF Closes
      <3>3. QED
        BY <1>6, <1>11, <3>1, <3>2
    <2>4. QED
      BY <1>1, <1>6, <2>1, <2>2, <2>3, SMTT(30) DEF Disciplined, Starting, Stopping
  <1>19. OneConsumer' /\ HandledOnce'
    <2> SUFFICES ASSUME "poll" \notin races
                 PROVE  OneConsumer' /\ HandledOnce'
      BY <1>1 DEF OneConsumer, HandledOnce
    <2>1. e = attempts /\ i = head[attempts] + 1 /\ pc' = pc
      BY <1>2, <1>3, <1>10 DEF OneConsumer
    <2>2. /\ pc[q] \in {"wait", "stop"} /\ ~msg[q].completed /\ msg[q].handled = 0
          /\ \A j \in head[attempts] + 1 .. Len(queue[attempts]) :
               queue[attempts][j] = q => j = i
      <3>1. i \in head[attempts] + 1 .. Len(queue[attempts])
        BY <1>2, <2>1, EntryType, SMTT(30)
      <3>2. QED
        BY <1>2, <1>4, <3>1 DEF OneConsumer
    <2>3. HandledOnce'
      BY <1>8, <2>1, <2>2, SMTT(30) DEF HandledOnce
    <2>4. \A j \in i + 1 .. Len(queue[attempts]) :
            /\ j \in head[attempts] + 1 .. Len(queue[attempts])
            /\ queue[attempts][j] \in Clients /\ queue[attempts][j] # q
      BY <1>2, <1>3, <2>1, <2>2, EntryType, SMTT(30)
    <2>5. OneConsumer'
      <3>1. \A d \in Clients :
              /\ pc'[d] # "batch_wait"
              /\ pc'[d] \in {"send", "shutdown"} => ~msg'[d].completed
              /\ submitted'[d] > 0 =>
                   /\ submitted'[d] = 1 /\ pc'[d] \in {"wait", "stop"}
                   /\ ~msg'[d].completed /\ msg'[d].handled = 1
        <4>1. submitted \in [Clients -> Nat] /\ submitted[q] = 0
          BY <2>2, SMTT(30) DEF OneConsumer, TypeOK
        <4>2. QED
          BY <1>8, <2>1, <2>2, <4>1, SMTT(30) DEF OneConsumer
      <3>2. \A j \in i + 1 .. Len(queue[attempts]) :
              /\ pc'[queue[attempts][j]] \in {"wait", "stop"}
              /\ ~msg'[queue[attempts][j]].completed /\ msg'[queue[attempts][j]].handled = 0
              /\ \A k \in i + 1 .. Len(queue[attempts]) :
                   queue[attempts][k] = queue[attempts][j] => k = j
        <4> SUFFICES ASSUME NEW j \in i + 1 .. Len(queue[attempts])
                     PROVE  /\ pc'[queue[attempts][j]] \in {"wait", "stop"}
                            /\ ~msg'[queue[attempts][j]].completed
                            /\ msg'[queue[attempts][j]].handled = 0
                            /\ \A k \in i + 1 .. Len(queue[attempts]) :
                                 queue[attempts][k] = queue[attempts][j] => k = j
          OBVIOUS
        <4>1. /\ j \in head[attempts] + 1 .. Len(queue[attempts])
              /\ queue[attempts][j] \in Clients /\ queue[attempts][j] # q
          BY <2>4
        <4>2. msg'[queue[attempts][j]] = msg[queue[attempts][j]]
          BY <1>8, <4>1
        <4>3. /\ pc[queue[attempts][j]] \in {"wait", "stop"}
              /\ ~msg[queue[attempts][j]].completed /\ msg[queue[attempts][j]].handled = 0
              /\ \A k \in head[attempts] + 1 .. Len(queue[attempts]) :
                   queue[attempts][k] = queue[attempts][j] => k = j
          BY <1>2, <4>1 DEF OneConsumer
        <4>4. QED
          BY <2>1, <2>4, <4>2, <4>3
      <3>3. seen'[attempts] = NoEntry
        BY <1>9, <2>1
      <3>4. QED
        BY <1>1, <1>7, <3>1, <3>2, <3>3, SMTT(30) DEF OneConsumer
    <2>6. QED
      BY <2>3, <2>5
  <1>20. QED
    BY <1>12, <1>13, <1>14, <1>15, <1>16, <1>17, <1>18, <1>19


(***************************************************************************)
(* A thread dies.  Nothing happens after that, so all there is to show is  *)
(* that the application has not kept to the rules.                         *)
(***************************************************************************)
LEMMA Dies ==
    ASSUME Good, NEW c \in Clients, Goto(c, "dead"), races \cap {"stop", "uninit"} # {},
           UNCHANGED <<ctx, objVars, ringVars, msg, total, races>>,
           submitted' \in [Clients -> Nat], seen' \in [Executors -> (0 .. MaxInits) \X Nat]
    PROVE  LifecycleInv'
  <1> USE DEF Good
  <1>1. /\ pc' \in [Clients -> Places] /\ pc'[c] = "dead"
        /\ \A d \in Clients \ {c} : pc'[d] = pc[d]
    BY GotoFacts DEF Places
  <1>2. TypeOK'
    BY <1>1 DEF TypeOK, Places, objVars, ringVars
  <1>3. ~Sound' /\ NoUseAfterFree'
    BY <1>1 DEF Sound, NoUseAfterFree
  <1>4. HandledOnce'
    BY <1>1 DEF HandledOnce
  <1>5. QED
    BY <1>2, <1>3, <1>4 DEF LifecycleInv

\* While nothing has gone wrong, Good is all of the invariant.
LEMMA Lives ==
    ASSUME Good'
    PROVE  LifecycleInv'
  BY DEF Good, LifecycleInv, NoUseAfterFree

\* Whoever keeps to the rules finds the library working until it has stopped it.
LEMMA Works ==
    ASSUME Good, ctx.spdk_thread_running
    PROVE  /\ ctx.msg_ring = attempts /\ ctx.msg_pool = attempts
           /\ attempts \in rings /\ attempts \in pools /\ attempts \in Attempts
           /\ ctx.spdk_thread_id = attempts /\ thread[attempts] = "loop"
  BY DEF Good, LiveHasObjects, Live

\* A disciplined call meets a library that runs.
LEMMA CallsAreServed ==
    ASSUME Good, races \cap {"stop", "uninit"} = {}, NEW c \in Clients,
           pc[c] \in {"alloc", "send", "wait", "batch_wait"}
    PROVE  ctx.spdk_thread_running
  <1>1. ctx.initialized
    BY DEF Good, Disciplined
  <1>2. ~IsStopping
    BY DEF Good, Disciplined, IsStopping, Stopping
  <1>3. QED
    BY <1>1, <1>2 DEF Good, Started

\* xpdk_poll on a ring that is gone: the application broke a rule.
LEMMA PollDiesStep ==
    ASSUME Good, NEW e \in Executors, PollDies(e)
    PROVE  LifecycleInv'
  <1>1. ASSUME thread[attempts] = "loop", attempts \in Attempts
        PROVE  ctx.msg_ring = attempts /\ attempts \in rings
    BY <1>1 DEF Good, LiveHasObjects, Live
  <1>2. seen[e] # NoEntry => seen[e][1] = attempts
    BY DEF Good, SeenCurrent
  <1>3. e \in Clients
    <2> SUFFICES ASSUME e \in Attempts \ Clients
                 PROVE  FALSE
      BY DEF Executors
    <2>1. thread[e] = "loop" /\ e = attempts
      BY DEF PollDies, Polls, Good, SeenCurrent, LiveHasObjects, Live
    <2>2. QED
      BY <1>1, <1>2, <2>1 DEF PollDies
  <1>4. pc[e] = "batch_wait"
    BY <1>3 DEF PollDies, Polls, Good, SeenCurrent
  <1>5. races \cap {"stop", "uninit"} # {}
    <2> SUFFICES ASSUME races \cap {"stop", "uninit"} = {}
                 PROVE  FALSE
      OBVIOUS
    <2>1. ctx.msg_ring = attempts /\ attempts \in rings
      BY <1>3, <1>4, CallsAreServed, Works
    <2>2. QED
      BY <1>2, <2>1 DEF PollDies
  <1>6. seen' \in [Executors -> (0 .. MaxInits) \X Nat]
    BY LifecycleAssumption, SMTT(30) DEF PollDies, Good, TypeOK, NoEntry, NULL
  <1>7. QED
    BY <1>3, <1>5, <1>6, Dies DEF PollDies, Dead, Good, TypeOK, objVars, ringVars

\* The bdev layer answers an open or a QoS change, in the pool if the rules are kept.
LEMMA BdevCompletesStep ==
    ASSUME Good, NEW e \in Executors, NEW q \in Clients, BdevCompletes(e, q)
    PROVE  LifecycleInv'
  <1>1. /\ e \in Clients => pc[e] = "batch_wait"
        /\ e \notin Clients => e = attempts /\ attempts \in pools
    BY DEF BdevCompletes, Executors, Good, LiveHasObjects, Live
  <1>2. /\ submitted' \in [Clients -> Nat] /\ submitted'[q] = submitted[q] - 1
        /\ \A d \in Clients \ {q} : submitted'[d] = submitted[d]
    BY SMTT(30) DEF BdevCompletes, Good, TypeOK
  <1>3. CASE attempts \notin pools
    <2>1. e \in Clients /\ pc[e] = "batch_wait"
      BY <1>1, <1>3
    <2>2. races \cap {"stop", "uninit"} # {}
      BY <1>3, <2>1, CallsAreServed, Works
    <2>3. /\ Goto(e, "dead") /\ UNCHANGED <<ctx, objVars, ringVars, msg, total, races>>
          /\ seen' = seen
      BY <1>3, <2>1 DEF BdevCompletes, Dead, objVars
    <2>4. QED
      BY <1>2, <2>1, <2>2, <2>3, Dies DEF Good, TypeOK
  <1>4. CASE attempts \in pools
    <2> USE DEF Good
    <2>1. /\ UNCHANGED <<ctx, attempts, rings, pools, thread, queue, head, seen, races>>
          /\ seen[e] = NoEntry /\ submitted[q] > 0 /\ Polled(e)
      BY <1>4 DEF BdevCompletes, ringVars
    <2>2. /\ msg' \in [Clients -> [pool : 0 .. MaxInits, type : {"call", "OPEN", "SHUTDOWN"},
                                   completed : BOOLEAN, handled : Nat]]
          /\ \A d \in Clients : /\ msg'[d].type = msg[d].type /\ msg'[d].pool = msg[d].pool
                                /\ msg'[d].handled = msg[d].handled
                                /\ d # q => msg'[d] = msg[d]
      <3>1. msg' = [msg EXCEPT ![q].completed = TRUE]
        BY <1>4 DEF BdevCompletes
      <3>2. msg \in [Clients -> [pool : 0 .. MaxInits, type : {"call", "OPEN", "SHUTDOWN"},
                                completed : BOOLEAN, handled : Nat]]
        BY DEF TypeOK
      <3>3. QED
        BY <3>1, <3>2
    <2>3. /\ pc' \in [Clients -> Places] /\ total' \in [Clients -> Nat]
          /\ \A d \in Clients :
               pc'[d] = pc[d] \/ (d = e /\ pc[d] = "batch_wait" /\ pc'[d] = "idle")
      BY <1>1, <2>1, PolledFacts
    <2>4. \A d \in Clients : /\ pc'[d] \in Starting <=> pc[d] \in Starting
                             /\ pc'[d] \in Stopping <=> pc[d] \in Stopping
                             /\ Closes(d)' <=> Closes(d)
      BY <2>3 DEF Starting, Stopping, Closes
    <2>5. TypeOK'
      BY <1>2, <2>1, <2>2, <2>3 DEF TypeOK, Places
    <2>6. Sound' /\ HandledOnce'
      BY <2>1, <2>2, <2>3 DEF Sound, HandledOnce
    <2>7. PointersCurrent' /\ LiveHasObjects'
      BY <2>1 DEF PointersCurrent, LiveHasObjects, Live
    <2>8. StartingAlone'
      <3>1. \A d \in Clients : pc'[d] = pc[d] \/ (pc[d] = "batch_wait" /\ pc'[d] = "idle")
        BY <2>3
      <3>2. QED
        BY <2>1, <2>2, <3>1, SMTT(30) DEF StartingAlone, Starting
    <2>9. Started' /\ WillBeReleased'
      BY <2>1, <2>2, <2>3, <2>4 DEF Started, IsStopping, WillBeReleased, IsStarting, Live
    <2>10. SeenCurrent'
      BY <2>1, <2>3 DEF SeenCurrent
    <2>11. Disciplined'
      <3>1. \A d \in Clients : pc'[d] = pc[d] \/ (pc[d] = "batch_wait" /\ pc'[d] = "idle")
        BY <2>3
      <3>2. QED
        BY <2>1, <2>2, <2>4, <3>1, SMTT(30) DEF Disciplined
    <2>12. OneConsumer'
      <3> SUFFICES ASSUME "poll" \notin races
                   PROVE  OneConsumer'
        BY <2>1 DEF OneConsumer
      <3>1. /\ \A d \in Clients : pc[d] # "batch_wait" /\ pc'[d] = pc[d]
            /\ submitted[q] = 1 /\ pc[q] \in {"wait", "stop"} /\ msg[q].handled = 1
        BY <2>1, <2>3 DEF OneConsumer
      <3>2. submitted'[q] = 0
        BY <1>2, <3>1, SMTT(30)
      <3>3. \A d \in Clients :
              /\ pc'[d] # "batch_wait"
              /\ pc'[d] \in {"send", "shutdown"} => ~msg'[d].completed
              /\ submitted'[d] > 0 =>
                   /\ submitted'[d] = 1 /\ pc'[d] \in {"wait", "stop"}
                   /\ ~msg'[d].completed /\ msg'[d].handled = 1
        BY <1>2, <2>2, <3>1, <3>2, SMTT(30) DEF OneConsumer
      <3>4. attempts \in rings =>
              \A i \in head[attempts] + 1 .. Len(queue[attempts]) :
                /\ queue[attempts][i] \in Clients \ {q}
                /\ msg'[queue[attempts][i]] = msg[queue[attempts][i]]
        <4> SUFFICES ASSUME attempts \in rings,
                            NEW i \in head[attempts] + 1 .. Len(queue[attempts])
                     PROVE  /\ queue[attempts][i] \in Clients \ {q}
                            /\ msg'[queue[attempts][i]] = msg[queue[attempts][i]]
          OBVIOUS
        <4>1. queue[attempts][i] \in Clients
          BY EntryType, Types
        <4>2. msg[queue[attempts][i]].handled = 0
          BY DEF OneConsumer
        <4>3. queue[attempts][i] # q
          BY <3>1, <4>2, SMTT(30)
        <4>4. QED
          BY <2>2, <4>1, <4>3
      <3>5. QED
        BY <2>1, <3>1, <3>3, <3>4, SMTT(30) DEF OneConsumer
    <2>13. QED
      BY <2>5, <2>6, <2>7, <2>8, <2>9, <2>10, <2>11, <2>12, Lives
  <1>5. QED
    BY <1>3, <1>4

-----------------------------------------------------------------------------
(***************************************************************************)
(* A call begins.                                                          *)
(***************************************************************************)
LEMMA BeginStep ==
    ASSUME Good, NEW c \in Clients, NEW l \in {"alloc", "batch_wait", "begin"},
           NEW r \in SUBSET {"stop", "uninit", "poll"}, Begin(c, l, r),
           l # "alloc" => ctx.initialized,
           ctx.initialized \/ "uninit" \in r,
           l = "batch_wait" => "poll" \in r,
           l = "begin" => "stop" \in r \/ \A d \in Clients : pc[d] = "idle"
    PROVE  Good'
  <1> USE DEF Good
  <1>1. /\ pc[c] = "idle"
        /\ UNCHANGED <<ctx, attempts, rings, pools, thread, queue, head, seen>>
        /\ UNCHANGED <<msg, submitted, total>>
    BY DEF Begin, objVars, ringVars
  <1>2. /\ pc' \in [Clients -> Places] /\ pc'[c] = l /\ \A d \in Clients \ {c} : pc'[d] = pc[d]
    BY GotoFacts DEF Begin, Places, Stopping
  <1>3. /\ races \cup r \subseteq races' /\ races' \subseteq {"stop", "uninit", "poll"}
        /\ IsStopping => "stop" \in races'
    BY DEF Begin, IsStopping, TypeOK
  <1>4. TypeOK' /\ Sound' /\ HandledOnce'
    BY <1>1, <1>2, <1>3, SMTT(30) DEF TypeOK, Places, Sound, HandledOnce
  <1>5. PointersCurrent' /\ LiveHasObjects'
    BY <1>1 DEF PointersCurrent, LiveHasObjects, Live
  <1>6. StartingAlone'
    BY <1>1, <1>2, SMTT(30) DEF StartingAlone, Starting, Stopping
  <1>7. Started'
    BY <1>1, <1>2 DEF Started, IsStopping, Stopping
  <1>8. WillBeReleased'
    <2>1. \A d \in Clients : Closes(d)' <=> Closes(d)
      BY <1>1, <1>2 DEF Closes
    <2>2. IsStarting => IsStarting'
      BY <1>1, <1>2 DEF IsStarting, Starting
    <2>3. QED
      BY <1>1, <2>1, <2>2 DEF WillBeReleased, Live
  <1>9. SeenCurrent'
    BY <1>1, <1>2 DEF SeenCurrent
  <1>10. Disciplined'
    <2> SUFFICES ASSUME races' \cap {"stop", "uninit"} = {}
                 PROVE  Disciplined'
      BY DEF Disciplined
    <2>1. races \cap {"stop", "uninit"} = {} /\ ctx.initialized /\ ~IsStopping
      BY <1>3
    <2>2. ctx.spdk_thread_running /\ \A d \in Clients : pc[d] \notin Starting \cup Stopping
      BY <2>1 DEF Started, StartingAlone, IsStopping
    <2>3. l = "begin" => \A d \in Clients : pc[d] = "idle"
      BY <1>3
    <2>4. QED
      BY <1>1, <1>2, <2>1, <2>2, <2>3 DEF Disciplined, Closes, Starting, Stopping
  <1>11. OneConsumer'
    <2> SUFFICES ASSUME "poll" \notin races'
                 PROVE  OneConsumer'
      BY DEF OneConsumer
    <2>1. "poll" \notin races /\ l # "batch_wait"
      BY <1>3
    <2>2. CASE attempts \in rings
      <3>1. \A i \in head[attempts] + 1 .. Len(queue[attempts]) :
              pc'[queue[attempts][i]] \in {"wait", "stop"}
        BY <1>1, <1>2, <2>1, <2>2, EntryType, Types DEF OneConsumer
      <3>2. QED
        BY <1>1, <1>2, <2>1, <2>2, <3>1, SMTT(30) DEF OneConsumer
    <2>3. QED
      BY <1>1, <1>2, <2>1, <2>2 DEF OneConsumer
  <1>12. QED
    BY <1>4, <1>5, <1>6, <1>7, <1>8, <1>9, <1>10, <1>11


-----------------------------------------------------------------------------
(***************************************************************************)
(* The steps of a call and of xpdk_cleanup.                                *)
(***************************************************************************)
LEMMA MoveStep ==
    ASSUME Good, NEW c \in Clients, NEW l \in Places, Goto(c, l), total' \in [Clients -> Nat],
           UNCHANGED <<ctx, objVars, ringVars, seen, msg, submitted, races>>,
           \/ pc[c] = "batch_wait" /\ l = "idle" /\ seen[c] = NoEntry
           \/ pc[c] = "wait" /\ l = "idle" /\ msg[c].completed
           \/ pc[c] = "stop" /\ l = "join" /\ msg[c].completed
           \/ pc[c] = "begin" /\ l = "end" /\ ~ctx.spdk_thread_running
    PROVE  Good'
  <1> USE DEF Good
  <1>1. UNCHANGED <<ctx, attempts, rings, pools, thread, queue, head, seen, msg, submitted, races>>
    BY DEF objVars, ringVars
  <1>2. pc' \in [Clients -> Places] /\ pc'[c] = l /\ \A d \in Clients \ {c} : pc'[d] = pc[d]
    BY GotoFacts
  <1>3. TypeOK' /\ Sound'
    BY <1>1, <1>2 DEF TypeOK, Places, Sound
  <1>4. PointersCurrent' /\ LiveHasObjects'
    BY <1>1 DEF PointersCurrent, LiveHasObjects, Live
  <1>5. StartingAlone'
    BY <1>1, <1>2, SMTT(30) DEF StartingAlone, Starting, Stopping
  <1>6. \A d \in Clients : /\ Closes(d)' <=> Closes(d)
                           /\ pc'[d] \in Starting <=> pc[d] \in Starting
                           /\ pc'[d] \in Stopping <=> pc[d] \in Stopping
    BY <1>1, <1>2 DEF Closes, Starting, Stopping
  <1>7. Started'
    BY <1>1, <1>2, <1>6 DEF Started, IsStopping
  <1>8. WillBeReleased'
    BY <1>1, <1>6 DEF WillBeReleased, IsStarting, Live
  <1>9. Disciplined'
    <2>1. \A d \in Clients : pc'[d] = "begin" => pc[d] = "begin"
      BY <1>2
    <2>3. \A d \in Clients : pc[d] = "idle" => pc'[d] = "idle"
      BY <1>2
    <2>4. \A d \in Clients : pc'[d] \in {"alloc", "send", "wait", "batch_wait", "shutdown", "stop"}
                               => pc'[d] = pc[d]
      BY <1>2
    <2>5. QED
      BY <1>1, <1>6, <2>1, <2>3, <2>4, SMTT(30) DEF Disciplined
  <1>10. HandledOnce' /\ SeenCurrent' /\ OneConsumer'
    BY <1>1, <1>2, SameConsumer
  <1>11. QED
    BY <1>3, <1>4, <1>5, <1>7, <1>8, <1>9, <1>10

\* xpdk_msg_alloc, for a call or for SHUTDOWN, finds the pool.
LEMMA MsgAllocStep ==
    ASSUME Good, NEW c \in Clients, NEW t \in {"call", "OPEN", "SHUTDOWN"}, NEW l \in Places,
           MsgAlloc(c, t, l), UNCHANGED <<ctx, objVars, seen, total, races>>,
           \/ pc[c] = "alloc" /\ t # "SHUTDOWN" /\ l = "send"
           \/ pc[c] = "begin" /\ t = "SHUTDOWN" /\ l = "shutdown" /\ ctx.spdk_thread_running
    PROVE  LifecycleInv'
  <1>1. CASE ctx.msg_pool \notin pools
    <2>1. races \cap {"stop", "uninit"} # {}
      BY <1>1, CallsAreServed, Works
    <2>2. QED
      BY <1>1, <2>1, Dies DEF MsgAlloc, Good, TypeOK, objVars, ringVars
  <1>2. CASE ctx.msg_pool \in pools
    <2> USE DEF Good
    <2>1. /\ UNCHANGED <<ctx, attempts, rings, pools, thread, queue, head, seen>>
          /\ UNCHANGED <<submitted, total, races>>
          /\ ctx.msg_pool = attempts /\ attempts \in Attempts
      BY <1>2, Types DEF MsgAlloc, objVars, ringVars, PointersCurrent
    <2>2. pc' \in [Clients -> Places] /\ pc'[c] = l /\ \A d \in Clients \ {c} : pc'[d] = pc[d]
      BY <1>2, GotoFacts DEF MsgAlloc
    <2>3. /\ msg' \in [Clients -> [pool : 0 .. MaxInits, type : {"call", "OPEN", "SHUTDOWN"},
                                   completed : BOOLEAN, handled : Nat]]
          /\ msg'[c].type = t /\ msg'[c].pool = attempts /\ ~msg'[c].completed
          /\ msg'[c].handled = 0 /\ \A d \in Clients \ {c} : msg'[d] = msg[d]
      <3>1. PICK m : m = NewMsg(attempts, t)
        OBVIOUS
      <3>2. /\ m \in [pool : 0 .. MaxInits, type : {"call", "OPEN", "SHUTDOWN"},
                     completed : BOOLEAN, handled : Nat]
            /\ m.type = t /\ m.pool = attempts /\ ~m.completed /\ m.handled = 0
        BY <2>1, <3>1, SMTT(30) DEF NewMsg, Attempts
      <3>3. msg' = [msg EXCEPT ![c] = m]
        BY <1>2, <2>1, <3>1 DEF MsgAlloc
      <3>4. QED
        BY <3>2, <3>3 DEF TypeOK
    <2>4. TypeOK' /\ Sound'
      BY <2>1, <2>2, <2>3, SMTT(30) DEF TypeOK, Places, Sound
    <2>5. PointersCurrent' /\ LiveHasObjects'
      BY <2>1 DEF PointersCurrent, LiveHasObjects, Live
    <2>6. \A d \in Clients : /\ pc'[d] \in Starting <=> pc[d] \in Starting
                             /\ pc'[d] \in Stopping <=> pc[d] \in Stopping
      BY <2>2 DEF Starting, Stopping
    <2>7. StartingAlone'
      <3>1. ASSUME NEW d \in Clients, pc[d] \in Starting
            PROVE  t # "SHUTDOWN" /\ d # c /\ pc'[d] = pc[d]
        BY <2>2, <3>1 DEF StartingAlone, Starting, Stopping
      <3>2. QED
        <4>1. pc'[c] # "batch_wait"
          BY <2>2
        <4>2. IsStarting => \A d \in Clients : msg'[d].type # "SHUTDOWN"
          BY <2>3, <3>1 DEF StartingAlone, IsStarting
        <4>3. QED
          BY <2>1, <2>2, <2>6, <3>1, <4>1, <4>2, SMTT(30) DEF StartingAlone, IsStarting
    <2>8. Started'
      BY <2>1, <2>2, <2>6 DEF Started, IsStopping
    <2>9. WillBeReleased'
      <3>1. /\ \A d \in Clients : Closes(d) => Closes(d)'
            /\ t = "SHUTDOWN" => Closes(c)'
        BY <2>2 DEF Closes
      <3>2. QED
        BY <2>1, <2>3, <2>6, <3>1 DEF WillBeReleased, IsStarting, Live
    <2>10. SeenCurrent'
      BY <2>1, <2>2, SMTT(30) DEF SeenCurrent
    <2>11. Disciplined'
      <3> SUFFICES ASSUME races \cap {"stop", "uninit"} = {}
                   PROVE  Disciplined'
        BY <2>1 DEF Disciplined
      <3>1. ctx.initialized \/ pc[c] # "alloc"
        BY DEF Disciplined
      <3>2. attempts \in rings /\ attempts \in pools
        BY CallsAreServed, Works
      <3>3. \A d \in Clients : pc[d] = "idle" => pc'[d] = "idle"
        BY <2>2
      <3>4. QED
        BY <2>1, <2>2, <2>3, <2>6, <3>1, <3>2, <3>3, SMTT(30) DEF Disciplined, Closes
    <2>12. HandledOnce'
      BY <2>1, <2>2, <2>3, SMTT(30) DEF HandledOnce
    <2>13. OneConsumer'
      <3> SUFFICES ASSUME "poll" \notin races
                   PROVE  OneConsumer'
        BY <2>1 DEF OneConsumer
      <3>1. \A d \in Clients :
              /\ pc'[d] # "batch_wait"
              /\ pc'[d] \in {"send", "shutdown"} => ~msg'[d].completed
              /\ submitted[d] > 0 =>
                   /\ submitted[d] = 1 /\ pc'[d] \in {"wait", "stop"}
                   /\ ~msg'[d].completed /\ msg'[d].handled = 1
        BY <2>2, <2>3, SMTT(30) DEF OneConsumer
      <3>2. attempts \in rings =>
              \A i \in head[attempts] + 1 .. Len(queue[attempts]) :
                queue[attempts][i] \in Clients \ {c}
        BY <2>1, EntryType DEF OneConsumer
      <3>3. QED
        BY <2>1, <2>2, <2>3, <3>1, <3>2, SMTT(30) DEF OneConsumer
    <2>14. QED
      BY <2>4, <2>5, <2>7, <2>8, <2>9, <2>10, <2>11, <2>12, <2>13, Lives
  <1>3. QED
    BY <1>1, <1>2

\* The message enters the ring, which is there.
LEMMA MsgSendStep ==
    ASSUME Good, NEW c \in Clients, NEW l \in Places, MsgSend(c, l),
           UNCHANGED <<ctx, objVars, seen, total, races>>,
           \/ pc[c] = "send" /\ l = "wait"
           \/ pc[c] = "shutdown" /\ l = "stop"
    PROVE  LifecycleInv'
  <1>1. CASE ctx.msg_ring \notin rings
    <2>1. races \cap {"stop", "uninit"} # {}
      <3>1. CASE pc[c] = "send"
        BY <1>1, <3>1, CallsAreServed, Works
      <3>2. CASE pc[c] = "shutdown"
        BY <1>1, <3>2 DEF Good, Disciplined, Closes, PointersCurrent
      <3>3. QED
        BY <3>1, <3>2
    <2>2. QED
      BY <1>1, <2>1, Dies DEF MsgSend, Good, TypeOK, objVars, ringVars
  <1>2. CASE ctx.msg_ring \in rings
    <2> USE DEF Good
    <2>1. /\ UNCHANGED <<ctx, attempts, rings, pools, thread, head, seen>>
          /\ UNCHANGED <<msg, submitted, total, races>>
          /\ ctx.msg_ring = attempts /\ attempts \in Attempts /\ attempts \in rings
          /\ ctx.msg_ring # NULL
      BY <1>2, Types DEF MsgSend, objVars, ringVars, PointersCurrent
    <2>2. pc' \in [Clients -> Places] /\ pc'[c] = l /\ \A d \in Clients \ {c} : pc'[d] = pc[d]
      BY <1>2, GotoFacts DEF MsgSend
    <2>3. /\ queue' \in [Attempts -> Seq(Clients)]
          /\ queue'[attempts] = Append(queue[attempts], c)
          /\ \A g \in Attempts \ {attempts} : queue'[g] = queue[g]
      <3>1. queue \in [Attempts -> Seq(Clients)]
        BY DEF TypeOK
      <3>2. Append(queue[attempts], c) \in Seq(Clients)
        BY <2>1, <3>1, SMTT(30)
      <3>3. queue' = [queue EXCEPT ![attempts] = Append(queue[attempts], c)]
        BY <1>2, <2>1 DEF MsgSend
      <3>4. QED
        BY <2>1, <3>1, <3>2, <3>3
    <2>4. /\ Len(queue'[attempts]) = Len(queue[attempts]) + 1 /\ Len(queue[attempts]) \in Nat
          /\ queue'[attempts][Len(queue[attempts]) + 1] = c
          /\ \A i \in 1 .. Len(queue[attempts]) : queue'[attempts][i] = queue[attempts][i]
      <3>1. queue[attempts] \in Seq(Clients)
        BY <2>1 DEF TypeOK
      <3>2. QED
        BY <2>3, <3>1, SMTT(30)
    <2>5. TypeOK' /\ Sound' /\ HandledOnce'
      <3>1. TypeOK'
        BY <2>1, <2>2, <2>3 DEF TypeOK, Places
      <3>2. Sound'
        BY <2>1, <2>2 DEF Sound
      <3>3. HandledOnce'
        BY <2>1, <2>2 DEF HandledOnce
      <3>4. QED
        BY <3>1, <3>2, <3>3
    <2>6. PointersCurrent' /\ LiveHasObjects'
      BY <2>1 DEF PointersCurrent, LiveHasObjects, Live
    <2>7. \A d \in Clients : /\ pc'[d] \in Starting <=> pc[d] \in Starting
                             /\ pc'[d] \in Stopping <=> pc[d] \in Stopping
                             /\ Closes(d)' <=> Closes(d)
      BY <2>2 DEF Starting, Stopping, Closes
    <2>8. StartingAlone'
      <3>1. ASSUME NEW d \in Clients, pc[d] \in Starting
            PROVE  d # c /\ pc'[d] = pc[d] /\ pc[d] # "ring"
        BY <2>1, <2>2, <3>1 DEF StartingAlone, Starting
      <3>2. pc'[c] # "batch_wait"
        BY <2>2
      <3>3. QED
        BY <2>1, <2>2, <2>7, <3>1, <3>2, SMTT(30) DEF StartingAlone
    <2>9. Started'
      BY <2>1, <2>2, <2>7 DEF Started, IsStopping
    <2>10. WillBeReleased'
      BY <2>1, <2>7 DEF WillBeReleased, IsStarting, Live
    <2>11. SeenCurrent'
      <3>1. \A g \in Attempts : g > attempts => queue'[g] = queue[g]
        BY <2>3, Types, SMTT(30)
      <3>2. \A i \in 1 .. Len(queue[attempts]) : i \in 1 .. Len(queue'[attempts])
        BY <2>4, SMTT(30)
      <3>3. QED
        BY <2>1, <2>2, <3>1, <3>2 DEF SeenCurrent
    <2>12. Disciplined'
      <3>1. \A d \in Clients : pc[d] = "idle" => pc'[d] = "idle"
        BY <2>2
      <3>2. QED
        BY <2>1, <2>2, <2>7, <3>1, SMTT(30) DEF Disciplined
    <2>13. OneConsumer'
      <3> SUFFICES ASSUME "poll" \notin races
                   PROVE  OneConsumer'
        BY <2>1 DEF OneConsumer
      <3>1. /\ \A d \in Clients :
                 /\ pc'[d] # "batch_wait"
                 /\ pc'[d] \in {"send", "shutdown"} => ~msg[d].completed
                 /\ submitted[d] > 0 =>
                      /\ submitted[d] = 1 /\ pc'[d] \in {"wait", "stop"}
                      /\ ~msg[d].completed /\ msg[d].handled = 1
            /\ pc'[c] \in {"wait", "stop"} /\ ~msg[c].completed /\ msg[c].handled = 0
        BY <2>2 DEF OneConsumer, HandledOnce
      <3>2. \A i \in head[attempts] + 1 .. Len(queue[attempts]) :
              /\ queue[attempts][i] \in Clients \ {c} /\ i \in 1 .. Len(queue[attempts])
              /\ queue'[attempts][i] = queue[attempts][i]
        BY <2>1, <2>4, EntryType, SMTT(30) DEF OneConsumer
      <3>3. \A i \in head[attempts] + 1 .. Len(queue'[attempts]) :
              \/ i \in head[attempts] + 1 .. Len(queue[attempts])
              \/ i = Len(queue[attempts]) + 1 /\ queue'[attempts][i] = c
        BY <2>1, <2>4, EntryType, SMTT(30)
      <3>4. QED
        BY <2>1, <2>2, <3>1, <3>2, <3>3, SMTT(30) DEF OneConsumer
    <2>14. QED
      BY <2>5, <2>6, <2>8, <2>9, <2>10, <2>11, <2>12, <2>13, Lives
  <1>3. QED
    BY <1>1, <1>2

\* The message goes back to the pool, which is there.
LEMMA MsgReturnStep ==
    ASSUME Good, NEW c \in Clients, NEW l \in Places, MsgReturn(c, l),
           UNCHANGED <<ctx, objVars, seen, total, races>>,
           \/ pc[c] = "wait" /\ l = "idle"
           \/ pc[c] = "stop" /\ l = "join"
    PROVE  LifecycleInv'
  <1>1. CASE {msg[c].pool, ctx.msg_pool} \subseteq pools
    <2>1. Goto(c, l) /\ msg[c].completed /\ UNCHANGED <<ringVars, msg, submitted>>
      BY <1>1 DEF MsgReturn
    <2>2. Good'
      BY <2>1, MoveStep DEF Good, TypeOK
    <2>3. QED
      BY <2>2, Lives
  <1>2. CASE ~({msg[c].pool, ctx.msg_pool} \subseteq pools)
    <2>1. races \cap {"stop", "uninit"} # {}
      <3> SUFFICES ASSUME races \cap {"stop", "uninit"} = {}
                   PROVE  FALSE
        OBVIOUS
      <3>1. msg[c].pool = attempts
        BY DEF Good, Disciplined
      <3>2. attempts \in pools
        BY CallsAreServed, Works DEF Good, Disciplined, Closes
      <3>3. QED
        BY <1>2, <3>1, <3>2 DEF Good, PointersCurrent
    <2>2. QED
      BY <1>2, <2>1, Dies DEF MsgReturn, Good, TypeOK
  <1>3. QED
    BY <1>1, <1>2


\* xpdk_cleanup joins the thread and frees the pool and the ring.
LEMMA CleanupJoinStep ==
    ASSUME Good, NEW c \in Clients, CleanupJoin(c)
    PROVE  Good'
  <1> USE DEF Good
  <1>1. /\ pc[c] = "join" /\ thread[ctx.spdk_thread_id] = "done"
        /\ UNCHANGED <<attempts, thread, seen, msg, submitted, total, races>>
    BY DEF CleanupJoin
  <1>2. /\ attempts \in Attempts /\ ctx.spdk_thread_id = attempts
        /\ \A d \in Clients : pc[d] \notin Starting
    BY <1>1 DEF Started, IsStopping, Stopping, StartingAlone, Starting
  <1>3. (\A g \in Attempts : ~Live(g)) /\ ~ctx.spdk_thread_running
    BY <1>1, <1>2 DEF LiveHasObjects, Live
  <1>4. /\ ctx' \in Contexts /\ ctx'.msg_pool = NULL /\ ctx'.msg_ring = NULL
        /\ UNCHANGED <<ctx.initialized, ctx.spdk_thread_running, ctx.spdk_thread_id>>
    <2>1. ctx \in Contexts /\ NULL \in 0 .. MaxInits
      BY LifecycleAssumption, SMTT(30) DEF TypeOK, Contexts, NULL
    <2>2. ctx' = [ctx EXCEPT !.msg_pool = NULL, !.msg_ring = NULL]
      BY DEF CleanupJoin
    <2>3. QED
      BY <2>1, <2>2 DEF Contexts
  <1>5. rings' = {} /\ pools' = {}
    BY DEF CleanupJoin, RingFreed, PointersCurrent
  <1>6. /\ queue' \in [Attempts -> Seq(Clients)] /\ head' \in [Attempts -> Nat]
        /\ \A g \in Attempts : queue[g] = <<>> /\ head[g] = 0 => queue'[g] = <<>> /\ head'[g] = 0
    <2>1. /\ queue \in [Attempts -> Seq(Clients)] /\ head \in [Attempts -> Nat]
          /\ <<>> \in Seq(Clients)
      BY SMTT(30) DEF TypeOK
    <2>2. PICK r : queue' = [queue EXCEPT ![r] = <<>>] /\ head' = [head EXCEPT ![r] = 0]
      BY DEF CleanupJoin
    <2>3. QED
      BY <2>1, <2>2
  <1>7. pc' \in [Clients -> Places] /\ pc'[c] = "end" /\ \A d \in Clients \ {c} : pc'[d] = pc[d]
    BY GotoFacts DEF CleanupJoin, Places, Stopping
  <1>8. TypeOK'
    BY <1>1, <1>4, <1>5, <1>6, <1>7 DEF TypeOK, Contexts, Places
  <1>9. Sound' /\ HandledOnce'
    BY <1>1, <1>7 DEF Sound, HandledOnce
  <1>10. PointersCurrent' /\ LiveHasObjects'
    BY <1>1, <1>2, <1>3, <1>4, <1>5 DEF PointersCurrent, LiveHasObjects, Live
  <1>11. StartingAlone'
    BY <1>2, <1>7 DEF StartingAlone, Starting
  <1>12. Started'
    BY <1>1, <1>2, <1>3, <1>4, <1>7 DEF Started, IsStopping, Stopping
  <1>13. WillBeReleased'
    BY <1>1, <1>3, <1>5 DEF WillBeReleased, Live
  <1>14. SeenCurrent'
    BY <1>1, <1>5, <1>6, <1>7 DEF SeenCurrent
  <1>15. Disciplined'
    <2> SUFFICES ASSUME races \cap {"stop", "uninit"} = {}
                 PROVE  Disciplined'
      BY <1>1 DEF Disciplined
    <2>1. \A d \in Clients \ {c} : pc'[d] = "idle"
      BY <1>1, <1>7 DEF Disciplined, Stopping
    <2>2. QED
      BY <1>7, <2>1 DEF Disciplined, Closes, Starting, Stopping
  <1>16. OneConsumer'
    BY <1>1, <1>5, <1>7 DEF OneConsumer
  <1>17. QED
    BY <1>8, <1>9, <1>10, <1>11, <1>12, <1>13, <1>14, <1>15, <1>16

\* xpdk_cleanup ends and the library may be started again.
LEMMA CleanupEndStep ==
    ASSUME Good, NEW c \in Clients, CleanupEnd(c)
    PROVE  Good'
  <1> USE DEF Good
  <1>1. /\ pc[c] = "end"
        /\ UNCHANGED <<attempts, rings, pools, thread, queue, head, seen>>
        /\ UNCHANGED <<msg, submitted, total, races>>
    BY DEF CleanupEnd, objVars, ringVars
  <1>2. /\ attempts \in Attempts /\ ctx.spdk_thread_id = attempts /\ thread[attempts] # "start"
        /\ ~ctx.spdk_thread_running /\ \A d \in Clients : pc[d] \notin Starting
    BY <1>1 DEF Started, IsStopping, Stopping, StartingAlone, Starting
  <1>3. /\ ctx' \in Contexts /\ ~ctx'.initialized
        /\ UNCHANGED <<ctx.spdk_thread_running, ctx.msg_ring, ctx.msg_pool, ctx.spdk_thread_id>>
    BY DEF CleanupEnd, Finished, TypeOK, Contexts
  <1>4. pc' \in [Clients -> Places] /\ pc'[c] = "idle" /\ \A d \in Clients \ {c} : pc'[d] = pc[d]
    BY GotoFacts DEF CleanupEnd, Places
  <1>5. TypeOK' /\ Sound'
    BY <1>1, <1>3, <1>4, SMTT(30) DEF TypeOK, Contexts, Places, Sound
  <1>6. PointersCurrent' /\ LiveHasObjects'
    BY <1>1, <1>3 DEF PointersCurrent, LiveHasObjects, Live
  <1>7. StartingAlone'
    BY <1>2, <1>4 DEF StartingAlone, Starting
  <1>8. Started'
    BY <1>1, <1>2, <1>3, <1>4 DEF Started
  <1>9. WillBeReleased'
    <2>1. ~IsStarting /\ \A d \in Clients : Closes(d)' <=> Closes(d)
      BY <1>1, <1>2, <1>4 DEF IsStarting, Closes
    <2>2. QED
      BY <1>1, <1>2, <2>1 DEF WillBeReleased, Live
  <1>10. Disciplined'
    <2> SUFFICES ASSUME races \cap {"stop", "uninit"} = {}
                 PROVE  Disciplined'
      BY <1>1 DEF Disciplined
    <2>1. \A d \in Clients : pc'[d] = "idle"
      BY <1>1, <1>4 DEF Disciplined, Stopping
    <2>2. QED
      BY <2>1 DEF Disciplined, Closes, Starting, Stopping
  <1>11. HandledOnce' /\ SeenCurrent' /\ OneConsumer'
    BY <1>1, <1>4, SameConsumer
  <1>12. QED
    BY <1>5, <1>6, <1>7, <1>8, <1>9, <1>10, <1>11

-----------------------------------------------------------------------------
\* A thread begins a call, a poll, a wait or a shutdown.
LEMMA ClientStartStep ==
    ASSUME Good, NEW c \in Clients, ClientStart(c)
    PROVE  Good'
  <1>1. CASE InitStart(c)
    BY <1>1, InitStartStep
  <1>2. CASE CleanupStart(c)
    BY <1>2, BeginStep DEF CleanupStart
  <1>3. ASSUME NEW tested \in BOOLEAN, CallStart(c, tested)
        PROVE  Good'
    BY <1>3, BeginStep DEF CallStart
  <1>4. CASE xpdk_batch_wait(c)
    BY <1>4, BeginStep DEF xpdk_batch_wait
  <1>5. QED
    BY <1>1, <1>2, <1>3, <1>4 DEF ClientStart

\* The steps of a thread inside a call, put together.
LEMMA ClientStepStep ==
    ASSUME Good, NEW c \in Clients, ClientStep(c)
    PROVE  LifecycleInv'
  <1>1. CASE InitRing(c) \/ InitPool(c) \/ InitThread(c) \/ InitReady(c)
    BY <1>1, InitRingStep, InitPoolStep, InitThreadStep, InitReadyStep, Lives
  <1>2. CASE \/ DequeueRead(c) \/ PollDies(c) \/ DequeueTake(c)
             \/ \E d \in Clients : BdevCompletes(c, d)
    BY <1>2, DequeueReadStep, PollDiesStep, DequeueTakeStep, BdevCompletesStep, Lives
       DEF Executors
  <1>3. CASE PollStops(c)
    <2>1. /\ pc[c] = "batch_wait" /\ seen[c] = NoEntry /\ Goto(c, "idle") /\ "idle" \in Places
          /\ total' \in [Clients -> Nat]
          /\ UNCHANGED <<ctx, objVars, ringVars, seen, msg, submitted, races>>
      BY <1>3 DEF PollStops, Good, TypeOK, Places
    <2>2. QED
      BY <2>1, MoveStep, Lives
  <1>4. {"idle", "send", "wait", "shutdown", "stop", "join", "end"} \subseteq Places
    BY DEF Places, Stopping
  <1>5. CASE Call(c)
    BY <1>4, <1>5, MsgAllocStep, MsgSendStep, MsgReturnStep DEF Call
  <1>6. CASE CleanupThread(c)
    <2>1. CASE pc[c] = "begin" /\ ~ctx.spdk_thread_running
      <3>1. /\ Goto(c, "end")
            /\ UNCHANGED <<ctx, objVars, ringVars, seen, msg, submitted, total, races>>
        BY <1>6, <2>1 DEF CleanupThread
      <3>2. QED
        BY <1>4, <2>1, <3>1, MoveStep, Lives DEF Good, TypeOK
    <2>2. QED
      BY <1>4, <1>6, <2>1, MsgAllocStep, MsgSendStep, MsgReturnStep DEF CleanupThread
  <1>7. CASE CleanupJoin(c) \/ CleanupEnd(c)
    BY <1>7, CleanupJoinStep, CleanupEndStep, Lives
  <1>8. QED
    BY <1>1, <1>2, <1>3, <1>5, <1>6, <1>7 DEF ClientStep

\* Every step keeps the invariant of start and shutdown.
LEMMA LifecycleStep ==
    ASSUME LifecycleInv, [Next]_vars
    PROVE  LifecycleInv'
  <1>1. CASE Next
    <2>1. Good
      BY <1>1 DEF Next, LifecycleInv, Good
    <2>2. ASSUME NEW g \in Attempts, SpdkThread(g)
          PROVE  LifecycleInv'
      BY <2>1, <2>2, ThreadStartStep, DequeueReadStep, PollDiesStep, DequeueTakeStep,
         BdevCompletesStep, ThreadExitStep, Lives DEF SpdkThread, Executors
    <2>3. ASSUME NEW c \in Clients, ClientStart(c) \/ ClientStep(c)
          PROVE  LifecycleInv'
      BY <2>1, <2>3, ClientStartStep, ClientStepStep, Lives
    <2>4. QED
      BY <1>1, <2>2, <2>3 DEF Next
  <1>2. CASE UNCHANGED vars
    <2>1. /\ UNCHANGED <<ctx, attempts, rings, pools, thread, queue, head, seen, pc>>
          /\ UNCHANGED <<msg, submitted, total, races>>
      BY <1>2 DEF vars, objVars, ringVars
    <2>2. TypeOK' /\ NoUseAfterFree' /\ HandledOnce' /\ (Sound' <=> Sound)
      BY <2>1 DEF LifecycleInv, TypeOK, NoUseAfterFree, HandledOnce, Sound
    <2>3. ASSUME Sound
          PROVE  /\ PointersCurrent' /\ LiveHasObjects' /\ StartingAlone' /\ Started'
                 /\ WillBeReleased' /\ SeenCurrent' /\ Disciplined' /\ OneConsumer'
      <3>1. PointersCurrent' /\ LiveHasObjects' /\ StartingAlone' /\ Started'
        BY <2>1, <2>3
           DEF LifecycleInv, PointersCurrent, LiveHasObjects, Live, StartingAlone,
               Started, IsStopping
      <3>2. WillBeReleased' /\ SeenCurrent' /\ Disciplined'
        BY <2>1, <2>3
           DEF LifecycleInv, WillBeReleased, IsStarting, Closes, Live, SeenCurrent,
               Disciplined
      <3>3. OneConsumer'
        BY <2>1, <2>3, SMTT(30) DEF LifecycleInv, OneConsumer
      <3>4. QED
        BY <3>1, <3>2, <3>3
    <2>4. QED
      BY <2>2, <2>3 DEF LifecycleInv
  <1>3. QED
    BY <1>1, <1>2

\* At first the library has not been started.
LEMMA LifecycleInit ==
    ASSUME Init
    PROVE  LifecycleInv
  <1> USE DEF Init
  <1>1. /\ ~ctx.initialized /\ ~ctx.spdk_thread_running /\ ctx.msg_ring = NULL
        /\ ctx.msg_pool = NULL /\ ctx.spdk_thread_id = NULL /\ ctx \in Contexts
    BY LifecycleAssumption, SMTT(30) DEF ZeroCtx, Contexts, NULL
  <1>2. /\ msg \in [Clients -> [pool : 0 .. MaxInits, type : {"call", "OPEN", "SHUTDOWN"},
                                completed : BOOLEAN, handled : Nat]]
        /\ submitted \in [Clients -> Nat]
        /\ \A c \in Clients : /\ msg[c].type # "SHUTDOWN" /\ msg[c].handled = 0
                              /\ submitted[c] = 0 /\ pc[c] = "idle"
    BY LifecycleAssumption, SMTT(30) DEF NewMsg, NULL
  <1>3. TypeOK
    <2>1. queue \in [Attempts -> Seq(Clients)] /\ head \in [Attempts -> Nat]
      BY SMTT(30)
    <2>2. seen \in [Executors -> (0 .. MaxInits) \X Nat]
      BY LifecycleAssumption, SMTT(30) DEF NoEntry, NULL
    <2>3. QED
      BY <1>1, <1>2, <2>1, <2>2, LifecycleAssumption, SMTT(30) DEF TypeOK, Contexts
  <1>4. NoUseAfterFree /\ HandledOnce
    BY <1>2, SMTT(30) DEF NoUseAfterFree, HandledOnce, Sound
  <1>5. PointersCurrent /\ LiveHasObjects
    BY <1>1 DEF PointersCurrent, LiveHasObjects, Live
  <1>6. StartingAlone /\ Started /\ WillBeReleased
    BY <1>1, <1>2
       DEF StartingAlone, Starting, Started, IsStopping, Stopping, WillBeReleased, Live
  <1>7. SeenCurrent
    BY DEF SeenCurrent, Executors
  <1>8. Disciplined /\ OneConsumer
    BY <1>2, SMTT(30) DEF Disciplined, Starting, Stopping, Closes, OneConsumer
  <1>9. QED
    BY <1>3, <1>4, <1>5, <1>6, <1>7, <1>8 DEF LifecycleInv

\* The inductive invariant of the start and the shutdown holds in every reachable state.
THEOREM LifecycleInvariant == Spec => []LifecycleInv
  <1>1. Init => LifecycleInv
    BY LifecycleInit
  <1>2. LifecycleInv /\ [Next]_vars => LifecycleInv'
    BY LifecycleStep
  <1>3. QED
    BY <1>1, <1>2, PTL DEF Spec

(***************************************************************************)
(* An application that stops the library when none of its calls is in      *)
(* progress, and calls it only while it is initialized, never makes it use *)
(* a ring or a pool that is not there, whatever fails in xpdk_init_opts    *)
(* (NoUseAfterFree).                                                       *)
(***************************************************************************)
THEOREM NothingIsUsedAfterFree == Spec => []NoUseAfterFree
  <1>1. LifecycleInv => NoUseAfterFree
    BY DEF LifecycleInv
  <1>2. QED
    BY <1>1, LifecycleInvariant, PTL

(***************************************************************************)
(* Outside xpdk_cleanup, initialized means that the ring, the pool and a   *)
(* running SPDK thread are there (InitializedWorks).                       *)
(***************************************************************************)
THEOREM InitializedMeansWorking == Spec => []InitializedWorks
  <1>1. LifecycleInv => InitializedWorks
    BY DEF LifecycleInv, InitializedWorks, Started, IsStopping, LiveHasObjects, Live
  <1>2. QED
    BY <1>1, LifecycleInvariant, PTL

(***************************************************************************)
(* Every path out of xpdk_init_opts and xpdk_cleanup that leaves the       *)
(* library uninitialized has released the ring, the pool and the thread    *)
(* (NothingLeftBehind).                                                    *)
(***************************************************************************)
THEOREM NothingIsLeftBehind == Spec => []NothingLeftBehind
  <1>1. LifecycleInv => NothingLeftBehind
    BY DEF LifecycleInv, NothingLeftBehind, WillBeReleased, IsStarting, Closes, Live,
           Stopping
  <1>2. QED
    BY <1>1, LifecycleInvariant, PTL

(***************************************************************************)
(* As long as nobody calls xpdk_poll, a message is handled once, after it  *)
(* was sent (HandledOnce).                                                 *)
(***************************************************************************)
THEOREM MessagesAreHandledOnce == Spec => []HandledOnce
  <1>1. LifecycleInv => HandledOnce
    BY DEF LifecycleInv
  <1>2. QED
    BY <1>1, LifecycleInvariant, PTL

=============================================================================
