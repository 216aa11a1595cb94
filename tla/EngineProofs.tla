----------------------------- MODULE EngineProofs ----------------------------
(***************************************************************************)
(* The shutdown discipline of the engine, for every set of callers,        *)
(* queues, configurations and messages.  The flags that Start, Reload and  *)
(* Stop exchange under e.mu keep them apart from the closing of the        *)
(* driver, although Stop gives e.mu back before it waits and closes.       *)
(***************************************************************************)
EXTENDS Engine, TLAPS, FiniteSetTheorems

Attaching == {"declare", "consume"}            \* inside Start or Reload
Stopping  == {"cancel", "wait", "close", "closing"} \* inside Stop

(* No loop and no dispatch is at work. *)
Quiet == workers = {} /\ loop.pc \in {"off", "exited"}

(* Who holds e.mu, and what the stopped flag tells about everybody else. *)
LockInv ==
  /\ pc \in [Callers -> {"idle"} \cup Attaching \cup Stopping]
  /\ \A c \in Callers : pc[c] \in Attaching => mu = {c} /\ ~stopped
  /\ \A c \in Callers : pc[c] \in Stopping => stopped
  /\ conn # "open" => stopped

(* The workers are finite in number and have their program counters. *)
WorkersOK ==
  /\ IsFiniteSet(workers)
  /\ \A w \in workers : "pc" \in DOMAIN w

(* Once Stop is past its wait without a timeout, nothing is at work, and   *)
(* nothing can start: only Start would, and it needs the flag clear.       *)
QuietInv ==
  /\ WorkersOK
  /\ \A c \in Callers : pc[c] \in {"close", "closing"} /\ ~timedOut => Quiet
  /\ conn # "open" /\ ~timedOut => Quiet
  /\ conn = "closed" => \A i \in DOMAIN consumers : consumers[i].pc = "exited"

Inv == LockInv /\ QuietInv

(* What runs outside Start, Reload and Stop. *)
Background ==
  \/ LoopWorks \/ LoopExits
  \/ \E w \in workers : Dispatch(w)
  \/ \E i \in DOMAIN consumers : Consumer(i)
  \/ \E q \in Queues, content \in Contents, origin \in {"none", "peer"} :
        OthersPublish(q, content, origin)
  \/ ConnectionLost

(* The background never touches e.mu, the flags or the driver's state. *)
LEMMA BackgroundFrame ==
  ASSUME Background
  PROVE  UNCHANGED <<conn, lifeVars>>
<1>1. CASE LoopWorks \/ LoopExits
  BY <1>1 DEF LoopWorks, LoopReceives, LoopRecords, snapshotRules,
     LoopEvaluates, LoopHandled, LoopExits, driverVars
<1>2. CASE \E w \in workers : Dispatch(w)
  BY <1>2 DEF Dispatch, DispatchDelay, DispatchPublish, DispatchRecord,
     dispatchVars, PublishOK, PublishFails, driverVars
<1>3. CASE \E i \in DOMAIN consumers : Consumer(i)
  BY <1>3 DEF Consumer, ConsumerReceives, ConsumerSends, ConsumerExits
<1>4. CASE \E q \in Queues, content \in Contents, origin \in {"none", "peer"} :
             OthersPublish(q, content, origin)
  BY <1>4 DEF OthersPublish
<1>5. CASE ConnectionLost
  BY <1>5 DEF ConnectionLost, LinkLost
<1> QED BY <1>1, <1>2, <1>3, <1>4, <1>5 DEF Background

-----------------------------------------------------------------------------
(* The lock and the flags.                                                 *)

LEMMA LockInit == Init => LockInv
  BY DEF Init, LockInv, ConnectedDriver, Attaching, Stopping

LEMMA LockNext ==
  ASSUME LockInv, [Next]_vars
  PROVE  LockInv'
<1> USE DEF LockInv, Attaching, Stopping
<1>1. CASE UNCHANGED vars
  BY <1>1 DEF vars, lifeVars, driverVars
<1>2. CASE Background
  BY <1>2, BackgroundFrame DEF lifeVars
<1>3. ASSUME NEW c \in Callers, Start(c)
      PROVE  LockInv'
  BY <1>3 DEF Start, Begin, Goto, driverVars
<1>4. ASSUME NEW c \in Callers, NEW cfg \in Configs, Reload(c, cfg)
      PROVE  LockInv'
  BY <1>4 DEF Reload, Begin, Goto, driverVars
<1>5. ASSUME NEW c \in Callers, NEW ctx, Stop(c, ctx)
      PROVE  LockInv'
  BY <1>5 DEF Stop, Goto, driverVars
<1>6. ASSUME NEW c \in Callers, DeclareTopology(c)
      PROVE  LockInv'
  BY <1>6 DEF DeclareTopology, DeclareOK, DeclareFails, ReturnError, Return,
     Goto, driverVars
<1>7. ASSUME NEW c \in Callers, StartConsuming(c)
      PROVE  LockInv'
  BY <1>7 DEF StartConsuming, ConsumeOK, ConsumeFails, ReturnError, Return,
     Goto, driverVars
<1>8. ASSUME NEW c \in Callers, Commit(c)
      PROVE  LockInv'
  BY <1>8 DEF Commit, Return, Goto, driverVars
<1>9. ASSUME NEW c \in Callers, StopCancels(c) \/ StopWaits(c)
      PROVE  LockInv'
  BY <1>9 DEF StopCancels, StopWaits, Goto, driverVars
<1>10. ASSUME NEW c \in Callers, StopCloses(c)
       PROVE  LockInv'
  BY <1>10 DEF StopCloses, CloseBegins, Goto
<1>11. ASSUME NEW c \in Callers, StopReturns(c)
       PROVE  LockInv'
  BY <1>11 DEF StopReturns, CloseReturns, Return, Goto
<1> HIDE DEF LockInv
<1> QED
  BY <1>1, <1>2, <1>3, <1>4, <1>5, <1>6, <1>7, <1>8, <1>9, <1>10, <1>11
  DEF Next, Background, Calls, Continues

(* No consumer is attached and no topology declared on a driver that Stop  *)
(* is closing: Start and Reload hold e.mu and an open driver throughout.   *)
THEOREM AttachOnOpenDriver == SafetySpec => []DriverUsedOpen
<1>1. LockInv => DriverUsedOpen
  BY DEF LockInv, DriverUsedOpen, Attaching
<1> QED BY <1>1, LockInit, LockNext, PTL DEF SafetySpec

-----------------------------------------------------------------------------
(* Stop drains the workers before it closes the driver.                    *)

LEMMA QuietIsWgZero ==
  ASSUME IsFiniteSet(workers)
  PROVE  Quiet <=> wg = 0
<1>1. Cardinality(workers) \in Nat
  BY FS_CardinalityType
<1>2. Cardinality(workers) = 0 <=> workers = {}
  BY FS_EmptySet
<1> QED BY <1>1, <1>2 DEF Quiet, wg

LEMMA QuietInit == Init => QuietInv
  BY FS_EmptySet
  DEF Init, QuietInv, WorkersOK, ConnectedDriver, Quiet, IdleLoop

(* Only the loop and the dispatches at work start others. *)
LEMMA BackgroundStaysQuiet ==
  ASSUME Quiet, Background
  PROVE  UNCHANGED <<workers, loop, spy, hits, answered>>
<1>1. ~LoopWorks /\ ~LoopExits
  BY DEF Quiet, LoopWorks, LoopReceives, LoopRecords, snapshotRules,
     LoopEvaluates, LoopHandled, LoopExits
<1>2. CASE \E i \in DOMAIN consumers : Consumer(i)
  BY <1>2 DEF Consumer, workVars
<1>3. CASE \E q \in Queues, content \in Contents, origin \in {"none", "peer"} :
             OthersPublish(q, content, origin)
  BY <1>3 DEF OthersPublish
<1>4. CASE ConnectionLost
  BY <1>4 DEF ConnectionLost, workVars
<1> QED BY <1>1, <1>2, <1>3, <1>4 DEF Background, Quiet

(* The steps that start, move or end a dispatch. *)
LEMMA WorkersSteps ==
  Next => \/ UNCHANGED workers \/ LoopEvaluates
          \/ \E w \in workers : Dispatch(w)
<1>1. ASSUME NEW c \in Callers, Calls(c)
      PROVE  UNCHANGED workers
  BY <1>1 DEF Calls, Start, Reload, Stop, workVars
<1>2. ASSUME NEW c \in Callers, Continues(c)
      PROVE  UNCHANGED workers
  BY <1>2 DEF Continues, DeclareTopology, StartConsuming, Commit,
     StopCancels, StopWaits, StopCloses, StopReturns, workVars
<1>3. LoopWorks \/ LoopExits => UNCHANGED workers \/ LoopEvaluates
  BY DEF LoopWorks, LoopReceives, LoopRecords, snapshotRules, LoopHandled,
     LoopExits
<1>4. ASSUME NEW i, Consumer(i)
      PROVE  UNCHANGED workers
  BY <1>4 DEF Consumer, workVars
<1>5. ASSUME NEW q, NEW content, NEW origin, OthersPublish(q, content, origin)
      PROVE  UNCHANGED workers
  BY <1>5 DEF OthersPublish
<1>6. ConnectionLost => UNCHANGED workers
  BY DEF ConnectionLost, workVars
<1> QED BY <1>1, <1>2, <1>3, <1>4, <1>5, <1>6 DEF Next

LEMMA WorkersNext ==
  ASSUME WorkersOK, [Next]_vars
  PROVE  WorkersOK'
<1>1. CASE UNCHANGED workers
  BY <1>1 DEF WorkersOK
<1>2. CASE LoopEvaluates
  <2> DEFINE where == IF Rules(loop.gen)[loop.i].delay THEN "delay" ELSE "publish"
             job == [msg |-> loop.msg, gen |-> loop.gen, i |-> loop.i,
                     pc |-> where]
  <2>1. workers' = workers \/ workers' = workers \cup {job}
    BY <1>2 DEF LoopEvaluates
  <2>2. "pc" \in DOMAIN job
    OBVIOUS
  <2> HIDE DEF job
  <2> QED BY <2>1, <2>2, FS_AddElement DEF WorkersOK
<1>3. ASSUME NEW w \in workers, Dispatch(w)
      PROVE  WorkersOK'
  <2>1. \/ workers' = workers \ {w}
        \/ \E x : /\ "pc" \in DOMAIN x
                  /\ workers' = (workers \ {w}) \cup {x}
    BY <1>3 DEF Dispatch, DispatchDelay, DispatchPublish, DispatchRecord,
       Step, Leave, WorkersOK
  <2>2. IsFiniteSet(workers \ {w})
    BY FS_RemoveElement DEF WorkersOK
  <2>3. CASE workers' = workers \ {w}
    BY <2>2, <2>3 DEF WorkersOK
  <2>4. ASSUME NEW x, "pc" \in DOMAIN x, workers' = (workers \ {w}) \cup {x}
        PROVE  WorkersOK'
    <3>1. IsFiniteSet((workers \ {w}) \cup {x})
      BY <2>2, FS_AddElement
    <3>2. \A y \in (workers \ {w}) \cup {x} : "pc" \in DOMAIN y
      BY <2>4 DEF WorkersOK
    <3> QED BY <2>4, <3>1, <3>2 DEF WorkersOK
  <2> QED BY <2>1, <2>3, <2>4
<1> QED BY <1>1, <1>2, <1>3, WorkersSteps DEF vars

(* Only Commit at the end of a Start sets work going again, and Start is   *)
(* not under way once the engine is stopped.                               *)
LEMMA StoppedStaysQuiet ==
  ASSUME LockInv, stopped, Quiet, [Next]_vars
  PROVE  UNCHANGED <<workers, loop, spy, hits>>
<1>1. CASE UNCHANGED vars
  BY <1>1 DEF vars
<1>2. CASE Background
  BY <1>2, BackgroundStaysQuiet
<1>3. ASSUME NEW c \in Callers, Calls(c)
      PROVE  UNCHANGED workVars
  <2>1. CASE Start(c)
    BY <2>1 DEF Start
  <2>2. ASSUME NEW cfg \in Configs, Reload(c, cfg)
        PROVE  UNCHANGED workVars
    BY <2>2 DEF Reload
  <2>3. ASSUME NEW ctx, Stop(c, ctx)
        PROVE  UNCHANGED workVars
    BY <2>3 DEF Stop
  <2> QED BY <1>3, <2>1, <2>2, <2>3 DEF Calls
<1>4. ASSUME NEW c \in Callers, Continues(c)
      PROVE  UNCHANGED <<workers, loop, spy, hits>>
  <2>1. pc[c] \notin Attaching
    BY DEF LockInv
  <2>2. ~DeclareTopology(c) /\ ~StartConsuming(c) /\ ~Commit(c)
    BY <2>1 DEF DeclareTopology, StartConsuming, Commit, Attaching
  <2> QED BY <1>4, <2>2 DEF Continues, StopCancels, StopWaits, StopCloses,
             StopReturns, workVars
<1> QED BY <1>1, <1>2, <1>3, <1>4 DEF Next, Background, workVars

(* Stop passes its wait quietly or with a timeout, which is remembered,    *)
(* and only then closes the driver.                                        *)
LEMMA QuietBefore ==
  ASSUME Inv, [Next]_vars, ~timedOut',
         conn' # "open" \/ \E c \in Callers : pc'[c] \in {"close", "closing"}
  PROVE  Quiet /\ stopped
<1> USE DEF LockInv, QuietInv, Attaching, Stopping
<1>1. CASE UNCHANGED <<conn, lifeVars>>
  BY <1>1 DEF Inv, lifeVars
<1>2. ASSUME NEW c \in Callers, Calls(c)
      PROVE  Quiet /\ stopped
  <2>1. /\ conn' = conn /\ timedOut' = timedOut
        /\ \/ pc' = pc
           \/ \E where \in {"declare", "cancel"} : pc' = [pc EXCEPT ![c] = where]
    BY <1>2 DEF Calls, Start, Reload, Stop, Begin, Goto, driverVars
  <2> QED BY <2>1 DEF Inv
<1>3. ASSUME NEW c \in Callers,
             DeclareTopology(c) \/ StartConsuming(c) \/ Commit(c) \/ StopCancels(c)
      PROVE  Quiet /\ stopped
  <2>1. /\ conn' = conn /\ timedOut' = timedOut
        /\ \/ pc' = pc
           \/ \E where \in {"idle", "consume", "wait"} :
                 pc' = [pc EXCEPT ![c] = where]
    BY <1>3 DEF DeclareTopology, StartConsuming, Commit, StopCancels, DeclareOK,
       DeclareFails, ConsumeOK, ConsumeFails, ReturnError, Return, Goto, driverVars
  <2> QED BY <2>1 DEF Inv
<1>4. ASSUME NEW c \in Callers, StopWaits(c)
      PROVE  Quiet /\ stopped
  BY <1>4, QuietIsWgZero DEF Inv, WorkersOK, StopWaits
<1>5. ASSUME NEW c \in Callers, StopCloses(c) \/ StopReturns(c)
      PROVE  Quiet /\ stopped
  BY <1>5 DEF Inv, StopCloses, StopReturns, CloseReturns
<1> QED BY <1>1, <1>2, <1>3, <1>4, <1>5, BackgroundFrame
        DEF Next, Background, Continues, vars, driverVars

(* Close returns after its consumers, and nobody attaches another one. *)
LEMMA ExitedNext ==
  ASSUME Inv, [Next]_vars, conn' = "closed"
  PROVE  /\ UNCHANGED consumers
         /\ \A i \in DOMAIN consumers : consumers[i].pc = "exited"
<1>1. CASE UNCHANGED <<conn, consumers>>
  BY <1>1 DEF Inv, QuietInv
<1>2. ASSUME NEW i \in DOMAIN consumers, Consumer(i)
      PROVE  FALSE
  BY <1>2 DEF Inv, QuietInv, Consumer, ConsumerReceives, ConsumerSends,
     ConsumerExits
<1>3. ASSUME NEW c \in Callers, DeclareTopology(c) \/ StartConsuming(c)
      PROVE  FALSE
  BY <1>3 DEF Inv, LockInv, Attaching, DeclareTopology, StartConsuming,
     DeclareOK, DeclareFails, ConsumeOK, ConsumeFails, driverVars
<1>4. ASSUME NEW c \in Callers, StopCloses(c) \/ StopReturns(c)
      PROVE  /\ UNCHANGED consumers
             /\ \A i \in DOMAIN consumers : consumers[i].pc = "exited"
  BY <1>4 DEF StopCloses, CloseBegins, StopReturns, CloseReturns
<1>5. ASSUME NEW c \in Callers,
             Calls(c) \/ Commit(c) \/ StopCancels(c) \/ StopWaits(c)
      PROVE  UNCHANGED <<conn, consumers>>
  BY <1>5 DEF Calls, Start, Reload, Stop, Commit, StopCancels, StopWaits,
     driverVars
<1>6. CASE LoopWorks \/ LoopExits
  BY <1>6, <1>1 DEF LoopWorks, LoopReceives, LoopRecords, snapshotRules,
     LoopEvaluates, LoopHandled, LoopExits, driverVars
<1>7. ASSUME NEW w \in workers, Dispatch(w)
      PROVE  UNCHANGED <<conn, consumers>>
  BY <1>7 DEF Dispatch, DispatchDelay, DispatchPublish, DispatchRecord,
     PublishOK, PublishFails, driverVars
<1>8. ASSUME \/ \E q \in Queues, content \in Contents, origin \in {"none", "peer"} :
                   OthersPublish(q, content, origin)
             \/ ConnectionLost
      PROVE  UNCHANGED <<conn, consumers>>
  BY <1>8 DEF OthersPublish, ConnectionLost, LinkLost
<1> QED BY <1>1, <1>2, <1>3, <1>4, <1>5, <1>6, <1>7, <1>8
        DEF Next, Continues, vars, driverVars

LEMMA QuietNext ==
  ASSUME Inv, [Next]_vars
  PROVE  QuietInv'
<1>1. WorkersOK'
  BY WorkersNext DEF Inv, QuietInv
<1>2. ASSUME ~timedOut',
             conn' # "open" \/ \E c \in Callers : pc'[c] \in {"close", "closing"}
      PROVE  Quiet'
  BY <1>2, QuietBefore, StoppedStaysQuiet DEF Inv, Quiet
<1>3. (conn = "closed" => \A i \in DOMAIN consumers : consumers[i].pc = "exited")'
  BY ExitedNext DEF Inv, QuietInv
<1> QED BY <1>1, <1>2, <1>3 DEF QuietInv

LEMMA InvNext == Inv /\ [Next]_vars => Inv'
  BY LockNext, QuietNext DEF Inv

LEMMA InvAlways == SafetySpec => []Inv
<1>1. Init => Inv
  BY LockInit, QuietInit DEF Inv
<1> QED BY <1>1, InvNext, PTL DEF SafetySpec

(* "Workers are drained first": when Stop, with a context that has not     *)
(* expired, calls the driver's Close, the loop and every dispatch is done. *)
THEOREM WorkersDrained == SafetySpec => []DrainedBeforeClose
<1>1. Inv => DrainedBeforeClose
  BY QuietIsWgZero DEF Inv, QuietInv, WorkersOK, DrainedBeforeClose
<1> QED BY <1>1, InvAlways, PTL

-----------------------------------------------------------------------------
(* After Stop.                                                             *)

AfterStop ==
  conn = "closed" =>
    /\ msgChan' = msgChan \/ (msgChan # <<>> /\ msgChan' = Tail(msgChan))
    /\ {w \in workers' : w.pc = "record"} \subseteq workers
    /\ ~timedOut => UNCHANGED <<spy, msgChan, hits>>

LEMMA AfterStopChannel ==
  ASSUME Inv, [Next]_vars, conn = "closed"
  PROVE  /\ msgChan' = msgChan \/ (msgChan # <<>> /\ msgChan' = Tail(msgChan))
         /\ Quiet => msgChan' = msgChan
<1>1. CASE LoopReceives
  BY <1>1 DEF LoopReceives, Quiet
<1>2. ASSUME NEW c \in Callers, Calls(c) \/ Continues(c)
      PROVE  msgChan' = msgChan
  BY <1>2 DEF Calls, Continues, Start, Reload, Stop, DeclareTopology,
     StartConsuming, Commit, StopCancels, StopWaits, StopCloses, StopReturns,
     DeclareOK, DeclareFails, ConsumeOK, ConsumeFails, CloseBegins,
     CloseReturns, driverVars
<1>3. CASE LoopRecords \/ snapshotRules \/ LoopEvaluates \/ LoopHandled \/ LoopExits
  BY <1>3 DEF LoopRecords, snapshotRules, LoopEvaluates, LoopHandled,
     LoopExits, driverVars
<1>4. ASSUME NEW w \in workers, Dispatch(w)
      PROVE  msgChan' = msgChan
  BY <1>4 DEF Dispatch, DispatchDelay, DispatchPublish, DispatchRecord,
     PublishOK, PublishFails, driverVars
<1>5. ASSUME NEW i \in DOMAIN consumers, Consumer(i)
      PROVE  msgChan' = msgChan
  BY <1>5 DEF Inv, QuietInv, Consumer, ConsumerReceives, ConsumerSends,
     ConsumerExits
<1>6. ASSUME \/ \E q \in Queues, content \in Contents, origin \in {"none", "peer"} :
                   OthersPublish(q, content, origin)
             \/ ConnectionLost
      PROVE  msgChan' = msgChan
  BY <1>6 DEF OthersPublish, ConnectionLost, LinkLost
<1> QED BY <1>1, <1>2, <1>3, <1>4, <1>5, <1>6
        DEF Next, LoopWorks, vars, driverVars

(* A dispatch reaches its record only by publishing on an open driver. *)
LEMMA AfterStopWorkers ==
  ASSUME Inv, [Next]_vars, conn = "closed"
  PROVE  {w \in workers' : w.pc = "record"} \subseteq workers
<1>1. CASE UNCHANGED workers
  BY <1>1
<1>2. CASE LoopEvaluates
  <2> DEFINE where == IF Rules(loop.gen)[loop.i].delay THEN "delay" ELSE "publish"
             job == [msg |-> loop.msg, gen |-> loop.gen, i |-> loop.i,
                     pc |-> where]
  <2>1. workers' = workers \/ workers' = workers \cup {job}
    BY <1>2 DEF LoopEvaluates
  <2>2. job.pc # "record"
    OBVIOUS
  <2> HIDE DEF job
  <2> QED BY <2>1, <2>2
<1>3. ASSUME NEW w \in workers, Dispatch(w)
      PROVE  {v \in workers' : v.pc = "record"} \subseteq workers
  <2>1. \/ workers' = workers \ {w}
        \/ workers' = (workers \ {w}) \cup {[w EXCEPT !.pc = "publish"]}
    BY <1>3 DEF Dispatch, DispatchDelay, DispatchPublish, DispatchRecord,
       PublishOK, Step, Leave
  <2>2. [w EXCEPT !.pc = "publish"].pc # "record"
    BY DEF Inv, QuietInv, WorkersOK
  <2> QED BY <2>1, <2>2
<1> QED BY <1>1, <1>2, <1>3, WorkersSteps DEF vars

(* Once Stop has returned the engine writes nothing more to its channel,   *)
(* publishes nothing and, if it did not time out, records nothing.         *)
THEOREM SilentAfterStop == SafetySpec => QuietAfterStop
<1>1. Inv /\ [Next]_vars => [AfterStop]_vars
  <2> SUFFICES ASSUME Inv, [Next]_vars, conn = "closed"
               PROVE  AfterStop
    BY DEF AfterStop
  <2>1. ~timedOut => UNCHANGED <<spy, msgChan, hits>>
    BY AfterStopChannel, StoppedStaysQuiet DEF Inv, LockInv, QuietInv
  <2> QED BY <2>1, AfterStopChannel, AfterStopWorkers DEF AfterStop
<1>2. SafetySpec => [][AfterStop]_vars
  BY <1>1, InvAlways, PTL DEF SafetySpec
<1> QED BY <1>2, PTL DEF QuietAfterStop, AfterStop
=============================================================================
