--------------------------- MODULE ChitchatProofs ----------------------------
(***************************************************************************)
(* What the process shows its HTTP clients, for every buffer size and any  *)
(* number of clients, callers, rules and messages: a response never comes  *)
(* before its trigger, and nothing is recorded once the spy server stops.  *)
(***************************************************************************)
EXTENDS Chitchat, EngineMessageProofs

(* The engine is the one that is verified on its own: in the process it    *)
(* takes its own steps and no others.                                      *)
LEMMA EngineSteps == [CNext]_allVars => [Next]_vars
<1>1. UNCHANGED allVars => UNCHANGED vars
  BY DEF allVars
<1>2. ASSUME NEW c \in Callers, MainStartsEngine(c) \/ MainStopsEngine(c) \/ EngineCall(c)
      PROVE  Next
  BY <1>2 DEF MainStartsEngine, MainStopsEngine, EngineCall, Calls, Next
<1>3. EngineLoop \/ EngineLoopExits => Next
  BY DEF EngineLoop, HandleRecords, EngineLoopExits, LoopWorks, Next
<1>4. ASSUME NEW w \in workers, EngineDispatch(w)
      PROVE  Next
  BY <1>4 DEF EngineDispatch, DispatchRecords, Dispatch, Next
<1>5. ASSUME NEW i \in DOMAIN consumers, EngineConsumer(i)
      PROVE  Next
  BY <1>5 DEF EngineConsumer, Next
<1>6. Broker => Next
  BY DEF Broker, Next
<1>7. MainStartsSpy \/ MainSetsHooks \/ MainStopsSpy \/ SpyShutdown => UNCHANGED vars
  BY DEF MainStartsSpy, MainSetsHooks, MainStopsSpy, SpyShutdown
<1>8. ASSUME NEW c \in Watchers, Http(c) \/ HttpWait(c)
      PROVE  UNCHANGED vars
  BY <1>8 DEF Http, HttpWait
<1> QED BY <1>1, <1>2, <1>3, <1>4, <1>5, <1>6, <1>7, <1>8 DEF CNext

LEMMA EngineInside == CSpec => SafetySpec
  BY EngineSteps, PTL DEF CSpec, CInit, SafetySpec

-----------------------------------------------------------------------------
(* Who changes the capture.                                                *)

ClientClears ==
  /\ server = "serving" /\ messages' = <<>>
  /\ UNCHANGED <<nextSeq, server, vars>>

(* What the loop evaluates and what is dispatched was there before. *)
Follows ==
  /\ loop'.pc \in {"snapshot", "rules"} =>
       loop.pc \in {"snapshot", "rules"} /\ loop'.msg = loop.msg
  /\ \A w \in workers' : \/ \E v \in workers : v.msg = w.msg
                         \/ loop.pc = "rules" /\ w.msg = loop.msg

LEMMA FollowsIfSame == UNCHANGED <<loop, workers>> => Follows
  BY DEF Follows

LEMMA LoopFollows ==
  ASSUME TypeInv,
         LoopReceives \/ snapshotRules \/ LoopEvaluates \/ LoopHandled \/ LoopExits
  PROVE  Follows
<1>1. loop \in LoopState
  BY DEF TypeInv
<1>2. CASE LoopReceives \/ snapshotRules
  BY <1>1, <1>2 DEF LoopReceives, snapshotRules, LoopState, Follows
<1>3. CASE LoopHandled \/ LoopExits
  BY <1>3 DEF LoopHandled, LoopExits, IdleLoop, Follows
<1>4. CASE LoopEvaluates
  <2>1. loop'.pc = loop.pc /\ loop'.msg = loop.msg /\ loop.pc = "rules"
    BY <1>1, <1>4 DEF LoopEvaluates, LoopState
  <2>2. ASSUME NEW w \in workers'
        PROVE  w \in workers \/ w.msg = loop.msg
    BY <1>4 DEF LoopEvaluates
  <2> QED BY <2>1, <2>2 DEF Follows
<1> QED BY <1>2, <1>3, <1>4

LEMMA DispatchFollows ==
  ASSUME TypeInv, NEW w \in workers,
         DispatchDelay(w) \/ DispatchPublish(w) \/ DispatchRecord(w)
  PROVE  Follows
<1>1. UNCHANGED loop /\ (Step(w, "publish") \/ Step(w, "record") \/ Leave(w))
  BY DEF DispatchDelay, DispatchPublish, DispatchRecord, dispatchVars
<1>2. w \in Job
  BY DEF TypeInv
<1>3. ASSUME NEW where, Step(w, where), NEW v \in workers'
      PROVE  v \in workers \/ v.msg = w.msg
  BY <1>2, <1>3 DEF Step, Job
<1>4. ASSUME Leave(w), NEW v \in workers'
      PROVE  v \in workers
  BY <1>4 DEF Leave
<1> QED BY <1>1, <1>3, <1>4 DEF Follows

LEMMA CallFollows ==
  ASSUME NEW c \in Callers, Start(c) \/ Continues(c) \/ \E ctx : Stop(c, ctx)
  PROVE  Follows
<1>1. UNCHANGED workers /\ (UNCHANGED loop \/ loop' = IdleLoop("select"))
  BY DEF Start, Stop, Continues, DeclareTopology, StartConsuming, Commit,
     StopCancels, StopWaits, StopCloses, StopReturns, workVars
<1> QED BY <1>1 DEF Follows, IdleLoop

LEMMA HttpCapture ==
  ASSUME NEW c \in Watchers, Http(c) \/ HttpWait(c)
  PROVE  (UNCHANGED <<messages, nextSeq, server, vars>>) \/ ClientClears
<1>1. ASSUME NEW r \in Requests, S!handleClear(c, r)
      PROVE  server = "serving" /\ messages' = <<>> /\ UNCHANGED <<nextSeq, server>>
  BY <1>1 DEF S!handleClear, S!Arrives, S!Clear, S!lifeVars
<1>2. ASSUME NEW r \in Requests,
             \/ S!handleMessagesRejected(c, r) \/ S!handleMessagesQuery(c, r)
             \/ S!handleMessagesWait(c, r) \/ S!handleHealth(c, r)
             \/ S!handleRules(c, r) \/ S!handleReload(c, r) \/ S!methodNotAllowed(c, r)
      PROVE  UNCHANGED <<messages, nextSeq, server>>
  BY <1>2 DEF S!handleMessagesRejected, S!handleMessagesQuery, S!handleMessagesWait,
     S!handleHealth, S!handleRules, S!handleReload, S!methodNotAllowed,
     S!bufferVars, S!lifeVars
<1>3. CASE S!TimerFires(c) \/ S!ClientGone(c)
  BY <1>3 DEF S!TimerFires, S!ClientGone, S!bufferVars, S!lifeVars, Http, HttpWait
<1>4. CASE S!WaitLoop(c)
  BY <1>4 DEF S!WaitLoop, S!GrabChanged, S!WaitQuery, S!SelectChanged, S!SelectTimer,
     S!SelectDone, S!bufferVars, S!lifeVars, Http, HttpWait
<1>5. CASE S!Handler(c)
  BY <1>1, <1>2, <1>5 DEF S!Handler, Http, HttpWait, ClientClears
<1> QED BY <1>3, <1>4, <1>5 DEF Http, HttpWait

LEMMA SpyLifeCapture ==
  ASSUME MainStartsSpy \/ MainSetsHooks \/ MainStopsSpy \/ SpyShutdown
  PROVE  UNCHANGED <<messages, nextSeq, vars>>
  BY DEF MainStartsSpy, MainSetsHooks, MainStopsSpy, SpyShutdown, S!Start,
     S!SetRulesProvider, S!SetReloader, S!Stop, S!ShutdownReturns, S!ShutdownExpires,
     S!bufferVars

LEMMA CaptureSteps ==
  ASSUME TypeInv, [CNext]_allVars
  PROVE  \/ UNCHANGED <<messages, nextSeq>> /\ Follows
         \/ HandleRecords
         \/ \E w \in workers : DispatchRecords(w)
         \/ ClientClears
<1>1. CASE UNCHANGED <<messages, nextSeq, vars>>
  BY <1>1, FollowsIfSame DEF vars
<1>2. ASSUME NEW c \in Callers, MainStartsEngine(c) \/ MainStopsEngine(c) \/ EngineCall(c)
      PROVE  UNCHANGED <<messages, nextSeq>> /\ Follows
  BY <1>2, CallFollows DEF MainStartsEngine, MainStopsEngine, EngineCall, spyVars
<1>3. CASE EngineLoop \/ EngineLoopExits
  BY <1>3, LoopFollows DEF EngineLoop, EngineLoopExits, spyVars
<1>4. ASSUME NEW w \in workers, EngineDispatch(w)
      PROVE  \/ UNCHANGED <<messages, nextSeq>> /\ Follows
             \/ DispatchRecords(w)
  BY <1>4, DispatchFollows DEF EngineDispatch, spyVars
<1>5. CASE Broker \/ \E i \in DOMAIN consumers : EngineConsumer(i)
  <2>1. UNCHANGED <<messages, nextSeq, loop, workers>>
    BY <1>5 DEF Broker, EngineConsumer, OthersPublish, ConnectionLost, Consumer,
       workVars, spyVars
  <2> QED BY <2>1, FollowsIfSame
<1>6. UNCHANGED allVars => UNCHANGED <<messages, nextSeq, vars>>
  BY DEF allVars, spyVars
<1> QED BY <1>1, <1>2, <1>3, <1>4, <1>5, <1>6, HttpCapture, SpyLifeCapture DEF CNext

-----------------------------------------------------------------------------
(* The end of the capture.                                                 *)

Down == {"stopping", "stopped", "expired"}

(* Whoever set e.stopped is inside Stop, or the driver is closed; main     *)
(* stops the spy server after that only.                                   *)
DownInv ==
  /\ stopped => conn = "closed" \/ \E c \in Callers : pc[c] \in Stopping
  /\ server \in Down => conn = "closed"

LEMMA ClosedForGood ==
  ASSUME conn = "closed", [Next]_vars
  PROVE  conn' = "closed"
<1>1. CASE UNCHANGED vars
  BY <1>1 DEF vars, driverVars
<1>2. CASE Background
  BY <1>2, BackgroundFrame
<1>3. ASSUME NEW c \in Callers, Calls(c)
      PROVE  UNCHANGED conn
  BY <1>3 DEF Calls, Start, Reload, Stop, driverVars
<1>4. ASSUME NEW c \in Callers, Continues(c)
      PROVE  UNCHANGED conn
  BY <1>4 DEF Continues, DeclareTopology, DeclareOK, DeclareFails, StartConsuming,
     ConsumeOK, ConsumeFails, Commit, StopCancels, StopWaits, StopCloses, CloseBegins,
     StopReturns, CloseReturns, driverVars
<1> QED BY <1>1, <1>2, <1>3, <1>4 DEF Next, Background

LEMMA StoppedStep ==
  ASSUME LockInv, [Next]_vars,
         stopped => conn = "closed" \/ \E c \in Callers : pc[c] \in Stopping
  PROVE  stopped' => conn' = "closed" \/ \E c \in Callers : pc'[c] \in Stopping
<1>1. CASE UNCHANGED <<stopped, conn, pc>>
  BY <1>1
<1>2. CASE UNCHANGED vars
  BY <1>1, <1>2 DEF vars, driverVars, lifeVars
<1>3. CASE Background
  BY <1>1, <1>3, BackgroundFrame DEF lifeVars
<1>4. ASSUME NEW c \in Callers, NEW cfg, Start(c) \/ Reload(c, cfg)
      PROVE  stopped' => (UNCHANGED <<stopped, conn, pc>>)
  BY <1>4 DEF Start, Reload, Begin, driverVars
<1>5. ASSUME NEW c \in Callers, NEW ctx, Stop(c, ctx)
      PROVE  \/ UNCHANGED <<stopped, conn, pc>>
             \/ pc'[c] \in Stopping
  BY <1>5 DEF Stop, Goto, LockInv, Stopping, driverVars
<1>6. ASSUME NEW c \in Callers, DeclareTopology(c) \/ StartConsuming(c) \/ Commit(c)
      PROVE  ~stopped'
  BY <1>6 DEF DeclareTopology, StartConsuming, Commit, LockInv, Attaching
<1>7. ASSUME NEW c \in Callers, StopCancels(c) \/ StopWaits(c) \/ StopCloses(c)
      PROVE  pc'[c] \in Stopping
  BY <1>7 DEF StopCancels, StopWaits, StopCloses, Goto, LockInv, Stopping
<1>8. ASSUME NEW c \in Callers, StopReturns(c)
      PROVE  conn' = "closed"
  BY <1>8 DEF StopReturns, CloseReturns
<1> QED BY <1>1, <1>2, <1>3, <1>4, <1>5, <1>6, <1>7, <1>8
        DEF Next, Background, Calls, Continues

LEMMA ServerStep ==
  ASSUME [CNext]_allVars, server' \in Down
  PROVE  \/ server \in Down
         \/ MainStopsSpy
<1>1. CASE UNCHANGED server
  BY <1>1
<1>2. CASE MainStartsSpy \/ MainSetsHooks \/ SpyShutdown
  BY <1>2 DEF MainStartsSpy, MainSetsHooks, SpyShutdown, S!Start, S!SetRulesProvider,
     S!SetReloader, S!ShutdownReturns, S!ShutdownExpires, Down
<1>3. ASSUME NEW c \in Watchers, Http(c) \/ HttpWait(c)
      PROVE  UNCHANGED server
  BY <1>3, HttpCapture DEF ClientClears
<1>4. CASE HandleRecords \/ \E w \in workers : DispatchRecords(w)
  BY <1>1, <1>4 DEF HandleRecords, DispatchRecords, S!EngineRecords, S!lifeVars
<1>5. CASE UNCHANGED spyVars
  BY <1>1, <1>5 DEF spyVars
<1>6. ASSUME NEW c \in Callers, MainStartsEngine(c) \/ MainStopsEngine(c) \/ EngineCall(c)
      PROVE  UNCHANGED spyVars
  BY <1>6 DEF MainStartsEngine, MainStopsEngine, EngineCall
<1>7. EngineLoop \/ EngineLoopExits => (UNCHANGED spyVars) \/ HandleRecords
  BY DEF EngineLoop, EngineLoopExits
<1>8. ASSUME NEW w \in workers, EngineDispatch(w)
      PROVE  (UNCHANGED spyVars) \/ DispatchRecords(w)
  BY <1>8 DEF EngineDispatch
<1>9. Broker \/ (\E i \in DOMAIN consumers : EngineConsumer(i)) => UNCHANGED spyVars
  BY DEF Broker, EngineConsumer
<1>10. UNCHANGED allVars => UNCHANGED spyVars
  BY DEF allVars
<1> QED BY <1>2, <1>3, <1>4, <1>5, <1>6, <1>7, <1>8, <1>9, <1>10 DEF CNext

LEMMA DownInit == CInit => DownInv
  BY DEF CInit, Init, S!Init, DownInv, Down

LEMMA DownNext ==
  ASSUME Inv, DownInv, [CNext]_allVars
  PROVE  DownInv'
<1>1. [Next]_vars
  BY EngineSteps
<1>2. stopped' => conn' = "closed" \/ \E c \in Callers : pc'[c] \in Stopping
  BY <1>1, StoppedStep DEF Inv, DownInv
<1>3. ASSUME MainStopsSpy
      PROVE  conn = "closed"
  BY <1>3 DEF MainStopsSpy, DownInv, Stopping
<1>4. server' \in Down => conn' = "closed"
  BY <1>1, <1>3, ServerStep, ClosedForGood DEF DownInv
<1> QED BY <1>2, <1>4 DEF DownInv

LEMMA DownAlways == CSpec => []DownInv
  BY EngineInside, InvAlways, DownInit, DownNext, PTL DEF CSpec

(* Unless the engine's Stop timed out, its workers are gone before the     *)
(* driver is closed, and the driver is closed before the spy server stops: *)
(* what a client could not ask for any more is not recorded.               *)
THEOREM NothingRecordedUnseen == CSpec => CaptureComplete
<1> DEFINE Complete == ~timedOut /\ server \in {"stopping", "stopped", "expired"}
                         => UNCHANGED messages
<1>1. Inv /\ BaseInv /\ DownInv /\ [CNext]_allVars => [Complete]_allVars
  <2> SUFFICES ASSUME Inv, BaseInv, DownInv, [CNext]_allVars,
                      ~timedOut, server \in Down
               PROVE  UNCHANGED messages
    BY DEF Down
  <2>1. Quiet
    BY DEF Inv, QuietInv, DownInv
  <2>2. ~HandleRecords /\ \A w \in workers : ~DispatchRecords(w)
    BY <2>1 DEF Quiet, HandleRecords, LoopRecords
  <2>3. ~ClientClears
    BY DEF ClientClears, Down
  <2> QED BY <2>2, <2>3, CaptureSteps DEF BaseInv
<1> QED BY <1>1, EngineInside, InvAlways, BaseAlways, DownAlways, PTL
        DEF CSpec, CaptureComplete

-----------------------------------------------------------------------------
(* Cause before effect.                                                    *)

CapturedReceived == {S!Captured(ReceivedMessage(m), n) : m \in Message, n \in Nat}
CapturedPublished == {S!Captured(PublishedMessage(w), n) : w \in Job, n \in Nat}
Captures == CapturedReceived \cup CapturedPublished

BufferInv ==
  /\ messages \in Seq(Captures)
  /\ nextSeq \in Nat \ {0}
  /\ Len(messages) <= nextSeq - 1

(* While nothing has been dropped, the trigger of all that is evaluated,   *)
(* dispatched or shown is in the buffer.                                   *)
CauseInv ==
  Len(messages) = nextSeq - 1 =>
    /\ loop.pc \in {"snapshot", "rules"} =>
         InBuffer("received", loop.msg.id, Len(messages))
    /\ \A w \in workers : InBuffer("received", w.msg.id, Len(messages))
    /\ \A j \in DOMAIN messages :
         messages[j].direction = "published" =>
           InBuffer("received", messages[j].body.id, j - 1)

LEMMA CapturedFields ==
  /\ \A m \in Message, n \in Nat :
       /\ S!Captured(ReceivedMessage(m), n) \in Captures
       /\ S!Captured(ReceivedMessage(m), n).direction = "received"
       /\ S!Captured(ReceivedMessage(m), n).body.id = m.id
  /\ \A w \in Job, n \in Nat :
       /\ S!Captured(PublishedMessage(w), n) \in Captures
       /\ S!Captured(PublishedMessage(w), n).direction = "published"
       /\ S!Captured(PublishedMessage(w), n).body.id = w.msg.id
<1>1. ASSUME NEW m \in Message, NEW n \in Nat
      PROVE  /\ S!Captured(ReceivedMessage(m), n).direction = "received"
             /\ S!Captured(ReceivedMessage(m), n).body.id = m.id
  <2> DEFINE msg == ReceivedMessage(m)
  <2>1. msg.direction = "received" /\ msg.body = [id |-> m.id]
    BY DEF ReceivedMessage
  <2> HIDE DEF msg
  <2>2. /\ S!Captured(msg, n).direction = "received"
        /\ S!Captured(msg, n).body = [id |-> m.id]
    BY <2>1 DEF S!Captured, S!DirectionReceived
  <2> QED BY <2>2 DEF msg
<1>2. ASSUME NEW w \in Job, NEW n \in Nat
      PROVE  /\ S!Captured(PublishedMessage(w), n).direction = "published"
             /\ S!Captured(PublishedMessage(w), n).body.id = w.msg.id
  <2> DEFINE msg == PublishedMessage(w)
  <2>1. msg.direction = "published" /\ msg.body = [id |-> w.msg.id]
    BY DEF PublishedMessage
  <2> HIDE DEF msg
  <2>2. /\ S!Captured(msg, n).direction = "published"
        /\ S!Captured(msg, n).body = [id |-> w.msg.id]
    BY <2>1 DEF S!Captured
  <2> QED BY <2>2 DEF msg
<1> QED BY <1>1, <1>2 DEF Captures, CapturedReceived, CapturedPublished

LEMMA MaxSizePositive == S!maxSize \in Nat \ {0}
  BY ChitchatAssumption DEF S!maxSize

(* Record appends, and drops the oldest message when the buffer is full. *)
LEMMA RecordEffect ==
  ASSUME BufferInv, NEW msg, NEW e \in Captures, e = S!Captured(msg, nextSeq), S!Record(msg)
  PROVE  /\ BufferInv'
         /\ Len(messages') = nextSeq' - 1 =>
              /\ Len(messages) = nextSeq - 1
              /\ messages' = Append(messages, e)
<1> DEFINE s == Append(messages, e)
<1>1. /\ s \in Seq(Captures) /\ Len(s) = Len(messages) + 1 /\ Len(messages) \in Nat
      /\ nextSeq' = nextSeq + 1 /\ messages' = S!LastN(s, S!maxSize)
  BY DEF BufferInv, S!Record
<1> HIDE DEF s
<1>2. CASE Len(s) > S!maxSize
  <2>1. messages' = SubSeq(s, Len(s) - S!maxSize + 1, Len(s))
    BY <1>1, <1>2, MaxSizePositive DEF S!LastN
  <2>2. messages' \in Seq(Captures) /\ Len(messages') = S!maxSize
    BY <1>1, <1>2, <2>1, MaxSizePositive
  <2> QED BY <1>1, <1>2, <2>2, MaxSizePositive DEF BufferInv
<1>3. CASE ~(Len(s) > S!maxSize)
  <2>1. messages' = s
    BY <1>1, <1>3 DEF S!LastN
  <2> QED BY <1>1, <2>1 DEF BufferInv, s
<1> QED BY <1>2, <1>3

(* Appending keeps what is in the buffer where it is. *)
LEMMA GrownBuffer ==
  ASSUME BufferInv, NEW e \in Captures, messages' = Append(messages, e)
  PROVE  /\ Len(messages') = Len(messages) + 1 /\ Len(messages) \in Nat
         /\ messages'[Len(messages) + 1] = e
         /\ DOMAIN messages = 1..Len(messages) /\ DOMAIN messages' = 1..(Len(messages) + 1)
         /\ \A j \in 1..Len(messages) : messages'[j] = messages[j]
  BY DEF BufferInv

LEMMA StillInBuffer ==
  ASSUME BufferInv, NEW e \in Captures, messages' = Append(messages, e),
         NEW direction, NEW id, NEW m \in Nat, NEW n \in Nat, m <= Len(messages), m <= n,
         InBuffer(direction, id, m)
  PROVE  InBuffer(direction, id, n)'
<1>1. PICK j \in 1..m : messages[j].direction = direction /\ messages[j].body.id = id
  BY DEF InBuffer
<1>2. j \in 1..n /\ j \in 1..Len(messages)
  BY GrownBuffer
<1>3. messages'[j] = messages[j]
  BY <1>2, GrownBuffer
<1> QED BY <1>1, <1>2, <1>3 DEF InBuffer

LEMMA HandleRecordsCause ==
  ASSUME TypeInv, LoopInv, BufferInv, CauseInv, HandleRecords
  PROVE  BufferInv' /\ CauseInv'
<1>1. SUFFICES ASSUME NEW m, m = loop.msg, NEW e, e = S!Captured(ReceivedMessage(m), nextSeq)
               PROVE  BufferInv' /\ CauseInv'
  OBVIOUS
<1>2. m \in Message
  BY <1>1 DEF HandleRecords, LoopRecords, TypeInv, LoopState, LoopInv
<1>3. /\ e \in Captures /\ e.direction = "received" /\ e.body.id = m.id
  BY <1>1, <1>2, CapturedFields DEF BufferInv
<1>4. S!Record(ReceivedMessage(m))
  BY <1>1 DEF HandleRecords, S!EngineRecords
<1>5. BufferInv'
  BY <1>1, <1>3, <1>4, RecordEffect
<1>6. SUFFICES ASSUME Len(messages') = nextSeq' - 1
               PROVE  CauseInv'
  BY <1>5 DEF CauseInv
<1>7. Len(messages) = nextSeq - 1 /\ messages' = Append(messages, e)
  BY <1>1, <1>3, <1>4, <1>6, RecordEffect
<1>8. SUFFICES ASSUME NEW n \in Nat, n = Len(messages)
               PROVE  CauseInv'
  BY DEF BufferInv
<1>9. /\ Len(messages') = n + 1 /\ messages'[n + 1] = e
      /\ DOMAIN messages = 1..n /\ DOMAIN messages' = 1..(n + 1)
      /\ \A j \in 1..n : messages'[j] = messages[j]
  BY <1>3, <1>7, <1>8, GrownBuffer
<1>10. loop'.pc \in {"snapshot", "rules"} => InBuffer("received", loop.msg.id, n + 1)'
  <2>1. loop'.pc \in {"snapshot", "rules"} => loop'.msg = m
    BY <1>1 DEF HandleRecords, LoopRecords, IdleLoop, TypeInv, LoopState
  <2>2. n + 1 \in 1..(n + 1)
    OBVIOUS
  <2>3. InBuffer("received", m.id, n + 1)'
    BY <1>3, <1>9, <2>2 DEF InBuffer
  <2> QED BY <2>1, <2>3
<1>11. ASSUME NEW w \in workers'
       PROVE  InBuffer("received", w.msg.id, n + 1)'
  <2>1. w \in workers
    BY DEF HandleRecords, LoopRecords
  <2>2. InBuffer("received", w.msg.id, n)
    BY <1>7, <1>8, <2>1 DEF CauseInv
  <2> QED BY <1>3, <1>7, <1>8, <2>2, StillInBuffer
<1>12. ASSUME NEW j \in DOMAIN messages', messages'[j].direction = "published"
       PROVE  InBuffer("received", messages[j].body.id, j - 1)'
  <2>1. j \in 1..n
    BY <1>3, <1>9, <1>12
  <2>2. SUFFICES ASSUME NEW id, id = messages[j].body.id
                 PROVE  InBuffer("received", id, j - 1)'
    BY <1>9, <2>1
  <2>3. InBuffer("received", id, j - 1)
    BY <1>7, <1>9, <1>12, <2>1, <2>2 DEF CauseInv
  <2>4. j - 1 \in Nat /\ j - 1 <= n
    BY <2>1
  <2> QED BY <1>3, <1>7, <1>8, <2>3, <2>4, StillInBuffer
<1> QED BY <1>9, <1>10, <1>11, <1>12 DEF CauseInv

LEMMA DispatchRecordsCause ==
  ASSUME TypeInv, BufferInv, CauseInv, NEW w \in workers, DispatchRecords(w)
  PROVE  BufferInv' /\ CauseInv'
<1>1. SUFFICES ASSUME NEW e, e = S!Captured(PublishedMessage(w), nextSeq)
               PROVE  BufferInv' /\ CauseInv'
  OBVIOUS
<1>2. w \in Job
  BY DEF TypeInv
<1>3. /\ e \in Captures /\ e.direction = "published" /\ e.body.id = w.msg.id
  BY <1>1, <1>2, CapturedFields DEF BufferInv
<1>4. S!Record(PublishedMessage(w))
  BY <1>1 DEF DispatchRecords, S!EngineRecords
<1>5. BufferInv'
  BY <1>1, <1>3, <1>4, RecordEffect
<1>6. SUFFICES ASSUME Len(messages') = nextSeq' - 1
               PROVE  CauseInv'
  BY <1>5 DEF CauseInv
<1>7. Len(messages) = nextSeq - 1 /\ messages' = Append(messages, e)
  BY <1>1, <1>3, <1>4, <1>6, RecordEffect
<1>8. SUFFICES ASSUME NEW n \in Nat, n = Len(messages)
               PROVE  CauseInv'
  BY DEF BufferInv
<1>9. /\ Len(messages') = n + 1 /\ messages'[n + 1] = e
      /\ DOMAIN messages = 1..n /\ DOMAIN messages' = 1..(n + 1)
      /\ \A j \in 1..n : messages'[j] = messages[j]
  BY <1>3, <1>7, <1>8, GrownBuffer
<1>10. UNCHANGED loop /\ workers' \subseteq workers
  BY DEF DispatchRecords, DispatchRecord, Leave, dispatchVars
<1>11. ASSUME loop'.pc \in {"snapshot", "rules"}
       PROVE  InBuffer("received", loop.msg.id, n + 1)'
  <2>1. SUFFICES ASSUME NEW id, id = loop.msg.id
                 PROVE  InBuffer("received", id, n + 1)'
    BY <1>10
  <2>2. InBuffer("received", id, n)
    BY <1>7, <1>8, <1>10, <1>11, <2>1 DEF CauseInv
  <2> QED BY <1>3, <1>7, <1>8, <2>2, StillInBuffer
<1>12. ASSUME NEW v \in workers
       PROVE  InBuffer("received", v.msg.id, n)
  BY <1>7, <1>8 DEF CauseInv
<1>13. ASSUME NEW v \in workers'
       PROVE  InBuffer("received", v.msg.id, n + 1)'
  BY <1>3, <1>7, <1>8, <1>10, <1>12, StillInBuffer
<1>14. ASSUME NEW j \in DOMAIN messages', messages'[j].direction = "published"
       PROVE  InBuffer("received", messages[j].body.id, j - 1)'
  <2>1. CASE j = n + 1
    <3>1. InBuffer("received", w.msg.id, n)'
      BY <1>3, <1>7, <1>8, <1>12, StillInBuffer
    <3> QED BY <1>3, <1>9, <2>1, <3>1
  <2>2. CASE j # n + 1
    <3>1. j \in 1..n
      BY <1>9, <2>2
    <3>2. SUFFICES ASSUME NEW id, id = messages[j].body.id
                   PROVE  InBuffer("received", id, j - 1)'
      BY <1>9, <3>1
    <3>3. InBuffer("received", id, j - 1)
      BY <1>7, <1>9, <1>14, <3>1, <3>2 DEF CauseInv
    <3>4. j - 1 \in Nat /\ j - 1 <= n
      BY <3>1
    <3> QED BY <1>3, <1>7, <1>8, <3>3, <3>4, StillInBuffer
  <2> QED BY <2>1, <2>2
<1> QED BY <1>9, <1>11, <1>13, <1>14 DEF CauseInv

LEMMA CauseNext ==
  ASSUME BaseInv, BufferInv, CauseInv, [CNext]_allVars
  PROVE  BufferInv' /\ CauseInv'
<1>1. CASE UNCHANGED <<messages, nextSeq>> /\ Follows
  <2>1. BufferInv'
    BY <1>1 DEF BufferInv
  <2>2. SUFFICES ASSUME Len(messages) = nextSeq - 1
                 PROVE  CauseInv'
    BY <1>1, <2>1 DEF CauseInv
  <2>3. \A direction, id, n : InBuffer(direction, id, n)' = InBuffer(direction, id, n)
    BY <1>1 DEF InBuffer
  <2>4. loop.pc \in {"snapshot", "rules"} => InBuffer("received", loop.msg.id, Len(messages))
    BY <2>2 DEF CauseInv
  <2>5. ASSUME loop'.pc \in {"snapshot", "rules"}
        PROVE  InBuffer("received", loop.msg.id, Len(messages))'
    <3>1. loop.pc \in {"snapshot", "rules"} /\ loop'.msg = loop.msg
      BY <1>1, <2>5 DEF Follows
    <3> QED BY <1>1, <2>4, <3>1 DEF InBuffer
  <2>6. ASSUME NEW w \in workers'
        PROVE  InBuffer("received", w.msg.id, Len(messages))'
    <3>1. InBuffer("received", w.msg.id, Len(messages))
      BY <1>1, <2>2, <2>4 DEF CauseInv, Follows
    <3> QED BY <1>1, <3>1 DEF InBuffer
  <2>7. ASSUME NEW j \in DOMAIN messages', messages'[j].direction = "published"
        PROVE  InBuffer("received", messages[j].body.id, j - 1)'
    <3>1. InBuffer("received", messages[j].body.id, j - 1)
      BY <1>1, <2>2, <2>7 DEF CauseInv
    <3> QED BY <1>1, <3>1 DEF InBuffer
  <2> QED BY <2>5, <2>6, <2>7 DEF CauseInv
<1>2. CASE ClientClears
  <2>1. messages' = <<>> /\ UNCHANGED <<nextSeq, loop, workers>>
    BY <1>2 DEF ClientClears, vars
  <2>2. BufferInv'
    BY <2>1 DEF BufferInv
  <2>3. Len(messages') = nextSeq' - 1 => Len(messages) = 0 /\ messages = <<>>
    BY <2>1 DEF BufferInv
  <2>4. Len(messages') = nextSeq' - 1 => UNCHANGED <<messages, nextSeq, loop, workers>>
    BY <2>1, <2>3
  <2> QED BY <2>2, <2>4 DEF CauseInv, InBuffer
<1> QED BY <1>1, <1>2, CaptureSteps, HandleRecordsCause, DispatchRecordsCause DEF BaseInv

LEMMA CauseInit == CInit => BufferInv /\ CauseInv
<1> SUFFICES ASSUME CInit
             PROVE  BufferInv /\ CauseInv
  OBVIOUS
<1>1. messages = <<>> /\ nextSeq = 1 /\ loop.pc = "off" /\ workers = {}
  BY DEF CInit, Init, IdleLoop, S!Init, S!NewRingBuffer
<1> QED BY <1>1 DEF BufferInv, CauseInv

LEMMA CauseAlways == CSpec => [](BufferInv /\ CauseInv)
  BY EngineInside, BaseAlways, CauseInit, CauseNext, PTL DEF CSpec

(* handleMessage records a message before it dispatches the responses to   *)
(* it, each in a goroutine of its own that records what it published: as   *)
(* long as the ring buffer has dropped nothing, no client is shown a       *)
(* response without its trigger, or before it.                             *)
THEOREM CauseBeforeEffect == CSpec => []TriggerBeforeResponse
<1>1. CauseInv => TriggerBeforeResponse
  BY DEF CauseInv, TriggerBeforeResponse
<1> QED BY <1>1, CauseAlways, PTL
=============================================================================
