------------------------------ MODULE Chitchat -------------------------------
(***************************************************************************)
(* The engine and the spy server in one process, as main puts them         *)
(* together: the loop and the dispatches record into the ring buffer that  *)
(* HTTP clients wait on.  Client and trigger meet only through the broker, *)
(* the engine and the buffer.                                              *)
(*                                                                         *)
(* Engine gives the engine and the broker, S the spy server; an engine     *)
(* step that calls Record is one step with S!EngineRecords.  The reload    *)
(* hook, a connection that fails and the signals are modelled in Lifecycle.*)
(***************************************************************************)
EXTENDS Engine, TLC

CONSTANTS
  RequestedSize, \* server.ring_buffer_size
  MaxSeq,        \* bound: messages recorded
  Watchers,      \* the HTTP clients
  Requests       \* what they may ask

ASSUME ChitchatAssumption == RequestedSize \in Int /\ MaxSeq \in Nat

VARIABLES messages, nextSeq, watching, server, stopCtx, hooks, handler, req,
          expired, gone, resp

spyVars == <<messages, nextSeq, watching, server, stopCtx, hooks, handler, req,
             expired, gone, resp>>
allVars == <<vars, spyVars>>

-----------------------------------------------------------------------------
(* What Record is given.  The body is known by the id of the trigger: its  *)
(* own, or the one a response's payload takes from the trigger.            *)

ReceivedMessage(m) ==
  [direction |-> "received", queue |-> ToString(m.queue), exchange |-> "",
   routing_key |-> m.content, rule |-> "",
   headers |-> IF m.origin = "none" THEN <<>>
               ELSE [origin |-> [type |-> "string", text |-> m.origin]],
   body |-> [id |-> m.id]]

PublishedMessage(w) ==
  [direction |-> "published", queue |-> "", exchange |-> "x",
   routing_key |-> "reply", rule |-> ToString(w.i),
   headers |-> [origin |-> [type |-> "string", text |-> "self"]],
   body |-> [id |-> w.msg.id]]

S == INSTANCE SpyServer WITH pc <- handler, Messages <- {}

-----------------------------------------------------------------------------
(* main: the spy server, the engine, the hooks; after a Start that failed, *)
(* or a signal, the engine first and then the spy server.                  *)

MainStartsSpy == S!Start /\ UNCHANGED vars

MainStartsEngine(c) ==
  /\ server = "serving" /\ ~running /\ ~stopped
  /\ Start(c)
  /\ UNCHANGED spyVars

MainSetsHooks ==
  /\ running
  /\ S!SetRulesProvider \/ S!SetReloader
  /\ UNCHANGED vars

MainStopsEngine(c) ==
  /\ ~stopped
  /\ \/ failed /\ Stop(c, "background")
     \/ "reloader" \in hooks /\ Stop(c, "timeout")
  /\ UNCHANGED spyVars

(* Mutant: the spy server is stopped while the engine is being stopped. *)
MainStopsSpyEarly ==
  /\ stopped
  /\ \E ctx \in {"background", "timeout"} : S!Stop(ctx)
  /\ UNCHANGED vars

MainStopsSpy ==
  /\ stopped /\ \A c \in Callers : pc[c] = "idle"
  /\ \E ctx \in {"background", "timeout"} : S!Stop(ctx)
  /\ UNCHANGED vars

SpyShutdown == (S!ShutdownReturns \/ S!ShutdownExpires) /\ UNCHANGED vars

-----------------------------------------------------------------------------
(* The engine on the ring buffer.                                          *)

(* Mutant: a message that some rule matches is not recorded. *)
HandleRecordsUnmatched ==
  /\ LoopRecords
  /\ IF \E i \in DOMAIN Rules(Len(gens)) : MatchesRule(Rules(Len(gens))[i], loop.msg)
     THEN UNCHANGED spyVars ELSE S!EngineRecords(ReceivedMessage(loop.msg))

HandleRecords ==
  /\ LoopRecords
  /\ S!EngineRecords(ReceivedMessage(loop.msg))

DispatchRecords(w) ==
  /\ DispatchRecord(w)
  /\ S!EngineRecords(PublishedMessage(w))

EngineLoop ==
  \/ HandleRecords
  \/ /\ LoopReceives \/ snapshotRules \/ LoopEvaluates \/ LoopHandled
     /\ UNCHANGED spyVars
EngineLoopExits == LoopExits /\ UNCHANGED spyVars

EngineDispatch(w) ==
  \/ DispatchRecords(w)
  \/ (DispatchDelay(w) \/ DispatchPublish(w)) /\ UNCHANGED spyVars

EngineCall(c) == Continues(c) /\ UNCHANGED spyVars

EngineConsumer(i) == Consumer(i) /\ UNCHANGED spyVars

Broker ==
  /\ \/ \E q \in Queues, content \in Contents : OthersPublish(q, content, "none")
     \/ ConnectionLost
  /\ UNCHANGED spyVars

(* The spy server on its own. *)
Http(c) ==
  /\ S!Handler(c) \/ S!TimerFires(c) \/ S!ClientGone(c)
  /\ UNCHANGED vars
HttpWait(c) == S!WaitLoop(c) /\ UNCHANGED vars

-----------------------------------------------------------------------------
CInit == Init /\ S!Init

CNext ==
  \/ MainStartsSpy \/ MainSetsHooks \/ MainStopsSpy \/ SpyShutdown
  \/ \E c \in Callers : MainStartsEngine(c) \/ MainStopsEngine(c) \/ EngineCall(c)
  \/ EngineLoop \/ EngineLoopExits
  \/ \E w \in workers : EngineDispatch(w)
  \/ \E i \in DOMAIN consumers : EngineConsumer(i)
  \/ \E c \in Watchers : Http(c) \/ HttpWait(c)
  \/ Broker

(* Goroutines that can run do.  Neither the timers of the clients nor main *)
(* nor other programs need ever act.                                       *)
CFairness ==
  /\ \A c \in Callers : WF_allVars(EngineCall(c))
  /\ WF_allVars(EngineLoop \/ EngineLoopExits)
  /\ WF_allVars(\E w \in workers : EngineDispatch(w))
  /\ WF_allVars(\E i \in DOMAIN consumers : EngineConsumer(i))
  /\ \A c \in Watchers : WF_allVars(HttpWait(c))

CSpec == CInit /\ [][CNext]_allVars /\ CFairness

-----------------------------------------------------------------------------
(* Properties.                                                             *)

InBuffer(direction, id, upTo) ==
  \E j \in 1..upTo : messages[j].direction = direction /\ messages[j].body.id = id

(* Cause before effect: whoever is shown a response in the capture finds   *)
(* the message that triggered it before it, unless the buffer has dropped  *)
(* messages since.  handleMessage records before it dispatches, in another *)
(* goroutine than the one that records the response.                       *)
TriggerBeforeResponse ==
  Len(messages) = nextSeq - 1 =>
    \A j \in DOMAIN messages :
      messages[j].direction = "published" =>
        InBuffer("received", messages[j].body.id, j - 1)

(* The capture is complete when the spy server begins to shut down: unless *)
(* the engine's Stop timed out, no message is recorded that a client could *)
(* not ask for any more.                                                   *)
CaptureComplete ==
  [][~timedOut /\ server \in {"stopping", "stopped", "expired"}
       => UNCHANGED messages]_allVars

(* A response of message k that was not given up, by a failed publish or a *)
(* cancelled delay, is still to be expected or still in the buffer.        *)
Expected(k) ==
  /\ k \in DOMAIN sent /\ sent[k].queue \in subscribed
  /\ \E i \in DOMAIN Rules(Len(gens)) :
       LET rule == Rules(Len(gens))[i]
           job(where) == [msg |-> sent[k], gen |-> Len(gens), i |-> i, pc |-> where]
       IN  /\ MatchesRule(rule, sent[k]) /\ rule.renders
           /\ [msg |-> sent[k], gen |-> Len(gens), i |-> i] \in answered =>
                \/ \E where \in {"delay", "publish", "record"} : job(where) \in workers
                \/ InBuffer("published", k, Len(messages))

(* A test that waits for the response to its trigger is answered, without  *)
(* the help of the timer: while engine and connection are up it does not   *)
(* wait for ever, whichever of trigger and wait came first, although loop, *)
(* dispatch, consumer and handler meet at two channels and two locks.      *)
ResponseServed ==
  \A c \in Watchers, k \in 1..MaxMsgs :
    []<>~(/\ running /\ link /\ Expected(k)
          /\ S!Waiting(c) /\ req[c].n = 1
          /\ req[c].filter.body = {[path |-> "id", want |-> {k}]})

(* Whatever the timers do, a wait whose condition holds, and goes on       *)
(* holding, is answered: the change channel alone sees to it.              *)
WaitServed == S!WaitServed
=============================================================================
