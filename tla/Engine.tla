------------------------------- MODULE Engine --------------------------------
(***************************************************************************)
(* engine.Engine on top of the driver contract.  Start, Reload and Stop    *)
(* run in their callers' goroutines (main and the HTTP handlers of the     *)
(* spy), next to processLoop and one goroutine per response dispatched.    *)
(*                                                                         *)
(* A configuration is [rules, spy]: a sequence of rules, and the spy-only  *)
(* queues.  A rule is [queue, contents, delay, renders, routes]: its       *)
(* trigger queue (0 for the empty string), the message contents its        *)
(* routing key and JSONPath rules accept, whether it delays its response,  *)
(* whether its payload renders, and the queues the broker routes the       *)
(* response to.  Queues are numbers, so that sort.Strings is their order.  *)
(***************************************************************************)
EXTENDS BrokerDriver

CONSTANTS
  Callers,   \* the goroutines that call Start, Reload and Stop
  Configs,   \* the configurations the engine may be given
  Contents,  \* the contents of messages other programs publish
  MaxMsgs,   \* bound: messages other programs publish
  MaxGen,    \* bound: rule sets the engine gets, the first one included
  MayDrop    \* can the broker connection be lost?

ASSUME EngineAssumption ==
  /\ 0 \notin Queues /\ Queues \subseteq Nat
  /\ MaxMsgs \in Nat /\ MaxGen \in Nat /\ MayDrop \in BOOLEAN

Rule == [queue : Queues \cup {0}, contents : SUBSET (Contents \cup {"reply"}),
         delay : BOOLEAN, renders : BOOLEAN, routes : SUBSET Queues]
Config == [rules : Seq(Rule), spy : SUBSET (Queues \cup {0})]

ASSUME ConfigsAssumption == Configs \subseteq Config

VARIABLES
  mu,        \* the holder of e.mu, {} when it is free
  running, stopped, subscribed,
  gens,      \* e.cfg and e.rules: the configurations applied, newest last
  hits,      \* hits[i]: the match counter of rule i of the newest rule set
  cancelled, \* is e.ctx cancelled?
  pc, call,  \* where each caller is, and the arguments of its call
  failed,    \* has Start returned an error?
  timedOut,  \* has Stop given up waiting for the workers?
  loop,      \* processLoop and handleMessage: [pc, msg, gen, i]
  workers,   \* the dispatch goroutines: [msg, gen, i, pc]
  sent,      \* history: the messages other programs published
  spy,       \* history: what spyRecorder.Record was given
  answered   \* history: the rules matched, as [msg, gen, i]

lifeVars == <<mu, running, stopped, subscribed, gens, pc, call, failed,
              timedOut>>
vars == <<driverVars, lifeVars, hits, cancelled, loop, workers, sent, spy,
          answered>>

Rules(gen) == gens[gen].rules

(* desiredQueues, as a set; it is visited from the smallest on. *)
desiredQueues(cfg) ==
  ({cfg.rules[i].queue : i \in DOMAIN cfg.rules} \cup cfg.spy) \ {0}

newRuleStates(cfg) == [i \in DOMAIN cfg.rules |-> 0]

NoCall == [op |-> "none", cfg |-> [rules |-> <<>>, spy |-> {}], todo |-> {},
           ctx |-> "none"]
IdleLoop(where) == [pc |-> where, msg |-> NoMsg, gen |-> 0, i |-> 0]

(* NewEngine, with a driver main has connected. *)
Init ==
  /\ ConnectedDriver
  /\ mu = {} /\ running = FALSE /\ stopped = FALSE /\ subscribed = {}
  /\ \E cfg \in Configs : gens = <<cfg>> /\ hits = newRuleStates(cfg)
  /\ cancelled = FALSE
  /\ pc = [c \in Callers |-> "idle"]
  /\ call = [c \in Callers |-> NoCall]
  /\ failed = FALSE /\ timedOut = FALSE
  /\ loop = IdleLoop("off")
  /\ workers = {}
  /\ sent = <<>> /\ spy = {} /\ answered = {}

workVars == <<hits, cancelled, loop, workers, sent, spy, answered>>

Goto(c, where) == pc' = [pc EXCEPT ![c] = where]

(* The caller returns, and gives back e.mu if it holds it. *)
Return(c) ==
  /\ Goto(c, "idle")
  /\ call' = [call EXCEPT ![c] = NoCall]
  /\ mu' = mu \ {c}

-----------------------------------------------------------------------------
(* Start and Reload: declare, subscribe queue by queue, then commit; all   *)
(* of it under e.mu, with a driver call per step.                          *)

Begin(c, op, cfg) ==
  /\ mu' = {c}
  /\ Goto(c, "declare")
  /\ call' = [call EXCEPT ![c] = [NoCall EXCEPT !.op = op, !.cfg = cfg]]

(* main gives up after a Start that failed, and does not try again. *)
Start(c) ==
  /\ pc[c] = "idle" /\ mu = {} /\ ~failed
  /\ \/ /\ stopped \/ running        \* returns at once
        /\ UNCHANGED <<mu, pc, call>>
     \/ /\ ~stopped /\ ~running
        /\ Begin(c, "start", gens[Len(gens)])
  /\ UNCHANGED <<driverVars, running, stopped, subscribed, gens, failed,
                 timedOut, workVars>>

Reload(c, cfg) ==
  /\ pc[c] = "idle" /\ mu = {} /\ Len(gens) < MaxGen
  /\ \/ /\ stopped \/ ~running       \* "engine is not running"
        /\ UNCHANGED <<mu, pc, call>>
     \/ /\ ~stopped /\ running
        /\ Begin(c, "reload", cfg)
  /\ UNCHANGED <<driverVars, running, stopped, subscribed, gens, failed,
                 timedOut, workVars>>

ReturnError(c) ==
  /\ Return(c)
  /\ failed' = (failed \/ call[c].op = "start")

(* Mutant: Reload swaps the rules without subscribing to their queues. *)
DeclareTopologyOnly(c) ==
  /\ pc[c] = "declare"
  /\ \/ /\ DeclareOK
        /\ Goto(c, "consume")
        /\ call' = [call EXCEPT ![c].todo = IF call[c].op = "start"
                     THEN desiredQueues(call[c].cfg) ELSE {}]
        /\ UNCHANGED <<mu, failed>>
     \/ DeclareFails /\ ReturnError(c)
  /\ UNCHANGED <<running, stopped, subscribed, gens, timedOut, workVars>>

DeclareTopology(c) ==
  /\ pc[c] = "declare"
  /\ \/ /\ DeclareOK
        /\ Goto(c, "consume")
        /\ call' = [call EXCEPT ![c].todo = desiredQueues(call[c].cfg)]
        /\ UNCHANGED <<mu, failed>>
     \/ DeclareFails /\ ReturnError(c)
  /\ UNCHANGED <<running, stopped, subscribed, gens, timedOut, workVars>>

(* Mutant: Reload attaches a consumer to every queue again. *)
StartConsumingAll(c) ==
  \E q \in call[c].todo :
    /\ pc[c] = "consume"
    /\ \/ /\ ConsumeOK(q)
          /\ call' = [call EXCEPT ![c].todo = @ \ {q}]
          /\ subscribed' = subscribed \cup {q}
          /\ UNCHANGED <<pc, mu, failed>>
       \/ ConsumeFails /\ ReturnError(c) /\ UNCHANGED subscribed
    /\ UNCHANGED <<running, stopped, gens, timedOut, workVars>>

(* The next queue in order; Reload passes over the subscribed ones.  The   *)
(* queues attached before a failure stay attached and subscribed.          *)
StartConsuming(c) ==
  \E q \in call[c].todo :
    LET skip == call[c].op = "reload" /\ q \in subscribed
        next == call' = [call EXCEPT ![c].todo = @ \ {q}]
    IN  /\ pc[c] = "consume"
        /\ \A p \in call[c].todo : q <= p
        /\ \/ skip /\ next /\ UNCHANGED <<driverVars, pc, mu, failed, subscribed>>
           \/ /\ ~skip /\ ConsumeOK(q) /\ next
              /\ subscribed' = subscribed \cup {q}
              /\ UNCHANGED <<pc, mu, failed>>
           \/ ~skip /\ ConsumeFails /\ ReturnError(c) /\ UNCHANGED subscribed
        /\ UNCHANGED <<running, stopped, gens, timedOut, workVars>>

Commit(c) ==
  /\ pc[c] = "consume" /\ call[c].todo = {}
  /\ \/ /\ call[c].op = "start"
        /\ running' = TRUE
        /\ loop' = IdleLoop("select")
        /\ UNCHANGED <<gens, hits>>
     \/ /\ call[c].op = "reload"
        /\ gens' = Append(gens, call[c].cfg)
        /\ hits' = newRuleStates(call[c].cfg)
        /\ UNCHANGED <<running, loop>>
  /\ Return(c)
  /\ UNCHANGED <<driverVars, stopped, subscribed, failed, timedOut, cancelled,
                 workers, sent, spy, answered>>

-----------------------------------------------------------------------------
(* Stop: e.mu is held for the flags only.                                  *)

(* Mutant: the flags are set without e.mu. *)
StopUnlocked(c, ctx) ==
  /\ pc[c] = "idle" /\ ~stopped
  /\ stopped' = TRUE /\ running' = FALSE
  /\ Goto(c, "cancel")
  /\ call' = [call EXCEPT ![c] = [NoCall EXCEPT !.op = "stop", !.ctx = ctx]]
  /\ UNCHANGED <<driverVars, mu, subscribed, gens, failed, timedOut, workVars>>

Stop(c, ctx) ==
  /\ pc[c] = "idle" /\ mu = {}
  /\ \/ stopped /\ UNCHANGED <<running, stopped, pc, call>>
     \/ /\ ~stopped
        /\ stopped' = TRUE /\ running' = FALSE
        /\ Goto(c, "cancel")
        /\ call' = [call EXCEPT ![c] = [NoCall EXCEPT !.op = "stop", !.ctx = ctx]]
  /\ UNCHANGED <<driverVars, mu, subscribed, gens, failed, timedOut, workVars>>

StopCancels(c) ==
  /\ pc[c] = "cancel"
  /\ cancelled' = TRUE
  /\ Goto(c, "wait")
  /\ UNCHANGED <<driverVars, mu, running, stopped, subscribed, gens, call,
                 failed, timedOut, hits, loop, workers, sent, spy, answered>>

(* e.wg: Add comes before each go statement, Done is deferred. *)
wg == Cardinality(workers) + (IF loop.pc \in {"off", "exited"} THEN 0 ELSE 1)

(* Mutant: Stop does not wait for the workers. *)
StopWaitsNot(c) ==
  /\ pc[c] = "wait"
  /\ Goto(c, "close")
  /\ UNCHANGED <<driverVars, mu, running, stopped, subscribed, gens, call,
                 failed, timedOut, workVars>>

StopWaits(c) ==
  /\ pc[c] = "wait"
  /\ \/ wg = 0 /\ UNCHANGED timedOut
     \/ call[c].ctx = "timeout" /\ timedOut' = TRUE
  /\ Goto(c, "close")
  /\ UNCHANGED <<driverVars, mu, running, stopped, subscribed, gens, call,
                 failed, workVars>>

StopCloses(c) ==
  /\ pc[c] = "close"
  /\ CloseBegins
  /\ Goto(c, "closing")
  /\ UNCHANGED <<mu, running, stopped, subscribed, gens, call, failed,
                 timedOut, workVars>>

StopReturns(c) ==
  /\ pc[c] = "closing"
  /\ CloseReturns
  /\ Return(c)
  /\ UNCHANGED <<running, stopped, subscribed, gens, failed, timedOut, workVars>>

-----------------------------------------------------------------------------
(* processLoop and handleMessage.                                          *)

(* Both cases of the select may be ready: Go takes any of them. *)
LoopExits ==
  /\ loop.pc = "select"
  /\ cancelled
  /\ loop' = IdleLoop("exited")
  /\ UNCHANGED <<driverVars, lifeVars, hits, cancelled, workers, sent, spy,
                 answered>>

LoopReceives ==
  /\ loop.pc = "select"
  /\ msgChan # <<>>
  /\ loop' = [loop EXCEPT !.pc = "record", !.msg = Head(msgChan)]
  /\ msgChan' = Tail(msgChan)
  /\ UNCHANGED <<conn, link, consumers, brokerQ, lifeVars, hits, cancelled,
                 workers, sent, spy, answered>>

Received(m) == [direction |-> "received", msg |-> m]
Published(w) == [direction |-> "published", id |-> w.msg.id, gen |-> w.gen, i |-> w.i]

(* Mutant: the loop guard leaves the loop instead of the message. *)
LoopRecordsLeaves ==
  /\ loop.pc = "record"
  /\ spy' = spy \cup {Received(loop.msg)}
  /\ loop' = IF loop.msg.origin # "none" THEN IdleLoop("exited")
             ELSE [loop EXCEPT !.pc = "snapshot"]
  /\ UNCHANGED <<driverVars, lifeVars, hits, cancelled, workers, sent, answered>>

(* Record, then the loop guard: an origin header that is not nil. *)
LoopRecords ==
  /\ loop.pc = "record"
  /\ spy' = spy \cup {Received(loop.msg)}
  /\ loop' = IF loop.msg.origin # "none" THEN IdleLoop("select")
             ELSE [loop EXCEPT !.pc = "snapshot"]
  /\ UNCHANGED <<driverVars, lifeVars, hits, cancelled, workers, sent, answered>>

snapshotRules ==
  /\ loop.pc = "snapshot"
  /\ loop' = [loop EXCEPT !.pc = "rules", !.gen = Len(gens), !.i = 1]
  /\ UNCHANGED <<driverVars, lifeVars, hits, cancelled, workers, sent, spy,
                 answered>>

MatchesRule(rule, m) == rule.queue \in {0, m.queue} /\ m.content \in rule.contents

(* Mutant: every rule is looked up in the newest rule set. *)
LoopEvaluatesNewest ==
  /\ loop.pc = "rules"
  /\ loop.i \in DOMAIN Rules(Len(gens))
  /\ loop' = [loop EXCEPT !.i = @ + 1, !.gen = Len(gens)]
  /\ \/ /\ ~MatchesRule(Rules(Len(gens))[loop.i], loop.msg)
        /\ UNCHANGED answered
     \/ /\ MatchesRule(Rules(Len(gens))[loop.i], loop.msg)
        /\ answered' = answered \cup
             {[msg |-> loop.msg, gen |-> Len(gens), i |-> loop.i]}
  /\ UNCHANGED <<driverVars, lifeVars, hits, workers, cancelled, sent, spy>>

(* Mutant: a match is counted only when its payload renders. *)
LoopEvaluatesCountsLate ==
  LET rule == Rules(loop.gen)[loop.i]
  IN  /\ loop.pc = "rules"
      /\ loop.i \in DOMAIN Rules(loop.gen)
      /\ MatchesRule(rule, loop.msg)
      /\ loop' = [loop EXCEPT !.i = @ + 1]
      /\ hits' = IF rule.renders /\ loop.gen = Len(gens)
                 THEN [hits EXCEPT ![loop.i] = @ + 1] ELSE hits
      /\ answered' = answered \cup
           {[msg |-> loop.msg, gen |-> loop.gen, i |-> loop.i]}
      /\ UNCHANGED <<driverVars, lifeVars, workers, cancelled, sent, spy>>

(* One rule: count the match, render, and dispatch in a new goroutine. *)
LoopEvaluates ==
  LET rule == Rules(loop.gen)[loop.i]
      job  == [msg |-> loop.msg, gen |-> loop.gen, i |-> loop.i,
               pc |-> IF rule.delay THEN "delay" ELSE "publish"]
  IN  /\ loop.pc = "rules"
      /\ loop.i \in DOMAIN Rules(loop.gen)
      /\ loop' = [loop EXCEPT !.i = @ + 1]
      /\ \/ ~MatchesRule(rule, loop.msg) /\ UNCHANGED <<hits, workers, answered>>
         \/ /\ MatchesRule(rule, loop.msg)
            /\ hits' = IF loop.gen = Len(gens)
                       THEN [hits EXCEPT ![loop.i] = @ + 1] ELSE hits
            /\ answered' = answered \cup
                 {[msg |-> loop.msg, gen |-> loop.gen, i |-> loop.i]}
            /\ workers' = IF rule.renders THEN workers \cup {job} ELSE workers
      /\ UNCHANGED <<driverVars, lifeVars, cancelled, sent, spy>>

LoopHandled ==
  /\ loop.pc = "rules"
  /\ loop.i \notin DOMAIN Rules(loop.gen)
  /\ loop' = IdleLoop("select")
  /\ UNCHANGED <<driverVars, lifeVars, hits, cancelled, workers, sent, spy,
                 answered>>

-----------------------------------------------------------------------------
(* dispatch.                                                               *)

Step(w, where) == workers' = (workers \ {w}) \cup {[w EXCEPT !.pc = where]}
Leave(w) == workers' = workers \ {w}

dispatchVars == <<lifeVars, hits, cancelled, loop, sent, answered>>

DispatchDelay(w) ==
  /\ w.pc = "delay"
  /\ \/ Step(w, "publish")
     \/ cancelled /\ Leave(w)
  /\ UNCHANGED <<driverVars, dispatchVars, spy>>

(* Mutant: the configured headers are copied over the origin header. *)
responseUnstamped(w) ==
  [id |-> w.msg.id, queue |-> 0, content |-> "reply", origin |-> "none",
   by |-> <<w.gen, w.i>>]

(* The response, stamped with the origin header after the configured ones. *)
response(w) ==
  [id |-> w.msg.id, queue |-> 0, content |-> "reply", origin |-> "self",
   by |-> <<w.gen, w.i>>]

DispatchPublish(w) ==
  /\ w.pc = "publish"
  /\ \/ PublishOK(response(w), Rules(w.gen)[w.i].routes) /\ Step(w, "record")
     \/ PublishFails /\ Leave(w)
  /\ UNCHANGED <<dispatchVars, spy>>

DispatchRecord(w) ==
  /\ w.pc = "record"
  /\ spy' = spy \cup {Published(w)}
  /\ Leave(w)
  /\ UNCHANGED <<driverVars, dispatchVars>>

-----------------------------------------------------------------------------
(* The environment: other programs on the broker, some of which are other  *)
(* chitchat instances that stamp the origin header too.                    *)

OthersPublish(q, content, origin) ==
  LET m == [id |-> Len(sent) + 1, queue |-> q, content |-> content,
            origin |-> origin, by |-> <<0, 0>>]
  IN  /\ Len(sent) < MaxMsgs
      /\ sent' = Append(sent, m)
      /\ brokerQ' = [brokerQ EXCEPT ![q] = Append(@, m)]
      /\ UNCHANGED <<conn, link, consumers, msgChan, lifeVars, hits, cancelled,
                     loop, workers, spy, answered>>

ConnectionLost ==
  /\ MayDrop
  /\ LinkLost
  /\ UNCHANGED <<lifeVars, workVars>>

Consumer(i) ==
  /\ ConsumerReceives(i) \/ ConsumerSends(i) \/ ConsumerExits(i)
  /\ UNCHANGED <<lifeVars, workVars>>

Calls(c) ==
  \/ Start(c) \/ \E cfg \in Configs : Reload(c, cfg)
  \/ \E ctx \in {"background", "timeout"} : Stop(c, ctx)
Continues(c) ==
  \/ DeclareTopology(c) \/ StartConsuming(c) \/ Commit(c)
  \/ StopCancels(c) \/ StopWaits(c) \/ StopCloses(c) \/ StopReturns(c)
LoopWorks == LoopReceives \/ LoopRecords \/ snapshotRules \/ LoopEvaluates \/ LoopHandled
Dispatch(w) == DispatchDelay(w) \/ DispatchPublish(w) \/ DispatchRecord(w)

Next ==
  \/ \E c \in Callers : Calls(c) \/ Continues(c)
  \/ LoopWorks \/ LoopExits
  \/ \E w \in workers : Dispatch(w)
  \/ \E i \in DOMAIN consumers : Consumer(i)
  \/ \E q \in Queues, content \in Contents, origin \in {"none", "peer"} :
        OthersPublish(q, content, origin)
  \/ ConnectionLost

(* Every goroutine that can run does.  Go's select, which picks at random, *)
(* does not pass over the cancelled context for ever.                      *)
Fairness ==
  /\ \A c \in Callers : WF_vars(Continues(c))
  /\ WF_vars(LoopWorks \/ LoopExits) /\ SF_vars(LoopExits)
  /\ WF_vars(\E w \in workers : Dispatch(w))
  /\ WF_vars(\E i \in DOMAIN consumers : Consumer(i))

SafetySpec == Init /\ [][Next]_vars
Spec == SafetySpec /\ Fairness

-----------------------------------------------------------------------------
(* Properties.                                                             *)

Recorded(m) == Received(m) \in spy

InSeq(m, s) == \E j \in DOMAIN s : s[j] = m

(* Start and Reload have e.mu to themselves and an open driver in hand at  *)
(* every driver call they make, however Stop and they interleave: no       *)
(* consumer is attached to a driver that is being closed.                  *)
DriverUsedOpen ==
  \A c \in Callers : pc[c] \in {"declare", "consume"} => conn = "open" /\ mu = {c}

(* "Workers are drained first": unless Stop's context expired, Close finds *)
(* no loop and no dispatch at work.                                        *)
DrainedBeforeClose == conn # "open" /\ ~timedOut => wg = 0

(* Once Stop has returned nothing writes to the message channel and no     *)
(* response is published; unless it timed out, nothing is recorded either. *)
QuietAfterStop ==
  [][conn = "closed" =>
       /\ msgChan' = msgChan \/ (msgChan # <<>> /\ msgChan' = Tail(msgChan))
       /\ {w \in workers' : w.pc = "record"} \subseteq workers
       /\ ~timedOut => UNCHANGED <<spy, msgChan, hits>>]_vars

(* Until the engine is stopped, or loses its channel, no message is lost   *)
(* between its queue and the spy, although it is acknowledged on receipt   *)
(* and the consumers meet a full channel.                                  *)
NoMessageLost ==
  ~stopped /\ link =>
    \A k \in DOMAIN sent :
      LET m == sent[k]
      IN  \/ Recorded(m) \/ loop.msg = m \/ InSeq(m, msgChan)
          \/ InSeq(m, brokerQ[m.queue])
          \/ \E i \in DOMAIN consumers : consumers[i].msg = m

(* Messages of one queue reach the spy in the order they were queued. *)
RecordedInOrder ==
  \A k \in DOMAIN sent : Recorded(sent[k]) =>
    \A j \in 1..(k - 1) : sent[j].queue = sent[k].queue => Recorded(sent[j])

(* The loop guard: only messages from outside, without an origin header,   *)
(* are answered, although responses may be routed into trigger queues.     *)
NeverAnswersChitchat ==
  \A a \in answered : a.msg.by = <<0, 0>> /\ a.msg.origin = "none"

(* A message is matched against one rule set, all of it, even when Reload  *)
(* replaces the rules while the message is being handled.                  *)
OneRuleSetPerMessage ==
  \A k \in DOMAIN sent :
    LET m == sent[k]
    IN  Recorded(m) /\ loop.msg # m /\ m.origin = "none" =>
          \E g \in DOMAIN gens :
            {[gen |-> a.gen, i |-> a.i] : a \in {b \in answered : b.msg = m}}
              = {[gen |-> g, i |-> i] :
                   i \in {j \in DOMAIN Rules(g) : MatchesRule(Rules(g)[j], m)}}

(* The counters of GET /_chitchat/rules count the matches of the rule set  *)
(* they are shown with, and no match of an older one.                      *)
HitsExact ==
  \A i \in DOMAIN hits :
    hits[i] = Cardinality({a \in answered : a.gen = Len(gens) /\ a.i = i})

(* While the engine runs on a live channel, every queue of the active      *)
(* configuration has one consumer, and no queue ever has two: a message    *)
(* is seen once, in order.                                                 *)
OneConsumerPerQueue ==
  LET alive(q) == Cardinality({i \in DOMAIN consumers : Consumes(i, q)})
  IN  /\ \A q \in Queues : alive(q) <= 1
      /\ running /\ link =>
           \A q \in desiredQueues(gens[Len(gens)]) : alive(q) = 1

(* "Queues that are no longer referenced stay subscribed", and a reload    *)
(* does not drop the broker connection: while the engine runs, and the     *)
(* network holds, what it has subscribed to is consumed.                   *)
StaysSubscribed ==
  running =>
    \A q \in subscribed : \E i \in DOMAIN consumers : Consumes(i, q)

(* Once it has set its flag Stop returns, whatever the workers do. *)
StopCompletes ==
  \A c \in Callers :
    pc[c] \in {"cancel", "wait", "close", "closing"} ~> pc[c] = "idle"

(* A message in a subscribed queue reaches the spy: a full channel delays  *)
(* consumers but never stalls them.                                        *)
EveryMessageRecorded ==
  \A k \in 1..MaxMsgs :
    []<>~(/\ running /\ link
          /\ k \in DOMAIN sent /\ sent[k].queue \in subscribed
          /\ ~Recorded(sent[k]))

(* Every response that is dispatched is published or given up. *)
EveryDispatchEnds == []<>(workers = {})
=============================================================================
