------------------------- MODULE EngineMessageProofs -------------------------
(***************************************************************************)
(* The way of a message through the engine, for every set of callers,      *)
(* queues, configurations and messages: from its queue through a consumer, *)
(* the channel and the loop into the spy, and through the rules to the     *)
(* dispatches.                                                             *)
(***************************************************************************)
EXTENDS EngineProofs

(* A message without an origin header is from outside: by names no rule. *)
Message ==
  {m \in [id : Nat, queue : Queues, content : Contents \cup {"reply"},
          origin : {"none", "peer", "self"}, by : Nat \X Nat] :
     m.origin = "none" => m.by = <<0, 0>>}
Outside(m) == m.by = <<0, 0>>

-----------------------------------------------------------------------------
(* Definitions of the inductive invariant.                                 *)

ConsumerState == [queue : Queues, pc : {"recv", "send", "exited"},
                  msg : Message \cup {NoMsg}]
LoopState == [pc : {"off", "select", "record", "snapshot", "rules", "exited"},
              msg : Message \cup {NoMsg}, gen : Nat, i : Nat]
Job == [msg : Message, gen : Nat \ {0}, i : Nat,
        pc : {"delay", "publish", "record"}]
Call == [op : {"none", "start", "reload", "stop"},
         cfg : Configs \cup {NoCall.cfg}, todo : SUBSET Queues,
         ctx : {"none", "background", "timeout"}]

TypeInv ==
  /\ brokerQ \in [Queues -> Seq(Message)]
  /\ msgChan \in Seq(Message)
  /\ consumers \in Seq(ConsumerState)
  /\ sent \in Seq(Message)
  /\ loop \in LoopState
  /\ loop.pc = "rules" => loop.gen # 0
  /\ workers \subseteq Job
  /\ gens \in Seq(Configs) /\ Len(gens) > 0
  /\ answered \subseteq [msg : Message, gen : Nat \ {0}, i : Nat]
  /\ call \in [Callers -> Call]

(* The arguments of a call under way, and what it makes of subscribed. *)
CallInv ==
  /\ \A c \in Callers : pc[c] \in Attaching =>
       /\ call[c].cfg \in Configs
       /\ \/ call[c].op = "reload" /\ running
          \/ /\ call[c].op = "start" /\ ~running /\ ~failed
             /\ call[c].cfg = gens[Len(gens)]
  /\ running => ~stopped /\ loop.pc # "off"

SubscribeInv ==
  /\ \A i \in DOMAIN consumers : consumers[i].queue \in subscribed
  /\ \A i, j \in DOMAIN consumers :
       consumers[i].queue = consumers[j].queue => i = j
  /\ \A q \in subscribed : \E i \in DOMAIN consumers : consumers[i].queue = q
  /\ link /\ conn = "open" =>
       \A i \in DOMAIN consumers : consumers[i].pc # "exited"
  /\ running => desiredQueues(gens[Len(gens)]) \subseteq subscribed
  /\ ~running /\ ~stopped /\ ~failed =>
       \/ subscribed = {}
       \/ \E c \in Callers : pc[c] = "consume"
  /\ \A c \in Callers : pc[c] = "consume" =>
       /\ desiredQueues(call[c].cfg) \subseteq subscribed \cup call[c].todo
       /\ call[c].op = "start" => subscribed \cap call[c].todo = {}

(* The loop holds a message from its receipt to the end of its rules. *)
LoopInv ==
  /\ loop.pc \in {"record", "snapshot", "rules"} <=> loop.msg # NoMsg
  /\ loop.pc \in {"snapshot", "rules"} =>
       loop.msg.origin = "none" /\ Recorded(loop.msg)
  /\ ~running /\ ~stopped => loop.pc = "off"
  /\ cancelled => stopped
  /\ \A a \in answered : a.msg.origin = "none"

PlaceInv ==
  /\ \A q \in Queues : \A a \in DOMAIN brokerQ[q] : brokerQ[q][a].queue = q
  /\ \A i \in DOMAIN consumers :
       /\ consumers[i].pc = "send" <=> consumers[i].msg # NoMsg
       /\ consumers[i].pc = "send" => consumers[i].msg.queue = consumers[i].queue
  /\ \A k \in DOMAIN sent : sent[k].id = k /\ Outside(sent[k])

(* Nothing of queue q has been lost. *)
Unbroken(q) == conn = "open" \/ \E i \in DOMAIN consumers : Consumes(i, q)

Held(m) == \E i \in DOMAIN consumers : consumers[i].msg = m
Taken(m) == Recorded(m) \/ loop.msg = m
Passed(m) == Taken(m) \/ InSeq(m, msgChan)

Queued(m) == InSeq(m, brokerQ[m.queue])

Kept(m) == Unbroken(m.queue) => Passed(m) \/ Held(m) \/ Queued(m)

KeptInv == \A k \in DOMAIN sent : Kept(sent[k])

(* x comes before every y in s. *)
SeqAhead(x, y, s) ==
  \A a \in DOMAIN s : s[a] = y => \E b \in 1..(a - 1) : s[b] = x

(* x is ahead of y in the pipeline, wherever y is. *)
Ahead(x, y) ==
  /\ Taken(y) => Recorded(x)
  /\ Taken(x) \/ SeqAhead(x, y, msgChan)
  /\ Held(y) => Passed(x)
  /\ Unbroken(y.queue) =>
       Passed(x) \/ Held(x) \/ SeqAhead(x, y, brokerQ[y.queue])

OrderInv ==
  \A k \in DOMAIN sent : \A j \in 1..(k - 1) :
    sent[j].queue = sent[k].queue => Ahead(sent[j], sent[k])

(* A message that is yet to be sent is nowhere. *)
FreshInv ==
  \A m \in Message : Outside(m) /\ m.id > Len(sent) =>
    ~Passed(m) /\ ~Held(m) /\ ~Queued(m)

Distinct(s) ==
  \A a, b \in DOMAIN s : Outside(s[a]) /\ s[a] = s[b] => a = b

(* A message from outside is in one place. *)
InOnePlace(m) ==
  /\ Queued(m) => ~Held(m) /\ ~Passed(m)
  /\ Held(m) => ~Passed(m)
  /\ InSeq(m, msgChan) => loop.msg # m /\ ~Recorded(m)
  /\ loop.msg = m /\ loop.pc = "record" => ~Recorded(m)

OnceInv ==
  /\ \A q \in Queues : Distinct(brokerQ[q])
  /\ Distinct(msgChan)
  /\ \A m \in Message : Outside(m) => InOnePlace(m)

(* The rules of one set, from the first to the current one. *)
Answer(m, g, i) == [msg |-> m, gen |-> g, i |-> i]
EvaluatedUpTo(m, g, n) ==
  /\ g \in DOMAIN gens /\ n \in 1..(Len(Rules(g)) + 1)
  /\ \A a \in answered : a.msg = m =>
       a.gen = g /\ a.i \in 1..(n - 1) /\ MatchesRule(Rules(g)[a.i], m)
  /\ \A i \in 1..(n - 1) :
       MatchesRule(Rules(g)[i], m) => Answer(m, g, i) \in answered

RulesInv ==
  /\ IsFiniteSet(answered)
  /\ \A a \in answered : Recorded(a.msg) /\ a.gen \in DOMAIN gens
  /\ loop.pc = "snapshot" => \A a \in answered : a.msg # loop.msg
  /\ loop.pc = "rules" => EvaluatedUpTo(loop.msg, loop.gen, loop.i)
  /\ \A m \in Message : Recorded(m) /\ loop.msg # m /\ m.origin = "none" =>
       \E g \in DOMAIN gens : EvaluatedUpTo(m, g, Len(Rules(g)) + 1)

(* The match counters are those of the newest rule set. *)
Matches(i) == {a \in answered : a.gen = Len(gens) /\ a.i = i}
HitsInv ==
  /\ hits \in [DOMAIN Rules(Len(gens)) -> Nat]
  /\ \A i \in DOMAIN hits : hits[i] = Cardinality(Matches(i))
-----------------------------------------------------------------------------
(* Queues.                                                                 *)

LEMMA AppendAt ==
  ASSUME NEW S, NEW s \in Seq(S), NEW x \in S
  PROVE  /\ Append(s, x) \in Seq(S)
         /\ Len(s) \in Nat /\ Len(Append(s, x)) = Len(s) + 1
         /\ DOMAIN s = 1..Len(s) /\ DOMAIN Append(s, x) = 1..(Len(s) + 1)
         /\ \A j \in DOMAIN s : Append(s, x)[j] = s[j]
         /\ Append(s, x)[Len(s) + 1] = x
  OBVIOUS

LEMMA TailAt ==
  ASSUME NEW S, NEW s \in Seq(S), s # <<>>
  PROVE  /\ Tail(s) \in Seq(S) /\ Head(s) \in S /\ Head(s) = s[1]
         /\ Len(s) \in Nat \ {0} /\ Len(Tail(s)) = Len(s) - 1
         /\ DOMAIN s = 1..Len(s) /\ DOMAIN Tail(s) = 1..(Len(s) - 1)
         /\ \A j \in DOMAIN Tail(s) : Tail(s)[j] = s[j + 1]
  OBVIOUS

LEMMA InAppend ==
  ASSUME NEW S, NEW s \in Seq(S), NEW x \in S, NEW m
  PROVE  InSeq(m, Append(s, x)) <=> InSeq(m, s) \/ m = x
<1> DEFINE t == Append(s, x)
<1>1. /\ Len(s) \in Nat /\ DOMAIN s = 1..Len(s) /\ DOMAIN t = 1..(Len(s) + 1)
      /\ (\A j \in DOMAIN s : t[j] = s[j]) /\ t[Len(s) + 1] = x
  BY AppendAt
<1> HIDE DEF t
<1> QED BY <1>1 DEF InSeq

LEMMA InTail ==
  ASSUME NEW S, NEW s \in Seq(S), s # <<>>, NEW m
  PROVE  InSeq(m, s) <=> m = Head(s) \/ InSeq(m, Tail(s))
<1> DEFINE t == Tail(s)
<1>1. /\ Len(s) \in Nat \ {0} /\ DOMAIN s = 1..Len(s)
      /\ DOMAIN t = 1..(Len(s) - 1) /\ Head(s) = s[1]
      /\ \A j \in DOMAIN t : t[j] = s[j + 1]
  BY TailAt
<1>2. \A j \in DOMAIN s : j = 1 \/ (j - 1 \in DOMAIN t /\ t[j - 1] = s[j])
  BY <1>1
<1> HIDE DEF t
<1> QED BY <1>1, <1>2 DEF InSeq

LEMMA AheadAppend ==
  ASSUME NEW S, NEW s \in Seq(S), NEW e \in S, NEW x, NEW y,
         SeqAhead(x, y, s), e = y => InSeq(x, s)
  PROVE  SeqAhead(x, y, Append(s, e))
  BY DEF SeqAhead, InSeq

LEMMA AheadTail ==
  ASSUME NEW S, NEW s \in Seq(S), s # <<>>, NEW x, NEW y, SeqAhead(x, y, s)
  PROVE  Head(s) = x \/ SeqAhead(x, y, Tail(s))
<1> DEFINE t == Tail(s)
<1>1. /\ Len(s) \in Nat \ {0} /\ DOMAIN s = 1..Len(s)
      /\ DOMAIN t = 1..(Len(s) - 1) /\ Head(s) = s[1]
      /\ \A j \in DOMAIN t : t[j] = s[j + 1]
  BY TailAt
<1> HIDE DEF t
<1>2. SUFFICES ASSUME Head(s) # x, NEW a \in DOMAIN t, t[a] = y
               PROVE  \E b \in 1..(a - 1) : t[b] = x
  BY DEF SeqAhead, t
<1>3. a + 1 \in DOMAIN s /\ s[a + 1] = y
  BY <1>1, <1>2
<1>4. PICK c \in 1..a : s[c] = x
  BY <1>1, <1>3 DEF SeqAhead
<1>5. c # 1 /\ c - 1 \in 1..(a - 1) /\ t[c - 1] = s[c]
  BY <1>1, <1>2, <1>4
<1> QED BY <1>4, <1>5
-----------------------------------------------------------------------------
(* Types.                                                                  *)

LEMMA NoMsgNoMessage == NoMsg \notin Message
<1>1. \A m \in Message : "queue" \in DOMAIN m
  BY DEF Message
<1>2. "queue" \notin DOMAIN NoMsg
  BY SMT DEF NoMsg
<1> QED BY <1>1, <1>2

LEMMA DesiredType ==
  ASSUME NEW cfg \in Configs
  PROVE  desiredQueues(cfg) \subseteq Queues
<1>1. cfg.rules \in Seq(Rule) /\ cfg.spy \subseteq Queues \cup {0}
  BY ConfigsAssumption DEF Config
<1>2. \A i \in DOMAIN cfg.rules : cfg.rules[i] \in Rule
  BY <1>1
<1>3. \A r \in Rule : r.queue \in Queues \cup {0}
  BY DEF Rule
<1> QED BY <1>1, <1>2, <1>3 DEF desiredQueues

(* What Start, Reload and Stop do to what the messages pass through. *)
LEMMA CallerFrame ==
  ASSUME NEW c \in Callers, Calls(c) \/ Continues(c)
  PROVE  /\ UNCHANGED <<brokerQ, msgChan, workers, sent, spy, answered>>
         /\ \/ loop' = loop
            \/ Commit(c) /\ call[c].op = "start" /\ loop' = IdleLoop("select")
         /\ \/ gens' = gens
            \/ Commit(c) /\ call[c].op = "reload" /\ gens' = Append(gens, call[c].cfg)
         /\ \/ consumers' = consumers
            \/ StartConsuming(c) /\ \E q \in call[c].todo : ConsumeOK(q)
<1>1. CASE Calls(c)
  BY <1>1 DEF Calls, Start, Reload, Stop, workVars, driverVars
<1>2. CASE DeclareTopology(c) \/ StopCancels(c) \/ StopWaits(c)
  BY <1>2 DEF DeclareTopology, DeclareOK, DeclareFails, StopCancels, StopWaits,
     workVars, driverVars
<1>3. CASE StartConsuming(c)
  BY <1>3 DEF StartConsuming, ConsumeOK, ConsumeFails, workVars, driverVars
<1>4. CASE Commit(c)
  BY <1>4 DEF Commit, driverVars
<1>5. CASE StopCloses(c) \/ StopReturns(c)
  BY <1>5 DEF StopCloses, StopReturns, CloseBegins, CloseReturns, workVars
<1> QED BY <1>1, <1>2, <1>3, <1>4, <1>5 DEF Continues

LEMMA TypeInit == Init => TypeInv
<1> SUFFICES ASSUME Init PROVE TypeInv
  OBVIOUS
<1>1. NoCall \in Call
  BY DEF NoCall, Call
<1>2. IdleLoop("off") \in LoopState
  BY DEF IdleLoop, LoopState
<1>3. gens \in Seq(Configs) /\ Len(gens) > 0
  BY DEF Init
<1> QED BY <1>1, <1>2, <1>3 DEF Init, ConnectedDriver, TypeInv, IdleLoop

LEMMA CallTypeNext ==
  ASSUME LockInv, TypeInv, CallInv, NEW c \in Callers, Calls(c) \/ Continues(c)
  PROVE  call' \in [Callers -> Call]
<1> USE DEF TypeInv
<1>0. NoCall \in Call
  BY DEF NoCall, Call
<1>1. CASE UNCHANGED call
  BY <1>1
<1>2. ASSUME NEW op \in {"start", "reload"}, NEW cfg \in Configs, Begin(c, op, cfg)
      PROVE  call' \in [Callers -> Call]
  <2>1. [NoCall EXCEPT !.op = op, !.cfg = cfg] \in Call
    BY DEF NoCall, Call
  <2> QED BY <1>2, <2>1 DEF Begin
<1>3. ASSUME NEW ctx \in {"background", "timeout"}, Stop(c, ctx)
      PROVE  call' \in [Callers -> Call]
  <2>1. [NoCall EXCEPT !.op = "stop", !.ctx = ctx] \in Call
    BY DEF NoCall, Call
  <2> QED BY <1>3, <2>1 DEF Stop
<1>4. CASE Calls(c)
  <2>1. gens[Len(gens)] \in Configs
    OBVIOUS
  <2> QED BY <1>1, <1>2, <1>3, <1>4, <2>1 DEF Calls, Start, Reload
<1>5. CASE Return(c)
  BY <1>0, <1>5 DEF Return
<1>6. ASSUME NEW t \in SUBSET Queues, call' = [call EXCEPT ![c].todo = t]
      PROVE  call' \in [Callers -> Call]
  BY <1>6 DEF Call
<1>7. CASE DeclareTopology(c)
  <2>1. pc[c] = "declare" => call[c].cfg \in Configs
    BY DEF CallInv, Attaching
  <2> QED BY <1>5, <1>6, <1>7, <2>1, DesiredType DEF DeclareTopology, ReturnError
<1>8. CASE StartConsuming(c)
  <2>1. call[c].todo \subseteq Queues
    BY DEF Call
  <2>2. PICK q \in call[c].todo :
          call' = [call EXCEPT ![c].todo = @ \ {q}] \/ Return(c)
    BY <1>8 DEF StartConsuming, ReturnError
  <2>3. CASE call' = [call EXCEPT ![c].todo = @ \ {q}]
    BY <1>6, <2>1, <2>3
  <2> QED BY <1>5, <2>2, <2>3
<1>9. CASE Commit(c) \/ StopCancels(c) \/ StopWaits(c) \/ StopCloses(c) \/ StopReturns(c)
  BY <1>1, <1>5, <1>9 DEF Commit, StopCancels, StopWaits, StopCloses, StopReturns
<1> QED BY <1>4, <1>7, <1>8, <1>9 DEF Continues

TheJob(where) == [msg |-> loop.msg, gen |-> loop.gen, i |-> loop.i, pc |-> where]

LEMMA EvaluatesEffect ==
  ASSUME LoopEvaluates
  PROVE  /\ loop.pc = "rules" /\ loop' = [loop EXCEPT !.i = loop.i + 1]
         /\ loop.i \in DOMAIN Rules(loop.gen)
         /\ UNCHANGED <<driverVars, lifeVars, cancelled, sent, spy>>
         /\ \/ /\ ~MatchesRule(Rules(loop.gen)[loop.i], loop.msg)
               /\ UNCHANGED <<hits, workers, answered>>
            \/ /\ MatchesRule(Rules(loop.gen)[loop.i], loop.msg)
               /\ hits' = IF loop.gen = Len(gens)
                          THEN [hits EXCEPT ![loop.i] = hits[loop.i] + 1] ELSE hits
               /\ answered' = answered \cup {Answer(loop.msg, loop.gen, loop.i)}
               /\ \E where \in {"delay", "publish"} :
                     workers' \subseteq workers \cup {TheJob(where)}
<1>1. CASE Rules(loop.gen)[loop.i].delay
  BY <1>1 DEF LoopEvaluates, Answer, TheJob
<1>2. CASE ~Rules(loop.gen)[loop.i].delay
  BY <1>2 DEF LoopEvaluates, Answer, TheJob
<1> QED BY <1>1, <1>2

LEMMA TypeNext ==
  ASSUME LockInv, TypeInv, CallInv, LoopInv, PlaceInv, [Next]_vars
  PROVE  TypeInv'
<1> USE DEF TypeInv
<1>1. CASE UNCHANGED vars
  BY <1>1 DEF vars, driverVars, lifeVars
<1>2. ASSUME NEW c \in Callers, Calls(c) \/ Continues(c)
      PROVE  TypeInv'
  <2>1. call' \in [Callers -> Call]
    BY <1>2, CallTypeNext
  <2>2. consumers' \in Seq(ConsumerState)
    <3>1. ASSUME NEW q \in call[c].todo, ConsumeOK(q)
          PROVE  consumers' \in Seq(ConsumerState)
      <4>1. q \in Queues
        BY DEF Call
      <4>2. [queue |-> q, pc |-> "recv", msg |-> NoMsg] \in ConsumerState
        BY <4>1 DEF ConsumerState
      <4> QED BY <3>1, <4>2 DEF ConsumeOK
    <3> QED BY <1>2, <3>1, CallerFrame
  <2>3. gens' \in Seq(Configs) /\ Len(gens') > 0
    <3>1. Commit(c) => call[c].cfg \in Configs
      BY DEF Commit, CallInv, Attaching
    <3>2. CASE gens' = Append(gens, call[c].cfg) /\ Commit(c)
      BY <3>1, <3>2, AppendAt
    <3> QED BY <1>2, <3>2, CallerFrame
  <2>4. loop' \in LoopState /\ (loop'.pc = "rules" => loop'.gen # 0)
    BY <1>2, CallerFrame DEF IdleLoop, LoopState
  <2> QED BY <1>2, <2>1, <2>2, <2>3, <2>4, CallerFrame
<1>3. CASE LoopReceives
  <2>1. Head(msgChan) \in Message /\ Tail(msgChan) \in Seq(Message)
    BY <1>3, TailAt DEF LoopReceives
  <2> QED BY <1>3, <2>1 DEF LoopReceives, LoopState, lifeVars
<1>4. CASE LoopRecords \/ snapshotRules
  <2>1. /\ \/ loop' = IdleLoop("select") \/ loop' = [loop EXCEPT !.pc = "snapshot"]
           \/ loop' = [loop EXCEPT !.pc = "rules", !.gen = Len(gens), !.i = 1]
        /\ UNCHANGED <<brokerQ, msgChan, consumers, sent, workers, gens, answered,
                       call>>
    BY <1>4 DEF LoopRecords, snapshotRules, driverVars, lifeVars
  <2>2. Len(gens) \in Nat \ {0}
    OBVIOUS
  <2>3. CASE loop' = IdleLoop("select") \/ loop' = [loop EXCEPT !.pc = "snapshot"]
    BY <2>1, <2>3 DEF LoopState, IdleLoop
  <2>4. CASE loop' = [loop EXCEPT !.pc = "rules", !.gen = Len(gens), !.i = 1]
    <3>1. loop' \in LoopState /\ loop'.gen # 0
      BY <2>2, <2>4 DEF LoopState
    <3> QED BY <2>1, <3>1
  <2> QED BY <2>1, <2>3, <2>4
<1>5. CASE LoopHandled \/ LoopExits
  BY <1>5 DEF LoopHandled, LoopExits, IdleLoop, LoopState, driverVars, lifeVars
<1>6. CASE LoopEvaluates
  <2>1. loop' \in LoopState /\ loop'.pc = "rules" /\ loop'.gen # 0
    <3>1. loop' = [loop EXCEPT !.i = loop.i + 1] /\ loop.pc = "rules"
      BY <1>6, EvaluatesEffect
    <3>2. loop.i + 1 \in Nat
      BY DEF LoopState
    <3> QED BY <3>1, <3>2 DEF LoopState
  <2>2. CASE UNCHANGED <<workers, answered>>
    BY <1>6, <2>1, <2>2 DEF LoopEvaluates, driverVars, lifeVars
  <2>3. ASSUME NEW where \in {"delay", "publish"},
               workers' \subseteq workers \cup {TheJob(where)},
               answered' = answered \cup {Answer(loop.msg, loop.gen, loop.i)}
        PROVE  TypeInv'
    <3>1. loop.msg \in Message /\ loop.gen \in Nat \ {0} /\ loop.i \in Nat
      BY <1>6, EvaluatesEffect DEF LoopState, LoopInv
    <3>2. TheJob(where) \in Job
      BY <3>1 DEF TheJob, Job
    <3>3. Answer(loop.msg, loop.gen, loop.i) \in [msg : Message, gen : Nat \ {0}, i : Nat]
      BY <3>1 DEF Answer
    <3>4. workers' \subseteq Job
      BY <2>3, <3>2
    <3>5. answered' \subseteq [msg : Message, gen : Nat \ {0}, i : Nat]
      BY <2>3, <3>3
    <3> QED BY <1>6, <2>1, <3>4, <3>5, EvaluatesEffect DEF driverVars, lifeVars
  <2> QED BY <1>6, <2>2, <2>3, EvaluatesEffect
<1>7. ASSUME NEW w \in workers, Dispatch(w)
      PROVE  TypeInv'
  <2>1. w \in Job
    OBVIOUS
  <2>2. workers' \subseteq Job
    <3>1. \A where \in {"publish", "record"} : [w EXCEPT !.pc = where] \in Job
      BY <2>1 DEF Job
    <3> QED BY <1>7, <3>1 DEF Dispatch, DispatchDelay, DispatchPublish,
               DispatchRecord, Step, Leave
  <2>3. brokerQ' \in [Queues -> Seq(Message)]
    <3>1. CASE UNCHANGED brokerQ
      BY <3>1
    <3>2. CASE PublishOK(response(w), Rules(w.gen)[w.i].routes)
      <4>1. \A q \in Queues : [response(w) EXCEPT !.queue = q] \in Message
        BY <2>1 DEF response, Message, Job
      <4>2. \A q \in Queues : Append(brokerQ[q], [response(w) EXCEPT !.queue = q])
                               \in Seq(Message)
        BY <4>1
      <4> QED BY <3>2, <4>2 DEF PublishOK
    <3> QED BY <1>7, <3>1, <3>2 DEF Dispatch, DispatchDelay, DispatchPublish,
               DispatchRecord, PublishFails, driverVars
  <2>4. UNCHANGED <<msgChan, consumers, sent, loop, gens, answered, call>>
    BY <1>7 DEF Dispatch, DispatchDelay, DispatchPublish, DispatchRecord,
       PublishOK, PublishFails, dispatchVars, driverVars, lifeVars
  <2> QED BY <2>2, <2>3, <2>4
<1>8. ASSUME NEW i \in DOMAIN consumers, Consumer(i)
      PROVE  TypeInv'
  <2>0. consumers[i] \in ConsumerState
    OBVIOUS
  <2>1. UNCHANGED <<sent, loop, workers, gens, answered, call>>
    BY <1>8 DEF Consumer, lifeVars, workVars
  <2>2. ASSUME NEW x \in ConsumerState
        PROVE  [consumers EXCEPT ![i] = x] \in Seq(ConsumerState)
    OBVIOUS
  <2>3. CASE ConsumerReceives(i)
    <3> DEFINE q == consumers[i].queue
               x == [consumers[i] EXCEPT !.pc = "send", !.msg = Head(brokerQ[q])]
    <3>1. q \in Queues /\ brokerQ[q] # <<>> /\ brokerQ[q] \in Seq(Message)
      BY <2>0, <2>3 DEF ConsumerReceives, ConsumerState
    <3>2. Head(brokerQ[q]) \in Message /\ Tail(brokerQ[q]) \in Seq(Message)
      BY <3>1, TailAt
    <3>3. x \in ConsumerState
      BY <2>0, <3>2 DEF ConsumerState
    <3>4. consumers' = [consumers EXCEPT ![i] = x]
      BY <2>0, <2>3 DEF ConsumerReceives, ConsumerState
    <3>5. brokerQ' = [brokerQ EXCEPT ![q] = Tail(brokerQ[q])] /\ UNCHANGED msgChan
      BY <2>3 DEF ConsumerReceives
    <3> HIDE DEF x, q
    <3>6. consumers' \in Seq(ConsumerState) /\ brokerQ' \in [Queues -> Seq(Message)]
      BY <2>2, <3>2, <3>3, <3>4, <3>5
    <3> QED BY <2>1, <3>5, <3>6
  <2>4. CASE ConsumerSends(i) \/ ConsumerExits(i)
    <3> DEFINE x(where) == [consumers[i] EXCEPT !.pc = where, !.msg = NoMsg]
    <3>1. \A where \in {"recv", "exited"} : x(where) \in ConsumerState
      BY <2>0 DEF ConsumerState
    <3>2. \E where \in {"recv", "exited"} : consumers' = [consumers EXCEPT ![i] = x(where)]
      BY <2>0, <2>4 DEF ConsumerSends, ConsumerExits, ConsumerState
    <3>3. UNCHANGED brokerQ /\ msgChan' \in {msgChan, Append(msgChan, consumers[i].msg)}
      BY <2>4 DEF ConsumerSends, ConsumerExits
    <3>4. msgChan' # msgChan => consumers[i].msg \in Message
      BY <2>0, <2>4 DEF ConsumerSends, ConsumerExits, ConsumerState, PlaceInv
    <3> HIDE DEF x
    <3>5. consumers' \in Seq(ConsumerState)
      BY <2>2, <3>1, <3>2
    <3>6. msgChan' \in Seq(Message)
      <4>1. \A m \in Message : Append(msgChan, m) \in Seq(Message)
        OBVIOUS
      <4> QED BY <3>3, <3>4, <4>1
    <3> QED BY <2>1, <3>3, <3>5, <3>6
  <2> QED BY <1>8, <2>3, <2>4 DEF Consumer
<1>9. ASSUME NEW q \in Queues, NEW content \in Contents, NEW origin \in {"none", "peer"},
             OthersPublish(q, content, origin)
      PROVE  TypeInv'
  <2> DEFINE m == [id |-> Len(sent) + 1, queue |-> q, content |-> content,
                   origin |-> origin, by |-> <<0, 0>>]
  <2>1. m \in Message
    BY DEF Message
  <2>2. sent' = Append(sent, m) /\ brokerQ' = [brokerQ EXCEPT ![q] = Append(@, m)]
    BY <1>9 DEF OthersPublish
  <2> HIDE DEF m
  <2>3. sent' \in Seq(Message) /\ brokerQ' \in [Queues -> Seq(Message)]
    BY <2>1, <2>2
  <2> QED BY <1>9, <2>3 DEF OthersPublish, lifeVars
<1>10. CASE ConnectionLost
  BY <1>10 DEF ConnectionLost, LinkLost, lifeVars, workVars
<1> HIDE DEF TypeInv
<1> QED BY <1>1, <1>2, <1>3, <1>4, <1>5, <1>6, <1>7, <1>8, <1>9, <1>10
        DEF Next, LoopWorks
-----------------------------------------------------------------------------
(* Calls and subscriptions.                                                *)

LEMMA BackgroundLoop ==
  ASSUME TypeInv, Background
  PROVE  loop'.pc = "off" => loop.pc = "off"
<1>1. CASE LoopWorks \/ LoopExits
  <2>1. CASE loop' = IdleLoop("select") \/ loop' = IdleLoop("exited")
    BY <2>1 DEF IdleLoop
  <2>2. CASE LoopEvaluates
    BY <2>2 DEF LoopEvaluates
  <2>3. CASE LoopReceives \/ LoopRecords \/ snapshotRules
    BY <2>1, <2>3 DEF LoopReceives, LoopRecords, snapshotRules, TypeInv, LoopState
  <2> QED BY <1>1, <2>1, <2>2, <2>3 DEF LoopWorks, LoopHandled, LoopExits
<1>2. CASE ~(LoopWorks \/ LoopExits)
  <2>1. UNCHANGED loop
    BY <1>2 DEF Background, Dispatch, DispatchDelay, DispatchPublish,
       DispatchRecord, dispatchVars, Consumer, OthersPublish, ConnectionLost, workVars
  <2> QED BY <2>1
<1> QED BY <1>1, <1>2

LEMMA CallInit == Init => CallInv
  BY DEF Init, CallInv, Attaching

LEMMA CallNext ==
  ASSUME LockInv, TypeInv, CallInv, LoopInv, [Next]_vars
  PROVE  CallInv'
<1> USE DEF CallInv, LockInv, Attaching, Stopping
<1>1. CASE UNCHANGED vars
  BY <1>1 DEF vars, lifeVars
<1>2. CASE Background
  <2>1. UNCHANGED <<pc, call, running, stopped, failed, gens>>
    BY <1>2, BackgroundFrame DEF lifeVars
  <2> QED BY <1>2, <2>1, BackgroundLoop
<1>3. ASSUME NEW c \in Callers, Start(c)
      PROVE  CallInv'
  <2>1. UNCHANGED <<running, stopped, gens, failed, loop>>
    BY <1>3 DEF Start, workVars
  <2>2. CASE UNCHANGED <<pc, call>>
    BY <2>1, <2>2
  <2>3. CASE Begin(c, "start", gens[Len(gens)]) /\ ~running
    <3>1. call'[c].op = "start" /\ call'[c].cfg = gens[Len(gens)]
      BY <2>3 DEF Begin, NoCall, TypeInv
    <3>2. gens[Len(gens)] \in Configs
      BY DEF TypeInv
    <3>3. \A d \in Callers \ {c} : pc'[d] \notin Attaching
      BY <1>3, <2>3 DEF Start, Begin, Goto
    <3> QED BY <1>3, <2>1, <2>3, <3>1, <3>2, <3>3 DEF Start
  <2> QED BY <1>3, <2>2, <2>3 DEF Start
<1>4. ASSUME NEW c \in Callers, NEW cfg \in Configs, Reload(c, cfg)
      PROVE  CallInv'
  <2>1. UNCHANGED <<running, stopped, gens, failed, loop>>
    BY <1>4 DEF Reload, workVars
  <2>2. CASE UNCHANGED <<pc, call>>
    BY <2>1, <2>2
  <2>3. CASE Begin(c, "reload", cfg) /\ running
    <3>1. call'[c].op = "reload" /\ call'[c].cfg = cfg
      BY <2>3 DEF Begin, NoCall, TypeInv
    <3>2. \A d \in Callers \ {c} : pc'[d] \notin Attaching
      BY <1>4, <2>3 DEF Reload, Begin, Goto
    <3>3. running' /\ (running' => ~stopped' /\ loop'.pc # "off")
      BY <2>1, <2>3
    <3> QED BY <3>1, <3>2, <3>3
  <2> QED BY <1>4, <2>2, <2>3 DEF Reload
<1>5. ASSUME NEW c \in Callers, NEW ctx, Stop(c, ctx)
      PROVE  CallInv'
  BY <1>5 DEF Stop, Goto, workVars
<1>6. ASSUME NEW c \in Callers, DeclareTopology(c) \/ StartConsuming(c)
      PROVE  CallInv'
  <2>1. UNCHANGED <<running, stopped, gens, loop>>
    BY <1>6 DEF DeclareTopology, StartConsuming, workVars
  <2>2. /\ pc[c] \in Attaching
        /\ \/ Return(c)
           \/ \E where \in Attaching : \E t :
                 /\ pc' = [pc EXCEPT ![c] = where]
                 /\ call' = [call EXCEPT ![c].todo = t]
                 /\ UNCHANGED failed
    BY <1>6 DEF DeclareTopology, StartConsuming, ReturnError, Goto
  <2>3. \A d \in Callers : pc'[d] \in Attaching => d = c
    BY <2>2 DEF Return, Goto
  <2>4. CASE Return(c)
    BY <2>1, <2>3, <2>4 DEF Return, Goto
  <2>5. ASSUME NEW t, call' = [call EXCEPT ![c].todo = t], UNCHANGED failed
        PROVE  CallInv'
    <3>1. call'[c].op = call[c].op /\ call'[c].cfg = call[c].cfg
      BY <2>5 DEF TypeInv, Call
    <3> QED BY <2>1, <2>2, <2>3, <2>5, <3>1
  <2> QED BY <2>2, <2>4, <2>5
<1>8. ASSUME NEW c \in Callers, Commit(c)
      PROVE  CallInv'
  BY <1>8 DEF Commit, Return, Goto, IdleLoop
<1>9. ASSUME NEW c \in Callers, StopCancels(c) \/ StopWaits(c) \/ StopCloses(c)
      PROVE  CallInv'
  BY <1>9 DEF StopCancels, StopWaits, StopCloses, Goto, workVars
<1>10. ASSUME NEW c \in Callers, StopReturns(c)
       PROVE  CallInv'
  BY <1>10 DEF StopReturns, Return, Goto, workVars
<1> HIDE DEF CallInv
<1> QED
  BY <1>1, <1>2, <1>3, <1>4, <1>5, <1>6, <1>8, <1>9, <1>10
  DEF Next, Background, Calls, Continues

(* Who attaches a consumer: Start on a fresh engine, queue by queue, or    *)
(* Reload for a queue that has none.                                       *)
LEMMA SubscribeInit == Init => SubscribeInv
  BY DEF Init, ConnectedDriver, SubscribeInv

LEMMA SubscribeConsuming ==
  ASSUME LockInv, TypeInv, CallInv, SubscribeInv,
         NEW c \in Callers, StartConsuming(c)
  PROVE  SubscribeInv'
<1> USE DEF SubscribeInv, LockInv, Attaching
<1>1. PICK q \in call[c].todo :
        \/ /\ q \in subscribed /\ call[c].op = "reload"
           /\ call' = [call EXCEPT ![c].todo = @ \ {q}]
           /\ UNCHANGED <<driverVars, pc, failed, subscribed>>
        \/ /\ ~(q \in subscribed /\ call[c].op = "reload")
           /\ ConsumeOK(q)
           /\ call' = [call EXCEPT ![c].todo = @ \ {q}]
           /\ subscribed' = subscribed \cup {q}
           /\ UNCHANGED <<pc, failed>>
        \/ ConsumeFails /\ ReturnError(c) /\ UNCHANGED subscribed
  BY DEF StartConsuming
<1>2. pc[c] = "consume" /\ \A d \in Callers : pc[d] = "consume" => d = c
  BY DEF StartConsuming
<1>3. UNCHANGED <<running, stopped, gens>>
  BY DEF StartConsuming
<1>4. \/ call[c].op = "reload" /\ running
      \/ call[c].op = "start" /\ ~running
  BY <1>2 DEF CallInv
<1>5. ASSUME NEW t, call' = [call EXCEPT ![c].todo = t]
      PROVE  call'[c].op = call[c].op /\ call'[c].cfg = call[c].cfg /\ call'[c].todo = t
  BY <1>5 DEF TypeInv, Call
<1>6. CASE /\ q \in subscribed /\ call[c].op = "reload"
           /\ call' = [call EXCEPT ![c].todo = @ \ {q}]
           /\ UNCHANGED <<driverVars, pc, failed, subscribed>>
  BY <1>2, <1>3, <1>5, <1>6 DEF driverVars
<1>7. CASE /\ ~(q \in subscribed /\ call[c].op = "reload")
           /\ ConsumeOK(q)
           /\ call' = [call EXCEPT ![c].todo = @ \ {q}]
           /\ subscribed' = subscribed \cup {q}
           /\ UNCHANGED <<pc, failed>>
  <2>1. q \notin subscribed
    BY <1>2, <1>4, <1>7
  <2> DEFINE new == [queue |-> q, pc |-> "recv", msg |-> NoMsg]
             n == Len(consumers)
  <2>2. new.queue = q /\ new.pc = "recv" /\ new \in ConsumerState
    BY DEF TypeInv, Call, ConsumerState
  <2>3. consumers' = Append(consumers, new) /\ UNCHANGED <<conn, link>>
    BY <1>7 DEF ConsumeOK
  <2> HIDE DEF new
  <2>4. /\ n \in Nat /\ DOMAIN consumers = 1..n /\ DOMAIN consumers' = 1..(n + 1)
        /\ \A j \in DOMAIN consumers : consumers'[j] = consumers[j]
        /\ consumers'[n + 1] = new
    BY <2>2, <2>3, AppendAt DEF TypeInv
  <2> HIDE DEF n
  <2>5. \A j \in DOMAIN consumers' : j \in DOMAIN consumers \/ j = n + 1
    BY <2>4
  <2>6. /\ \A i \in DOMAIN consumers' : consumers'[i].queue \in subscribed'
        /\ \A i, j \in DOMAIN consumers' :
             consumers'[i].queue = consumers'[j].queue => i = j
        /\ \A p \in subscribed' : \E i \in DOMAIN consumers' : consumers'[i].queue = p
    BY <1>7, <2>1, <2>2, <2>4, <2>5
  <2>7. link' /\ conn' = "open" =>
          \A i \in DOMAIN consumers' : consumers'[i].pc # "exited"
    BY <2>2, <2>3, <2>4, <2>5
  <2>8. \E d \in Callers : pc'[d] = "consume"
    BY <1>2, <1>7
  <2>9. ASSUME NEW d \in Callers, pc'[d] = "consume"
        PROVE  /\ desiredQueues(call'[d].cfg) \subseteq subscribed' \cup call'[d].todo
               /\ call'[d].op = "start" => subscribed' \cap call'[d].todo = {}
    <3>1. d = c /\ pc[c] = "consume"
      BY <1>2, <1>7, <2>9
    <3>2. /\ call'[c].op = call[c].op /\ call'[c].cfg = call[c].cfg
          /\ call'[c].todo = call[c].todo \ {q}
      BY <1>5, <1>7
    <3> QED BY <1>7, <3>1, <3>2
  <2>10. running' => desiredQueues(gens'[Len(gens')]) \subseteq subscribed'
    BY <1>3, <1>7
  <2> QED BY <2>6, <2>7, <2>8, <2>9, <2>10
<1>8. CASE ConsumeFails /\ ReturnError(c) /\ UNCHANGED subscribed
  BY <1>2, <1>3, <1>4, <1>8 DEF ConsumeFails, ReturnError, Return, Goto
<1> QED BY <1>1, <1>6, <1>7, <1>8

LEMMA BackgroundConsumers ==
  Background => UNCHANGED consumers \/ \E i \in DOMAIN consumers : Consumer(i)
  BY DEF Background, LoopWorks, LoopReceives, LoopRecords, snapshotRules,
     LoopEvaluates, LoopHandled, LoopExits, Dispatch, DispatchDelay,
     DispatchPublish, DispatchRecord, PublishOK, PublishFails, OthersPublish,
     ConnectionLost, LinkLost, driverVars

LEMMA SubscribeNext ==
  ASSUME LockInv, TypeInv, CallInv, SubscribeInv, [Next]_vars
  PROVE  SubscribeInv'
<1> USE DEF SubscribeInv, LockInv, Attaching, Stopping
<1>1. CASE UNCHANGED vars
  BY <1>1 DEF vars, lifeVars, driverVars
<1>2. ASSUME NEW i \in DOMAIN consumers, Consumer(i)
      PROVE  SubscribeInv'
  <2>1. UNCHANGED <<conn, link, lifeVars>>
    BY <1>2 DEF Consumer, ConsumerReceives, ConsumerSends, ConsumerExits
  <2>2. /\ DOMAIN consumers' = DOMAIN consumers
        /\ \A j \in DOMAIN consumers :
             /\ consumers'[j].queue = consumers[j].queue
             /\ link /\ conn = "open" /\ consumers[j].pc # "exited" =>
                  consumers'[j].pc # "exited"
    <3>1. consumers[i] \in ConsumerState
      BY DEF TypeInv
    <3>2. /\ DOMAIN consumers' = DOMAIN consumers
          /\ \A j \in DOMAIN consumers \ {i} : consumers'[j] = consumers[j]
          /\ consumers'[i].queue = consumers[i].queue
      BY <1>2, <3>1 DEF Consumer, ConsumerReceives, ConsumerSends, ConsumerExits,
         ConsumerState
    <3>3. CASE ConsumerExits(i)
      BY <3>1, <3>2, <3>3 DEF ConsumerExits
    <3>4. CASE ConsumerReceives(i) \/ ConsumerSends(i)
      BY <3>1, <3>2, <3>4 DEF ConsumerReceives, ConsumerSends, ConsumerState
    <3> QED BY <1>2, <3>3, <3>4 DEF Consumer
  <2> QED BY <2>1, <2>2 DEF lifeVars
<1>3. CASE Background /\ UNCHANGED consumers
  <2>1. UNCHANGED <<conn, lifeVars>>
    BY <1>3, BackgroundFrame
  <2>2. link' => link
    BY <1>3 DEF Background, LoopWorks, LoopReceives, LoopRecords, snapshotRules,
       LoopEvaluates, LoopHandled, LoopExits, Dispatch, DispatchDelay,
       DispatchPublish, DispatchRecord, PublishOK, PublishFails, Consumer,
       ConsumerReceives, ConsumerSends, ConsumerExits, OthersPublish,
       ConnectionLost, LinkLost, driverVars
  <2> QED BY <1>3, <2>1, <2>2 DEF lifeVars
<1>4. ASSUME NEW c \in Callers, Start(c)
      PROVE  SubscribeInv'
  BY <1>4 DEF Start, Begin, Goto, driverVars
<1>5. ASSUME NEW c \in Callers, NEW cfg \in Configs, Reload(c, cfg)
      PROVE  SubscribeInv'
  BY <1>5 DEF Reload, Begin, Goto, driverVars
<1>6. ASSUME NEW c \in Callers, NEW ctx, Stop(c, ctx)
      PROVE  SubscribeInv'
  BY <1>6 DEF Stop, Goto, driverVars
<1>7. ASSUME NEW c \in Callers, DeclareTopology(c)
      PROVE  SubscribeInv'
  <2>1. /\ pc[c] = "declare"
        /\ UNCHANGED <<conn, consumers, subscribed, running, stopped, gens>>
    BY <1>7 DEF DeclareTopology, DeclareOK, DeclareFails, driverVars
  <2>0. \A d \in Callers : pc[d] # "consume"
    BY <2>1
  <2>4. link' => link
    BY <1>7 DEF DeclareTopology, DeclareOK, DeclareFails, driverVars
  <2>2. CASE ReturnError(c)
    BY <2>0, <2>1, <2>2, <2>4 DEF ReturnError, Return, Goto, CallInv
  <2>3. CASE /\ Goto(c, "consume") /\ UNCHANGED failed
             /\ call' = [call EXCEPT ![c].todo = desiredQueues(call[c].cfg)]
    <3>1. /\ call'[c].op = call[c].op /\ call'[c].cfg = call[c].cfg
          /\ call'[c].todo = desiredQueues(call[c].cfg)
      BY <2>3 DEF TypeInv, Call
    <3>2. call[c].op = "start" => subscribed = {}
      BY <2>0, <2>1 DEF CallInv
    <3> QED BY <2>0, <2>1, <2>3, <2>4, <3>1, <3>2 DEF Goto
  <2> QED BY <1>7, <2>2, <2>3 DEF DeclareTopology
<1>8. ASSUME NEW c \in Callers, Commit(c)
      PROVE  SubscribeInv'
  <2>1. /\ pc[c] = "consume" /\ call[c].todo = {}
        /\ \A d \in Callers : pc'[d] # "consume"
        /\ UNCHANGED <<conn, link, consumers, subscribed, stopped, failed>>
    BY <1>8 DEF Commit, Return, Goto, driverVars
  <2>2. desiredQueues(call[c].cfg) \subseteq subscribed
    BY <2>1
  <2>3. running' /\ gens'[Len(gens')] = call[c].cfg
    <3>1. CASE call[c].op = "start"
      BY <1>8, <2>1, <3>1 DEF Commit, CallInv
    <3>2. CASE call[c].op = "reload"
      <4>1. gens' = Append(gens, call[c].cfg) /\ UNCHANGED running
        BY <1>8, <3>2 DEF Commit
      <4>2. call[c].cfg \in Configs /\ running
        BY <2>1, <3>2 DEF CallInv
      <4> QED BY <4>1, <4>2, AppendAt DEF TypeInv
    <3> QED BY <1>8, <3>1, <3>2 DEF Commit
  <2> QED BY <2>1, <2>2, <2>3
<1>9. ASSUME NEW c \in Callers, StopCancels(c) \/ StopWaits(c) \/ StopCloses(c)
      PROVE  SubscribeInv'
  BY <1>9 DEF StopCancels, StopWaits, StopCloses, CloseBegins, Goto, driverVars
<1>10. ASSUME NEW c \in Callers, StopReturns(c)
       PROVE  SubscribeInv'
  BY <1>10 DEF StopReturns, CloseReturns, Return, Goto
<1>11. CASE Background
  BY <1>2, <1>3, <1>11, BackgroundConsumers
<1> HIDE DEF SubscribeInv
<1> QED
  BY <1>1, <1>4, <1>5, <1>6, <1>7, <1>8, <1>9, <1>10, <1>11, SubscribeConsuming
  DEF Next, Background, Calls, Continues

-----------------------------------------------------------------------------
(* The loop and the places of messages.                                    *)

LEMMA SpyGrows == [Next]_vars => spy \subseteq spy'
<1>1. CASE UNCHANGED vars
  BY <1>1 DEF vars
<1>2. ASSUME NEW c \in Callers, Calls(c) \/ Continues(c)
      PROVE  spy \subseteq spy'
  BY <1>2, CallerFrame
<1>3. CASE Background
  BY <1>3 DEF Background, LoopWorks, LoopReceives, LoopRecords, snapshotRules,
     LoopEvaluates, LoopHandled, LoopExits, Dispatch, DispatchDelay,
     DispatchPublish, DispatchRecord, Consumer, OthersPublish, ConnectionLost,
     workVars
<1> QED BY <1>1, <1>2, <1>3 DEF Next, Background

LEMMA LoopInit == Init => LoopInv
  BY DEF Init, LoopInv, IdleLoop

LEMMA LoopNext ==
  ASSUME LockInv, TypeInv, CallInv, LoopInv, [Next]_vars
  PROVE  LoopInv'
<1> USE DEF LoopInv, TypeInv, Recorded
<1>0. spy \subseteq spy'
  BY SpyGrows
<1>1. CASE UNCHANGED vars
  BY <1>1 DEF vars, lifeVars
<1>2. ASSUME NEW c \in Callers, Calls(c) \/ Continues(c)
      PROVE  LoopInv'
  <2>1. UNCHANGED <<spy, answered>>
    BY <1>2, CallerFrame
  <2>2. (cancelled => stopped)'
    BY <1>2 DEF Calls, Continues, Start, Reload, Stop, DeclareTopology,
       StartConsuming, Commit, StopCancels, StopWaits, StopCloses, StopReturns,
       workVars, LockInv, Stopping
  <2>3. CASE UNCHANGED loop
    <3>1. ~running' /\ ~stopped' => ~running /\ ~stopped
      BY <1>2 DEF Calls, Continues, Start, Reload, Stop, DeclareTopology,
         StartConsuming, Commit, StopCancels, StopWaits, StopCloses, StopReturns
    <3> QED BY <2>1, <2>2, <2>3, <3>1
  <2>4. CASE Commit(c) /\ call[c].op = "start" /\ loop' = IdleLoop("select")
    <3>1. running'
      BY <2>4 DEF Commit
    <3> QED BY <2>1, <2>2, <2>4, <3>1 DEF IdleLoop
  <2> QED BY <1>2, <2>3, <2>4, CallerFrame
<1>3. CASE LoopReceives
  <2>1. Head(msgChan) \in Message
    BY <1>3, TailAt DEF LoopReceives
  <2>2. Head(msgChan) # NoMsg
    BY <2>1, NoMsgNoMessage
  <2> QED BY <1>3, <2>2 DEF LoopReceives, LoopState, lifeVars
<1>4. CASE LoopRecords
  BY <1>4 DEF LoopRecords, IdleLoop, LoopState, lifeVars
<1>5. CASE snapshotRules
  BY <1>5 DEF snapshotRules, LoopState, lifeVars
<1>6. CASE LoopHandled \/ LoopExits
  BY <1>6 DEF LoopHandled, LoopExits, IdleLoop, lifeVars
<1>7. CASE LoopEvaluates
  <2>1. /\ loop.pc = "rules" /\ loop'.pc = "rules" /\ loop'.msg = loop.msg
        /\ UNCHANGED <<running, stopped, cancelled, spy>>
    BY <1>7, EvaluatesEffect DEF LoopState, lifeVars
  <2>2. answered' \subseteq answered \cup {Answer(loop.msg, loop.gen, loop.i)}
    BY <1>7, EvaluatesEffect
  <2> QED BY <2>1, <2>2 DEF Answer
<1>8. CASE Background /\ ~LoopWorks /\ ~LoopExits
  <2>1. UNCHANGED <<loop, cancelled, answered, running, stopped>>
    BY <1>8 DEF Background, Dispatch, DispatchDelay, DispatchPublish,
       DispatchRecord, dispatchVars, Consumer, OthersPublish, ConnectionLost,
       workVars, lifeVars
  <2> QED BY <1>0, <2>1
<1> HIDE DEF LoopInv
<1> QED BY <1>1, <1>2, <1>3, <1>4, <1>5, <1>6, <1>7, <1>8
        DEF Next, Background, LoopWorks

LEMMA PlaceInit == Init => PlaceInv
  BY DEF Init, ConnectedDriver, PlaceInv

(* What a consumer goroutine does to the places of messages. *)
OnlyConsumer(i, q, where, m) ==
  /\ DOMAIN consumers' = DOMAIN consumers
  /\ \A j \in DOMAIN consumers \ {i} : consumers'[j] = consumers[j]
  /\ consumers'[i].queue = q /\ consumers'[i].pc = where /\ consumers'[i].msg = m

LEMMA ReceivesEffect ==
  ASSUME TypeInv, PlaceInv, NEW i \in DOMAIN consumers, ConsumerReceives(i)
  PROVE  LET q == consumers[i].queue
             m == Head(brokerQ[q])
         IN  /\ q \in Queues /\ brokerQ[q] \in Seq(Message) /\ brokerQ[q] # <<>>
             /\ m \in Message /\ m # NoMsg /\ m.queue = q
             /\ consumers[i].pc = "recv" /\ consumers[i].msg = NoMsg
             /\ brokerQ' = [brokerQ EXCEPT ![q] = Tail(brokerQ[q])]
             /\ OnlyConsumer(i, q, "send", m)
             /\ UNCHANGED <<conn, msgChan>>
<1> DEFINE q == consumers[i].queue
           m == Head(brokerQ[q])
<1>1. consumers[i] \in ConsumerState
  BY DEF TypeInv
<1>2. q \in Queues /\ brokerQ[q] \in Seq(Message) /\ brokerQ[q] # <<>>
  BY <1>1 DEF ConsumerReceives, ConsumerState, TypeInv
<1>3. m \in Message /\ m = brokerQ[q][1] /\ 1 \in DOMAIN brokerQ[q]
  BY <1>2, TailAt
<1>4. m # NoMsg /\ m.queue = q
  BY <1>2, <1>3, NoMsgNoMessage DEF PlaceInv
<1>5. consumers[i].pc = "recv" /\ consumers[i].msg = NoMsg
  BY DEF ConsumerReceives, PlaceInv
<1>6. /\ brokerQ' = [brokerQ EXCEPT ![q] = Tail(brokerQ[q])]
      /\ UNCHANGED <<conn, msgChan>>
  BY DEF ConsumerReceives
<1>7. OnlyConsumer(i, q, "send", m)
  BY <1>1 DEF ConsumerReceives, ConsumerState, OnlyConsumer
<1> QED BY <1>2, <1>3, <1>4, <1>5, <1>6, <1>7

LEMMA SendsEffect ==
  ASSUME TypeInv, PlaceInv, NEW i \in DOMAIN consumers, ConsumerSends(i)
  PROVE  LET m == consumers[i].msg
         IN  /\ consumers[i].pc = "send" /\ m \in Message
             /\ msgChan' = Append(msgChan, m)
             /\ OnlyConsumer(i, consumers[i].queue, "recv", NoMsg)
             /\ UNCHANGED <<conn, brokerQ>>
<1>1. consumers[i] \in ConsumerState
  BY DEF TypeInv
<1>2. consumers[i].pc = "send" /\ consumers[i].msg \in Message
  BY <1>1 DEF ConsumerSends, PlaceInv, ConsumerState
<1>3. OnlyConsumer(i, consumers[i].queue, "recv", NoMsg)
  BY <1>1 DEF ConsumerSends, ConsumerState, OnlyConsumer
<1> QED BY <1>2, <1>3 DEF ConsumerSends

LEMMA ExitsEffect ==
  ASSUME TypeInv, PlaceInv, NEW i \in DOMAIN consumers, ConsumerExits(i)
  PROVE  /\ consumers[i].pc # "exited"
         /\ OnlyConsumer(i, consumers[i].queue, "exited", NoMsg)
         /\ conn # "open" \/ consumers[i].msg = NoMsg
         /\ UNCHANGED <<conn, brokerQ, msgChan>>
<1>1. consumers[i] \in ConsumerState
  BY DEF TypeInv
<1>2. OnlyConsumer(i, consumers[i].queue, "exited", NoMsg)
  BY <1>1 DEF ConsumerExits, ConsumerState, OnlyConsumer
<1> QED BY <1>2 DEF ConsumerExits, PlaceInv

LEMMA OthersEffect ==
  ASSUME TypeInv, NEW q \in Queues, NEW content \in Contents,
         NEW origin \in {"none", "peer"}, OthersPublish(q, content, origin)
  PROVE  \E m \in Message :
           /\ m.id = Len(sent) + 1 /\ m.queue = q /\ Outside(m)
           /\ sent' = Append(sent, m)
           /\ brokerQ' = [brokerQ EXCEPT ![q] = Append(@, m)]
           /\ UNCHANGED <<conn, consumers, msgChan, loop, spy, answered, hits, gens>>
<1> DEFINE m == [id |-> Len(sent) + 1, queue |-> q, content |-> content,
                 origin |-> origin, by |-> <<0, 0>>]
<1>1. m \in Message
  BY DEF Message, TypeInv
<1>2. m.id = Len(sent) + 1 /\ m.queue = q /\ Outside(m)
  BY DEF Outside
<1>3. /\ sent' = Append(sent, m)
      /\ brokerQ' = [brokerQ EXCEPT ![q] = Append(@, m)]
      /\ UNCHANGED <<conn, consumers, msgChan, loop, spy, answered, hits, gens>>
  BY DEF OthersPublish, lifeVars
<1> QED BY <1>1, <1>2, <1>3

(* Responses go to the end of queues, and are not from outside. *)
LEMMA DispatchEffect ==
  ASSUME TypeInv, NEW w \in workers, Dispatch(w)
  PROVE  /\ UNCHANGED <<conn, consumers, msgChan, sent, loop, answered, hits, gens>>
         /\ spy' = spy \/ spy' = spy \cup {Published(w)}
         /\ \A q \in Queues : \/ brokerQ'[q] = brokerQ[q]
                              \/ \E m \in Message :
                                    /\ ~Outside(m) /\ m.queue = q
                                    /\ brokerQ'[q] = Append(brokerQ[q], m)
<1>1. UNCHANGED <<conn, consumers, msgChan, sent, loop, answered, hits, gens>>
  BY DEF Dispatch, DispatchDelay, DispatchPublish, DispatchRecord, PublishOK,
     PublishFails, dispatchVars, driverVars, lifeVars
<1>2. spy' = spy \/ spy' = spy \cup {Published(w)}
  BY DEF Dispatch, DispatchDelay, DispatchPublish, DispatchRecord
<1>3. ASSUME NEW q \in Queues, brokerQ'[q] # brokerQ[q]
      PROVE  \E m \in Message : /\ ~Outside(m) /\ m.queue = q
                                /\ brokerQ'[q] = Append(brokerQ[q], m)
  <2> DEFINE m == [response(w) EXCEPT !.queue = q]
  <2>1. w.msg \in Message /\ w.gen \in Nat \ {0} /\ w.i \in Nat
    BY DEF TypeInv, Job
  <2>2. w.msg.id \in Nat
    BY <2>1 DEF Message
  <2>3. m \in Message /\ m.queue = q /\ m.by = <<w.gen, w.i>>
    BY <2>1, <2>2 DEF response, Message
  <2>4. ~Outside(m)
    BY <2>1, <2>3 DEF Outside
  <2>5. PublishOK(response(w), Rules(w.gen)[w.i].routes)
    BY <1>3 DEF Dispatch, DispatchDelay, DispatchPublish, DispatchRecord,
       PublishFails, driverVars
  <2>6. brokerQ'[q] = Append(brokerQ[q], m)
    BY <1>3, <2>5 DEF PublishOK
  <2> QED BY <2>3, <2>4, <2>6
<1> QED BY <1>1, <1>2, <1>3

(* The other steps of the background move no message between queues,       *)
(* consumers and channel.                                                  *)
LEMMA RestEffect ==
  ASSUME Background, ~LoopReceives, ~(\E w \in workers : Dispatch(w)),
         ~(\E i \in DOMAIN consumers : Consumer(i)),
         ~(\E q \in Queues, content \in Contents, origin \in {"none", "peer"} :
             OthersPublish(q, content, origin))
  PROVE  UNCHANGED <<conn, consumers, msgChan, brokerQ, sent>>
  BY DEF Background, LoopWorks, LoopRecords, snapshotRules, LoopEvaluates,
     LoopHandled, LoopExits, ConnectionLost, LinkLost, driverVars, workVars

LEMMA PlaceNext ==
  ASSUME LockInv, TypeInv, CallInv, PlaceInv, [Next]_vars
  PROVE  PlaceInv'
<1> USE DEF PlaceInv
<1>1. CASE UNCHANGED <<brokerQ, consumers, sent>>
  BY <1>1
<1>2. ASSUME NEW c \in Callers, Calls(c) \/ Continues(c)
      PROVE  PlaceInv'
  <2>1. UNCHANGED <<brokerQ, sent>>
    BY <1>2, CallerFrame
  <2>2. ASSUME NEW q, ConsumeOK(q), q \in Queues
        PROVE  PlaceInv'
    <3> DEFINE new == [queue |-> q, pc |-> "recv", msg |-> NoMsg]
    <3>1. new.pc = "recv" /\ new.msg = NoMsg /\ new \in ConsumerState
      BY <2>2 DEF ConsumerState
    <3>2. consumers' = Append(consumers, new)
      BY <2>2 DEF ConsumeOK
    <3> HIDE DEF new
    <3>3. \A j \in DOMAIN consumers' :
            \/ j \in DOMAIN consumers /\ consumers'[j] = consumers[j]
            \/ consumers'[j] = new
      BY <3>1, <3>2 DEF TypeInv
    <3> QED BY <2>1, <3>1, <3>3
  <2>3. call[c].todo \subseteq Queues
    BY DEF TypeInv, Call
  <2> QED BY <1>1, <1>2, <2>1, <2>2, <2>3, CallerFrame
<1>3. ASSUME NEW i \in DOMAIN consumers, ConsumerReceives(i)
      PROVE  /\ \A q \in Queues : \A a \in DOMAIN brokerQ'[q] : brokerQ'[q][a].queue = q
             /\ OnlyConsumer(i, consumers[i].queue, "send", consumers'[i].msg)
             /\ consumers'[i].msg.queue = consumers[i].queue /\ consumers'[i].msg # NoMsg
  <2> DEFINE q == consumers[i].queue
  <2>1. /\ q \in Queues /\ brokerQ[q] \in Seq(Message) /\ brokerQ[q] # <<>>
        /\ brokerQ' = [brokerQ EXCEPT ![q] = Tail(brokerQ[q])]
    BY <1>3, ReceivesEffect
  <2>2. \A a \in DOMAIN Tail(brokerQ[q]) :
           a + 1 \in DOMAIN brokerQ[q] /\ Tail(brokerQ[q])[a] = brokerQ[q][a + 1]
    BY <2>1
  <2>3. \A p \in Queues : \A a \in DOMAIN brokerQ'[p] : brokerQ'[p][a].queue = p
    BY <2>1, <2>2 DEF TypeInv
  <2> QED BY <1>3, <2>3, ReceivesEffect DEF OnlyConsumer
<1>4. ASSUME NEW i \in DOMAIN consumers, Consumer(i)
      PROVE  PlaceInv'
  <2>1. UNCHANGED sent
    BY <1>4 DEF Consumer, workVars
  <2>2. CASE ConsumerReceives(i)
    BY <1>3, <2>1, <2>2 DEF OnlyConsumer
  <2>3. CASE ConsumerSends(i)
    BY <2>1, <2>3, SendsEffect DEF OnlyConsumer
  <2>4. CASE ConsumerExits(i)
    BY <2>1, <2>4, ExitsEffect DEF OnlyConsumer
  <2> QED BY <1>4, <2>2, <2>3, <2>4 DEF Consumer
<1>5. ASSUME NEW q \in Queues, NEW content \in Contents, NEW origin \in {"none", "peer"},
             OthersPublish(q, content, origin)
      PROVE  PlaceInv'
  <2>1. PICK m \in Message :
           /\ m.id = Len(sent) + 1 /\ m.queue = q /\ Outside(m)
           /\ sent' = Append(sent, m)
           /\ brokerQ' = [brokerQ EXCEPT ![q] = Append(@, m)]
           /\ UNCHANGED consumers
    BY <1>5, OthersEffect
  <2>2. \A k \in DOMAIN sent' :
           \/ k \in DOMAIN sent /\ sent'[k] = sent[k]
           \/ k = Len(sent) + 1 /\ sent'[k] = m
    BY <2>1 DEF TypeInv
  <2>3. \A p \in Queues : \A a \in DOMAIN brokerQ'[p] :
           \/ a \in DOMAIN brokerQ[p] /\ brokerQ'[p][a] = brokerQ[p][a]
           \/ p = q /\ brokerQ'[p][a] = m
    <3> SUFFICES ASSUME NEW p \in Queues, NEW a \in DOMAIN brokerQ'[p]
                 PROVE  \/ a \in DOMAIN brokerQ[p] /\ brokerQ'[p][a] = brokerQ[p][a]
                        \/ p = q /\ brokerQ'[p][a] = m
      OBVIOUS
    <3>1. CASE p # q
      <4>1. brokerQ'[p] = brokerQ[p]
        BY <2>1, <3>1 DEF TypeInv
      <4> QED BY <4>1
    <3>2. CASE p = q
      <4>1. brokerQ'[p] = Append(brokerQ[p], m) /\ brokerQ[p] \in Seq(Message)
        BY <2>1, <3>2 DEF TypeInv
      <4> QED BY <3>2, <4>1
    <3> QED BY <3>1, <3>2
  <2> QED BY <2>1, <2>2, <2>3
<1>6. ASSUME NEW w \in workers, Dispatch(w)
      PROVE  PlaceInv'
  <2>1. UNCHANGED <<consumers, sent>>
    BY <1>6, DispatchEffect
  <2>2. ASSUME NEW q \in Queues
        PROVE  \A a \in DOMAIN brokerQ'[q] : brokerQ'[q][a].queue = q
    <3>1. brokerQ[q] \in Seq(Message)
      BY DEF TypeInv
    <3>2. ASSUME NEW m \in Message, m.queue = q, brokerQ'[q] = Append(brokerQ[q], m)
          PROVE  \A a \in DOMAIN brokerQ'[q] : brokerQ'[q][a].queue = q
      <4>1. \A a \in DOMAIN brokerQ'[q] :
               \/ a \in DOMAIN brokerQ[q] /\ brokerQ'[q][a] = brokerQ[q][a]
               \/ brokerQ'[q][a] = m
        BY <3>1, <3>2
      <4> QED BY <3>2, <4>1
    <3> QED BY <1>6, <3>2, DispatchEffect
  <2> QED BY <2>1, <2>2
<1>7. CASE LoopReceives
  BY <1>1, <1>7 DEF LoopReceives
<1> HIDE DEF PlaceInv
<1> QED BY <1>1, <1>2, <1>4, <1>5, <1>6, <1>7, RestEffect
        DEF Next, Background, vars, driverVars

(* What the way of the messages rests on. *)
BaseInv ==
  /\ Inv /\ TypeInv /\ CallInv
  /\ SubscribeInv /\ LoopInv /\ PlaceInv

LEMMA BaseNext == BaseInv /\ [Next]_vars => BaseInv'
  BY InvNext, TypeNext, CallNext, SubscribeNext, LoopNext, PlaceNext
  DEF BaseInv, Inv

LEMMA BaseAlways == SafetySpec => []BaseInv
<1>1. Init => BaseInv
  BY LockInit, QuietInit, TypeInit, CallInit, SubscribeInit, LoopInit, PlaceInit
  DEF BaseInv, Inv
<1> QED BY <1>1, BaseNext, PTL DEF SafetySpec

(* Start attaches to each queue once, Reload only to the queues that have  *)
(* no consumer yet, also after a Reload that failed half-way: every queue  *)
(* of the active configuration has one consumer, and no queue has two.     *)
THEOREM ConsumersUnique == SafetySpec => []OneConsumerPerQueue
<1>1. ASSUME BaseInv
      PROVE  OneConsumerPerQueue
  <2> DEFINE alive(q) == {i \in DOMAIN consumers : Consumes(i, q)}
  <2>1. ASSUME NEW q
        PROVE  alive(q) = {} \/ \E i : alive(q) = {i}
    <3>1. \A i, j \in alive(q) : i = j
      BY <1>1 DEF BaseInv, SubscribeInv, Consumes
    <3> HIDE DEF alive
    <3>2. ASSUME NEW i \in alive(q)
          PROVE  alive(q) = {i}
      BY <3>1
    <3> QED BY <3>2
  <2>2. ASSUME NEW q
        PROVE  /\ Cardinality(alive(q)) <= 1
               /\ alive(q) # {} => Cardinality(alive(q)) = 1
    <3> HIDE DEF alive
    <3> QED BY <2>1, FS_EmptySet, FS_Singleton
  <2>3. ASSUME running, link, NEW q \in desiredQueues(gens[Len(gens)])
        PROVE  alive(q) # {}
    <3>1. q \in subscribed /\ conn = "open"
      BY <1>1, <2>3 DEF BaseInv, Inv, LockInv, CallInv, SubscribeInv
    <3> QED BY <1>1, <2>3, <3>1 DEF BaseInv, SubscribeInv, Consumes
  <2> QED BY <2>2, <2>3 DEF OneConsumerPerQueue
<1> QED BY <1>1, BaseAlways, PTL

(* handleMessage drops every message that carries an origin header before  *)
(* it looks at the rules, and dispatch stamps every response with one:     *)
(* chitchat instances never answer themselves nor each other.              *)
THEOREM LoopsCut == SafetySpec => []NeverAnswersChitchat
<1>1. ASSUME BaseInv
      PROVE  NeverAnswersChitchat
  <2>1. \A a \in answered : a.msg \in Message /\ a.msg.origin = "none"
    BY <1>1 DEF BaseInv, TypeInv, LoopInv
  <2> QED BY <2>1 DEF NeverAnswersChitchat, Message
<1> QED BY <1>1, BaseAlways, PTL

-----------------------------------------------------------------------------
(* The flow of messages: where a message may be after each step.           *)

LEMMA HeldEffect ==
  ASSUME NEW i \in DOMAIN consumers, NEW q, NEW where, NEW m,
         OnlyConsumer(i, q, where, m), NEW x
  PROVE  /\ Held(x)' => Held(x) \/ x = m
         /\ Held(x) => Held(x)' \/ x = consumers[i].msg
         /\ Held(m)'
  BY DEF Held, OnlyConsumer

LEMMA UnbrokenEffect ==
  ASSUME NEW i \in DOMAIN consumers, NEW where, NEW m,
         OnlyConsumer(i, consumers[i].queue, where, m),
         consumers[i].pc # "exited", UNCHANGED conn, NEW p
  PROVE  Unbroken(p)' => Unbroken(p)
  BY DEF Unbroken, Consumes, OnlyConsumer

LEMMA ReceivesFlow ==
  ASSUME BaseInv, NEW i \in DOMAIN consumers, Consumer(i), ConsumerReceives(i),
         NEW m \in Message
  PROVE  LET m0 == Head(brokerQ[consumers[i].queue])
         IN  /\ UNCHANGED <<msgChan, loop, spy, sent>>
             /\ Unbroken(m.queue)' => Unbroken(m.queue)
             /\ Unbroken(m0.queue) /\ m0 \in Message
             /\ Held(m)' <=> Held(m) \/ m = m0
             /\ Queued(m) <=> Queued(m)' \/ m = m0
<1> DEFINE q == consumers[i].queue
           m0 == Head(brokerQ[q])
<1>1. /\ q \in Queues /\ brokerQ[q] \in Seq(Message) /\ brokerQ[q] # <<>>
      /\ m0 \in Message /\ m0 # NoMsg /\ m0.queue = q
      /\ consumers[i].pc = "recv" /\ consumers[i].msg = NoMsg
      /\ brokerQ' = [brokerQ EXCEPT ![q] = Tail(brokerQ[q])]
      /\ OnlyConsumer(i, q, "send", m0)
      /\ UNCHANGED <<conn, msgChan>>
  BY ReceivesEffect DEF BaseInv
<1>2. UNCHANGED <<loop, spy, sent>>
  BY DEF Consumer, workVars
<1>3. Unbroken(m.queue)' => Unbroken(m.queue)
  BY <1>1, UnbrokenEffect
<1>4. Unbroken(m0.queue)
  BY <1>1 DEF Unbroken, Consumes
<1>5. Held(m)' <=> Held(m) \/ m = m0
  BY <1>1, HeldEffect, NoMsgNoMessage DEF Held, OnlyConsumer
<1>6. Queued(m) <=> Queued(m)' \/ m = m0
  <2>1. m.queue \in Queues
    BY DEF Message
  <2>2. CASE m.queue = q
    BY <1>1, <2>1, <2>2, InTail DEF Queued, BaseInv, TypeInv
  <2>3. CASE m.queue # q
    BY <1>1, <2>1, <2>3 DEF Queued, BaseInv, TypeInv
  <2> QED BY <2>2, <2>3
<1> QED BY <1>1, <1>2, <1>3, <1>4, <1>5, <1>6

LEMMA SendsFlow ==
  ASSUME BaseInv, NEW i \in DOMAIN consumers, Consumer(i), ConsumerSends(i),
         NEW m \in Message
  PROVE  LET m0 == consumers[i].msg
         IN  /\ UNCHANGED <<brokerQ, loop, spy, sent>>
             /\ Unbroken(m.queue)' => Unbroken(m.queue)
             /\ m0 \in Message /\ Held(m0) /\ msgChan' = Append(msgChan, m0)
             /\ Held(m)' => Held(m) /\ m # m0
             /\ Held(m) => Held(m)' \/ m = m0
             /\ InSeq(m, msgChan') <=> InSeq(m, msgChan) \/ m = m0
<1> DEFINE m0 == consumers[i].msg
<1>1. /\ consumers[i].pc = "send" /\ m0 \in Message
      /\ msgChan' = Append(msgChan, m0)
      /\ OnlyConsumer(i, consumers[i].queue, "recv", NoMsg)
      /\ UNCHANGED <<conn, brokerQ>>
  BY SendsEffect DEF BaseInv
<1>2. UNCHANGED <<loop, spy, sent>>
  BY DEF Consumer, workVars
<1>3. Unbroken(m.queue)' => Unbroken(m.queue)
  BY <1>1, UnbrokenEffect
<1>4. Held(m0)
  BY DEF Held
<1>5. Held(m)' => Held(m) /\ m # m0
  <2>1. ASSUME NEW j \in DOMAIN consumers \ {i}, consumers[j].msg = m0
        PROVE  FALSE
    <3>1. consumers[j].pc = "send" /\ m0 # NoMsg
      BY <1>1, <2>1, NoMsgNoMessage DEF BaseInv, PlaceInv
    <3>2. consumers[j].queue = m0.queue /\ consumers[i].queue = m0.queue
      BY <1>1, <2>1, <3>1 DEF BaseInv, PlaceInv
    <3> QED BY <2>1, <3>2 DEF BaseInv, SubscribeInv
  <2> QED BY <1>1, <2>1, NoMsgNoMessage DEF Held, OnlyConsumer
<1>6. Held(m) => Held(m)' \/ m = m0
  BY <1>1, HeldEffect
<1>7. InSeq(m, msgChan') <=> InSeq(m, msgChan) \/ m = m0
  BY <1>1, InAppend DEF BaseInv, TypeInv
<1> QED BY <1>1, <1>2, <1>3, <1>4, <1>5, <1>6, <1>7

LEMMA ExitsFlow ==
  ASSUME BaseInv, NEW i \in DOMAIN consumers, Consumer(i), ConsumerExits(i),
         NEW m \in Message
  PROVE  /\ UNCHANGED <<brokerQ, msgChan, loop, spy, sent>>
         /\ Unbroken(m.queue)' => Unbroken(m.queue)
         /\ Held(m)' => Held(m)
         /\ Held(m) /\ Unbroken(m.queue)' => Held(m)'
<1>1. /\ consumers[i].pc # "exited"
      /\ OnlyConsumer(i, consumers[i].queue, "exited", NoMsg)
      /\ conn # "open" \/ consumers[i].msg = NoMsg
      /\ UNCHANGED <<conn, brokerQ, msgChan>>
  BY ExitsEffect DEF BaseInv
<1>2. UNCHANGED <<loop, spy, sent>>
  BY DEF Consumer, workVars
<1>3. Unbroken(m.queue)' => Unbroken(m.queue)
  BY <1>1, UnbrokenEffect
<1>4. Held(m)' => Held(m)
  BY <1>1, HeldEffect, NoMsgNoMessage
<1>5. ASSUME Held(m), ~Held(m)'
      PROVE  ~Unbroken(m.queue)'
  <2>1. consumers[i].msg = m /\ m # NoMsg
    BY <1>1, <1>5, HeldEffect, NoMsgNoMessage
  <2>2. consumers[i].queue = m.queue /\ conn # "open"
    BY <1>1, <2>1 DEF BaseInv, PlaceInv
  <2>3. \A j \in DOMAIN consumers \ {i} : consumers[j].queue # m.queue
    BY <2>2 DEF BaseInv, SubscribeInv
  <2> QED BY <1>1, <2>2, <2>3 DEF Unbroken, Consumes, OnlyConsumer
<1> QED BY <1>1, <1>2, <1>3, <1>4, <1>5

LEMMA LoopReceivesFlow ==
  ASSUME BaseInv, LoopReceives, NEW m
  PROVE  LET m0 == Head(msgChan)
         IN  /\ UNCHANGED <<brokerQ, consumers, conn, spy, sent>>
             /\ loop.msg = NoMsg /\ loop'.msg = m0 /\ loop'.pc = "record"
             /\ m0 \in Message /\ msgChan # <<>> /\ msgChan' = Tail(msgChan)
             /\ InSeq(m, msgChan) <=> InSeq(m, msgChan') \/ m = m0
<1>1. /\ UNCHANGED <<brokerQ, consumers, conn, spy, sent>>
      /\ msgChan # <<>> /\ msgChan' = Tail(msgChan)
  BY DEF LoopReceives
<1>2. Head(msgChan) \in Message
  BY <1>1, TailAt DEF BaseInv, TypeInv
<1>3. InSeq(m, msgChan) <=> InSeq(m, msgChan') \/ m = Head(msgChan)
  BY <1>1, InTail DEF BaseInv, TypeInv
<1>4. loop.msg = NoMsg
  BY DEF LoopReceives, BaseInv, LoopInv
<1>5. loop'.msg = Head(msgChan) /\ loop'.pc = "record"
  BY DEF LoopReceives, BaseInv, TypeInv, LoopState
<1> QED BY <1>1, <1>2, <1>3, <1>4, <1>5

LEMMA LoopRecordsFlow ==
  ASSUME BaseInv, LoopRecords, NEW m \in Message
  PROVE  /\ UNCHANGED <<brokerQ, msgChan, consumers, conn, sent>>
         /\ loop.pc = "record" /\ loop'.pc # "record"
         /\ Recorded(m)' <=> Recorded(m) \/ m = loop.msg
         /\ loop'.msg = NoMsg \/ loop'.msg = loop.msg
<1>1. UNCHANGED <<brokerQ, msgChan, consumers, conn, sent>> /\ loop.pc = "record"
  BY DEF LoopRecords, driverVars
<1>2. Recorded(m)' <=> Recorded(m) \/ m = loop.msg
  BY DEF LoopRecords, Recorded, Received
<1>3. loop'.pc # "record" /\ (loop'.msg = NoMsg \/ loop'.msg = loop.msg)
  BY DEF LoopRecords, IdleLoop, BaseInv, TypeInv, LoopState
<1> QED BY <1>1, <1>2, <1>3

LEMMA OthersFlow ==
  ASSUME BaseInv, NEW q \in Queues, NEW content \in Contents,
         NEW origin \in {"none", "peer"}, OthersPublish(q, content, origin)
  PROVE  \E m0 \in Message :
           /\ m0.id = Len(sent) + 1 /\ m0.queue = q /\ Outside(m0)
           /\ sent' = Append(sent, m0)
           /\ brokerQ' = [brokerQ EXCEPT ![q] = Append(@, m0)]
           /\ UNCHANGED <<conn, consumers, msgChan, loop, spy>>
           /\ \A m \in Message : Queued(m)' <=> Queued(m) \/ m = m0
<1>1. PICK m0 \in Message :
         /\ m0.id = Len(sent) + 1 /\ m0.queue = q /\ Outside(m0)
         /\ sent' = Append(sent, m0)
         /\ brokerQ' = [brokerQ EXCEPT ![q] = Append(@, m0)]
         /\ UNCHANGED <<conn, consumers, msgChan, loop, spy>>
  BY OthersEffect DEF BaseInv
<1>2. ASSUME NEW m \in Message
      PROVE  Queued(m)' <=> Queued(m) \/ m = m0
  <2>1. m.queue \in Queues
    BY DEF Message
  <2>2. CASE m.queue = q
    BY <1>1, <2>1, <2>2, InAppend DEF Queued, BaseInv, TypeInv
  <2>3. CASE m.queue # q
    BY <1>1, <2>1, <2>3 DEF Queued, BaseInv, TypeInv
  <2> QED BY <2>2, <2>3
<1> QED BY <1>1, <1>2

LEMMA DispatchFlow ==
  ASSUME BaseInv, NEW w \in workers, Dispatch(w), NEW m \in Message
  PROVE  /\ UNCHANGED <<conn, consumers, msgChan, loop, sent>>
         /\ Recorded(m)' <=> Recorded(m)
         /\ Queued(m) => Queued(m)'
         /\ Outside(m) /\ Queued(m)' => Queued(m)
<1>1. /\ UNCHANGED <<conn, consumers, msgChan, loop, sent>>
      /\ spy' = spy \/ spy' = spy \cup {Published(w)}
  BY DispatchEffect DEF BaseInv
<1>2. Received(m) # Published(w)
  <2>1. Received(m).direction = "received" /\ Published(w).direction = "published"
    BY DEF Received, Published
  <2> QED BY <2>1
<1>3. Recorded(m)' <=> Recorded(m)
  BY <1>1, <1>2 DEF Recorded
<1>4. m.queue \in Queues /\ brokerQ[m.queue] \in Seq(Message)
  BY DEF Message, BaseInv, TypeInv
<1>5. \/ brokerQ'[m.queue] = brokerQ[m.queue]
      \/ \E r \in Message : ~Outside(r) /\ brokerQ'[m.queue] = Append(brokerQ[m.queue], r)
  BY <1>4, DispatchEffect DEF BaseInv
<1>6. ASSUME NEW r \in Message, ~Outside(r), brokerQ'[m.queue] = Append(brokerQ[m.queue], r)
      PROVE  Queued(m)' <=> Queued(m) \/ m = r
  BY <1>4, <1>6, InAppend DEF Queued
<1>7. brokerQ'[m.queue] = brokerQ[m.queue] => (Queued(m)' <=> Queued(m))
  BY DEF Queued
<1> QED BY <1>1, <1>3, <1>5, <1>6, <1>7

(* Whatever else happens moves no message. *)
Moves ==
  \/ LoopReceives \/ LoopRecords
  \/ \E w \in workers : Dispatch(w)
  \/ \E i \in DOMAIN consumers : Consumer(i)
  \/ \E q \in Queues, content \in Contents, origin \in {"none", "peer"} :
        OthersPublish(q, content, origin)

LEMMA RestFlow ==
  ASSUME BaseInv, [Next]_vars, ~Moves, NEW m \in Message
  PROVE  /\ UNCHANGED <<brokerQ, msgChan, spy, sent>>
         /\ Unbroken(m.queue)' => Unbroken(m.queue)
         /\ Held(m)' <=> Held(m)
         /\ loop'.msg = m => loop.msg = m
         /\ loop.msg = m => loop'.msg = m \/ Recorded(m)
         /\ loop'.pc = "record" => loop.pc = "record"
<1> USE DEF BaseInv
<1>1. CASE UNCHANGED vars
  BY <1>1 DEF vars, driverVars, lifeVars, Unbroken, Consumes, Held
<1>2. CASE Background
  <2>1. UNCHANGED <<conn, consumers, msgChan, brokerQ, sent>>
    BY <1>2, RestEffect DEF Moves
  <2>2. Unbroken(m.queue)' => Unbroken(m.queue)
    BY <2>1 DEF Unbroken, Consumes
  <2>3. Held(m)' <=> Held(m)
    BY <2>1 DEF Held
  <2>4. \/ snapshotRules \/ LoopEvaluates \/ LoopHandled \/ LoopExits
        \/ ConnectionLost
    BY <1>2 DEF Background, LoopWorks, Moves
  <2>5. UNCHANGED spy
    BY <2>4 DEF snapshotRules, LoopEvaluates, LoopHandled, LoopExits,
       ConnectionLost, workVars
  <2>6. /\ \/ loop'.msg = loop.msg
           \/ loop'.msg = NoMsg /\ loop.pc \in {"rules", "select"}
        /\ loop'.pc = "record" => loop.pc = "record"
    <3>1. loop \in LoopState
      BY DEF TypeInv
    <3>2. CASE snapshotRules
      BY <3>1, <3>2 DEF snapshotRules, LoopState
    <3>3. CASE LoopEvaluates
      BY <3>1, <3>3, EvaluatesEffect DEF LoopState
    <3>4. CASE LoopHandled \/ LoopExits
      BY <3>4 DEF LoopHandled, LoopExits, IdleLoop
    <3>5. CASE ConnectionLost
      BY <3>5 DEF ConnectionLost, workVars
    <3> QED BY <2>4, <3>2, <3>3, <3>4, <3>5
  <2>8. m # NoMsg
    BY NoMsgNoMessage
  <2> QED BY <2>1, <2>2, <2>3, <2>5, <2>6, <2>8 DEF LoopInv
<1>3. ASSUME NEW c \in Callers, Calls(c) \/ Continues(c)
      PROVE  /\ UNCHANGED <<brokerQ, msgChan, spy, sent>>
             /\ Unbroken(m.queue)' => Unbroken(m.queue)
             /\ Held(m)' <=> Held(m)
             /\ UNCHANGED loop \/ (loop.msg = NoMsg /\ loop' = IdleLoop("select"))
  <2>1. UNCHANGED <<brokerQ, msgChan, spy, sent>>
    BY <1>3, CallerFrame
  <2>2. conn' = "open" => conn = "open"
    BY <1>3 DEF Calls, Continues, Start, Reload, Stop, DeclareTopology,
       StartConsuming, Commit, StopCancels, StopWaits, StopCloses, StopReturns,
       DeclareOK, DeclareFails, ConsumeOK, ConsumeFails, CloseBegins,
       CloseReturns, driverVars
  <2>5. UNCHANGED loop \/ (loop.msg = NoMsg /\ loop' = IdleLoop("select"))
    <3>1. Commit(c) /\ call[c].op = "start" => ~running /\ ~stopped
      BY DEF Commit, CallInv, Inv, LockInv, Attaching
    <3> QED BY <1>3, <3>1, CallerFrame DEF LoopInv
  <2>3. CASE UNCHANGED consumers
    <3>1. Held(m)' <=> Held(m)
      BY <2>3 DEF Held
    <3>2. Unbroken(m.queue)' => Unbroken(m.queue)
      BY <2>2, <2>3 DEF Unbroken, Consumes
    <3> QED BY <1>3, <2>1, <2>5, <3>1, <3>2
  <2>4. ASSUME NEW q \in call[c].todo, ConsumeOK(q)
        PROVE  Unbroken(m.queue) /\ (Held(m)' <=> Held(m))
    <3> DEFINE new == [queue |-> q, pc |-> "recv", msg |-> NoMsg]
    <3>1. new \in ConsumerState /\ new.msg = NoMsg
      BY DEF ConsumerState, TypeInv, Call
    <3>2. consumers' = Append(consumers, new) /\ conn = "open"
      BY <2>4 DEF ConsumeOK
    <3> HIDE DEF new
    <3>3. /\ \A j \in DOMAIN consumers :
               j \in DOMAIN consumers' /\ consumers'[j] = consumers[j]
          /\ \A j \in DOMAIN consumers' : j \in DOMAIN consumers \/ consumers'[j] = new
      BY <3>1, <3>2 DEF TypeInv
    <3> QED BY <3>1, <3>2, <3>3, NoMsgNoMessage DEF Unbroken, Held
  <2> QED BY <1>3, <2>1, <2>3, <2>4, <2>5, CallerFrame
<1> QED BY <1>1, <1>2, <1>3, NoMsgNoMessage DEF Next, Background, IdleLoop

(* The kinds of steps, for case distinctions. *)
LEMMA StepKinds ==
  ASSUME [Next]_vars
  PROVE  \/ ~Moves \/ LoopReceives \/ LoopRecords
         \/ \E w \in workers : Dispatch(w)
         \/ \E i \in DOMAIN consumers :
              Consumer(i) /\ (ConsumerReceives(i) \/ ConsumerSends(i) \/ ConsumerExits(i))
         \/ \E q \in Queues, content \in Contents, origin \in {"none", "peer"} :
              OthersPublish(q, content, origin)
  BY DEF Moves, Consumer

LEMMA PassedStep ==
  ASSUME BaseInv, [Next]_vars, NEW m \in Message
  PROVE  /\ Recorded(m) => Recorded(m)'
         /\ Taken(m) => Taken(m)'
         /\ Passed(m) => Passed(m)'
<1> USE DEF Passed, Taken
<1>0. Recorded(m) => Recorded(m)'
  BY SpyGrows DEF Recorded
<1>1. CASE ~Moves
  BY <1>0, <1>1, RestFlow
<1>2. CASE LoopReceives
  <2>1. m # NoMsg
    BY NoMsgNoMessage
  <2> QED BY <1>0, <1>2, <2>1, LoopReceivesFlow
<1>3. CASE LoopRecords
  BY <1>0, <1>3, LoopRecordsFlow
<1>4. ASSUME NEW w \in workers, Dispatch(w)
      PROVE  (Taken(m) => Taken(m)') /\ (Passed(m) => Passed(m)')
  BY <1>0, <1>4, DispatchFlow
<1>5. ASSUME NEW i \in DOMAIN consumers, Consumer(i)
      PROVE  (Taken(m) => Taken(m)') /\ (Passed(m) => Passed(m)')
  <2>1. CASE ConsumerReceives(i)
    BY <1>0, <1>5, <2>1, ReceivesFlow
  <2>2. CASE ConsumerSends(i)
    BY <1>0, <1>5, <2>2, SendsFlow
  <2>3. CASE ConsumerExits(i)
    BY <1>0, <1>5, <2>3, ExitsFlow
  <2> QED BY <1>5, <2>1, <2>2, <2>3 DEF Consumer
<1>6. ASSUME NEW q \in Queues, NEW content \in Contents, NEW origin \in {"none", "peer"},
             OthersPublish(q, content, origin)
      PROVE  (Taken(m) => Taken(m)') /\ (Passed(m) => Passed(m)')
  BY <1>0, <1>6, OthersFlow
<1> HIDE DEF Passed, Taken
<1> QED BY <1>0, <1>1, <1>2, <1>3, <1>4, <1>5, <1>6, StepKinds

(* A message stays in sight as long as its queue is unbroken. *)
LEMMA KeptStep ==
  ASSUME BaseInv, [Next]_vars, NEW m \in Message, Kept(m)
  PROVE  Kept(m)'
<1> USE DEF Kept
<1>0. Passed(m) => Passed(m)'
  BY PassedStep
<1>1. CASE ~Moves
  BY <1>0, <1>1, RestFlow DEF Queued
<1>2. CASE LoopReceives \/ LoopRecords
  <2>1. UNCHANGED <<brokerQ, consumers, conn>>
    BY <1>2 DEF LoopReceives, LoopRecords, driverVars
  <2> QED BY <1>0, <2>1 DEF Unbroken, Consumes, Held, Queued
<1>3. ASSUME NEW w \in workers, Dispatch(w)
      PROVE  Kept(m)'
  <2>1. UNCHANGED <<conn, consumers>> /\ (Queued(m) => Queued(m)')
    BY <1>3, DispatchFlow
  <2> QED BY <1>0, <2>1 DEF Unbroken, Consumes, Held
<1>4. ASSUME NEW i \in DOMAIN consumers, Consumer(i)
      PROVE  Kept(m)'
  <2>1. CASE ConsumerReceives(i)
    BY <1>0, <1>4, <2>1, ReceivesFlow
  <2>2. CASE ConsumerSends(i)
    BY <1>0, <1>4, <2>2, SendsFlow DEF Passed, Queued
  <2>3. CASE ConsumerExits(i)
    BY <1>0, <1>4, <2>3, ExitsFlow DEF Queued
  <2> QED BY <1>4, <2>1, <2>2, <2>3 DEF Consumer
<1>5. ASSUME NEW q \in Queues, NEW content \in Contents, NEW origin \in {"none", "peer"},
             OthersPublish(q, content, origin)
      PROVE  Kept(m)'
  <2>1. UNCHANGED <<conn, consumers>> /\ (Queued(m) => Queued(m)')
    BY <1>5, OthersFlow
  <2> QED BY <1>0, <2>1 DEF Unbroken, Consumes, Held
<1> HIDE DEF Kept
<1> QED BY <1>1, <1>2, <1>3, <1>4, <1>5, StepKinds

LEMMA SentStep ==
  ASSUME BaseInv, [Next]_vars
  PROVE  \/ UNCHANGED sent
         \/ \E q \in Queues, content \in Contents, origin \in {"none", "peer"} :
              OthersPublish(q, content, origin)
<1>1. CASE UNCHANGED vars
  BY <1>1 DEF vars
<1>2. ASSUME NEW c \in Callers, Calls(c) \/ Continues(c)
      PROVE  UNCHANGED sent
  BY <1>2, CallerFrame
<1>3. CASE Background
  BY <1>3 DEF Background, LoopWorks, LoopReceives, LoopRecords, snapshotRules,
     LoopEvaluates, LoopHandled, LoopExits, Dispatch, DispatchDelay,
     DispatchPublish, DispatchRecord, dispatchVars, Consumer, ConnectionLost, workVars
<1> QED BY <1>1, <1>2, <1>3 DEF Next, Background

(* What other programs have yet to send is nowhere. *)
LEMMA FreshNext ==
  ASSUME BaseInv, FreshInv, [Next]_vars
  PROVE  FreshInv'
<1> SUFFICES ASSUME NEW m \in Message, Outside(m), m.id > Len(sent')
             PROVE  ~Passed(m)' /\ ~Held(m)' /\ ~Queued(m)'
  BY DEF FreshInv
<1> USE DEF Passed, Taken
<1>0. m.id \in Nat /\ Len(sent) \in Nat
  BY DEF Message, BaseInv, TypeInv
<1>1. ASSUME m.id > Len(sent)
      PROVE  ~Recorded(m) /\ loop.msg # m /\ ~InSeq(m, msgChan) /\ ~Held(m) /\ ~Queued(m)
  BY <1>1 DEF FreshInv
<1>2. CASE UNCHANGED sent
  <2>0. ~Recorded(m) /\ loop.msg # m /\ ~InSeq(m, msgChan) /\ ~Held(m) /\ ~Queued(m)
    BY <1>1, <1>2
  <2>1. CASE ~Moves
    BY <2>0, <2>1, RestFlow DEF Queued, Recorded
  <2>2. CASE LoopReceives
    BY <2>0, <2>2, LoopReceivesFlow DEF Queued, Held, Recorded
  <2>3. CASE LoopRecords
    <3>1. m # NoMsg
      BY NoMsgNoMessage
    <3> QED BY <2>0, <2>3, <3>1, LoopRecordsFlow DEF Queued, Held
  <2>4. ASSUME NEW w \in workers, Dispatch(w)
        PROVE  ~Passed(m)' /\ ~Held(m)' /\ ~Queued(m)'
    BY <2>0, <2>4, DispatchFlow DEF Held
  <2>5. ASSUME NEW i \in DOMAIN consumers, Consumer(i)
        PROVE  ~Passed(m)' /\ ~Held(m)' /\ ~Queued(m)'
    <3>1. CASE ConsumerReceives(i)
      BY <2>0, <2>5, <3>1, ReceivesFlow DEF Recorded
    <3>2. CASE ConsumerSends(i)
      BY <2>0, <2>5, <3>2, SendsFlow DEF Queued, Recorded
    <3>3. CASE ConsumerExits(i)
      BY <2>0, <2>5, <3>3, ExitsFlow DEF Queued, Recorded
    <3> QED BY <2>5, <3>1, <3>2, <3>3 DEF Consumer
  <2>6. ASSUME NEW q \in Queues, NEW content \in Contents, NEW origin \in {"none", "peer"},
               OthersPublish(q, content, origin)
        PROVE  FALSE
    <3>1. PICK m0 \in Message : sent' = Append(sent, m0)
      BY <2>6, OthersFlow
    <3>2. Len(sent') = Len(sent) + 1
      BY <3>1 DEF BaseInv, TypeInv
    <3> QED BY <1>0, <1>2, <3>2
  <2> QED BY <2>1, <2>2, <2>3, <2>4, <2>5, <2>6, StepKinds
<1>3. ASSUME NEW q \in Queues, NEW content \in Contents, NEW origin \in {"none", "peer"},
             OthersPublish(q, content, origin)
      PROVE  ~Passed(m)' /\ ~Held(m)' /\ ~Queued(m)'
  <2>1. PICK m0 \in Message :
           /\ m0.id = Len(sent) + 1 /\ sent' = Append(sent, m0)
           /\ UNCHANGED <<consumers, msgChan, loop, spy>>
           /\ Queued(m)' <=> Queued(m) \/ m = m0
    BY <1>3, OthersFlow
  <2>2. Len(sent') = Len(sent) + 1
    BY <2>1 DEF BaseInv, TypeInv
  <2>3. m.id > Len(sent) /\ m # m0
    BY <1>0, <2>1, <2>2
  <2> QED BY <1>1, <2>1, <2>3 DEF Held, Recorded
<1> QED BY <1>2, <1>3, SentStep

LEMMA KeptNext ==
  ASSUME BaseInv, KeptInv, [Next]_vars
  PROVE  KeptInv'
<1>1. ASSUME NEW k \in DOMAIN sent, NEW m, m = sent[k]
      PROVE  m \in Message /\ Kept(m)'
  BY <1>1, KeptStep DEF KeptInv, BaseInv, TypeInv
<1>2. ASSUME NEW k \in DOMAIN sent', NEW m, m = sent'[k]
      PROVE  Kept(m)'
  <2>1. CASE UNCHANGED sent
    BY <1>1, <1>2, <2>1
  <2>2. ASSUME NEW q \in Queues, NEW content \in Contents,
               NEW origin \in {"none", "peer"}, OthersPublish(q, content, origin)
        PROVE  Kept(m)'
    <3>1. PICK m0 \in Message : sent' = Append(sent, m0) /\ Queued(m0)'
      BY <2>2, OthersFlow
    <3>2. (k \in DOMAIN sent /\ sent'[k] = sent[k]) \/ sent'[k] = m0
      BY <3>1 DEF BaseInv, TypeInv
    <3>3. CASE m = m0
      BY <3>1, <3>3 DEF Kept
    <3> QED BY <1>1, <1>2, <3>2, <3>3
  <2> QED BY <2>1, <2>2, SentStep
<1>3. \A k \in DOMAIN sent' : Kept(sent[k])'
  BY <1>2
<1> QED BY <1>3 DEF KeptInv

LEMMA NothingAheadOfHead ==
  ASSUME NEW s, NEW x, NEW y, SeqAhead(x, y, s), 1 \in DOMAIN s
  PROVE  s[1] # y
  BY DEF SeqAhead

(* A message never overtakes one that is ahead of it: the loop takes the   *)
(* channel from its head, and a queue has one consumer.                    *)
LEMMA AheadStep ==
  ASSUME BaseInv, [Next]_vars, NEW x \in Message, NEW y \in Message,
         x.queue = y.queue, Outside(y), y.id <= Len(sent), Ahead(x, y)
  PROVE  Ahead(x, y)'
<1>0. /\ Recorded(x) => Recorded(x)'
      /\ Taken(x) => Taken(x)'
      /\ Passed(x) => Passed(x)'
  BY PassedStep
<1>1. y.queue \in Queues /\ brokerQ[y.queue] \in Seq(Message) /\ msgChan \in Seq(Message)
  BY DEF Message, BaseInv, TypeInv
<1>2. x # NoMsg /\ y # NoMsg
  BY NoMsgNoMessage
<1>3. CASE ~Moves
  BY <1>0, <1>3, RestFlow DEF Ahead, Taken, Recorded
<1>4. CASE LoopReceives
  <2> DEFINE m0 == Head(msgChan)
  <2>1. /\ UNCHANGED <<brokerQ, consumers, conn, spy>>
        /\ loop.msg = NoMsg /\ loop'.msg = m0
        /\ msgChan # <<>> /\ msgChan' = Tail(msgChan)
        /\ m0 = msgChan[1] /\ 1 \in DOMAIN msgChan
    BY <1>1, <1>4, LoopReceivesFlow, TailAt
  <2>2. Taken(y)' => Recorded(x)'
    <3>1. CASE m0 = y
      BY <1>0, <1>2, <2>1, <3>1, NothingAheadOfHead DEF Ahead, Taken
    <3>2. CASE m0 # y
      BY <1>0, <2>1, <3>2 DEF Ahead, Taken, Recorded
    <3> QED BY <3>1, <3>2
  <2>3. Taken(x)' \/ SeqAhead(x, y, msgChan')
    BY <1>0, <1>1, <2>1, AheadTail DEF Ahead, Taken
  <2>4. UNCHANGED <<Held(y), Held(x), Unbroken(y.queue)>>
    BY <2>1 DEF Held, Unbroken, Consumes
  <2> QED BY <1>0, <2>1, <2>2, <2>3, <2>4 DEF Ahead
<1>5. CASE LoopRecords
  <2>1. /\ UNCHANGED <<brokerQ, msgChan, consumers, conn>>
        /\ Recorded(y)' <=> Recorded(y) \/ y = loop.msg
        /\ loop'.msg = NoMsg \/ loop'.msg = loop.msg
    BY <1>5, LoopRecordsFlow
  <2>2. Taken(y)' => Taken(y)
    BY <1>2, <2>1 DEF Taken
  <2>3. UNCHANGED <<Held(y), Held(x), Unbroken(y.queue)>>
    BY <2>1 DEF Held, Unbroken, Consumes
  <2> QED BY <1>0, <2>1, <2>2, <2>3 DEF Ahead
<1>6. ASSUME NEW w \in workers, Dispatch(w)
      PROVE  Ahead(x, y)'
  <2>1. /\ UNCHANGED <<conn, consumers, msgChan, loop>>
        /\ Recorded(y)' <=> Recorded(y)
    BY <1>6, DispatchFlow
  <2>2. SeqAhead(x, y, brokerQ[y.queue]) => SeqAhead(x, y, brokerQ'[y.queue])
    <3>1. ASSUME NEW r \in Message, ~Outside(r),
                 brokerQ'[y.queue] = Append(brokerQ[y.queue], r),
                 SeqAhead(x, y, brokerQ[y.queue])
          PROVE  SeqAhead(x, y, brokerQ'[y.queue])
      <4>1. r # y
        BY <3>1
      <4> QED BY <1>1, <3>1, <4>1, AheadAppend
    <3> QED BY <1>1, <1>6, <3>1, DispatchEffect DEF BaseInv
  <2>3. UNCHANGED <<Held(y), Held(x), Unbroken(y.queue)>>
    BY <2>1 DEF Held, Unbroken, Consumes
  <2> QED BY <1>0, <2>1, <2>2, <2>3 DEF Ahead, Taken
<1>7. ASSUME NEW i \in DOMAIN consumers, Consumer(i), ConsumerReceives(i)
      PROVE  Ahead(x, y)'
  <2> DEFINE q == consumers[i].queue
             m0 == Head(brokerQ[q])
  <2>1. /\ q \in Queues /\ brokerQ[q] \in Seq(Message) /\ brokerQ[q] # <<>>
        /\ m0.queue = q /\ m0 = brokerQ[q][1] /\ 1 \in DOMAIN brokerQ[q]
        /\ consumers[i].msg = NoMsg
        /\ brokerQ' = [brokerQ EXCEPT ![q] = Tail(brokerQ[q])]
    BY <1>7, ReceivesEffect, TailAt DEF BaseInv
  <2>2. /\ UNCHANGED <<msgChan, loop, spy>>
        /\ Unbroken(y.queue)' => Unbroken(y.queue)
        /\ Unbroken(q)
        /\ Held(y)' <=> Held(y) \/ y = m0
        /\ Held(x)' <=> Held(x) \/ x = m0
    BY <1>7, <2>1, ReceivesFlow
  <2>3. y = m0 => ~Held(x)
    <3>1. SUFFICES ASSUME y = m0, NEW j \in DOMAIN consumers, consumers[j].msg = x
                   PROVE  FALSE
      BY DEF Held
    <3>2. consumers[j].queue = q
      BY <1>2, <2>1, <3>1 DEF BaseInv, PlaceInv
    <3> QED BY <1>2, <1>7, <2>1, <3>1, <3>2 DEF BaseInv, SubscribeInv
  <2>4. y = m0 => Passed(x)
    BY <2>1, <2>2, <2>3, NothingAheadOfHead DEF Ahead
  <2>5. SeqAhead(x, y, brokerQ[y.queue]) =>
           Held(x)' \/ SeqAhead(x, y, brokerQ'[y.queue])
    <3>1. CASE y.queue = q
      BY <1>1, <2>1, <2>2, <3>1, AheadTail DEF BaseInv, TypeInv
    <3>2. CASE y.queue # q
      BY <1>1, <2>1, <3>2 DEF BaseInv, TypeInv
    <3> QED BY <3>1, <3>2
  <2> QED BY <1>0, <2>2, <2>4, <2>5 DEF Ahead, Taken, Recorded
<1>8. ASSUME NEW i \in DOMAIN consumers, Consumer(i), ConsumerSends(i)
      PROVE  Ahead(x, y)'
  <2> DEFINE m0 == consumers[i].msg
  <2>1. /\ UNCHANGED <<brokerQ, loop, spy>>
        /\ Unbroken(y.queue)' => Unbroken(y.queue)
        /\ m0 \in Message /\ Held(m0) /\ msgChan' = Append(msgChan, m0)
        /\ Held(y)' => Held(y)
        /\ Held(x) => Held(x)' \/ x = m0
        /\ x = m0 => InSeq(x, msgChan')
    BY <1>8, SendsFlow
  <2>2. Taken(x) \/ SeqAhead(x, y, msgChan')
    <3>1. m0 = y => Taken(x) \/ InSeq(x, msgChan)
      BY <2>1 DEF Ahead, Passed
    <3> QED BY <1>1, <2>1, <3>1, AheadAppend DEF Ahead
  <2>3. UNCHANGED <<Taken(x), Taken(y), Recorded(x)>>
    BY <2>1 DEF Taken, Recorded
  <2>4. Held(x) => Held(x)' \/ Passed(x)'
    BY <2>1 DEF Passed
  <2> QED BY <1>0, <2>1, <2>2, <2>3, <2>4 DEF Ahead
<1>9. ASSUME NEW i \in DOMAIN consumers, Consumer(i), ConsumerExits(i)
      PROVE  Ahead(x, y)'
  BY <1>0, <1>9, ExitsFlow DEF Ahead, Taken, Recorded
<1>10. ASSUME NEW q \in Queues, NEW content \in Contents, NEW origin \in {"none", "peer"},
              OthersPublish(q, content, origin)
       PROVE  Ahead(x, y)'
  <2>1. PICK m0 \in Message :
          /\ m0.id = Len(sent) + 1 /\ m0.queue = q
          /\ brokerQ' = [brokerQ EXCEPT ![q] = Append(@, m0)]
          /\ UNCHANGED <<conn, consumers, msgChan, loop, spy>>
    BY <1>10, OthersFlow
  <2>2. m0 # y
    <3>1. y.id \in Nat /\ Len(sent) \in Nat
      BY DEF Message, BaseInv, TypeInv
    <3> QED BY <2>1, <3>1
  <2>3. SeqAhead(x, y, brokerQ[y.queue]) => SeqAhead(x, y, brokerQ'[y.queue])
    <3>1. CASE y.queue = q
      BY <1>1, <2>1, <2>2, <3>1, AheadAppend DEF BaseInv, TypeInv
    <3>2. CASE y.queue # q
      BY <1>1, <2>1, <3>2 DEF BaseInv, TypeInv
    <3> QED BY <3>1, <3>2
  <2>4. UNCHANGED <<Held(x), Held(y), Unbroken(y.queue), Taken(x), Taken(y), Recorded(x)>>
    BY <2>1 DEF Held, Unbroken, Consumes, Taken, Recorded
  <2> QED BY <1>0, <2>1, <2>3, <2>4 DEF Ahead
<1> QED BY <1>3, <1>4, <1>5, <1>6, <1>7, <1>8, <1>9, <1>10, StepKinds

LEMMA NotInSeqAhead ==
  ASSUME NEW s, NEW x, NEW y, ~InSeq(y, s)
  PROVE  SeqAhead(x, y, s)
  BY DEF SeqAhead, InSeq

(* A message that is published comes after all those of its queue. *)
LEMMA PublishedLast ==
  ASSUME BaseInv, FreshInv, NEW q \in Queues, NEW content \in Contents,
         NEW origin \in {"none", "peer"}, OthersPublish(q, content, origin),
         NEW x \in Message, x.queue = q, Kept(x),
         NEW y \in Message, y.queue = q, Outside(y), y.id = Len(sent) + 1,
         brokerQ' = [brokerQ EXCEPT ![q] = Append(@, y)]
  PROVE  Ahead(x, y)'
<1>1. UNCHANGED <<conn, consumers, msgChan, loop, spy>>
  BY OthersFlow
<1>2. ~Passed(y) /\ ~Held(y) /\ ~Queued(y)
  <2>1. y.id > Len(sent)
    BY DEF BaseInv, TypeInv
  <2> QED BY <2>1 DEF FreshInv
<1>3. /\ UNCHANGED <<Held(x), Held(y), Unbroken(y.queue), Passed(x), Passed(y)>>
      /\ Passed(y)' <=> Taken(y)' \/ InSeq(y, msgChan)
  BY <1>1 DEF Held, Unbroken, Consumes, Passed, Taken, Recorded
<1>4. SeqAhead(x, y, msgChan')
  BY <1>1, <1>2, NotInSeqAhead DEF Passed
<1>5. Queued(x) => SeqAhead(x, y, brokerQ'[q])
  <2>1. brokerQ[q] \in Seq(Message) /\ brokerQ'[q] = Append(brokerQ[q], y)
    BY DEF BaseInv, TypeInv
  <2>2. SeqAhead(x, y, brokerQ[q])
    BY <1>2, NotInSeqAhead DEF Queued
  <2> QED BY <2>1, <2>2, AheadAppend DEF Queued
<1> QED BY <1>2, <1>3, <1>4, <1>5 DEF Ahead, Kept

LEMMA OrderNext ==
  ASSUME BaseInv, FreshInv, KeptInv, OrderInv, [Next]_vars
  PROVE  OrderInv'
<1>0. sent \in Seq(Message) /\ Len(sent) \in Nat /\ DOMAIN sent = 1..Len(sent)
  BY DEF BaseInv, TypeInv
<1>1. ASSUME NEW k \in DOMAIN sent, NEW j \in 1..(k - 1), NEW x, NEW y,
             x = sent[j], y = sent[k], x.queue = y.queue
      PROVE  Ahead(x, y)'
  <2>1. j \in DOMAIN sent /\ x \in Message /\ y \in Message
    BY <1>0, <1>1
  <2>2. Outside(y) /\ y.id <= Len(sent)
    BY <1>0, <1>1 DEF BaseInv, PlaceInv
  <2>3. Ahead(x, y)
    BY <1>1 DEF OrderInv
  <2> QED BY <1>1, <2>1, <2>2, <2>3, AheadStep
<1>2. ASSUME NEW k \in DOMAIN sent', NEW j \in 1..(k - 1), NEW x, NEW y,
             x = sent'[j], y = sent'[k], x.queue = y.queue
      PROVE  Ahead(x, y)'
  <2>1. CASE UNCHANGED sent
    BY <1>1, <1>2, <2>1
  <2>2. ASSUME NEW q \in Queues, NEW content \in Contents,
               NEW origin \in {"none", "peer"}, OthersPublish(q, content, origin)
        PROVE  Ahead(x, y)'
    <3>1. PICK m0 \in Message :
            /\ m0.id = Len(sent) + 1 /\ m0.queue = q /\ Outside(m0)
            /\ sent' = Append(sent, m0)
            /\ brokerQ' = [brokerQ EXCEPT ![q] = Append(@, m0)]
      BY <2>2, OthersFlow
    <3>2. /\ k \in 1..(Len(sent) + 1) /\ j \in DOMAIN sent /\ x = sent[j]
          /\ (k \in DOMAIN sent /\ y = sent[k]) \/ y = m0
      BY <1>0, <1>2, <3>1
    <3>3. CASE y = m0
      <4>1. x \in Message /\ Kept(x)
        BY <1>0, <3>2 DEF KeptInv
      <4> QED BY <1>2, <2>2, <3>1, <3>3, <4>1, PublishedLast
    <3> QED BY <1>1, <1>2, <3>2, <3>3
  <2> QED BY <2>1, <2>2, SentStep
<1>3. \A k \in DOMAIN sent' : \A j \in 1..(k - 1) :
        sent'[j].queue = sent'[k].queue => Ahead(sent[j], sent[k])'
  BY <1>2
<1> QED BY <1>3 DEF OrderInv

PipeInv == BaseInv /\ FreshInv /\ KeptInv /\ OrderInv

LEMMA PipeNext == PipeInv /\ [Next]_vars => PipeInv'
  BY BaseNext, FreshNext, KeptNext, OrderNext DEF PipeInv

LEMMA NothingYet ==
  ASSUME Init, NEW m \in Message
  PROVE  ~Passed(m) /\ ~Held(m) /\ ~Queued(m) /\ loop.msg # m /\ ~Recorded(m)
<1>1. m # NoMsg /\ m.queue \in Queues
  BY NoMsgNoMessage DEF Message
<1>2. /\ spy = {} /\ msgChan = <<>> /\ consumers = <<>> /\ loop.msg = NoMsg
      /\ brokerQ[m.queue] = <<>>
  BY <1>1 DEF Init, ConnectedDriver, IdleLoop
<1> QED BY <1>1, <1>2 DEF Passed, Taken, Held, Queued, Recorded, InSeq

LEMMA PipeAlways == SafetySpec => []PipeInv
<1>1. ASSUME Init
      PROVE  PipeInv
  <2>1. BaseInv
    BY <1>1, LockInit, QuietInit, TypeInit, CallInit, SubscribeInit, LoopInit,
       PlaceInit DEF BaseInv, Inv
  <2>2. FreshInv
    BY <1>1, NothingYet DEF FreshInv
  <2>3. sent = <<>>
    BY <1>1 DEF Init
  <2> QED BY <2>1, <2>2, <2>3 DEF PipeInv, KeptInv, OrderInv
<1> QED BY <1>1, PipeNext, PTL DEF SafetySpec

(* While the engine is not stopped every message that other programs       *)
(* published is in its queue, in the hands of a consumer, in the channel,  *)
(* in the hands of the loop or in the spy: consumers that meet a full      *)
(* channel wait, and none exits with a message before Close.               *)
THEOREM MessagesKept == SafetySpec => []NoMessageLost
<1>1. ASSUME PipeInv
      PROVE  NoMessageLost
  <2>1. ASSUME ~stopped, NEW k \in DOMAIN sent, NEW m, m = sent[k]
        PROVE  \/ Recorded(m) \/ loop.msg = m \/ InSeq(m, msgChan)
               \/ InSeq(m, brokerQ[m.queue])
               \/ \E i \in DOMAIN consumers : consumers[i].msg = m
    <3>1. Kept(m)
      BY <1>1, <2>1 DEF PipeInv, KeptInv
    <3>2. Unbroken(m.queue)
      BY <1>1, <2>1 DEF PipeInv, BaseInv, Inv, LockInv, Unbroken
    <3> QED BY <3>1, <3>2 DEF Kept, Passed, Taken, Held, Queued
  <2> QED BY <2>1 DEF NoMessageLost
<1> QED BY <1>1, PipeAlways, PTL

(* One consumer per queue, a channel and a single loop: the spy records    *)
(* the messages of one queue in the order the queue got them, whatever     *)
(* the interleaving with other queues, reloads and a connection that       *)
(* breaks.                                                                 *)
THEOREM QueueOrderKept == SafetySpec => []RecordedInOrder
<1>1. ASSUME PipeInv
      PROVE  RecordedInOrder
  <2>1. ASSUME NEW k \in DOMAIN sent, NEW j \in 1..(k - 1),
               sent[j].queue = sent[k].queue, Recorded(sent[k])
        PROVE  Recorded(sent[j])
    BY <1>1, <2>1 DEF PipeInv, OrderInv, Ahead, Taken
  <2> QED BY <2>1 DEF RecordedInOrder
<1> QED BY <1>1, PipeAlways, PTL

-----------------------------------------------------------------------------
(* A message from outside is handled once.                                 *)

LEMMA DistinctAppend ==
  ASSUME NEW S, NEW s \in Seq(S), NEW e \in S, Distinct(s),
         Outside(e) => ~InSeq(e, s)
  PROVE  Distinct(Append(s, e))
<1> DEFINE t == Append(s, e)
<1>1. /\ Len(s) \in Nat /\ DOMAIN s = 1..Len(s) /\ DOMAIN t = 1..(Len(s) + 1)
      /\ (\A j \in DOMAIN s : t[j] = s[j]) /\ t[Len(s) + 1] = e
  BY AppendAt
<1> HIDE DEF t
<1>2. \A a \in DOMAIN t : a \in DOMAIN s \/ a = Len(s) + 1
  BY <1>1
<1>3. \A a \in DOMAIN s : Outside(e) => s[a] # e
  BY DEF InSeq
<1>4. Distinct(t)
  BY <1>1, <1>2, <1>3 DEF Distinct
<1> QED BY <1>4 DEF t

LEMMA DistinctTail ==
  ASSUME NEW S, NEW s \in Seq(S), s # <<>>, Distinct(s)
  PROVE  Distinct(Tail(s)) /\ (Outside(Head(s)) => ~InSeq(Head(s), Tail(s)))
<1> DEFINE t == Tail(s)
<1>1. /\ Len(s) \in Nat \ {0} /\ DOMAIN s = 1..Len(s)
      /\ DOMAIN t = 1..(Len(s) - 1) /\ Head(s) = s[1]
      /\ \A j \in DOMAIN t : t[j] = s[j + 1]
  BY TailAt
<1> HIDE DEF t
<1>2. \A a \in DOMAIN t : a + 1 \in DOMAIN s /\ a + 1 # 1 /\ t[a] = s[a + 1]
  BY <1>1
<1>3. \A a, b \in DOMAIN t : a + 1 = b + 1 => a = b
  BY <1>1
<1>4. 1 \in DOMAIN s
  BY <1>1
<1>5. Distinct(t)
  BY <1>2, <1>3 DEF Distinct
<1>6. Outside(Head(s)) => ~InSeq(Head(s), t)
  BY <1>1, <1>2, <1>4 DEF Distinct, InSeq
<1> QED BY <1>5, <1>6 DEF t

LEMMA DistinctNext ==
  ASSUME BaseInv, FreshInv, OnceInv, [Next]_vars
  PROVE  (\A q \in Queues : Distinct(brokerQ[q])') /\ Distinct(msgChan)'
<1>0. msgChan \in Seq(Message) /\ \A q \in Queues : brokerQ[q] \in Seq(Message)
  BY DEF BaseInv, TypeInv
<1>1. CASE UNCHANGED <<brokerQ, msgChan>>
  BY <1>1 DEF OnceInv
<1>2. CASE LoopReceives
  <2>1. msgChan # <<>> /\ msgChan' = Tail(msgChan) /\ UNCHANGED brokerQ
    BY <1>2, LoopReceivesFlow
  <2> QED BY <1>0, <2>1, DistinctTail DEF OnceInv
<1>3. ASSUME NEW w \in workers, Dispatch(w)
      PROVE  (\A q \in Queues : Distinct(brokerQ[q])') /\ Distinct(msgChan)'
  <2>1. UNCHANGED msgChan
    BY <1>3, DispatchEffect DEF BaseInv
  <2>2. ASSUME NEW q \in Queues
        PROVE  Distinct(brokerQ'[q])
    <3>1. ASSUME NEW r \in Message, ~Outside(r), brokerQ'[q] = Append(brokerQ[q], r)
          PROVE  Distinct(brokerQ'[q])
      BY <1>0, <3>1, DistinctAppend DEF OnceInv
    <3> QED BY <1>3, <3>1, DispatchEffect DEF BaseInv, OnceInv
  <2> QED BY <2>1, <2>2 DEF OnceInv
<1>4. ASSUME NEW i \in DOMAIN consumers, ConsumerReceives(i)
      PROVE  (\A q \in Queues : Distinct(brokerQ[q])') /\ Distinct(msgChan)'
  <2> DEFINE q == consumers[i].queue
  <2>1. /\ q \in Queues /\ brokerQ[q] # <<>> /\ UNCHANGED msgChan
        /\ brokerQ' = [brokerQ EXCEPT ![q] = Tail(brokerQ[q])]
    BY <1>4, ReceivesEffect DEF BaseInv
  <2>2. Distinct(Tail(brokerQ[q]))
    BY <1>0, <2>1, DistinctTail DEF OnceInv
  <2>3. \A p \in Queues :
           brokerQ'[p] = brokerQ[p] \/ brokerQ'[p] = Tail(brokerQ[q])
    BY <2>1 DEF BaseInv, TypeInv
  <2> QED BY <2>1, <2>2, <2>3 DEF OnceInv
<1>5. ASSUME NEW i \in DOMAIN consumers, Consumer(i), ConsumerSends(i)
      PROVE  (\A q \in Queues : Distinct(brokerQ[q])') /\ Distinct(msgChan)'
  <2> DEFINE m0 == consumers[i].msg
  <2>1. /\ m0 \in Message /\ Held(m0) /\ msgChan' = Append(msgChan, m0)
        /\ UNCHANGED brokerQ
    BY <1>5, SendsFlow, SendsEffect DEF BaseInv
  <2>2. Outside(m0) => ~InSeq(m0, msgChan)
    BY <2>1 DEF OnceInv, InOnePlace, Passed
  <2> QED BY <1>0, <2>1, <2>2, DistinctAppend DEF OnceInv
<1>6. ASSUME NEW i \in DOMAIN consumers, ConsumerExits(i)
      PROVE  UNCHANGED <<brokerQ, msgChan>>
  BY <1>6, ExitsEffect DEF BaseInv
<1>7. ASSUME NEW q \in Queues, NEW content \in Contents, NEW origin \in {"none", "peer"},
             OthersPublish(q, content, origin)
      PROVE  (\A p \in Queues : Distinct(brokerQ[p])') /\ Distinct(msgChan)'
  <2>1. PICK m0 \in Message :
          /\ m0.id = Len(sent) + 1 /\ m0.queue = q /\ Outside(m0)
          /\ brokerQ' = [brokerQ EXCEPT ![q] = Append(@, m0)]
          /\ UNCHANGED msgChan
    BY <1>7, OthersFlow
  <2>2. ~InSeq(m0, brokerQ[q])
    <3>1. m0.id > Len(sent)
      BY <2>1 DEF BaseInv, TypeInv
    <3> QED BY <2>1, <3>1 DEF FreshInv, Queued
  <2>3. Distinct(Append(brokerQ[q], m0))
    BY <1>0, <2>2, DistinctAppend DEF OnceInv
  <2>4. \A p \in Queues :
           brokerQ'[p] = brokerQ[p] \/ brokerQ'[p] = Append(brokerQ[q], m0)
    BY <2>1 DEF BaseInv, TypeInv
  <2> QED BY <2>1, <2>3, <2>4 DEF OnceInv
<1>8. CASE ~Moves \/ LoopRecords
  <2>2. CASE LoopRecords
    BY <1>1, <2>2 DEF LoopRecords, driverVars
  <2>3. CASE ~Moves
    <3>1. CASE UNCHANGED vars
      BY <1>1, <3>1 DEF vars, driverVars
    <3>2. CASE Background
      BY <1>1, <2>3, <3>2, RestEffect DEF Moves
    <3>3. ASSUME NEW c \in Callers, Calls(c) \/ Continues(c)
          PROVE  UNCHANGED <<brokerQ, msgChan>>
      BY <3>3, CallerFrame
    <3> QED BY <1>1, <3>1, <3>2, <3>3 DEF Next, Background
  <2> QED BY <1>8, <2>2, <2>3
<1> QED BY <1>1, <1>2, <1>3, <1>4, <1>5, <1>6, <1>7, <1>8, StepKinds

LEMMA InOnePlaceStep ==
  ASSUME BaseInv, FreshInv, OnceInv, [Next]_vars, NEW m \in Message, Outside(m)
  PROVE  InOnePlace(m)'
<1> USE DEF InOnePlace, Passed, Taken
<1>0. InOnePlace(m) /\ m # NoMsg
  BY NoMsgNoMessage DEF OnceInv
<1>1. CASE ~Moves
  BY <1>0, <1>1, RestFlow DEF Queued, Recorded
<1>2. CASE LoopReceives
  <2> DEFINE m0 == Head(msgChan)
  <2>1. /\ UNCHANGED <<brokerQ, consumers, spy>>
        /\ loop.msg = NoMsg /\ loop'.msg = m0
        /\ m0 \in Message /\ msgChan # <<>> /\ msgChan' = Tail(msgChan)
        /\ InSeq(m, msgChan) <=> InSeq(m, msgChan') \/ m = m0
    BY <1>2, LoopReceivesFlow
  <2>2. m = m0 => ~InSeq(m, msgChan')
    BY <2>1, DistinctTail DEF BaseInv, TypeInv, OnceInv
  <2>3. UNCHANGED <<Queued(m), Held(m), Recorded(m)>>
    BY <2>1 DEF Queued, Held, Recorded
  <2> QED BY <1>0, <2>1, <2>2, <2>3
<1>3. CASE LoopRecords
  <2>1. /\ UNCHANGED <<brokerQ, msgChan, consumers>>
        /\ loop'.pc # "record"
        /\ Recorded(m)' <=> Recorded(m) \/ m = loop.msg
        /\ loop'.msg = NoMsg \/ loop'.msg = loop.msg
    BY <1>3, LoopRecordsFlow
  <2>2. UNCHANGED <<Queued(m), Held(m)>>
    BY <2>1 DEF Queued, Held
  <2> QED BY <1>0, <2>1, <2>2
<1>4. ASSUME NEW w \in workers, Dispatch(w)
      PROVE  InOnePlace(m)'
  <2>1. /\ UNCHANGED <<consumers, msgChan, loop>>
        /\ Recorded(m)' <=> Recorded(m)
        /\ Queued(m)' => Queued(m)
    BY <1>4, DispatchFlow
  <2>2. UNCHANGED Held(m)
    BY <2>1 DEF Held
  <2> QED BY <1>0, <2>1, <2>2
<1>5. ASSUME NEW i \in DOMAIN consumers, Consumer(i), ConsumerReceives(i)
      PROVE  InOnePlace(m)'
  <2> DEFINE q == consumers[i].queue
             m0 == Head(brokerQ[q])
  <2>1. /\ q \in Queues /\ brokerQ[q] \in Seq(Message) /\ brokerQ[q] # <<>>
        /\ m0 \in Message /\ m0.queue = q
        /\ brokerQ' = [brokerQ EXCEPT ![q] = Tail(brokerQ[q])]
    BY <1>5, ReceivesEffect DEF BaseInv
  <2>2. /\ UNCHANGED <<msgChan, loop, spy>>
        /\ Held(m)' <=> Held(m) \/ m = m0
        /\ Queued(m) <=> Queued(m)' \/ m = m0
    BY <1>5, ReceivesFlow
  <2>3. m = m0 => ~Queued(m)'
    <3>1. brokerQ'[q] = Tail(brokerQ[q])
      BY <2>1 DEF BaseInv, TypeInv
    <3>2. Outside(m0) => ~InSeq(m0, Tail(brokerQ[q]))
      BY <2>1, DistinctTail DEF OnceInv
    <3> QED BY <2>1, <3>1, <3>2 DEF Queued
  <2>4. UNCHANGED Recorded(m)
    BY <2>2 DEF Recorded
  <2> QED BY <1>0, <2>2, <2>3, <2>4
<1>6. ASSUME NEW i \in DOMAIN consumers, Consumer(i), ConsumerSends(i)
      PROVE  InOnePlace(m)'
  <2> DEFINE m0 == consumers[i].msg
  <2>1. /\ UNCHANGED <<brokerQ, loop, spy>> /\ Held(m0)
        /\ Held(m)' => Held(m) /\ m # m0
        /\ InSeq(m, msgChan') <=> InSeq(m, msgChan) \/ m = m0
    BY <1>6, SendsFlow
  <2>2. UNCHANGED <<Queued(m), Recorded(m)>>
    BY <2>1 DEF Queued, Recorded
  <2> QED BY <1>0, <2>1, <2>2
<1>7. ASSUME NEW i \in DOMAIN consumers, Consumer(i), ConsumerExits(i)
      PROVE  InOnePlace(m)'
  BY <1>0, <1>7, ExitsFlow DEF Queued, Recorded
<1>8. ASSUME NEW q \in Queues, NEW content \in Contents, NEW origin \in {"none", "peer"},
             OthersPublish(q, content, origin)
      PROVE  InOnePlace(m)'
  <2>1. PICK m0 \in Message :
          /\ m0.id = Len(sent) + 1 /\ Outside(m0)
          /\ UNCHANGED <<consumers, msgChan, loop, spy>>
          /\ Queued(m)' <=> Queued(m) \/ m = m0
    BY <1>8, OthersFlow
  <2>2. ~Passed(m0) /\ ~Held(m0)
    <3>1. m0.id > Len(sent)
      BY <2>1 DEF BaseInv, TypeInv
    <3> QED BY <2>1, <3>1 DEF FreshInv
  <2>3. UNCHANGED <<Held(m), Recorded(m)>>
    BY <2>1 DEF Held, Recorded
  <2> QED BY <1>0, <2>1, <2>2, <2>3
<1> HIDE DEF InOnePlace, Passed, Taken
<1> QED BY <1>1, <1>2, <1>3, <1>4, <1>5, <1>6, <1>7, <1>8, StepKinds

LEMMA OnceNext ==
  ASSUME BaseInv, FreshInv, OnceInv, [Next]_vars
  PROVE  OnceInv'
<1>1. \A m \in Message : Outside(m) => InOnePlace(m)'
  BY InOnePlaceStep
<1> QED BY <1>1, DistinctNext DEF OnceInv

-----------------------------------------------------------------------------
(* The rules and their counters.                                           *)

LEMMA RulesType ==
  ASSUME TypeInv, NEW g \in DOMAIN gens
  PROVE  /\ Rules(g) \in Seq(Rule) /\ DOMAIN Rules(g) = 1..Len(Rules(g))
         /\ Len(Rules(g)) \in Nat
<1>1. gens[g] \in Config
  BY ConfigsAssumption DEF TypeInv
<1> QED BY <1>1 DEF Config, Rules

LEMMA NewestGen ==
  ASSUME TypeInv
  PROVE  /\ Len(gens) \in DOMAIN gens /\ Len(gens) \in Nat \ {0}
         /\ DOMAIN gens = 1..Len(gens)
  BY DEF TypeInv

(* Only the loop records a message that was received. *)
LEMMA RecordedStep ==
  ASSUME BaseInv, [Next]_vars, NEW m \in Message
  PROVE  Recorded(m)' => Recorded(m) \/ (LoopRecords /\ m = loop.msg)
<1>1. CASE ~Moves
  BY <1>1, RestFlow DEF Recorded
<1>2. CASE LoopReceives
  BY <1>2, LoopReceivesFlow DEF Recorded
<1>3. CASE LoopRecords
  BY <1>3, LoopRecordsFlow
<1>4. ASSUME NEW w \in workers, Dispatch(w)
      PROVE  Recorded(m)' => Recorded(m)
  BY <1>4, DispatchFlow
<1>5. ASSUME NEW i \in DOMAIN consumers, Consumer(i)
      PROVE  Recorded(m)' => Recorded(m)
  BY <1>5 DEF Consumer, workVars, Recorded
<1>6. ASSUME NEW q \in Queues, NEW content \in Contents, NEW origin \in {"none", "peer"},
             OthersPublish(q, content, origin)
      PROVE  Recorded(m)' => Recorded(m)
  BY <1>6 DEF OthersPublish, Recorded
<1> QED BY <1>1, <1>2, <1>3, <1>4, <1>5, <1>6, StepKinds

(* The steps that the rules and their counters notice. *)
RuleStep ==
  \/ LoopReceives \/ LoopRecords \/ snapshotRules \/ LoopEvaluates
  \/ LoopHandled \/ LoopExits
  \/ \E c \in Callers : Commit(c)

LEMMA OtherRuleStep ==
  ASSUME BaseInv, [Next]_vars, ~RuleStep
  PROVE  UNCHANGED <<loop, answered, hits, gens>>
<1>1. CASE UNCHANGED vars
  BY <1>1 DEF vars, lifeVars
<1>2. ASSUME NEW c \in Callers, Calls(c) \/ Continues(c)
      PROVE  UNCHANGED <<loop, answered, hits, gens>>
  <2>1. ~Commit(c)
    BY DEF RuleStep
  <2>2. UNCHANGED hits
    BY <1>2, <2>1 DEF Calls, Continues, Start, Reload, Stop, DeclareTopology,
       StartConsuming, StopCancels, StopWaits, StopCloses, StopReturns, workVars
  <2> QED BY <1>2, <2>1, <2>2, CallerFrame
<1>3. ASSUME NEW w \in workers, Dispatch(w)
      PROVE  UNCHANGED <<loop, answered, hits, gens>>
  BY <1>3, DispatchEffect DEF BaseInv
<1>4. ASSUME NEW i \in DOMAIN consumers, Consumer(i)
      PROVE  UNCHANGED <<loop, answered, hits, gens>>
  BY <1>4 DEF Consumer, workVars, lifeVars
<1>5. ASSUME NEW q \in Queues, NEW content \in Contents, NEW origin \in {"none", "peer"},
             OthersPublish(q, content, origin)
      PROVE  UNCHANGED <<loop, answered, hits, gens>>
  BY <1>5, OthersEffect DEF BaseInv
<1>6. CASE ConnectionLost
  BY <1>6 DEF ConnectionLost, workVars, lifeVars
<1> QED BY <1>1, <1>2, <1>3, <1>4, <1>5, <1>6 DEF Next, RuleStep, LoopWorks

(* The rule sets applied stay what they are. *)
LEMMA GensStep ==
  ASSUME BaseInv, [Next]_vars
  PROVE  /\ \A g \in DOMAIN gens : g \in DOMAIN gens' /\ Rules(g)' = Rules(g)
         /\ \/ gens' = gens
            \/ \E c \in Callers, cfg \in Configs :
                 Commit(c) /\ call[c].op = "reload" /\ cfg = call[c].cfg
                 /\ gens' = Append(gens, cfg)
<1>1. \/ gens' = gens
      \/ \E c \in Callers, cfg \in Configs :
           Commit(c) /\ call[c].op = "reload" /\ cfg = call[c].cfg
           /\ gens' = Append(gens, cfg)
  <2>1. CASE ~RuleStep
    BY <2>1, OtherRuleStep
  <2>2. CASE LoopReceives \/ LoopRecords \/ snapshotRules \/ LoopEvaluates
             \/ LoopHandled \/ LoopExits
    BY <2>2 DEF LoopReceives, LoopRecords, snapshotRules, LoopEvaluates,
       LoopHandled, LoopExits, lifeVars
  <2>3. ASSUME NEW c \in Callers, Commit(c)
        PROVE  \/ gens' = gens
               \/ /\ call[c].op = "reload" /\ gens' = Append(gens, call[c].cfg)
                  /\ call[c].cfg \in Configs
    BY <2>3 DEF Commit, BaseInv, CallInv, Attaching
  <2> QED BY <2>1, <2>2, <2>3 DEF RuleStep
<1>2. ASSUME NEW cfg \in Configs, gens' = Append(gens, cfg), NEW g \in DOMAIN gens
      PROVE  g \in DOMAIN gens' /\ gens'[g] = gens[g]
  BY <1>2 DEF BaseInv, TypeInv
<1> QED BY <1>1, <1>2 DEF Rules

LEMMA EvaluatedStep ==
  ASSUME BaseInv, [Next]_vars, NEW m, NEW g, NEW n, EvaluatedUpTo(m, g, n),
         \A a : a.msg = m => (a \in answered' <=> a \in answered)
  PROVE  EvaluatedUpTo(m, g, n)'
<1>1. g \in DOMAIN gens /\ g \in DOMAIN gens' /\ Rules(g)' = Rules(g)
  BY GensStep DEF EvaluatedUpTo
<1>2. \A i : Answer(m, g, i).msg = m
  BY DEF Answer
<1> QED BY <1>1, <1>2 DEF EvaluatedUpTo

(* A rule that is evaluated adds its own answer, and no other. *)
LEMMA AnswerStep ==
  ASSUME BaseInv, RulesInv, LoopEvaluates
  PROVE  LET a0 == Answer(loop.msg, loop.gen, loop.i)
             rule == Rules(loop.gen)[loop.i]
         IN  /\ loop.gen \in DOMAIN gens /\ loop.i \in DOMAIN Rules(loop.gen)
             /\ a0.msg = loop.msg /\ a0.gen = loop.gen /\ a0.i = loop.i
             /\ a0 \notin answered
             /\ \/ ~MatchesRule(rule, loop.msg) /\ UNCHANGED <<answered, hits>>
                \/ /\ MatchesRule(rule, loop.msg)
                   /\ answered' = answered \cup {a0}
                   /\ hits' = IF loop.gen = Len(gens)
                              THEN [hits EXCEPT ![loop.i] = hits[loop.i] + 1] ELSE hits
             /\ UNCHANGED <<gens, spy>>
             /\ loop' = [loop EXCEPT !.i = loop.i + 1]
<1> DEFINE a0 == Answer(loop.msg, loop.gen, loop.i)
<1>1. loop.pc = "rules" /\ EvaluatedUpTo(loop.msg, loop.gen, loop.i)
  BY EvaluatesEffect DEF RulesInv
<1>2. a0.msg = loop.msg /\ a0.gen = loop.gen /\ a0.i = loop.i
  BY DEF Answer
<1>3. a0 \notin answered
  <2>1. loop.i \in Nat
    BY DEF BaseInv, TypeInv, LoopState
  <2> QED BY <1>1, <1>2, <2>1 DEF EvaluatedUpTo
<1> QED BY <1>1, <1>2, <1>3, EvaluatesEffect DEF EvaluatedUpTo, lifeVars

LEMMA EvaluatesNext ==
  ASSUME BaseInv, RulesInv, LoopEvaluates, [Next]_vars
  PROVE  RulesInv'
<1>0. SUFFICES ASSUME NEW m0, NEW g, NEW n, m0 = loop.msg, g = loop.gen, n = loop.i
               PROVE  RulesInv'
  OBVIOUS
<1> DEFINE a0 == Answer(m0, g, n)
<1>1. /\ loop \in LoopState /\ loop.pc = "rules"
      /\ EvaluatedUpTo(m0, g, n) /\ Recorded(m0) /\ n \in Nat
  <2>1. loop.pc = "rules"
    BY EvaluatesEffect
  <2> QED BY <1>0, <2>1 DEF BaseInv, TypeInv, LoopState, LoopInv, RulesInv
<1>2. /\ g \in DOMAIN gens /\ n \in DOMAIN Rules(g)
      /\ a0.msg = m0 /\ a0.gen = g /\ a0.i = n
      /\ \/ ~MatchesRule(Rules(g)[n], m0) /\ UNCHANGED answered
         \/ MatchesRule(Rules(g)[n], m0) /\ answered' = answered \cup {a0}
      /\ UNCHANGED <<gens, spy>>
      /\ loop' = [loop EXCEPT !.i = n + 1]
  BY <1>0, AnswerStep
<1>3. loop'.pc = "rules" /\ loop'.msg = m0 /\ loop'.gen = g /\ loop'.i = n + 1
  BY <1>0, <1>1, <1>2 DEF LoopState
<1>4. DOMAIN Rules(g) = 1..Len(Rules(g)) /\ Len(Rules(g)) \in Nat
  BY <1>2, RulesType DEF BaseInv
<1> HIDE DEF a0
<1>5. EvaluatedUpTo(m0, g, n + 1)'
  <2>1. n + 1 \in 1..(Len(Rules(g)) + 1)
    BY <1>1, <1>2, <1>4
  <2>2. Rules(g)' = Rules(g)
    BY <1>2 DEF Rules
  <2>3. ASSUME NEW a \in answered', a.msg = m0
        PROVE  a.gen = g /\ a.i \in 1..((n + 1) - 1) /\ MatchesRule(Rules(g)[a.i], m0)
    <3>1. CASE a \in answered
      <4>1. a.gen = g /\ a.i \in 1..(n - 1) /\ MatchesRule(Rules(g)[a.i], m0)
        BY <1>1, <2>3, <3>1 DEF EvaluatedUpTo
      <4> QED BY <1>1, <4>1
    <3>2. CASE a = a0 /\ MatchesRule(Rules(g)[n], m0)
      BY <1>1, <1>2, <1>4, <3>2
    <3> QED BY <1>2, <2>3, <3>1, <3>2
  <2>4. ASSUME NEW i \in 1..((n + 1) - 1), MatchesRule(Rules(g)[i], m0)
        PROVE  Answer(m0, g, i) \in answered'
    <3>1. CASE i = n
      BY <1>2, <2>4, <3>1 DEF a0
    <3>2. CASE i # n
      <4>1. i \in 1..(n - 1)
        BY <1>1, <2>4, <3>2
      <4>2. Answer(m0, g, i) \in answered
        BY <1>1, <2>4, <4>1 DEF EvaluatedUpTo
      <4> QED BY <1>2, <4>2
    <3> QED BY <3>1, <3>2
  <2> QED BY <1>2, <2>1, <2>2, <2>3, <2>4 DEF EvaluatedUpTo
<1>6. IsFiniteSet(answered')
  BY <1>2, FS_AddElement DEF RulesInv
<1>7. \A a \in answered' : Recorded(a.msg)' /\ a.gen \in DOMAIN gens'
  BY <1>1, <1>2 DEF RulesInv, Recorded
<1>8. ASSUME NEW m \in Message, Recorded(m)', loop'.msg # m, m.origin = "none"
      PROVE  \E h \in DOMAIN gens' : EvaluatedUpTo(m, h, Len(Rules(h)) + 1)'
  <2>1. Recorded(m) /\ loop.msg # m
    BY <1>0, <1>2, <1>3, <1>8 DEF Recorded
  <2>2. PICK h \in DOMAIN gens : EvaluatedUpTo(m, h, Len(Rules(h)) + 1)
    BY <1>8, <2>1 DEF RulesInv
  <2>3. \A a : a.msg = m => (a \in answered' <=> a \in answered)
    BY <1>0, <1>2, <2>1
  <2>4. EvaluatedUpTo(m, h, Len(Rules(h)) + 1)'
    <3>1. UNCHANGED Rules(h)
      BY <1>2 DEF Rules
    <3> QED BY <1>2, <2>2, <2>3, <3>1 DEF EvaluatedUpTo, Answer
  <2> QED BY <1>2, <2>4
<1> QED BY <1>3, <1>5, <1>6, <1>7, <1>8 DEF RulesInv

LEMMA RulesNext ==
  ASSUME BaseInv, OnceInv, RulesInv, [Next]_vars
  PROVE  RulesInv'
<1>1. CASE LoopEvaluates
  BY <1>1, EvaluatesNext
<1>2. ASSUME ~LoopEvaluates
      PROVE  UNCHANGED answered
  <2>1. CASE ~RuleStep
    BY <2>1, OtherRuleStep
  <2>2. CASE RuleStep
    BY <1>2, <2>2 DEF RuleStep, LoopReceives, LoopRecords, snapshotRules,
       LoopHandled, LoopExits, Commit
  <2> QED BY <2>1, <2>2
<1>3. ASSUME ~LoopEvaluates, NEW m, NEW g, NEW n, EvaluatedUpTo(m, g, n)
      PROVE  EvaluatedUpTo(m, g, n)'
  BY <1>2, <1>3, EvaluatedStep
<1>4. ASSUME ~LoopEvaluates
      PROVE  /\ IsFiniteSet(answered')
             /\ \A a \in answered' : Recorded(a.msg)' /\ a.gen \in DOMAIN gens'
  BY <1>2, <1>4, GensStep, SpyGrows DEF RulesInv, Recorded
<1>5. ASSUME ~LoopEvaluates, NEW m \in Message, Recorded(m), loop.msg # m,
             m.origin = "none"
      PROVE  \E g \in DOMAIN gens' : EvaluatedUpTo(m, g, Len(Rules(g)) + 1)'
  <2>1. PICK g \in DOMAIN gens : EvaluatedUpTo(m, g, Len(Rules(g)) + 1)
    BY <1>5 DEF RulesInv
  <2>2. g \in DOMAIN gens' /\ Rules(g)' = Rules(g)
    BY GensStep
  <2>3. EvaluatedUpTo(m, g, Len(Rules(g)) + 1)'
    <3> DEFINE k == Len(Rules(g)) + 1
    <3>1. k' = k
      BY <2>2
    <3> HIDE DEF k
    <3>2. ASSUME NEW h, h = k
          PROVE  EvaluatedUpTo(m, g, h)'
      BY <1>3, <1>5, <2>1, <3>2 DEF k
    <3>3. EvaluatedUpTo(m, g, k)'
      BY <3>1, <3>2
    <3> QED BY <3>3 DEF k
  <2> QED BY <2>2, <2>3
<1>6. ASSUME ~LoopEvaluates,
             loop'.pc = "snapshot" => \A a \in answered : a.msg # loop'.msg,
             loop'.pc = "rules" => EvaluatedUpTo(loop.msg, loop.gen, loop.i)',
             \A m \in Message : Recorded(m)' /\ loop'.msg # m /\ m.origin = "none" =>
               \E g \in DOMAIN gens' : EvaluatedUpTo(m, g, Len(Rules(g)) + 1)'
      PROVE  RulesInv'
  <2>1. UNCHANGED answered
    BY <1>2, <1>6
  <2> QED BY <1>4, <1>6, <2>1 DEF RulesInv
<1>7. \A m \in Message : Recorded(m)' => Recorded(m) \/ (LoopRecords /\ m = loop.msg)
  BY RecordedStep
<1>8. loop \in LoopState /\ \A m \in Message : m # NoMsg
  BY NoMsgNoMessage DEF BaseInv, TypeInv
<1>9. CASE UNCHANGED loop
  <2>1. UNCHANGED loop /\ ~LoopEvaluates /\ ~LoopRecords
    <3>1. LoopEvaluates => loop'.i # loop.i
      BY <1>8, EvaluatesEffect DEF LoopState
    <3>2. ASSUME LoopRecords
          PROVE  loop'.pc # loop.pc
      BY <1>8, <3>2 DEF LoopRecords, LoopState, IdleLoop
    <3> QED BY <1>9, <3>1, <3>2
  <2>2. loop'.pc = "rules" => EvaluatedUpTo(loop.msg, loop.gen, loop.i)'
    <3>1. SUFFICES ASSUME NEW m, NEW g, NEW n, m = loop.msg, g = loop.gen, n = loop.i,
                          loop.pc = "rules"
                   PROVE  EvaluatedUpTo(m, g, n)'
      BY <2>1
    <3> QED BY <1>3, <2>1, <3>1 DEF RulesInv
  <2>3. loop'.pc = "snapshot" => \A a \in answered : a.msg # loop'.msg
    BY <2>1 DEF RulesInv
  <2>4. ASSUME NEW m \in Message, Recorded(m)', loop'.msg # m, m.origin = "none"
        PROVE  \E g \in DOMAIN gens' : EvaluatedUpTo(m, g, Len(Rules(g)) + 1)'
    BY <1>5, <1>7, <2>1, <2>4
  <2> QED BY <1>6, <2>1, <2>2, <2>3, <2>4
<1>10. CASE LoopReceives
  <2>1. loop.pc = "select" /\ loop.msg = NoMsg /\ loop'.pc = "record"
    BY <1>10, LoopReceivesFlow DEF LoopReceives
  <2>2. ~LoopEvaluates /\ ~LoopRecords
    BY <2>1 DEF LoopEvaluates, LoopRecords
  <2>3. ASSUME NEW m \in Message, Recorded(m)', m.origin = "none"
        PROVE  \E g \in DOMAIN gens' : EvaluatedUpTo(m, g, Len(Rules(g)) + 1)'
    BY <1>5, <1>7, <1>8, <2>1, <2>2, <2>3
  <2> QED BY <1>6, <2>1, <2>2, <2>3
<1>11. CASE LoopRecords
  <2>1. /\ loop.pc = "record" /\ loop.msg \in Message
        /\ \/ loop.msg.origin # "none" /\ loop' = IdleLoop("select")
           \/ loop.msg.origin = "none" /\ loop' = [loop EXCEPT !.pc = "snapshot"]
    BY <1>8, <1>11 DEF LoopRecords, BaseInv, LoopInv, LoopState
  <2>2. ~LoopEvaluates
    BY <2>1 DEF LoopEvaluates
  <2>3. loop'.pc # "rules"
    BY <1>8, <2>1 DEF IdleLoop, LoopState
  <2>4. loop.msg.origin = "none" => ~Recorded(loop.msg)
    BY <2>1 DEF Message, Outside, OnceInv, InOnePlace
  <2>5. loop'.pc = "snapshot" => loop'.msg = loop.msg /\ loop.msg.origin = "none"
    BY <1>8, <2>1 DEF IdleLoop, LoopState
  <2>6. loop'.pc = "snapshot" => \A a \in answered : a.msg # loop'.msg
    BY <2>4, <2>5 DEF RulesInv
  <2>7. ASSUME NEW m \in Message, Recorded(m)', loop'.msg # m, m.origin = "none"
        PROVE  \E g \in DOMAIN gens' : EvaluatedUpTo(m, g, Len(Rules(g)) + 1)'
    <3>1. m # loop.msg
      BY <1>8, <2>1, <2>7 DEF LoopState
    <3> QED BY <1>5, <1>7, <2>2, <2>7, <3>1
  <2> QED BY <1>6, <2>2, <2>3, <2>6, <2>7
<1>12. CASE snapshotRules
  <2>1. /\ loop.pc = "snapshot" /\ UNCHANGED <<gens, answered>>
        /\ loop' = [loop EXCEPT !.pc = "rules", !.gen = Len(gens), !.i = 1]
    BY <1>12 DEF snapshotRules, lifeVars
  <2>2. /\ loop'.pc = "rules" /\ loop'.msg = loop.msg /\ loop'.gen = Len(gens)
        /\ loop'.i = 1
    BY <1>8, <2>1 DEF LoopState
  <2>3. ~LoopEvaluates /\ ~LoopRecords
    BY <2>1 DEF LoopEvaluates, LoopRecords
  <2>4. EvaluatedUpTo(loop.msg, loop.gen, loop.i)'
    <3>1. SUFFICES ASSUME NEW m, NEW g, NEW n, m = loop'.msg, g = loop'.gen, n = loop'.i
                   PROVE  EvaluatedUpTo(m, g, n)'
      OBVIOUS
    <3>2. /\ g \in DOMAIN gens' /\ Len(Rules(g)') \in Nat /\ n = 1
          /\ \A a \in answered' : a.msg # m
      BY <2>1, <2>2, <3>1, NewestGen, RulesType DEF BaseInv, RulesInv, Rules
    <3> QED BY <3>2 DEF EvaluatedUpTo
  <2>5. ASSUME NEW m \in Message, Recorded(m)', loop'.msg # m, m.origin = "none"
        PROVE  \E g \in DOMAIN gens' : EvaluatedUpTo(m, g, Len(Rules(g)) + 1)'
    BY <1>5, <1>7, <2>2, <2>3, <2>5
  <2> QED BY <1>6, <2>2, <2>3, <2>4, <2>5
<1>13. CASE LoopHandled
  <2>1. /\ loop.pc = "rules" /\ loop' = IdleLoop("select")
        /\ loop.i \notin DOMAIN Rules(loop.gen)
        /\ EvaluatedUpTo(loop.msg, loop.gen, loop.i)
    BY <1>13 DEF LoopHandled, RulesInv
  <2>2. loop'.pc = "select" /\ loop'.msg = NoMsg
    BY <2>1 DEF IdleLoop
  <2>3. ~LoopEvaluates /\ ~LoopRecords
    BY <2>1 DEF LoopEvaluates, LoopRecords
  <2>4. ASSUME NEW m, NEW g, m = loop.msg, g = loop.gen
        PROVE  g \in DOMAIN gens' /\ EvaluatedUpTo(m, g, Len(Rules(g)) + 1)'
    <3>1. g \in DOMAIN gens /\ loop.i \in 1..(Len(Rules(g)) + 1)
      BY <2>1, <2>4 DEF EvaluatedUpTo
    <3>2. loop.i = Len(Rules(g)) + 1
      BY <2>1, <2>4, <3>1, RulesType DEF BaseInv
    <3>3. ASSUME NEW n, n = loop.i
          PROVE  EvaluatedUpTo(m, g, n)'
      BY <1>3, <2>1, <2>3, <2>4, <3>3
    <3>4. g \in DOMAIN gens' /\ Rules(g)' = Rules(g)
      BY <3>1, GensStep
    <3> QED BY <3>2, <3>3, <3>4
  <2>5. ASSUME NEW m \in Message, Recorded(m)', m.origin = "none"
        PROVE  \E g \in DOMAIN gens' : EvaluatedUpTo(m, g, Len(Rules(g)) + 1)'
    <3>1. CASE loop.msg = m
      <4>1. ASSUME NEW g, g = loop.gen
            PROVE  g \in DOMAIN gens' /\ EvaluatedUpTo(m, g, Len(Rules(g)) + 1)'
        BY <2>4, <3>1, <4>1
      <4> QED BY <4>1
    <3>2. CASE loop.msg # m
      BY <1>5, <1>7, <2>3, <2>5, <3>2
    <3> QED BY <3>1, <3>2
  <2> QED BY <1>6, <2>2, <2>3, <2>5
<1>14. ASSUME loop.msg = NoMsg, loop'.pc # "snapshot", loop'.pc # "rules",
              ~LoopEvaluates, ~LoopRecords
       PROVE  RulesInv'
  <2>1. ASSUME NEW m \in Message, Recorded(m)', m.origin = "none"
        PROVE  \E g \in DOMAIN gens' : EvaluatedUpTo(m, g, Len(Rules(g)) + 1)'
    BY <1>5, <1>7, <1>8, <1>14, <2>1
  <2> QED BY <1>6, <1>14, <2>1
<1>15. CASE LoopExits
  BY <1>14, <1>15 DEF LoopExits, IdleLoop, BaseInv, LoopInv, LoopEvaluates, LoopRecords
<1>16. ASSUME NEW c \in Callers, Commit(c), call[c].op = "start"
       PROVE  RulesInv'
  <2>1. loop.pc = "off" /\ loop' = IdleLoop("select")
    BY <1>16, CallerFrame DEF Commit, BaseInv, Inv, LockInv, CallInv, LoopInv, Attaching
  <2> QED BY <1>14, <2>1 DEF IdleLoop, BaseInv, LoopInv, LoopEvaluates, LoopRecords
<1>17. ASSUME NEW c \in Callers, Commit(c), call[c].op # "start"
       PROVE  UNCHANGED loop
  BY <1>17 DEF Commit
<1> QED BY <1>1, <1>9, <1>10, <1>11, <1>12, <1>13, <1>15, <1>16, <1>17, OtherRuleStep
        DEF RuleStep

LEMMA HitsInit == Init => RulesInv /\ HitsInv
<1> SUFFICES ASSUME Init
             PROVE  RulesInv /\ HitsInv
  OBVIOUS
<1>1. answered = {} /\ spy = {} /\ loop.pc = "off"
  BY DEF Init, IdleLoop
<1>2. PICK cfg \in Configs : gens = <<cfg>> /\ hits = newRuleStates(cfg)
  BY DEF Init
<1>3. Len(gens) = 1 /\ gens[1] = cfg
  BY <1>2
<1>4. \A i : Cardinality(Matches(i)) = 0
  BY <1>1, FS_EmptySet DEF Matches
<1>5. hits = [i \in DOMAIN Rules(Len(gens)) |-> 0]
  BY <1>2, <1>3 DEF newRuleStates, Rules
<1>6. HitsInv
  BY <1>4, <1>5 DEF HitsInv
<1>7. RulesInv
  BY <1>1, FS_EmptySet DEF RulesInv, Recorded
<1> QED BY <1>6, <1>7

LEMMA HitsNext ==
  ASSUME BaseInv, RulesInv, HitsInv, [Next]_vars
  PROVE  HitsInv'
<1>0. Len(gens) \in Nat \ {0} /\ DOMAIN gens = 1..Len(gens)
  BY NewestGen DEF BaseInv
<1>1. CASE UNCHANGED <<hits, answered, gens>>
  BY <1>1 DEF HitsInv, Matches, Rules
<1>2. CASE LoopEvaluates
  <2>1. SUFFICES ASSUME NEW a0, NEW n, a0 = Answer(loop.msg, loop.gen, loop.i), n = loop.i
                 PROVE  HitsInv'
    OBVIOUS
  <2>2. /\ n \in DOMAIN Rules(loop.gen) /\ a0.gen = loop.gen /\ a0.i = n
        /\ a0 \notin answered /\ UNCHANGED gens
        /\ \/ UNCHANGED <<answered, hits>>
           \/ /\ answered' = answered \cup {a0}
              /\ hits' = IF loop.gen = Len(gens)
                         THEN [hits EXCEPT ![n] = hits[n] + 1] ELSE hits
    BY <1>2, <2>1, AnswerStep
  <2>3. CASE UNCHANGED <<answered, hits>>
    BY <1>1, <2>2, <2>3
  <2>4. CASE answered' = answered \cup {a0} /\ loop.gen # Len(gens)
    <3>1. UNCHANGED hits
      BY <2>2, <2>4
    <3>2. ASSUME NEW i
          PROVE  Matches(i)' = Matches(i)
      BY <2>2, <2>4 DEF Matches
    <3> QED BY <2>2, <3>1, <3>2 DEF HitsInv, Rules
  <2>5. CASE answered' = answered \cup {a0} /\ loop.gen = Len(gens)
    <3>1. hits' = [hits EXCEPT ![n] = hits[n] + 1] /\ n \in DOMAIN hits
      BY <2>2, <2>5 DEF HitsInv
    <3>2. ASSUME NEW i, i # n
          PROVE  Matches(i)' = Matches(i)
      BY <2>2, <2>5, <3>2 DEF Matches
    <3>3. Matches(n)' = Matches(n) \cup {a0} /\ a0 \notin Matches(n)
      BY <2>2, <2>5 DEF Matches
    <3>4. IsFiniteSet(Matches(n))
      BY FS_Subset DEF RulesInv, Matches
    <3>5. Cardinality(Matches(n))' = Cardinality(Matches(n)) + 1
      BY <3>3, <3>4, FS_AddElement
    <3>6. /\ hits' \in [DOMAIN Rules(Len(gens)) -> Nat]
          /\ \A i \in DOMAIN hits' : hits'[i] = Cardinality(Matches(i))'
      BY <3>1, <3>2, <3>5 DEF HitsInv
    <3> QED BY <2>2, <3>6 DEF HitsInv, Rules
  <2> QED BY <2>2, <2>3, <2>4, <2>5
<1>3. ASSUME NEW cfg \in Configs, gens' = Append(gens, cfg), hits' = newRuleStates(cfg),
             UNCHANGED answered
      PROVE  HitsInv'
  <2>1. Len(gens') = Len(gens) + 1 /\ gens'[Len(gens')] = cfg
    BY <1>3 DEF BaseInv, TypeInv
  <2>2. Rules(Len(gens))' = cfg.rules
    BY <2>1 DEF Rules
  <2>3. \A a \in answered : a.gen # Len(gens')
    BY <1>0, <2>1 DEF RulesInv
  <2>4. ASSUME NEW i
        PROVE  Cardinality(Matches(i))' = 0
    <3>1. Matches(i)' = {}
      BY <1>3, <2>3 DEF Matches
    <3> QED BY <3>1, FS_EmptySet
  <2> QED BY <1>3, <2>2, <2>4 DEF HitsInv, newRuleStates
<1>4. ASSUME NEW c \in Callers, Commit(c)
      PROVE  HitsInv'
  <2>1. CASE call[c].op = "start"
    BY <1>1, <1>4, <2>1 DEF Commit
  <2>2. CASE call[c].op = "reload"
    <3>1. call[c].cfg \in Configs
      BY <1>4 DEF Commit, BaseInv, CallInv, Attaching
    <3> QED BY <1>3, <1>4, <2>2, <3>1 DEF Commit
  <2> QED BY <1>4, <2>1, <2>2 DEF Commit
<1>5. CASE LoopReceives \/ LoopRecords \/ snapshotRules \/ LoopHandled \/ LoopExits
  BY <1>1, <1>5 DEF LoopReceives, LoopRecords, snapshotRules, LoopHandled,
     LoopExits, lifeVars
<1> QED BY <1>1, <1>2, <1>4, <1>5, OtherRuleStep DEF RuleStep

HandledInv == PipeInv /\ OnceInv /\ RulesInv /\ HitsInv

LEMMA HandledAlways == SafetySpec => []HandledInv
<1>1. ASSUME Init
      PROVE  OnceInv
  <2>1. msgChan = <<>> /\ \A q \in Queues : brokerQ[q] = <<>>
    BY <1>1 DEF Init, ConnectedDriver
  <2> QED BY <1>1, <2>1, NothingYet DEF OnceInv, InOnePlace, Distinct, Passed
<1>2. HandledInv /\ [Next]_vars => HandledInv'
  BY PipeNext, OnceNext, RulesNext, HitsNext DEF HandledInv, PipeInv
<1> QED BY <1>1, <1>2, HitsInit, PipeAlways, PTL DEF HandledInv, SafetySpec

(* handleMessage takes its rules once, in snapshotRules, and goes through  *)
(* all of them: what a message was matched against is one rule set that    *)
(* was active, whatever Reload does meanwhile, and the message is handled  *)
(* once.                                                                   *)
THEOREM RuleSetsWhole == SafetySpec => []OneRuleSetPerMessage
<1>1. ASSUME HandledInv, NEW m \in Message, Recorded(m), loop.msg # m,
             m.origin = "none"
      PROVE  \E g \in DOMAIN gens :
               {[gen |-> a.gen, i |-> a.i] : a \in {b \in answered : b.msg = m}}
                 = {[gen |-> g, i |-> i] :
                      i \in {j \in DOMAIN Rules(g) : MatchesRule(Rules(g)[j], m)}}
  <2>1. PICK g \in DOMAIN gens : EvaluatedUpTo(m, g, Len(Rules(g)) + 1)
    BY <1>1 DEF HandledInv, RulesInv
  <2>2. DOMAIN Rules(g) = 1..((Len(Rules(g)) + 1) - 1)
    BY <1>1, <2>1, RulesType DEF HandledInv, PipeInv, BaseInv
  <2>3. \A a \in answered : a.msg = m =>
          a.gen = g /\ a.i \in DOMAIN Rules(g) /\ MatchesRule(Rules(g)[a.i], m)
    BY <2>1, <2>2 DEF EvaluatedUpTo
  <2>4. \A i \in DOMAIN Rules(g) :
          MatchesRule(Rules(g)[i], m) => \E a \in answered : a.msg = m /\ a.gen = g /\ a.i = i
    <3>1. ASSUME NEW i \in DOMAIN Rules(g), MatchesRule(Rules(g)[i], m)
          PROVE  Answer(m, g, i) \in answered
      BY <2>1, <2>2, <3>1 DEF EvaluatedUpTo
    <3>2. \A i : /\ Answer(m, g, i).msg = m /\ Answer(m, g, i).gen = g
                 /\ Answer(m, g, i).i = i
      BY DEF Answer
    <3> QED BY <3>1, <3>2
  <2> DEFINE L == {[gen |-> a.gen, i |-> a.i] : a \in {b \in answered : b.msg = m}}
             R == {[gen |-> g, i |-> i] :
                     i \in {j \in DOMAIN Rules(g) : MatchesRule(Rules(g)[j], m)}}
  <2>5. ASSUME NEW x \in L
        PROVE  x \in R
    <3>1. PICK a \in answered : a.msg = m /\ x = [gen |-> a.gen, i |-> a.i]
      OBVIOUS
    <3> QED BY <2>3, <3>1
  <2>6. ASSUME NEW x \in R
        PROVE  x \in L
    <3>1. PICK i \in DOMAIN Rules(g) : MatchesRule(Rules(g)[i], m) /\ x = [gen |-> g, i |-> i]
      OBVIOUS
    <3>2. PICK a \in answered : a.msg = m /\ a.gen = g /\ a.i = i
      BY <2>4, <3>1
    <3> QED BY <3>1, <3>2
  <2>7. L = R
    BY <2>5, <2>6
  <2> QED BY <2>7
<1>2. ASSUME HandledInv
      PROVE  OneRuleSetPerMessage
  <2>1. \A k \in DOMAIN sent : sent[k] \in Message
    BY <1>2 DEF HandledInv, PipeInv, BaseInv, TypeInv
  <2> QED BY <1>1, <1>2, <2>1 DEF OneRuleSetPerMessage
<1> QED BY <1>2, HandledAlways, PTL

(* Reload starts the counters of GET /_chitchat/rules at zero, and a       *)
(* message that is still being matched against the rules it replaced is    *)
(* counted in the old counters: the new ones are exact.                    *)
THEOREM CountersExact == SafetySpec => []HitsExact
<1>1. HandledInv => HitsExact
  BY DEF HandledInv, HitsInv, HitsExact, Matches
<1> QED BY <1>1, HandledAlways, PTL
=============================================================================
