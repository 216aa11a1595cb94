---------------------------- MODULE RabbitMQDriver ---------------------------
(***************************************************************************)
(* broker.RabbitMQDriver: the operations of the driver under its RWMutex,  *)
(* any number of them called at once, and its consumer goroutines, which   *)
(* take no lock.  The AMQP library, its connection and its channel are     *)
(* external and modelled as in BrokerDriver: link is the channel, alive or *)
(* dead for good.                                                          *)
(*                                                                         *)
(*    "idle" -> "lock" or "rlock" -> "io" -> "idle"                        *)
(*    StartConsuming: ... "io" -> "attach" -> "idle"                       *)
(*    Close: ... "io" -> "hangup" -> "drain" -> "idle"                     *)
(***************************************************************************)
EXTENDS Integers, Sequences, FiniteSets

CONSTANTS
  Queues, ChanCap,
  Callers,      \* the goroutines that use the driver
  MaxConsumers, \* bound: consumers started
  MaxQueued     \* bound: messages in one broker queue

ASSUME RabbitAssumption == ChanCap \in Nat \ {0} /\ MaxConsumers \in Nat

VARIABLES
  writer, readers, \* who holds r.mu for writing, and for reading
  channel,   \* is r.channel set?
  closed,    \* r.closed
  ctxDone,   \* is r.ctx cancelled?
  link,      \* is the AMQP channel alive?
  consumers, \* the consumers, "registered" with the broker until their
             \* goroutine is started; r.consumers counts those in "recv", "send"
  brokerQ,   \* the broker's queues
  msgChan,   \* the channel given to StartConsuming
  pc, op     \* where each caller is, and what it called

lockVars == <<writer, readers>>
vars == <<lockVars, channel, closed, ctxDone, link, consumers, brokerQ,
          msgChan, pc, op>>

NoMsg == [id |-> 0]
Msg(q) == [id |-> 1, queue |-> q]     \* published through the driver
Foreign(q) == [id |-> 2, queue |-> q] \* by another program

NoOp == [name |-> "none", queue |-> 0]
Writers == {"Connect", "DeclareTopology", "Close"}
Ops == {[name |-> n, queue |-> 0] : n \in Writers}
       \cup [name : {"StartConsuming", "Publish"}, queue : Queues]

(* NewRabbitMQDriver. *)
Init ==
  /\ writer = {} /\ readers = {}
  /\ channel = FALSE /\ closed = FALSE /\ ctxDone = FALSE
  /\ link = FALSE
  /\ consumers = <<>>
  /\ brokerQ = [q \in Queues |-> <<>>]
  /\ msgChan = <<>>
  /\ pc = [c \in Callers |-> "idle"]
  /\ op = [c \in Callers |-> NoOp]

Goto(c, where) == pc' = [pc EXCEPT ![c] = where]
ioVars == <<channel, closed, ctxDone, link, consumers, brokerQ, msgChan>>

-----------------------------------------------------------------------------
(* r.mu, a Go RWMutex: a waiting writer keeps new readers out.             *)

(* main connects before anything else uses the driver, and never again. *)
Call(c, o) ==
  /\ pc[c] = "idle"
  /\ o.name = "Connect" =>
       ~channel /\ ~closed /\ \A d \in Callers : pc[d] = "idle"
  /\ \A d \in Callers : op[d].name # "Connect"
  /\ op' = [op EXCEPT ![c] = o]
  /\ Goto(c, IF o.name \in Writers THEN "lock" ELSE "rlock")
  /\ UNCHANGED <<lockVars, ioVars>>

Locks(c) ==
  /\ pc[c] = "lock"
  /\ writer = {} /\ readers = {}
  /\ writer' = {c}
  /\ Goto(c, "io")
  /\ UNCHANGED <<readers, ioVars, op>>

RLocks(c) ==
  /\ pc[c] = "rlock"
  /\ writer = {} /\ \A d \in Callers : pc[d] # "lock"
  /\ readers' = readers \cup {c}
  /\ Goto(c, "io")
  /\ UNCHANGED <<writer, ioVars, op>>

(* The deferred unlock of every operation; Unlock lets in the readers that *)
(* wait behind the writer.                                                 *)
Returns(c) ==
  LET admitted == IF c \in writer THEN {d \in Callers : pc[d] = "rlock"} ELSE {}
  IN  /\ writer' = writer \ {c}
      /\ readers' = (readers \ {c}) \cup admitted
      /\ pc' = [d \in Callers |-> IF d = c THEN "idle"
                                 ELSE IF d \in admitted THEN "io" ELSE pc[d]]
      /\ op' = [op EXCEPT ![c] = NoOp]

Runs(c, name) == pc[c] = "io" /\ op[c].name = name

notConnected == ~channel \/ closed

-----------------------------------------------------------------------------
(* The operations; all but StartConsuming and Close are one step from      *)
(* their first test to their return.                                       *)

(* A live connection is kept; otherwise dialling or opening the channel    *)
(* may fail.  r.ctx stays as it is.                                        *)
Connect(c) ==
  /\ Runs(c, "Connect")
  /\ \/ UNCHANGED <<channel, closed, link>>
     \/ /\ ~channel \/ ~link
        /\ channel' = TRUE /\ closed' = FALSE /\ link' = TRUE
  /\ Returns(c)
  /\ UNCHANGED <<ctxDone, consumers, brokerQ, msgChan>>

(* Any declaration of an exchange, a queue or a binding may be refused; by *)
(* the broker at the price of the channel.                                 *)
DeclareTopology(c) ==
  /\ Runs(c, "DeclareTopology")
  /\ IF notConnected THEN UNCHANGED link ELSE link' \in {link, FALSE}
  /\ Returns(c)
  /\ UNCHANGED <<channel, closed, ctxDone, consumers, brokerQ, msgChan>>

Registered(q) == [queue |-> q, pc |-> "registered", msg |-> NoMsg]

(* Mutant: the lock is given back before the goroutine is accounted for. *)
StartConsumingUnlocked(c) ==
  /\ Runs(c, "StartConsuming")
  /\ \/ notConnected /\ Returns(c) /\ UNCHANGED <<link, consumers>>
     \/ ~notConnected /\ link' = FALSE /\ Returns(c) /\ UNCHANGED consumers
     \/ /\ ~notConnected /\ link
        /\ Len(consumers) < MaxConsumers
        /\ consumers' = Append(consumers, Registered(op[c].queue))
        /\ readers' = readers \ {c}
        /\ Goto(c, "attach")
        /\ UNCHANGED <<link, writer, op>>
  /\ UNCHANGED <<channel, closed, ctxDone, brokerQ, msgChan>>

(* The broker registers the consumer, or refuses and closes the channel. *)
StartConsuming(c) ==
  /\ Runs(c, "StartConsuming")
  /\ \/ notConnected /\ Returns(c) /\ UNCHANGED <<link, consumers>>
     \/ ~notConnected /\ link' = FALSE /\ Returns(c) /\ UNCHANGED consumers
     \/ /\ ~notConnected /\ link
        /\ Len(consumers) < MaxConsumers
        /\ consumers' = Append(consumers, Registered(op[c].queue))
        /\ Goto(c, "attach")
        /\ UNCHANGED <<link, lockVars, op>>
  /\ UNCHANGED <<channel, closed, ctxDone, brokerQ, msgChan>>

(* r.consumers.Add and the go statement. *)
Attach(c) ==
  /\ pc[c] = "attach"
  /\ \E i \in DOMAIN consumers :
       /\ consumers[i].pc = "registered" /\ consumers[i].queue = op[c].queue
       /\ consumers' = [consumers EXCEPT ![i].pc = "recv"]
  /\ Returns(c)
  /\ UNCHANGED <<channel, closed, ctxDone, link, brokerQ, msgChan>>

(* The message fails to be published, or is routed to no queue, or to the  *)
(* queue named in the call.                                                *)
Publish(c) ==
  /\ Runs(c, "Publish")
  /\ \/ UNCHANGED brokerQ
     \/ /\ ~notConnected /\ link
        /\ Len(brokerQ[op[c].queue]) < MaxQueued
        /\ brokerQ' = [brokerQ EXCEPT ![op[c].queue] =
                         Append(@, Msg(op[c].queue))]
  /\ Returns(c)
  /\ UNCHANGED <<channel, closed, ctxDone, link, consumers, msgChan>>

(* Close: mark and cancel, close channel and connection, then wait for the *)
(* consumers, still under the write lock.                                  *)
CloseAgain(c) ==
  /\ Runs(c, "Close")
  /\ closed
  /\ Returns(c)
  /\ UNCHANGED ioVars

CloseCancels(c) ==
  /\ Runs(c, "Close")
  /\ ~closed
  /\ closed' = TRUE /\ ctxDone' = TRUE
  /\ Goto(c, "hangup")
  /\ UNCHANGED <<lockVars, channel, link, consumers, brokerQ, msgChan, op>>

CloseHangsUp(c) ==
  /\ pc[c] = "hangup"
  /\ link' = FALSE
  /\ Goto(c, "drain")
  /\ UNCHANGED <<lockVars, channel, closed, ctxDone, consumers, brokerQ,
                 msgChan, op>>

(* Mutant: Close does not wait for its consumers. *)
CloseReturnsEarly(c) ==
  /\ pc[c] = "drain"
  /\ Returns(c)
  /\ UNCHANGED ioVars

CloseReturns(c) ==
  /\ pc[c] = "drain"
  /\ \A i \in DOMAIN consumers : consumers[i].pc \notin {"recv", "send"}
  /\ Returns(c)
  /\ UNCHANGED ioVars

-----------------------------------------------------------------------------
(* The consumer goroutine of StartConsuming; both of its selects may find  *)
(* r.ctx cancelled.                                                        *)

consumerVars == <<lockVars, channel, closed, ctxDone, link, pc, op>>

ConsumerReceives(i) ==
  LET q == consumers[i].queue
  IN  /\ consumers[i].pc = "recv" /\ link /\ brokerQ[q] # <<>>
      /\ consumers' = [consumers EXCEPT ![i].pc = "send",
                                        ![i].msg = Head(brokerQ[q])]
      /\ brokerQ' = [brokerQ EXCEPT ![q] = Tail(@)]
      /\ UNCHANGED <<consumerVars, msgChan>>

ConsumerSends(i) ==
  /\ consumers[i].pc = "send" /\ Len(msgChan) < ChanCap
  /\ msgChan' = Append(msgChan, consumers[i].msg)
  /\ consumers' = [consumers EXCEPT ![i].pc = "recv", ![i].msg = NoMsg]
  /\ UNCHANGED <<consumerVars, brokerQ>>

(* Mutant: the send does not select on r.ctx. *)
ConsumerExitsIdle(i) ==
  /\ ctxDone \/ ~link
  /\ consumers[i].pc = "recv"
  /\ consumers' = [consumers EXCEPT ![i].pc = "exited", ![i].msg = NoMsg]
  /\ UNCHANGED <<consumerVars, brokerQ, msgChan>>

ConsumerExits(i) ==
  /\ \/ ctxDone /\ consumers[i].pc \in {"recv", "send"}
     \/ ~link /\ consumers[i].pc = "recv"
  /\ consumers' = [consumers EXCEPT ![i].pc = "exited", ![i].msg = NoMsg]
  /\ UNCHANGED <<consumerVars, brokerQ, msgChan>>

-----------------------------------------------------------------------------
(* The environment: the reader of the channel, and the broker.             *)

ChannelRead ==
  /\ msgChan # <<>>
  /\ msgChan' = Tail(msgChan)
  /\ UNCHANGED <<consumerVars, consumers, brokerQ>>

Arrival(q) ==
  /\ Len(brokerQ[q]) < MaxQueued
  /\ brokerQ' = [brokerQ EXCEPT ![q] = Append(@, Foreign(q))]
  /\ UNCHANGED <<consumerVars, consumers, msgChan>>

LinkLost ==
  /\ link
  /\ link' = FALSE
  /\ UNCHANGED <<lockVars, channel, closed, ctxDone, consumers, brokerQ,
                 msgChan, pc, op>>

Acquires(c) == Locks(c) \/ RLocks(c)
Operates(c) ==
  \/ Connect(c) \/ DeclareTopology(c) \/ StartConsuming(c) \/ Attach(c)
  \/ Publish(c)
  \/ CloseAgain(c) \/ CloseCancels(c) \/ CloseHangsUp(c) \/ CloseReturns(c)
Consumer(i) == ConsumerReceives(i) \/ ConsumerSends(i) \/ ConsumerExits(i)

Next ==
  \/ \E c \in Callers : Acquires(c) \/ Operates(c) \/ \E o \in Ops : Call(c, o)
  \/ \E i \in DOMAIN consumers : Consumer(i)
  \/ ChannelRead \/ \E q \in Queues : Arrival(q)
  \/ LinkLost

(* Go's RWMutex starves nobody, the calls into the AMQP library return,    *)
(* and select does not pass over the cancelled context for ever.           *)
Fairness ==
  /\ \A c \in Callers : SF_vars(Acquires(c)) /\ WF_vars(Operates(c))
  /\ \A i \in 1..MaxConsumers :
       SF_vars(i \in DOMAIN consumers /\ ConsumerExits(i))

Spec == Init /\ [][Next]_vars /\ Fairness

-----------------------------------------------------------------------------
(* Properties.                                                             *)

Closing == \E c \in Callers : pc[c] \in {"hangup", "drain"}

(* "Close cannot be waiting on the WaitGroup yet": no consumer goroutine   *)
(* is added while Close is at work, so that none outlives it, although     *)
(* StartConsuming holds r.mu for reading only.                             *)
AddedBeforeWait ==
  closed => \A i \in DOMAIN consumers :
    /\ consumers[i].pc # "registered"
    /\ ~Closing => consumers[i].pc = "exited"

Contract == INSTANCE DriverContract WITH
  Msgs <- {Msg(q) : q \in Queues},
  Others <- {Foreign(q) : q \in Queues},
  conn <- IF ~closed THEN IF channel THEN "open" ELSE "new"
          ELSE IF Closing THEN "closing" ELSE "closed",
  consumers <- [i \in DOMAIN consumers |->
                  IF consumers[i].pc = "registered"
                  THEN [consumers[i] EXCEPT !.pc = "recv"] ELSE consumers[i]]

(* The driver keeps the contract the engine is verified against: no        *)
(* consumer is attached once Close has begun, nothing is published through *)
(* the driver from then on or on a dead channel, and Close returns only    *)
(* when every consumer has exited.                                         *)
KeepsContract == Contract!Spec

(* Every operation returns: no caller waits for ever on the lock, and      *)
(* Close is not held up by a consumer that is blocked on a full channel.   *)
EveryCallReturns == \A c \in Callers : pc[c] # "idle" ~> pc[c] = "idle"
=============================================================================
