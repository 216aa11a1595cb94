------------------------ MODULE RabbitMQDriverProofs -------------------------
(***************************************************************************)
(* The RabbitMQ driver for any number of callers, queues and consumers:    *)
(* no consumer is added once Close is at work, and the driver implements   *)
(* the contract the engine is verified against.                            *)
(***************************************************************************)
EXTENDS RabbitMQDriver, FiniteSetTheorems, SequenceTheorems, TLAPS

-----------------------------------------------------------------------------
(* The inductive invariant.                                                *)

WriteSection == {"io", "hangup", "drain"}
ReadSection == {"io", "attach"}

Messages == {Msg(q) : q \in Queues} \cup {Foreign(q) : q \in Queues}

ConsumerState == [queue : Queues, pc : {"registered", "recv", "send", "exited"},
                  msg : {NoMsg} \cup Messages]

TypeInv ==
  /\ writer \subseteq Callers /\ readers \subseteq Callers
  /\ pc \in [Callers -> {"idle", "lock", "rlock", "io", "attach", "hangup", "drain"}]
  /\ op \in [Callers -> Ops \cup {NoOp}]
  /\ consumers \in Seq(ConsumerState)
  /\ brokerQ \in [Queues -> Seq(Messages)]

(* Who holds r.mu, and for what: a writer is alone. *)
LockInv ==
  /\ \A c \in writer : pc[c] \in WriteSection /\ op[c].name \in Writers
  /\ \A c \in readers : pc[c] \in ReadSection /\ op[c].name \notin Writers
  /\ \A c \in Callers : pc[c] \in WriteSection /\ op[c].name \in Writers => writer = {c}
  /\ \A c \in Callers : pc[c] \in ReadSection /\ op[c].name \notin Writers => c \in readers
  /\ writer # {} => readers = {}

(* What a caller that is not idle has called. *)
OpInv ==
  /\ \A c \in Callers : pc[c] = "idle" <=> op[c] = NoOp
  /\ \A c \in Callers : pc[c] = "lock" => op[c].name \in Writers
  /\ \A c \in Callers : pc[c] = "rlock" => op[c].name \notin Writers
  /\ \A c \in Callers : pc[c] = "attach" => op[c].name = "StartConsuming"
  /\ \A c \in Callers : pc[c] \in {"hangup", "drain"} => op[c].name = "Close"

(* Connect is alone with a driver that was never connected; a driver that  *)
(* is closed stays so.                                                     *)
ConnectInv ==
  /\ \A c \in Callers : op[c].name = "Connect" =>
       ~channel /\ ~closed /\ \A d \in Callers \ {c} : pc[d] = "idle"
  /\ ctxDone <=> closed
  /\ \A c \in Callers : pc[c] \in {"hangup", "drain"} => closed
  /\ \A c \in Callers : pc[c] = "drain" => ~link

(* A consumer the broker knows and no goroutine serves belongs to a caller *)
(* that has yet to start it.                                               *)
Waiting(q) == {i \in DOMAIN consumers :
                 consumers[i].pc = "registered" /\ consumers[i].queue = q}
Starting(q) == {c \in Callers : pc[c] = "attach" /\ op[c].queue = q}
AttachInv ==
  \A q \in Queues :
    /\ IsFiniteSet(Waiting(q)) /\ IsFiniteSet(Starting(q))
    /\ Cardinality(Waiting(q)) = Cardinality(Starting(q))

ClosedInv ==
  closed =>
    /\ \A c \in Callers : pc[c] # "attach"
    /\ ~Closing =>
         \A i \in DOMAIN consumers : consumers[i].pc \notin {"recv", "send"}

Inv == TypeInv /\ LockInv /\ OpInv /\ ConnectInv /\ AttachInv /\ ClosedInv

-----------------------------------------------------------------------------
(* The lock.                                                               *)

LEMMA OpNames ==
  /\ NoOp.name = "none" /\ NoOp \notin Ops
  /\ \A o \in Ops : /\ o.name # "none"
                    /\ o.name \notin Writers => o.queue \in Queues
  BY DEF NoOp, Ops, Writers

(* A step of a caller inside its operation. *)
Advances(c, from, to, name) ==
  /\ pc[c] = from /\ op[c].name = name /\ Goto(c, to)
  /\ UNCHANGED <<writer, readers, op>>

LEMMA StepKinds ==
  ASSUME TypeInv, OpInv, [Next]_vars
  PROVE  \/ UNCHANGED <<writer, readers, pc, op>>
         \/ \E c \in Callers, o \in Ops : Call(c, o)
         \/ \E c \in Callers : Locks(c)
         \/ \E c \in Callers : RLocks(c)
         \/ \E c \in Callers : pc[c] \in {"io", "attach", "drain"} /\ Returns(c)
         \/ \E c \in Callers : \/ Advances(c, "io", "attach", "StartConsuming")
                               \/ Advances(c, "io", "hangup", "Close")
                               \/ Advances(c, "hangup", "drain", "Close")
<1>1. CASE UNCHANGED vars
  BY <1>1 DEF vars, lockVars
<1>2. ASSUME NEW c \in Callers, Operates(c)
      PROVE  \/ pc[c] \in {"io", "attach", "drain"} /\ Returns(c)
             \/ Advances(c, "io", "attach", "StartConsuming")
             \/ Advances(c, "io", "hangup", "Close")
             \/ Advances(c, "hangup", "drain", "Close")
  BY <1>2 DEF Operates, Connect, DeclareTopology, StartConsuming, Attach, Publish,
     CloseAgain, CloseCancels, CloseHangsUp, CloseReturns, Runs, Advances, lockVars,
     OpInv
<1>3. ASSUME NEW i \in DOMAIN consumers, Consumer(i)
      PROVE  UNCHANGED <<writer, readers, pc, op>>
  BY <1>3 DEF Consumer, ConsumerReceives, ConsumerSends, ConsumerExits,
     consumerVars, lockVars
<1>4. CASE ChannelRead \/ (\E q \in Queues : Arrival(q)) \/ LinkLost
  BY <1>4 DEF ChannelRead, Arrival, LinkLost, consumerVars, lockVars
<1> QED BY <1>1, <1>2, <1>3, <1>4 DEF Next, Acquires

LEMMA ReturnsLock ==
  ASSUME TypeInv, LockInv, OpInv, NEW c \in Callers,
         pc[c] \in {"io", "attach", "drain"}, Returns(c)
  PROVE  LockInv' /\ OpInv'
<1>1. ASSUME NEW d \in Callers
      PROVE  \/ d = c /\ pc'[d] = "idle" /\ op'[d] = NoOp
             \/ /\ d # c /\ d \in readers' /\ pc[d] = "rlock" /\ pc'[d] = "io"
                /\ op'[d] = op[d] /\ op[d].name \notin Writers /\ c \in writer
             \/ d # c /\ pc'[d] = pc[d] /\ op'[d] = op[d]
  BY DEF Returns, TypeInv, OpInv
<1>2. c \in writer => writer = {c} /\ readers = {}
  BY DEF LockInv
<1>3. writer' = writer \ {c} /\ writer' \subseteq Callers /\ readers' \subseteq Callers
  BY DEF Returns, TypeInv
<1>4. ASSUME NEW d \in Callers, d # c, pc[d] # "rlock"
      PROVE  d \in readers' <=> d \in readers
  BY <1>4 DEF Returns
<1>5. ASSUME NEW d \in readers', pc[d] = "rlock", d # c
       PROVE  d \in readers \/ c \in writer
  BY <1>5 DEF Returns
<1>6. NoOp.name \notin Writers
  BY OpNames DEF Writers
<1>7. OpInv'
  BY <1>1 DEF OpInv
<1>8. \A d \in readers : pc[d] # "rlock"
  BY DEF LockInv, ReadSection
<1>9. c \notin writer => c \in readers /\ writer = {}
  <2>1. \/ pc[c] \in WriteSection /\ op[c].name \in Writers
        \/ pc[c] \in ReadSection /\ op[c].name \notin Writers
    BY DEF WriteSection, ReadSection, OpInv, Writers
  <2> QED BY <2>1 DEF LockInv
<1>10. \A d \in writer' : pc'[d] \in WriteSection /\ op'[d].name \in Writers
  BY <1>2, <1>3, <1>9
<1>11. \A d \in readers' : pc'[d] \in ReadSection /\ op'[d].name \notin Writers
  <2>1. c \notin readers'
    BY DEF Returns
  <2>2. ASSUME NEW d \in readers'
        PROVE  pc'[d] \in ReadSection /\ op'[d].name \notin Writers
    <3>1. d \in Callers /\ d # c
      BY <1>3, <2>1
    <3>2. CASE pc[d] = "rlock"
      <4>1. c \in writer
        BY <1>8, <1>5, <3>1, <3>2
      <4> QED BY <3>1, <3>2, <4>1 DEF Returns, TypeInv, OpInv, ReadSection
    <3>3. CASE pc[d] # "rlock"
      <4>1. d \in readers
        BY <1>4, <3>1, <3>3
      <4> QED BY <1>1, <3>1, <3>3, <4>1 DEF LockInv
    <3> QED BY <3>2, <3>3
  <2> QED BY <2>2
<1>12. \A d \in Callers : pc'[d] \in WriteSection /\ op'[d].name \in Writers => writer' = {d}
  BY <1>1, <1>2, <1>3, <1>9 DEF LockInv, WriteSection
<1>13. \A d \in Callers : pc'[d] \in ReadSection /\ op'[d].name \notin Writers => d \in readers'
  BY <1>1, <1>4 DEF LockInv, ReadSection
<1> QED BY <1>2, <1>3, <1>7, <1>9, <1>10, <1>11, <1>12, <1>13 DEF LockInv

LEMMA LockNext ==
  ASSUME TypeInv, LockInv, OpInv, [Next]_vars
  PROVE  LockInv' /\ OpInv'
<1>1. CASE UNCHANGED <<writer, readers, pc, op>>
  BY <1>1 DEF LockInv, OpInv
<1>2. ASSUME NEW c \in Callers, NEW o \in Ops, Call(c, o)
      PROVE  LockInv' /\ OpInv'
  <2>1. /\ pc[c] = "idle" /\ op' = [op EXCEPT ![c] = o]
        /\ UNCHANGED <<writer, readers>>
        /\ \/ o.name \in Writers /\ pc' = [pc EXCEPT ![c] = "lock"]
           \/ o.name \notin Writers /\ pc' = [pc EXCEPT ![c] = "rlock"]
    BY <1>2 DEF Call, Goto, lockVars
  <2>2. c \notin writer /\ c \notin readers
    BY <2>1 DEF LockInv, WriteSection, ReadSection
  <2>3. o # NoOp
    BY OpNames
  <2>4. OpInv'
    BY <2>1, <2>3 DEF OpInv, TypeInv
  <2>5. LockInv'
    BY <2>1, <2>2 DEF LockInv, WriteSection, ReadSection, TypeInv
  <2> QED BY <2>4, <2>5
<1>3. ASSUME NEW c \in Callers, Locks(c)
      PROVE  LockInv' /\ OpInv'
  <2>1. /\ pc[c] = "lock" /\ writer = {} /\ readers = {} /\ writer' = {c}
        /\ pc' = [pc EXCEPT ![c] = "io"] /\ UNCHANGED <<readers, op>>
    BY <1>3 DEF Locks, Goto
  <2>2. OpInv'
    BY <2>1 DEF OpInv, TypeInv
  <2>3. LockInv'
    BY <2>1 DEF LockInv, OpInv, WriteSection, ReadSection, TypeInv
  <2> QED BY <2>2, <2>3
<1>4. ASSUME NEW c \in Callers, RLocks(c)
      PROVE  LockInv' /\ OpInv'
  <2>1. /\ pc[c] = "rlock" /\ writer = {} /\ readers' = readers \cup {c}
        /\ pc' = [pc EXCEPT ![c] = "io"] /\ UNCHANGED <<writer, op>>
    BY <1>4 DEF RLocks, Goto
  <2>2. OpInv'
    BY <2>1 DEF OpInv, TypeInv
  <2>3. LockInv'
    BY <2>1 DEF LockInv, OpInv, WriteSection, ReadSection, TypeInv
  <2> QED BY <2>2, <2>3
<1>5. ASSUME NEW c \in Callers, \/ Advances(c, "io", "attach", "StartConsuming")
                                \/ Advances(c, "io", "hangup", "Close")
                                \/ Advances(c, "hangup", "drain", "Close")
      PROVE  LockInv' /\ OpInv'
  <2>1. OpInv'
    BY <1>5, OpNames DEF Advances, Goto, OpInv, TypeInv
  <2>2. LockInv'
    BY <1>5 DEF Advances, Goto, LockInv, WriteSection, ReadSection, TypeInv, Writers
  <2> QED BY <2>1, <2>2
<1> QED BY <1>1, <1>2, <1>3, <1>4, <1>5, StepKinds, ReturnsLock

-----------------------------------------------------------------------------
(* Types.                                                                  *)

LEMMA TypeInit == Init => TypeInv
<1> SUFFICES ASSUME Init
             PROVE  TypeInv
  OBVIOUS
<1>1. consumers \in Seq(ConsumerState)
  BY DEF Init
<1>2. brokerQ \in [Queues -> Seq(Messages)]
  BY DEF Init
<1> QED BY <1>1, <1>2 DEF Init, TypeInv

LEMMA LockTypeNext ==
  ASSUME TypeInv, OpInv, [Next]_vars
  PROVE  /\ writer' \subseteq Callers /\ readers' \subseteq Callers
         /\ pc' \in [Callers -> {"idle", "lock", "rlock", "io", "attach", "hangup", "drain"}]
         /\ op' \in [Callers -> Ops \cup {NoOp}]
<1> USE DEF TypeInv
<1>1. CASE UNCHANGED <<writer, readers, pc, op>>
  BY <1>1
<1>2. ASSUME NEW c \in Callers, NEW o \in Ops, Call(c, o)
      PROVE  /\ UNCHANGED <<writer, readers>>
             /\ op' = [op EXCEPT ![c] = o]
             /\ pc' = [pc EXCEPT ![c] = "lock"] \/ pc' = [pc EXCEPT ![c] = "rlock"]
  BY <1>2 DEF Call, Goto, lockVars
<1>3. ASSUME NEW c \in Callers, Locks(c) \/ RLocks(c)
      PROVE  /\ writer' \subseteq Callers /\ readers' \subseteq Callers
             /\ UNCHANGED op /\ pc' = [pc EXCEPT ![c] = "io"]
  BY <1>3 DEF Locks, RLocks, Goto
<1>4. ASSUME NEW c \in Callers, Returns(c)
      PROVE  /\ writer' \subseteq Callers /\ readers' \subseteq Callers
             /\ pc' \in [Callers -> {"idle", "lock", "rlock", "io", "attach", "hangup", "drain"}]
             /\ op' \in [Callers -> Ops \cup {NoOp}]
  BY <1>4 DEF Returns
<1>5. ASSUME NEW c \in Callers, \/ Advances(c, "io", "attach", "StartConsuming")
                                \/ Advances(c, "io", "hangup", "Close")
                                \/ Advances(c, "hangup", "drain", "Close")
      PROVE  /\ UNCHANGED <<writer, readers, op>>
             /\ pc' \in [Callers -> {"idle", "lock", "rlock", "io", "attach", "hangup", "drain"}]
  BY <1>5 DEF Advances, Goto
<1>6. /\ writer \subseteq Callers /\ readers \subseteq Callers
      /\ pc \in [Callers -> {"idle", "lock", "rlock", "io", "attach", "hangup", "drain"}]
      /\ op \in [Callers -> Ops \cup {NoOp}]
  OBVIOUS
<1> HIDE DEF TypeInv
<1>7. CASE \E c \in Callers, o \in Ops : Call(c, o)
  BY <1>2, <1>6, <1>7
<1>8. CASE \E c \in Callers : Locks(c) \/ RLocks(c)
  BY <1>3, <1>6, <1>8
<1> QED BY <1>1, <1>4, <1>5, <1>6, <1>7, <1>8, StepKinds

(* Consumer i moves, and no other. *)
OnlyConsumer(i, where, m) ==
  /\ DOMAIN consumers' = DOMAIN consumers
  /\ consumers'[i].queue = consumers[i].queue
  /\ consumers'[i].pc = where /\ consumers'[i].msg = m
  /\ \A j \in DOMAIN consumers : j # i => consumers'[j] = consumers[j]

Registers(c) ==
  /\ pc[c] = "io" /\ op[c].name = "StartConsuming"
  /\ channel /\ ~closed /\ link
  /\ consumers' = Append(consumers, Registered(op[c].queue))
  /\ Goto(c, "attach")
  /\ UNCHANGED <<op, channel, closed, ctxDone, link, brokerQ, msgChan>>

LEMMA ConsumerEffect ==
  ASSUME TypeInv, NEW i \in DOMAIN consumers, Consumer(i)
  PROVE  /\ UNCHANGED consumerVars
         /\ consumers' \in Seq(ConsumerState)
         /\ consumers[i].pc \in {"recv", "send"}
         /\ \/ /\ ConsumerReceives(i)
               /\ OnlyConsumer(i, "send", Head(brokerQ[consumers[i].queue]))
            \/ ConsumerSends(i) /\ OnlyConsumer(i, "recv", NoMsg)
            \/ ConsumerExits(i) /\ OnlyConsumer(i, "exited", NoMsg)
<1>1. consumers[i] \in ConsumerState /\ consumers \in Seq(ConsumerState)
  BY DEF TypeInv
<1>5. ASSUME NEW where \in {"recv", "send", "exited"}, NEW m \in Messages \cup {NoMsg},
             consumers' = [consumers EXCEPT ![i].pc = where, ![i].msg = m]
      PROVE  consumers' \in Seq(ConsumerState)
  <2>1. [consumers[i] EXCEPT !.pc = where, !.msg = m] \in ConsumerState
    BY <1>1, <1>5 DEF ConsumerState, Messages
  <2>2. consumers' = [consumers EXCEPT ![i] = [consumers[i] EXCEPT !.pc = where, !.msg = m]]
    BY <1>1, <1>5
  <2> QED BY <1>1, <2>1, <2>2
<1>2. CASE ConsumerReceives(i)
  <2>1. brokerQ[consumers[i].queue] \in Seq(Messages)
    BY <1>1 DEF TypeInv, ConsumerState, Messages
  <2>2. Head(brokerQ[consumers[i].queue]) \in Messages
    BY <1>2, <2>1 DEF ConsumerReceives
  <2>3. OnlyConsumer(i, "send", Head(brokerQ[consumers[i].queue]))
    BY <1>1, <1>2 DEF ConsumerReceives, OnlyConsumer, ConsumerState
  <2> QED BY <1>2, <1>5, <2>2, <2>3 DEF ConsumerReceives
<1>3. CASE ConsumerSends(i)
  <2>1. OnlyConsumer(i, "recv", NoMsg)
    BY <1>1, <1>3 DEF ConsumerSends, OnlyConsumer, ConsumerState
  <2> QED BY <1>3, <1>5, <2>1 DEF ConsumerSends
<1>4. CASE ConsumerExits(i)
  <2>1. OnlyConsumer(i, "exited", NoMsg)
    BY <1>1, <1>4 DEF ConsumerExits, OnlyConsumer, ConsumerState
  <2> QED BY <1>4, <1>5, <2>1 DEF ConsumerExits
<1> QED BY <1>2, <1>3, <1>4 DEF Consumer

LEMMA AttachEffect ==
  ASSUME TypeInv, NEW c \in Callers, Attach(c)
  PROVE  /\ consumers' \in Seq(ConsumerState)
         /\ \E i \in DOMAIN consumers :
              /\ consumers[i].pc = "registered" /\ consumers[i].queue = op[c].queue
              /\ OnlyConsumer(i, "recv", consumers[i].msg)
<1>1. PICK i \in DOMAIN consumers :
        /\ consumers[i].pc = "registered" /\ consumers[i].queue = op[c].queue
        /\ consumers' = [consumers EXCEPT ![i].pc = "recv"]
  BY DEF Attach
<1>2. consumers[i] \in ConsumerState /\ consumers \in Seq(ConsumerState)
  BY DEF TypeInv
<1>3. [consumers[i] EXCEPT !.pc = "recv"] \in ConsumerState
  BY <1>2 DEF ConsumerState
<1>4. LET s == [consumers[i] EXCEPT !.pc = "recv"]
      IN  s.queue = consumers[i].queue /\ s.pc = "recv" /\ s.msg = consumers[i].msg
  BY <1>2 DEF ConsumerState
<1>5. consumers' = [consumers EXCEPT ![i] = [consumers[i] EXCEPT !.pc = "recv"]]
  BY <1>1
<1>6. consumers' \in Seq(ConsumerState)
  BY <1>1, <1>2, <1>3, <1>5
<1>7. OnlyConsumer(i, "recv", consumers[i].msg)
  <2> DEFINE s == [consumers[i] EXCEPT !.pc = "recv"]
  <2>1. consumers' = [consumers EXCEPT ![i] = s]
    BY <1>5
  <2>2. s.queue = consumers[i].queue /\ s.pc = "recv" /\ s.msg = consumers[i].msg
    BY <1>4
  <2> HIDE DEF s
  <2>3. DOMAIN consumers' = DOMAIN consumers /\ consumers'[i] = s
    BY <1>1, <1>2, <2>1
  <2>4. \A j \in DOMAIN consumers : j # i => consumers'[j] = consumers[j]
    BY <1>2, <2>1
  <2> QED BY <2>2, <2>3, <2>4 DEF OnlyConsumer
<1> QED BY <1>1, <1>6, <1>7

LEMMA RegistersEffect ==
  ASSUME TypeInv, OpInv, NEW c \in Callers, Registers(c)
  PROVE  /\ consumers' \in Seq(ConsumerState) /\ op[c].queue \in Queues
         /\ Len(consumers) \in Nat /\ DOMAIN consumers = 1..Len(consumers)
         /\ DOMAIN consumers' = 1..(Len(consumers) + 1)
         /\ \A j \in DOMAIN consumers : consumers'[j] = consumers[j]
         /\ consumers'[Len(consumers) + 1] = Registered(op[c].queue)
<1>1. op[c].queue \in Queues
  BY OpNames DEF Registers, OpInv, TypeInv, Writers
<1>2. Registered(op[c].queue) \in ConsumerState
  BY <1>1 DEF Registered, ConsumerState
<1>3. consumers \in Seq(ConsumerState)
  BY DEF TypeInv
<1> QED BY <1>1, <1>2, <1>3 DEF Registers

LEMMA ConsumersStep ==
  ASSUME [Next]_vars
  PROVE  \/ UNCHANGED consumers
         \/ \E c \in Callers : Registers(c)
         \/ \E c \in Callers : Attach(c)
         \/ \E i \in DOMAIN consumers : Consumer(i)
<1>1. CASE UNCHANGED vars
  BY <1>1 DEF vars
<1>2. ASSUME NEW c \in Callers, Acquires(c) \/ Operates(c) \/ \E o \in Ops : Call(c, o)
      PROVE  UNCHANGED consumers \/ Registers(c) \/ Attach(c)
  BY <1>2 DEF Acquires, Locks, RLocks, Operates, Call, Connect, DeclareTopology,
     StartConsuming, Publish, CloseAgain, CloseCancels, CloseHangsUp, CloseReturns,
     Registers, Runs, notConnected, ioVars
<1>3. CASE ChannelRead \/ (\E q \in Queues : Arrival(q)) \/ LinkLost
  BY <1>3 DEF ChannelRead, Arrival, LinkLost
<1> QED BY <1>1, <1>2, <1>3 DEF Next

LEMMA QueuesNext ==
  ASSUME TypeInv, OpInv, [Next]_vars
  PROVE  brokerQ' \in [Queues -> Seq(Messages)]
<1>0. /\ brokerQ \in [Queues -> Seq(Messages)]
      /\ \A q \in Queues : Msg(q) \in Messages /\ Foreign(q) \in Messages
  BY DEF TypeInv, Messages
<1>1. CASE UNCHANGED brokerQ
  BY <1>0, <1>1
<1>2. ASSUME NEW q \in Queues, NEW m \in Messages,
             brokerQ' = [brokerQ EXCEPT ![q] = Append(@, m)]
      PROVE  brokerQ' \in [Queues -> Seq(Messages)]
  BY <1>0, <1>2
<1>3. ASSUME NEW c \in Callers, Publish(c)
      PROVE  brokerQ' \in [Queues -> Seq(Messages)]
  <2>1. op[c].queue \in Queues
    BY <1>3, OpNames DEF Publish, Runs, TypeInv, Writers
  <2> QED BY <1>0, <1>1, <1>2, <1>3, <2>1 DEF Publish
<1>4. ASSUME NEW c \in Callers, ~Publish(c),
             Acquires(c) \/ Operates(c) \/ \E o \in Ops : Call(c, o)
      PROVE  UNCHANGED brokerQ
  BY <1>4 DEF Acquires, Locks, RLocks, Operates, Call, Connect, DeclareTopology,
     StartConsuming, Attach, CloseAgain, CloseCancels, CloseHangsUp, CloseReturns, ioVars
<1>5. ASSUME NEW i \in DOMAIN consumers, ConsumerReceives(i)
      PROVE  brokerQ' \in [Queues -> Seq(Messages)]
  <2>1. consumers[i] \in ConsumerState
    BY DEF TypeInv
  <2>2. consumers[i].queue \in Queues
    BY <2>1 DEF ConsumerState
  <2> QED BY <1>0, <1>5, <2>2 DEF ConsumerReceives
<1>6. CASE ChannelRead \/ LinkLost \/ UNCHANGED vars
  BY <1>1, <1>6 DEF ChannelRead, LinkLost, vars
<1>7. ASSUME NEW q \in Queues, Arrival(q)
      PROVE  brokerQ' \in [Queues -> Seq(Messages)]
  BY <1>0, <1>2, <1>7 DEF Arrival
<1>8. ASSUME NEW i \in DOMAIN consumers, ConsumerSends(i) \/ ConsumerExits(i)
      PROVE  UNCHANGED brokerQ
  BY <1>8 DEF ConsumerSends, ConsumerExits
<1> QED BY <1>1, <1>3, <1>4, <1>5, <1>6, <1>7, <1>8 DEF Next, Consumer

LEMMA TypeNext ==
  ASSUME TypeInv, OpInv, [Next]_vars
  PROVE  TypeInv'
<1>1. consumers' \in Seq(ConsumerState)
  <2>1. CASE UNCHANGED consumers
    BY <2>1 DEF TypeInv
  <2> QED BY <2>1, ConsumersStep, RegistersEffect, AttachEffect, ConsumerEffect
<1> QED BY <1>1, LockTypeNext, QueuesNext DEF TypeInv, Messages

-----------------------------------------------------------------------------
(* Connecting and closing.                                                 *)

(* What Returns does to the callers: one leaves, others get the lock. *)
LEMMA ReturnsEffect ==
  ASSUME TypeInv, NEW c \in Callers, Returns(c)
  PROVE  /\ pc'[c] = "idle" /\ op'[c] = NoOp
         /\ \A d \in Callers \ {c} :
              /\ op'[d] = op[d]
              /\ pc'[d] = pc[d] \/ (pc[d] = "rlock" /\ pc'[d] = "io")
  BY DEF Returns, TypeInv

(* The steps that only Connect and Close take, and all others. *)
LEMMA ConnectionStep ==
  ASSUME TypeInv, OpInv, [Next]_vars
  PROVE  \/ \E c \in Callers : Connect(c)
         \/ \E c \in Callers : CloseCancels(c)
         \/ \E c \in Callers : CloseHangsUp(c)
         \/ \E c \in Callers : CloseReturns(c)
         \/ /\ UNCHANGED <<channel, closed, ctxDone>> /\ (link' => link)
            /\ \A c \in Callers : pc'[c] = "hangup" <=> pc[c] = "hangup"
            /\ \A c \in Callers : pc'[c] = "drain" <=> pc[c] = "drain"
<1> DEFINE Stays == /\ UNCHANGED <<channel, closed, ctxDone>> /\ (link' => link)
                    /\ \A c \in Callers : pc'[c] = "hangup" <=> pc[c] = "hangup"
                    /\ \A c \in Callers : pc'[c] = "drain" <=> pc[c] = "drain"
<1>1. ASSUME UNCHANGED vars
      PROVE  Stays
  BY <1>1 DEF vars
<1>2. ASSUME NEW c \in Callers, NEW o \in Ops, Call(c, o)
      PROVE  Stays
  BY <1>2 DEF Call, Goto, ioVars, TypeInv
<1>3. ASSUME NEW c \in Callers, Acquires(c)
      PROVE  Stays
  BY <1>3 DEF Acquires, Locks, RLocks, Goto, ioVars, TypeInv
<1>4. ASSUME NEW c \in Callers, Returns(c), pc[c] \in {"io", "attach"},
             UNCHANGED <<channel, closed, ctxDone>>, link' => link
      PROVE  Stays
  BY <1>4, ReturnsEffect
<1>5. ASSUME NEW c \in Callers, Registers(c)
      PROVE  Stays
  BY <1>5 DEF Registers, Goto, TypeInv
<1>6. ASSUME NEW c \in Callers, StartConsuming(c)
      PROVE  Stays
  BY <1>4, <1>5, <1>6 DEF StartConsuming, Registers, Runs, notConnected
<1>7. ASSUME NEW c \in Callers, Attach(c) \/ Publish(c) \/ CloseAgain(c) \/ DeclareTopology(c)
      PROVE  Stays
  <2>1. Returns(c) /\ pc[c] \in {"io", "attach"} /\ UNCHANGED <<channel, closed, ctxDone>>
    BY <1>7 DEF Attach, Publish, CloseAgain, DeclareTopology, Runs, ioVars
  <2>2. link' = link \/ link' = FALSE
    BY <1>7 DEF Attach, Publish, CloseAgain, DeclareTopology, ioVars
  <2>3. link' => link
    BY <2>2, Zenon
  <2> HIDE DEF Stays
  <2> QED BY <1>4, <2>1, <2>3
<1>8. ASSUME NEW i \in DOMAIN consumers, Consumer(i)
      PROVE  Stays
  BY <1>8 DEF Consumer, ConsumerReceives, ConsumerSends, ConsumerExits, consumerVars
<1>9. ASSUME ChannelRead \/ (\E q \in Queues : Arrival(q)) \/ LinkLost
      PROVE  Stays
  BY <1>9 DEF ChannelRead, Arrival, LinkLost, consumerVars
<1> HIDE DEF Stays
<1>10. \/ \E c \in Callers : Connect(c)
       \/ \E c \in Callers : CloseCancels(c)
       \/ \E c \in Callers : CloseHangsUp(c)
       \/ \E c \in Callers : CloseReturns(c)
       \/ Stays
  BY <1>1, <1>2, <1>3, <1>6, <1>7, <1>8, <1>9 DEF Next, Operates
<1> QED BY <1>10 DEF Stays

LEMMA ConnectInit == Init => ConnectInv
  BY OpNames DEF Init, ConnectInv

(* A caller calls Connect only on a driver that is at rest. *)
LEMMA ConnectAlone ==
  ASSUME TypeInv, OpInv, ConnectInv, [Next]_vars, NEW c \in Callers,
         op'[c].name = "Connect"
  PROVE  /\ ~channel /\ ~closed /\ \A d \in Callers \ {c} : pc'[d] = "idle"
         /\ UNCHANGED <<channel, closed>>
<1>1. ASSUME NEW d \in Callers, NEW o \in Ops, Call(d, o)
      PROVE  /\ ~channel /\ ~closed /\ \A e \in Callers \ {c} : pc'[e] = "idle"
             /\ UNCHANGED <<channel, closed>>
  <2>1. d = c /\ o.name = "Connect"
    BY <1>1 DEF Call, TypeInv
  <2> QED BY <1>1, <2>1 DEF Call, Goto, TypeInv, ioVars
<1>2. ASSUME NEW d \in Callers, Acquires(d) \/ Operates(d)
      PROVE  /\ ~channel /\ ~closed /\ \A e \in Callers \ {c} : pc'[e] = "idle"
             /\ UNCHANGED <<channel, closed>>
  <2>1. pc[d] # "idle"
    BY <1>2 DEF Acquires, Locks, RLocks, Operates, Connect, DeclareTopology,
       StartConsuming, Attach, Publish, CloseAgain, CloseCancels, CloseHangsUp,
       CloseReturns, Runs
  <2>2. op'[c] = op[c] \/ op'[c] = NoOp
    BY <1>2, ReturnsEffect DEF Acquires, Locks, RLocks, Operates, Connect,
       DeclareTopology, StartConsuming, Attach, Publish, CloseAgain, CloseCancels,
       CloseHangsUp, CloseReturns
  <2>3. op[c].name = "Connect" /\ d = c
    BY <2>1, <2>2, OpNames DEF ConnectInv
  <2>4. Acquires(c)
    BY <1>2, <2>3, ReturnsEffect, OpNames DEF Operates, Connect, DeclareTopology,
       StartConsuming, Attach, Publish, CloseAgain, CloseCancels, CloseHangsUp,
       CloseReturns, Runs, OpInv
  <2> QED BY <2>3, <2>4 DEF Acquires, Locks, RLocks, Goto, ioVars, ConnectInv, TypeInv
<1>3. CASE UNCHANGED <<pc, op, channel, closed>>
  BY <1>3 DEF ConnectInv
<1>4. CASE UNCHANGED vars
  BY <1>3, <1>4 DEF vars
<1>5. ASSUME NEW i \in DOMAIN consumers, Consumer(i)
      PROVE  UNCHANGED <<pc, op, channel, closed>>
  BY <1>5 DEF Consumer, ConsumerReceives, ConsumerSends, ConsumerExits, consumerVars
<1>6. CASE ChannelRead \/ (\E q \in Queues : Arrival(q)) \/ LinkLost
  BY <1>3, <1>6 DEF ChannelRead, Arrival, LinkLost, consumerVars
<1> QED BY <1>1, <1>2, <1>3, <1>4, <1>5, <1>6 DEF Next

LEMMA ConnectNext ==
  ASSUME TypeInv, OpInv, ConnectInv, [Next]_vars
  PROVE  ConnectInv'
<1>1. \A c \in Callers : op'[c].name = "Connect" =>
         ~channel' /\ ~closed' /\ \A d \in Callers \ {c} : pc'[d] = "idle"
  BY ConnectAlone
<1>2. ASSUME NEW c \in Callers, Connect(c)
      PROVE  ConnectInv'
  <2>2. ~closed /\ \A d \in Callers \ {c} : pc[d] = "idle"
    BY <1>2 DEF Connect, Runs, ConnectInv
  <2>3. \A d \in Callers : pc'[d] = "idle"
    BY <1>2, <2>2, ReturnsEffect DEF Connect
  <2>4. ~ctxDone' /\ ~closed'
    BY <1>2, <2>2 DEF Connect, ConnectInv
  <2> QED BY <1>1, <2>3, <2>4 DEF ConnectInv
<1>3. ASSUME NEW c \in Callers, CloseCancels(c)
      PROVE  ConnectInv'
  <2>1. \A d \in Callers : pc'[d] = "drain" => pc[d] = "drain"
    BY <1>3 DEF CloseCancels, Goto, TypeInv
  <2>2. closed' /\ ctxDone' /\ UNCHANGED link
    BY <1>3 DEF CloseCancels
  <2> QED BY <1>1, <2>1, <2>2 DEF ConnectInv
<1>4. ASSUME NEW c \in Callers, CloseHangsUp(c)
      PROVE  ConnectInv'
  <2>1. closed /\ UNCHANGED <<closed, ctxDone>> /\ ~link'
    BY <1>4 DEF CloseHangsUp, ConnectInv
  <2> QED BY <1>1, <2>1 DEF ConnectInv
<1>5. ASSUME NEW c \in Callers, CloseReturns(c)
      PROVE  ConnectInv'
  <2>1. UNCHANGED <<closed, ctxDone, link>>
    BY <1>5 DEF CloseReturns, ioVars
  <2>2. \A d \in Callers : pc'[d] \in {"hangup", "drain"} => pc'[d] = pc[d]
    BY <1>5, ReturnsEffect DEF CloseReturns
  <2> QED BY <1>1, <2>1, <2>2 DEF ConnectInv
<1>6. CASE /\ UNCHANGED <<channel, closed, ctxDone>> /\ (link' => link)
           /\ \A c \in Callers : pc'[c] = "hangup" <=> pc[c] = "hangup"
           /\ \A c \in Callers : pc'[c] = "drain" <=> pc[c] = "drain"
  BY <1>1, <1>6 DEF ConnectInv
<1> QED BY <1>2, <1>3, <1>4, <1>5, <1>6, ConnectionStep

-----------------------------------------------------------------------------
(* Consumers.                                                              *)

LEMMA AttachInit == Init => AttachInv
<1> SUFFICES ASSUME Init, NEW q \in Queues
             PROVE  /\ IsFiniteSet(Waiting(q)) /\ IsFiniteSet(Starting(q))
                    /\ Cardinality(Waiting(q)) = Cardinality(Starting(q))
  BY DEF AttachInv
<1>1. Waiting(q) = {} /\ Starting(q) = {}
  BY DEF Init, Waiting, Starting
<1> QED BY <1>1, FS_EmptySet

(* Who is about to start a goroutine changes with the consumers only. *)
LEMMA StartingStep ==
  ASSUME TypeInv, OpInv, [Next]_vars,
         ~ \E c \in Callers : Registers(c) \/ Attach(c)
  PROVE  \A c \in Callers : /\ pc'[c] = "attach" <=> pc[c] = "attach"
                            /\ pc'[c] = "attach" => op'[c] = op[c]
<1> DEFINE Stays == \A c \in Callers : /\ pc'[c] = "attach" <=> pc[c] = "attach"
                                       /\ pc'[c] = "attach" => op'[c] = op[c]
<1>1. CASE UNCHANGED <<pc, op>>
  BY <1>1
<1>2. ASSUME NEW c \in Callers, pc[c] # "attach", Returns(c)
      PROVE  Stays
  BY <1>2, ReturnsEffect
<1>3. ASSUME NEW c \in Callers, NEW where, pc[c] # "attach", where # "attach",
             Goto(c, where), UNCHANGED op
      PROVE  Stays
  BY <1>3 DEF Goto, TypeInv
<1>4. ASSUME NEW c \in Callers, NEW o \in Ops, Call(c, o)
      PROVE  Stays
  BY <1>4 DEF Call, Goto, TypeInv
<1>5. ASSUME NEW c \in Callers, Acquires(c) \/ CloseCancels(c) \/ CloseHangsUp(c)
      PROVE  Stays
  BY <1>3, <1>5 DEF Acquires, Locks, RLocks, CloseCancels, CloseHangsUp, Runs
<1>6. ASSUME NEW c \in Callers, Operates(c), ~CloseCancels(c), ~CloseHangsUp(c)
      PROVE  Stays
  <2>1. pc[c] # "attach" /\ Returns(c)
    BY <1>6 DEF Operates, Connect, DeclareTopology, StartConsuming, Publish,
       CloseAgain, CloseReturns, Runs, Registers, notConnected
  <2> QED BY <1>2, <2>1
<1>7. UNCHANGED <<pc, op>>
      \/ \E c \in Callers : Acquires(c) \/ Operates(c) \/ \E o \in Ops : Call(c, o)
  BY DEF Next, vars, Consumer, ConsumerReceives, ConsumerSends, ConsumerExits,
     ChannelRead, Arrival, LinkLost, consumerVars
<1> QED BY <1>1, <1>4, <1>5, <1>6, <1>7

LEMMA AttachNext ==
  ASSUME TypeInv, OpInv, AttachInv, [Next]_vars
  PROVE  AttachInv'
<1>1. SUFFICES ASSUME NEW q \in Queues
               PROVE  /\ IsFiniteSet(Waiting(q)') /\ IsFiniteSet(Starting(q)')
                      /\ Cardinality(Waiting(q)') = Cardinality(Starting(q)')
  BY DEF AttachInv
<1>2. /\ IsFiniteSet(Waiting(q)) /\ IsFiniteSet(Starting(q))
      /\ Cardinality(Waiting(q)) = Cardinality(Starting(q))
  BY DEF AttachInv
<1>3. CASE Waiting(q)' = Waiting(q) /\ Starting(q)' = Starting(q)
  BY <1>2, <1>3
<1>4. ASSUME NEW c \in Callers, Registers(c)
      PROVE  /\ IsFiniteSet(Waiting(q)') /\ IsFiniteSet(Starting(q)')
             /\ Cardinality(Waiting(q)') = Cardinality(Starting(q)')
  <2> DEFINE n == Len(consumers) + 1
  <2>1. /\ n \notin DOMAIN consumers /\ DOMAIN consumers' = DOMAIN consumers \cup {n}
        /\ \A j \in DOMAIN consumers : consumers'[j] = consumers[j]
        /\ consumers'[n] = Registered(op[c].queue)
    <3>1. /\ Len(consumers) \in Nat /\ DOMAIN consumers = 1..Len(consumers)
          /\ DOMAIN consumers' = 1..n
          /\ \A j \in DOMAIN consumers : consumers'[j] = consumers[j]
          /\ consumers'[n] = Registered(op[c].queue)
      BY <1>4, RegistersEffect
    <3>2. n \notin DOMAIN consumers /\ 1..n = DOMAIN consumers \cup {n}
      BY <3>1
    <3> QED BY <3>1, <3>2
  <2>2. /\ consumers'[n].pc = "registered" /\ consumers'[n].queue = op[c].queue
        /\ pc[c] = "io" /\ UNCHANGED op /\ pc' = [pc EXCEPT ![c] = "attach"]
    BY <1>4, <2>1 DEF Registered, Registers, Goto
  <2> HIDE DEF n
  <2>3. CASE op[c].queue = q
    <3>1. Waiting(q)' = Waiting(q) \cup {n} /\ n \notin Waiting(q)
      BY <2>1, <2>2, <2>3 DEF Waiting
    <3>2. Starting(q)' = Starting(q) \cup {c} /\ c \notin Starting(q)
      BY <2>2, <2>3 DEF Starting, TypeInv
    <3>3. /\ IsFiniteSet(Waiting(q)')
          /\ Cardinality(Waiting(q)') = Cardinality(Waiting(q)) + 1
      BY <1>2, <3>1, FS_AddElement
    <3>4. /\ IsFiniteSet(Starting(q)')
          /\ Cardinality(Starting(q)') = Cardinality(Starting(q)) + 1
      BY <1>2, <3>2, FS_AddElement
    <3> QED BY <1>2, <3>3, <3>4
  <2>4. CASE op[c].queue # q
    <3>1. Waiting(q)' = Waiting(q)
      BY <2>1, <2>2, <2>4 DEF Waiting
    <3>2. Starting(q)' = Starting(q)
      BY <2>2, <2>4 DEF Starting, TypeInv
    <3> QED BY <1>3, <3>1, <3>2
  <2> QED BY <2>3, <2>4
<1>5. ASSUME NEW c \in Callers, Attach(c)
      PROVE  /\ IsFiniteSet(Waiting(q)') /\ IsFiniteSet(Starting(q)')
             /\ Cardinality(Waiting(q)') = Cardinality(Starting(q)')
  <2>1. PICK i \in DOMAIN consumers :
          /\ consumers[i].pc = "registered" /\ consumers[i].queue = op[c].queue
          /\ OnlyConsumer(i, "recv", consumers[i].msg)
    BY <1>5, AttachEffect
  <2>2. /\ pc[c] = "attach" /\ pc'[c] = "idle"
        /\ \A d \in Callers \ {c} :
             /\ op'[d] = op[d]
             /\ pc'[d] = pc[d] \/ (pc[d] = "rlock" /\ pc'[d] = "io")
    BY <1>5, ReturnsEffect DEF Attach
  <2>3. CASE op[c].queue = q
    <3>1. Waiting(q)' = Waiting(q) \ {i} /\ i \in Waiting(q)
      BY <2>1, <2>3 DEF Waiting, OnlyConsumer
    <3>2. Starting(q)' = Starting(q) \ {c} /\ c \in Starting(q)
      BY <2>2, <2>3 DEF Starting
    <3>3. /\ IsFiniteSet(Waiting(q)')
          /\ Cardinality(Waiting(q)') = Cardinality(Waiting(q)) - 1
      BY <1>2, <3>1, FS_RemoveElement
    <3>4. /\ IsFiniteSet(Starting(q)')
          /\ Cardinality(Starting(q)') = Cardinality(Starting(q)) - 1
      BY <1>2, <3>2, FS_RemoveElement
    <3> QED BY <1>2, <3>3, <3>4
  <2>4. CASE op[c].queue # q
    <3>1. Waiting(q)' = Waiting(q)
      BY <2>1, <2>4 DEF Waiting, OnlyConsumer
    <3>2. Starting(q)' = Starting(q)
      BY <2>2, <2>4 DEF Starting
    <3> QED BY <1>3, <3>1, <3>2
  <2> QED BY <2>3, <2>4
<1>6. ASSUME ~ \E c \in Callers : Registers(c) \/ Attach(c)
      PROVE  Waiting(q)' = Waiting(q) /\ Starting(q)' = Starting(q)
  <2>1. Starting(q)' = Starting(q)
    BY <1>6, StartingStep DEF Starting
  <2>2. ASSUME NEW i \in DOMAIN consumers, Consumer(i)
        PROVE  Waiting(q)' = Waiting(q)
    BY <2>2, ConsumerEffect DEF OnlyConsumer, Waiting
  <2>3. ASSUME UNCHANGED consumers
        PROVE  Waiting(q)' = Waiting(q)
    BY <2>3 DEF Waiting
  <2> QED BY <1>6, <2>1, <2>2, <2>3, ConsumersStep
<1> QED BY <1>3, <1>4, <1>5, <1>6

(* A closed driver has no consumer without a goroutine. *)
LEMMA NoneRegistered ==
  ASSUME TypeInv, AttachInv, ClosedInv, closed
  PROVE  \A i \in DOMAIN consumers : consumers[i].pc # "registered"
<1> SUFFICES ASSUME NEW i \in DOMAIN consumers, consumers[i].pc = "registered"
             PROVE  FALSE
  OBVIOUS
<1>1. SUFFICES ASSUME NEW q, q = consumers[i].queue
               PROVE  FALSE
  OBVIOUS
<1>2. q \in Queues /\ i \in Waiting(q)
  <2>1. consumers[i] \in ConsumerState
    BY DEF TypeInv
  <2> QED BY <1>1, <2>1 DEF ConsumerState, Waiting
<1>3. Starting(q) = {}
  BY DEF ClosedInv, Starting
<1>4. Cardinality(Waiting(q)) = 0 /\ IsFiniteSet(Waiting(q))
  BY <1>2, <1>3, FS_EmptySet DEF AttachInv
<1> QED BY <1>2, <1>4, FS_EmptySet

LEMMA ClosedNext ==
  ASSUME TypeInv, LockInv, OpInv, ConnectInv, AttachInv, ClosedInv, [Next]_vars
  PROVE  ClosedInv'
<1>1. ASSUME NEW c \in Callers, Connect(c)
      PROVE  ~closed'
  BY <1>1 DEF Connect, Runs, ConnectInv
<1>2. ASSUME NEW c \in Callers, CloseCancels(c)
      PROVE  ClosedInv'
  <2>1. Closing'
    BY <1>2 DEF CloseCancels, Goto, Closing, TypeInv
  <2>2. \A d \in Callers : pc[d] # "attach"
    <3>1. writer = {c}
      BY <1>2 DEF CloseCancels, Runs, LockInv, WriteSection, Writers
    <3>2. \A d \in Callers : pc[d] = "attach" => d \in readers
      BY DEF LockInv, OpInv, ReadSection, Writers
    <3> QED BY <3>1, <3>2 DEF LockInv
  <2>3. \A d \in Callers : pc'[d] # "attach"
    BY <1>2, <2>2 DEF CloseCancels, Goto, TypeInv
  <2> QED BY <2>1, <2>3 DEF ClosedInv
<1>3. ASSUME closed, UNCHANGED closed
      PROVE  /\ ~ \E c \in Callers : Registers(c) \/ Attach(c)
             /\ \A c \in Callers : pc'[c] # "attach"
  <2>1. ~ \E c \in Callers : Registers(c) \/ Attach(c)
    BY <1>3 DEF Registers, Attach, ClosedInv
  <2> QED BY <1>3, <2>1, StartingStep DEF ClosedInv
<1>4. ASSUME NEW c \in Callers, CloseHangsUp(c)
      PROVE  ClosedInv'
  <2>1. Closing' /\ closed /\ UNCHANGED closed
    BY <1>4 DEF CloseHangsUp, Goto, Closing, TypeInv, ConnectInv
  <2> QED BY <1>3, <2>1 DEF ClosedInv
<1>5. ASSUME NEW c \in Callers, CloseReturns(c)
      PROVE  ClosedInv'
  <2>1. /\ closed /\ UNCHANGED <<closed, consumers>>
        /\ \A i \in DOMAIN consumers : consumers[i].pc \notin {"recv", "send"}
    BY <1>5 DEF CloseReturns, ConnectInv, ioVars
  <2> QED BY <1>3, <2>1 DEF ClosedInv
<1>6. CASE /\ UNCHANGED closed
           /\ \A c \in Callers : pc'[c] = "hangup" <=> pc[c] = "hangup"
           /\ \A c \in Callers : pc'[c] = "drain" <=> pc[c] = "drain"
  <2>1. SUFFICES ASSUME closed
                 PROVE  ClosedInv'
    BY <1>6 DEF ClosedInv
  <2>2. UNCHANGED Closing
    BY <1>6 DEF Closing
  <2>3. ASSUME ~Closing
        PROVE  UNCHANGED consumers
    <3>1. ASSUME NEW i \in DOMAIN consumers, Consumer(i)
          PROVE  FALSE
      BY <2>1, <2>3, <3>1, ConsumerEffect DEF ClosedInv
    <3> QED BY <1>3, <1>6, <2>1, <3>1, ConsumersStep
  <2> QED BY <1>3, <1>6, <2>1, <2>2, <2>3 DEF ClosedInv
<1> QED BY <1>1, <1>2, <1>4, <1>5, <1>6, ConnectionStep DEF ClosedInv

LEMMA InvInit == Init => Inv
<1>1. Init => LockInv /\ OpInv /\ ClosedInv
  BY DEF Init, LockInv, OpInv, ClosedInv, WriteSection, ReadSection
<1> QED BY <1>1, TypeInit, ConnectInit, AttachInit DEF Inv

LEMMA InvNext == Inv /\ [Next]_vars => Inv'
  BY TypeNext, LockNext, ConnectNext, AttachNext, ClosedNext DEF Inv

LEMMA InvAlways == Spec => []Inv
  BY InvInit, InvNext, PTL DEF Spec

LEMMA InvImplies ==
  ASSUME Inv
  PROVE  AddedBeforeWait
<1>1. \A i \in DOMAIN consumers : consumers[i].pc \in {"registered", "recv", "send", "exited"}
  <2>1. \A i \in DOMAIN consumers : consumers[i] \in ConsumerState
    BY DEF Inv, TypeInv
  <2> QED BY <2>1 DEF ConsumerState
<1> QED BY <1>1, NoneRegistered DEF Inv, ClosedInv, AddedBeforeWait

(* StartConsuming holds r.mu for reading from its test of r.closed to the  *)
(* start of its goroutine, and Close holds it for writing from the moment  *)
(* it sets r.closed to its return: no goroutine is added to r.consumers    *)
(* while Close waits for it or later, however many callers there are.      *)
THEOREM NoLateConsumer == Spec => []AddedBeforeWait
  BY InvAlways, InvImplies, PTL

-----------------------------------------------------------------------------
(* The driver implements the contract.                                     *)

(* The contract's conn and consumers, as the refinement maps them. *)
AbsConn == IF ~closed THEN IF channel THEN "open" ELSE "new"
           ELSE IF Closing THEN "closing" ELSE "closed"
AbsConsumers == [i \in DOMAIN consumers |->
                   IF consumers[i].pc = "registered"
                   THEN [consumers[i] EXCEPT !.pc = "recv"] ELSE consumers[i]]

AbsConsumer == [queue : Queues, pc : {"recv", "send", "exited"}, msg : {NoMsg} \cup Messages]

LEMMA MappedVars ==
  UNCHANGED <<AbsConn, link, AbsConsumers, brokerQ, msgChan>>
    => UNCHANGED Contract!driverVars
  BY DEF AbsConn, AbsConsumers, Contract!driverVars

LEMMA MappedSteps ==
  /\ AbsConn = "new" /\ AbsConn' = "open" /\ link' = TRUE
       /\ UNCHANGED <<AbsConsumers, brokerQ, msgChan>> => Contract!Next
  /\ AbsConn # "closing" /\ link' \in {link, FALSE}
       /\ UNCHANGED <<AbsConn, AbsConsumers, brokerQ, msgChan>> => Contract!Next
  /\ AbsConn \in {"new", "open"} /\ AbsConn' = "closing"
       /\ UNCHANGED <<link, AbsConsumers, brokerQ, msgChan>> => Contract!Next
  /\ AbsConn = "closing" /\ AbsConn' = "closed" /\ link' = FALSE
       /\ (\A i \in DOMAIN AbsConsumers : AbsConsumers[i].pc = "exited")
       /\ UNCHANGED <<AbsConsumers, brokerQ, msgChan>> => Contract!Next
  /\ link /\ link' = FALSE
       /\ UNCHANGED <<AbsConn, AbsConsumers, brokerQ, msgChan>> => Contract!Next
  /\ msgChan # <<>> /\ msgChan' = Tail(msgChan)
       /\ UNCHANGED <<AbsConn, link, AbsConsumers, brokerQ>> => Contract!Next
  BY DEF AbsConn, AbsConsumers, Contract!Next, Contract!ConnectOK,
     Contract!DeclareFails, Contract!CloseBegins, Contract!CloseReturns,
     Contract!LinkLost, Contract!ChannelRead

LEMMA MappedConsume ==
  ASSUME NEW q \in Queues, AbsConn = "open", link,
         AbsConsumers' = Append(AbsConsumers, [queue |-> q, pc |-> "recv", msg |-> NoMsg]),
         UNCHANGED <<AbsConn, link, brokerQ, msgChan>>
  PROVE  Contract!Next
<1>1. Contract!ConsumeOK(q)
  BY DEF Contract!ConsumeOK, AbsConn, AbsConsumers, Contract!NoMsg, NoMsg
<1> QED BY <1>1 DEF Contract!Next

LEMMA MappedPublish ==
  ASSUME TypeInv, NEW q \in Queues, AbsConn = "open", link,
         brokerQ' = [brokerQ EXCEPT ![q] = Append(@, Msg(q))],
         UNCHANGED <<AbsConn, link, AbsConsumers, msgChan>>
  PROVE  Contract!Next
<1>1. ASSUME NEW p \in {q}
      PROVE  [Msg(q) EXCEPT !.queue = p] = Msg(q)
  BY DEF Msg
<1>2. brokerQ' = [p \in Queues |->
                    IF p \in {q} THEN Append(brokerQ[p], [Msg(q) EXCEPT !.queue = p])
                    ELSE brokerQ[p]]
  BY <1>1 DEF TypeInv
<1>3. Contract!PublishOK(Msg(q), {q})
  BY <1>2 DEF Contract!PublishOK, AbsConn, AbsConsumers
<1>4. {q} \in SUBSET Queues /\ Msg(q) \in {Msg(p) : p \in Queues}
  OBVIOUS
<1> QED BY <1>3, <1>4 DEF Contract!Next

LEMMA MappedArrival ==
  ASSUME NEW q \in Queues,
         brokerQ' = [brokerQ EXCEPT ![q] = Append(@, Foreign(q))],
         UNCHANGED <<AbsConn, link, AbsConsumers, msgChan>>
  PROVE  Contract!Next
<1>1. [Foreign(q) EXCEPT !.queue = q] = Foreign(q)
  BY DEF Foreign
<1>2. Contract!Arrival(Foreign(q), q)
  BY <1>1 DEF Contract!Arrival, AbsConn, AbsConsumers
<1>3. Foreign(q) \in {Foreign(p) : p \in Queues}
  OBVIOUS
<1> QED BY <1>2, <1>3 DEF Contract!Next

(* A consumer that has its goroutine is the same in the contract. *)
LEMMA AbsConsumersAt ==
  ASSUME TypeInv
  PROVE  /\ DOMAIN AbsConsumers = DOMAIN consumers
         /\ AbsConsumers \in Seq(AbsConsumer)
         /\ Len(AbsConsumers) = Len(consumers)
         /\ \A i \in DOMAIN consumers :
              /\ consumers[i] \in ConsumerState
              /\ consumers[i].pc # "registered" => AbsConsumers[i] = consumers[i]
              /\ consumers[i].pc = "registered" =>
                   AbsConsumers[i] = [consumers[i] EXCEPT !.pc = "recv"]
<1>1. DOMAIN AbsConsumers = DOMAIN consumers
  BY DEF AbsConsumers
<1>2. consumers \in Seq(ConsumerState)
  BY DEF TypeInv
<1>3. ASSUME NEW i \in DOMAIN consumers
      PROVE  /\ consumers[i] \in ConsumerState
             /\ consumers[i].pc # "registered" => AbsConsumers[i] = consumers[i]
             /\ consumers[i].pc = "registered" =>
                  AbsConsumers[i] = [consumers[i] EXCEPT !.pc = "recv"]
  BY <1>2 DEF AbsConsumers
<1>4. ASSUME NEW i \in DOMAIN consumers
      PROVE  AbsConsumers[i] \in AbsConsumer
  BY <1>3 DEF ConsumerState, AbsConsumer, Messages
<1>5. DOMAIN consumers = 1..Len(consumers) /\ Len(consumers) \in Nat
  BY <1>2
<1>6. AbsConsumers = [i \in 1..Len(consumers) |-> AbsConsumers[i]]
  BY <1>5 DEF AbsConsumers
<1>7. AbsConsumers \in [1..Len(consumers) -> AbsConsumer]
  BY <1>4, <1>5, <1>6
<1>8. AbsConsumers \in Seq(AbsConsumer) /\ Len(AbsConsumers) = Len(consumers)
  BY <1>5, <1>7
<1> QED BY <1>1, <1>3, <1>8

LEMMA AbsConnStays ==
  ASSUME UNCHANGED <<channel, closed>>,
         \A c \in Callers : pc'[c] = "hangup" <=> pc[c] = "hangup",
         \A c \in Callers : pc'[c] = "drain" <=> pc[c] = "drain"
  PROVE  UNCHANGED AbsConn
<1>1. Closing' <=> Closing
  BY DEF Closing
<1> QED BY <1>1 DEF AbsConn

LEMMA AbsConsumersStay ==
  ASSUME UNCHANGED consumers
  PROVE  UNCHANGED AbsConsumers
  BY DEF AbsConsumers

(* The goroutine's steps. *)
LEMMA MappedConsumer ==
  ASSUME Inv, Inv', NEW i \in DOMAIN consumers, Consumer(i)
  PROVE  Contract!Next
<1> DEFINE Moved(where, m) == [AbsConsumers EXCEPT ![i].pc = where, ![i].msg = m]
<1>1. /\ UNCHANGED consumerVars /\ consumers[i].pc \in {"recv", "send"}
      /\ DOMAIN consumers' = DOMAIN consumers
      /\ \A j \in DOMAIN consumers : j # i => consumers'[j] = consumers[j]
  BY ConsumerEffect DEF Inv, OnlyConsumer
<1>2. UNCHANGED <<AbsConn, link>>
  BY <1>1, AbsConnStays DEF consumerVars
<1>3. /\ consumers[i] \in ConsumerState /\ AbsConsumers[i] = consumers[i]
      /\ i \in DOMAIN AbsConsumers /\ DOMAIN AbsConsumers = DOMAIN consumers
  BY <1>1, AbsConsumersAt DEF Inv
<1>4. ASSUME NEW where \in {"recv", "send", "exited"}, NEW m,
             OnlyConsumer(i, where, m)
      PROVE  AbsConsumers' = Moved(where, m)
  <2>1. /\ consumers'[i] \in ConsumerState /\ consumers'[i].pc = where
        /\ consumers'[i].msg = m /\ consumers'[i].queue = consumers[i].queue
    <3>1. consumers' \in Seq(ConsumerState)
      BY DEF Inv, TypeInv
    <3> QED BY <1>1, <1>4, <3>1 DEF OnlyConsumer
  <2>2. consumers'[i] = [consumers[i] EXCEPT !.pc = where, !.msg = m]
    BY <1>3, <2>1 DEF ConsumerState
  <2>3. /\ DOMAIN AbsConsumers' = DOMAIN consumers
        /\ AbsConsumers'[i] = consumers'[i]
        /\ \A j \in DOMAIN consumers : j # i => AbsConsumers'[j] = AbsConsumers[j]
    BY <1>1, <2>1 DEF AbsConsumers
  <2>4. AbsConsumers' = [j \in DOMAIN consumers |-> AbsConsumers'[j]]
    BY <1>1 DEF AbsConsumers
  <2>5. AbsConsumers = [j \in DOMAIN consumers |-> AbsConsumers[j]]
    BY DEF AbsConsumers
  <2> HIDE DEF AbsConsumers
  <2>6. AbsConsumers' = [AbsConsumers EXCEPT ![i] = consumers'[i]]
    BY <2>3, <2>4, <2>5
  <2> QED BY <1>3, <2>2, <2>6
<1>5. CASE ConsumerReceives(i) /\ OnlyConsumer(i, "send", Head(brokerQ[consumers[i].queue]))
  <2>1. AbsConsumers' = Moved("send", Head(brokerQ[consumers[i].queue]))
    BY <1>4, <1>5
  <2>2. Contract!ConsumerReceives(i)
    BY <1>2, <1>3, <1>5, <2>1 DEF ConsumerReceives, Contract!ConsumerReceives,
       AbsConn, AbsConsumers
  <2> QED BY <1>3, <2>2 DEF Contract!Next, AbsConsumers
<1>6. CASE ConsumerSends(i) /\ OnlyConsumer(i, "recv", NoMsg)
  <2>1. AbsConsumers' = Moved("recv", NoMsg)
    BY <1>4, <1>6
  <2>2. Contract!ConsumerSends(i)
    BY <1>2, <1>3, <1>6, <2>1 DEF ConsumerSends, Contract!ConsumerSends,
       AbsConn, AbsConsumers, NoMsg, Contract!NoMsg
  <2> QED BY <1>3, <2>2 DEF Contract!Next, AbsConsumers
<1>7. CASE ConsumerExits(i) /\ OnlyConsumer(i, "exited", NoMsg)
  <2>1. AbsConsumers' = Moved("exited", NoMsg)
    BY <1>4, <1>7
  <2>2. ctxDone => AbsConn = "closing"
    BY <1>1, <1>3 DEF Inv, ConnectInv, ClosedInv, AbsConn
  <2>3. Contract!ConsumerExits(i)
    BY <1>2, <1>3, <1>7, <2>1, <2>2 DEF ConsumerExits, Contract!ConsumerExits,
       AbsConn, AbsConsumers, NoMsg, Contract!NoMsg
  <2> QED BY <1>3, <2>3 DEF Contract!Next, AbsConsumers
<1> QED BY <1>5, <1>6, <1>7, ConsumerEffect DEF Inv

LEMMA LinkAlways == Spec => [](link \in BOOLEAN)
<1>1. Init => link \in BOOLEAN
  BY DEF Init
<1>2. link \in BOOLEAN /\ [Next]_vars => (link \in BOOLEAN)'
  <2>1. [Next]_vars => link' = link \/ link' = TRUE \/ link' = FALSE
    BY DEF Next, Acquires, Locks, RLocks, Operates, Call, Connect, DeclareTopology,
       StartConsuming, Attach, Publish, CloseAgain, CloseCancels, CloseHangsUp,
       CloseReturns, Consumer, ConsumerReceives, ConsumerSends, ConsumerExits,
       ChannelRead, Arrival, LinkLost, ioVars, consumerVars, vars
  <2> QED BY <2>1, Zenon
<1> QED BY <1>1, <1>2, PTL DEF Spec

(* An operation that returns from its first section or its second leaves   *)
(* the connection as it is, but for the channel.                           *)
LEMMA ReturnsConn ==
  ASSUME TypeInv, NEW c \in Callers, Returns(c), pc[c] \in {"io", "attach"},
         UNCHANGED <<channel, closed>>
  PROVE  UNCHANGED AbsConn
<1>1. \A d \in Callers : /\ pc'[d] = "hangup" <=> pc[d] = "hangup"
                         /\ pc'[d] = "drain" <=> pc[d] = "drain"
  BY ReturnsEffect
<1> QED BY <1>1, AbsConnStays

(* Whoever runs an operation that is not Close meets no Close at work. *)
LEMMA NotClosing ==
  ASSUME LockInv, OpInv, NEW c \in Callers, pc[c] = "io"
  PROVE  ~Closing
<1> SUFFICES ASSUME NEW d \in Callers, pc[d] \in {"hangup", "drain"}
             PROVE  FALSE
  BY DEF Closing
<1>1. writer = {d} /\ d # c /\ readers = {}
  BY DEF LockInv, OpInv, WriteSection, Writers
<1>2. op[c].name \in Writers => writer = {c}
  BY DEF LockInv, WriteSection
<1>3. op[c].name \notin Writers => c \in readers
  BY DEF LockInv, ReadSection
<1> QED BY <1>1, <1>2, <1>3

LEMMA AppendAsFunction ==
  ASSUME NEW S, NEW s \in Seq(S), NEW e \in S
  PROVE  Append(s, e) = [j \in 1..(Len(s) + 1) |-> IF j = Len(s) + 1 THEN e ELSE s[j]]
<1> DEFINE f == [j \in 1..(Len(s) + 1) |-> IF j = Len(s) + 1 THEN e ELSE s[j]]
<1>1. /\ Append(s, e) \in Seq(S) /\ Len(Append(s, e)) = Len(s) + 1
      /\ Append(s, e)[Len(s) + 1] = e
      /\ \A j \in 1..Len(s) : Append(s, e)[j] = s[j]
  OBVIOUS
<1>2. /\ f \in Seq(S) /\ Len(f) = Len(s) + 1
      /\ \A j \in 1..Len(f) : f[j] = Append(s, e)[j]
  BY <1>1
<1> HIDE DEF f
<1>3. f = Append(s, e)
  BY <1>1, <1>2, SeqEqual
<1> QED BY <1>3 DEF f

LEMMA MappedStart ==
  ASSUME Inv, Inv', NEW c \in Callers, StartConsuming(c)
  PROVE  Contract!Next
<1>1. CASE notConnected /\ Returns(c) /\ UNCHANGED <<link, consumers>>
  <2>1. UNCHANGED <<AbsConn, AbsConsumers>>
    BY <1>1, ReturnsConn, AbsConsumersStay DEF StartConsuming, Runs, Inv
  <2>2. AbsConn # "closing"
    BY NotClosing DEF StartConsuming, Runs, Inv, AbsConn
  <2> QED BY <1>1, <2>1, <2>2, MappedSteps DEF StartConsuming
<1>2. CASE link' = FALSE /\ Returns(c) /\ UNCHANGED consumers
  <2>1. UNCHANGED <<AbsConn, AbsConsumers>>
    BY <1>2, ReturnsConn, AbsConsumersStay DEF StartConsuming, Runs, Inv
  <2>2. AbsConn # "closing"
    BY NotClosing DEF StartConsuming, Runs, Inv, AbsConn
  <2> QED BY <1>2, <2>1, <2>2, MappedSteps DEF StartConsuming
<1>3. CASE Registers(c)
  <2>1. AbsConn = "open" /\ link /\ UNCHANGED <<link, brokerQ, msgChan>>
    BY <1>3 DEF Registers, AbsConn
  <2>2. UNCHANGED AbsConn
    <3>1. \A d \in Callers : /\ pc'[d] = "hangup" <=> pc[d] = "hangup"
                             /\ pc'[d] = "drain" <=> pc[d] = "drain"
      BY <1>3 DEF Registers, Goto, Inv, TypeInv
    <3> QED BY <1>3, <3>1, AbsConnStays DEF Registers
  <2> DEFINE q == op[c].queue
             n == Len(consumers) + 1
             new == [queue |-> q, pc |-> "recv", msg |-> NoMsg]
  <2>3. /\ q \in Queues /\ Len(consumers) \in Nat /\ DOMAIN consumers = 1..Len(consumers)
        /\ DOMAIN consumers' = 1..n
        /\ \A j \in DOMAIN consumers : consumers'[j] = consumers[j]
        /\ consumers'[n] = Registered(q)
    BY <1>3, RegistersEffect DEF Inv
  <2>4. AbsConsumers \in Seq(AbsConsumer) /\ Len(AbsConsumers) = Len(consumers)
    BY AbsConsumersAt DEF Inv
  <2>5. new \in AbsConsumer
    BY <2>3 DEF AbsConsumer
  <2>6. AbsConsumers' = [j \in 1..n |-> IF j = n THEN new ELSE AbsConsumers[j]]
    <3>1. AbsConsumers' = [j \in 1..n |-> AbsConsumers'[j]]
      BY <2>3 DEF AbsConsumers
    <3>2. n \in 1..n /\ n \in DOMAIN consumers'
      BY <2>3
    <3>3. AbsConsumers'[n] = new
      <4>1. AbsConsumers'[n] = [consumers'[n] EXCEPT !.pc = "recv"]
        BY <2>3, <3>2 DEF AbsConsumers, Registered
      <4> QED BY <2>3, <4>1 DEF Registered
    <3>4. ASSUME NEW j \in 1..n, j # n
          PROVE  AbsConsumers'[j] = AbsConsumers[j]
      <4>1. j \in DOMAIN consumers /\ j \in DOMAIN consumers'
        BY <2>3, <3>4
      <4> QED BY <2>3, <4>1 DEF AbsConsumers
    <3> QED BY <3>1, <3>3, <3>4
  <2>7. AbsConsumers' = Append(AbsConsumers, new)
    BY <2>4, <2>5, <2>6, AppendAsFunction
  <2> QED BY <2>1, <2>2, <2>3, <2>7, MappedConsume
<1> QED BY <1>1, <1>2, <1>3 DEF StartConsuming, Registers, Runs, notConnected

LEMMA MappedConnect ==
  ASSUME Inv, NEW c \in Callers, Connect(c)
  PROVE  Contract!Next \/ UNCHANGED Contract!driverVars
<1>1. /\ ~channel /\ ~closed /\ \A d \in Callers \ {c} : pc[d] = "idle"
      /\ pc[c] = "io" /\ Returns(c) /\ UNCHANGED <<consumers, brokerQ, msgChan>>
  BY DEF Connect, Runs, Inv, ConnectInv
<1>2. UNCHANGED AbsConsumers
  BY <1>1, AbsConsumersStay
<1>3. CASE UNCHANGED <<channel, closed, link>>
  <2>1. UNCHANGED AbsConn
    BY <1>1, <1>3, ReturnsConn DEF Inv
  <2> QED BY <1>1, <1>2, <1>3, <2>1, MappedVars
<1>4. CASE channel' = TRUE /\ closed' = FALSE /\ link' = TRUE
  <2>1. AbsConn = "new" /\ AbsConn' = "open"
    BY <1>1, <1>4 DEF AbsConn
  <2> QED BY <1>1, <1>2, <1>4, <2>1, MappedSteps
<1> QED BY <1>3, <1>4 DEF Connect

LEMMA MappedDeclare ==
  ASSUME Inv, NEW c \in Callers, DeclareTopology(c)
  PROVE  Contract!Next
<1>1. /\ pc[c] = "io" /\ Returns(c) /\ link' \in {link, FALSE}
      /\ UNCHANGED <<channel, closed, consumers, brokerQ, msgChan>>
  BY DEF DeclareTopology, Runs
<1>2. UNCHANGED <<AbsConn, AbsConsumers>>
  BY <1>1, ReturnsConn, AbsConsumersStay DEF Inv
<1>3. AbsConn # "closing"
  BY <1>1, NotClosing DEF Inv, AbsConn
<1> QED BY <1>1, <1>2, <1>3, MappedSteps

(* The contract starts the goroutine when the broker registers it. *)
LEMMA MappedAttach ==
  ASSUME Inv, Inv', NEW c \in Callers, Attach(c)
  PROVE  UNCHANGED Contract!driverVars
<1>1. /\ pc[c] = "attach" /\ Returns(c)
      /\ UNCHANGED <<channel, closed, link, brokerQ, msgChan>>
  BY DEF Attach
<1>2. UNCHANGED AbsConn
  BY <1>1, ReturnsConn DEF Inv
<1>3. PICK i \in DOMAIN consumers :
        consumers[i].pc = "registered" /\ OnlyConsumer(i, "recv", consumers[i].msg)
  BY AttachEffect DEF Inv
<1>4. DOMAIN consumers' = DOMAIN consumers
  BY <1>3 DEF OnlyConsumer
<1>5. AbsConsumers'[i] = AbsConsumers[i]
  <2>1. consumers[i] \in ConsumerState /\ consumers'[i] \in ConsumerState
    <3>1. consumers \in Seq(ConsumerState) /\ consumers' \in Seq(ConsumerState)
      BY DEF Inv, TypeInv
    <3> QED BY <1>4, <3>1
  <2>2. consumers'[i] = [consumers[i] EXCEPT !.pc = "recv"]
    BY <1>3, <2>1 DEF OnlyConsumer, ConsumerState
  <2>3. AbsConsumers[i] = [consumers[i] EXCEPT !.pc = "recv"]
    BY <1>3 DEF AbsConsumers
  <2>4. AbsConsumers'[i] = consumers'[i]
    BY <1>3, <1>4 DEF AbsConsumers, OnlyConsumer
  <2> QED BY <2>2, <2>3, <2>4
<1>6. \A j \in DOMAIN consumers : j # i => AbsConsumers'[j] = AbsConsumers[j]
  BY <1>3, <1>4 DEF AbsConsumers, OnlyConsumer
<1>7. /\ AbsConsumers = [j \in DOMAIN consumers |-> AbsConsumers[j]]
      /\ AbsConsumers' = [j \in DOMAIN consumers |-> AbsConsumers'[j]]
  BY <1>4 DEF AbsConsumers
<1>8. UNCHANGED AbsConsumers
  BY <1>5, <1>6, <1>7
<1> QED BY <1>1, <1>2, <1>8, MappedVars

LEMMA MappedPublishCall ==
  ASSUME Inv, NEW c \in Callers, Publish(c)
  PROVE  Contract!Next \/ UNCHANGED Contract!driverVars
<1>1. /\ pc[c] = "io" /\ Returns(c)
      /\ UNCHANGED <<channel, closed, link, consumers, msgChan>>
  BY DEF Publish, Runs
<1>2. UNCHANGED <<AbsConn, AbsConsumers>>
  BY <1>1, ReturnsConn, AbsConsumersStay DEF Inv
<1>3. CASE UNCHANGED brokerQ
  BY <1>1, <1>2, <1>3, MappedVars
<1>4. CASE /\ ~notConnected /\ link
           /\ brokerQ' = [brokerQ EXCEPT ![op[c].queue] = Append(@, Msg(op[c].queue))]
  <2>1. op[c].queue \in Queues
    BY OpNames DEF Publish, Runs, Inv, TypeInv, Writers
  <2>2. AbsConn = "open" /\ TypeInv
    BY <1>4 DEF AbsConn, notConnected, Inv
  <2> QED BY <1>1, <1>2, <1>4, <2>1, <2>2, MappedPublish
<1> QED BY <1>3, <1>4 DEF Publish

LEMMA MappedClose ==
  ASSUME Inv, link \in BOOLEAN, NEW c \in Callers,
         CloseAgain(c) \/ CloseCancels(c) \/ CloseHangsUp(c) \/ CloseReturns(c)
  PROVE  Contract!Next \/ UNCHANGED Contract!driverVars
<1>1. UNCHANGED <<channel, consumers, brokerQ, msgChan>>
  BY DEF CloseAgain, CloseCancels, CloseHangsUp, CloseReturns, ioVars
<1>2. UNCHANGED AbsConsumers
  BY <1>1, AbsConsumersStay
<1>3. CASE CloseAgain(c)
  <2>1. pc[c] = "io" /\ Returns(c) /\ UNCHANGED <<closed, link>>
    BY <1>3 DEF CloseAgain, Runs, ioVars
  <2>2. UNCHANGED AbsConn
    BY <1>1, <2>1, ReturnsConn DEF Inv
  <2> QED BY <1>1, <1>2, <2>1, <2>2, MappedVars
<1>4. CASE CloseCancels(c)
  <2>1. ~closed /\ closed' = TRUE /\ Closing' /\ UNCHANGED link
    BY <1>4 DEF CloseCancels, Goto, Closing, Inv, TypeInv
  <2>2. AbsConn \in {"new", "open"} /\ AbsConn' = "closing"
    BY <2>1 DEF AbsConn
  <2> QED BY <1>1, <1>2, <2>1, <2>2, MappedSteps
<1>5. CASE CloseHangsUp(c)
  <2>1. closed /\ UNCHANGED closed /\ Closing /\ Closing' /\ link' = FALSE
    BY <1>5 DEF CloseHangsUp, Goto, Closing, Inv, TypeInv, ConnectInv
  <2>2. UNCHANGED AbsConn
    BY <2>1 DEF AbsConn
  <2>3. CASE link
    BY <1>1, <1>2, <2>1, <2>2, <2>3, MappedSteps
  <2>4. CASE ~link
    <3>1. link = FALSE
      BY <2>4, Zenon
    <3> QED BY <1>1, <1>2, <2>1, <2>2, <3>1, MappedVars
  <2> QED BY <2>3, <2>4
<1>6. CASE CloseReturns(c)
  <2>1. /\ pc[c] = "drain" /\ Returns(c) /\ closed /\ UNCHANGED <<closed, link>>
        /\ ~link /\ Closing
    BY <1>6 DEF CloseReturns, ioVars, Inv, ConnectInv, Closing
  <2>2. link' = FALSE
    <3>1. link = FALSE
      BY <2>1, Zenon
    <3> QED BY <2>1, <3>1
  <2>3. ~Closing'
    <3>1. ASSUME NEW d \in Callers, d # c, pc[d] \in {"hangup", "drain"}
          PROVE  FALSE
      BY <2>1, <3>1 DEF Inv, LockInv, OpInv, WriteSection, Writers
    <3> QED BY <2>1, <3>1, ReturnsEffect DEF Closing, Inv
  <2>4. AbsConn = "closing" /\ AbsConn' = "closed"
    BY <2>1, <2>3 DEF AbsConn
  <2>5. ASSUME NEW i \in DOMAIN AbsConsumers
        PROVE  AbsConsumers[i].pc = "exited"
    <3>1. /\ i \in DOMAIN consumers /\ consumers[i] \in ConsumerState
          /\ consumers[i].pc # "registered" /\ AbsConsumers[i] = consumers[i]
      BY <2>1, AbsConsumersAt, NoneRegistered DEF Inv
    <3> QED BY <1>6, <3>1 DEF CloseReturns, ConsumerState
  <2> QED BY <1>1, <1>2, <2>2, <2>4, <2>5, MappedSteps
<1> QED BY <1>3, <1>4, <1>5, <1>6

LEMMA MappedWaiting ==
  ASSUME Inv, NEW c \in Callers, Acquires(c) \/ \E o \in Ops : Call(c, o)
  PROVE  UNCHANGED Contract!driverVars
<1>1. UNCHANGED ioVars
  BY DEF Acquires, Locks, RLocks, Call
<1>2. \A d \in Callers : /\ pc'[d] = "hangup" <=> pc[d] = "hangup"
                         /\ pc'[d] = "drain" <=> pc[d] = "drain"
  BY DEF Acquires, Locks, RLocks, Call, Goto, Inv, TypeInv
<1>3. UNCHANGED <<AbsConn, AbsConsumers>>
  BY <1>1, <1>2, AbsConnStays, AbsConsumersStay DEF ioVars
<1> QED BY <1>1, <1>3, MappedVars DEF ioVars

LEMMA MappedBroker ==
  ASSUME ChannelRead \/ (\E q \in Queues : Arrival(q)) \/ LinkLost
  PROVE  Contract!Next
<1>1. UNCHANGED <<channel, closed, pc, consumers>>
  BY DEF ChannelRead, Arrival, LinkLost, consumerVars
<1>2. UNCHANGED <<AbsConn, AbsConsumers>>
  BY <1>1, AbsConnStays, AbsConsumersStay
<1>3. CASE ChannelRead
  BY <1>2, <1>3, MappedSteps DEF ChannelRead, consumerVars
<1>4. ASSUME NEW q \in Queues, Arrival(q)
      PROVE  Contract!Next
  BY <1>2, <1>4, MappedArrival DEF Arrival, consumerVars
<1>5. CASE LinkLost
  BY <1>2, <1>5, MappedSteps DEF LinkLost
<1> QED BY <1>3, <1>4, <1>5

LEMMA MappedNext ==
  ASSUME Inv, Inv', link \in BOOLEAN, [Next]_vars
  PROVE  Contract!Next \/ UNCHANGED Contract!driverVars
<1>1. CASE UNCHANGED vars
  <2>1. UNCHANGED <<AbsConn, AbsConsumers>>
    BY <1>1, AbsConnStays, AbsConsumersStay DEF vars
  <2> QED BY <1>1, <2>1, MappedVars DEF vars
<1>2. ASSUME NEW c \in Callers, Operates(c)
      PROVE  Contract!Next \/ UNCHANGED Contract!driverVars
  BY <1>2, MappedConnect, MappedDeclare, MappedStart, MappedAttach,
     MappedPublishCall, MappedClose DEF Operates
<1> QED BY <1>1, <1>2, MappedWaiting, MappedConsumer, MappedBroker DEF Next

LEMMA MappedInit == Init => Contract!NewDriver
<1> SUFFICES ASSUME Init
             PROVE  Contract!NewDriver
  OBVIOUS
<1>1. AbsConn = "new"
  BY DEF Init, AbsConn
<1>2. AbsConsumers = <<>>
  BY DEF Init, AbsConsumers
<1> QED BY <1>1, <1>2 DEF Init, AbsConn, AbsConsumers, Contract!NewDriver

(* Any number of callers, consumers and queues: whatever the driver does   *)
(* under r.mu is a step of the contract that the engine relies on, or      *)
(* changes nothing the contract speaks of.  No consumer is attached once   *)
(* Close has begun, nothing is published from then on, and Close returns   *)
(* with every goroutine gone.                                              *)
THEOREM ContractKept == Spec => KeepsContract
<1>1. Inv /\ Inv' /\ link \in BOOLEAN /\ [Next]_vars
        => [Contract!Next]_(Contract!driverVars)
  BY MappedNext
<1> QED BY <1>1, InvAlways, LinkAlways, MappedInit, PTL DEF Spec, KeepsContract, Contract!Spec
=============================================================================
