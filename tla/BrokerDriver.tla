----------------------------- MODULE BrokerDriver ----------------------------
(***************************************************************************)
(* The contract of broker.Driver as the engine relies on it: consumer      *)
(* goroutines that move messages from broker queues into the channel they  *)
(* were given, Publish, and a Close that returns once they have exited.    *)
(*                                                                         *)
(* The broker itself is external: a first-in first-out sequence of         *)
(* messages per queue, and one AMQP channel, link, which dies for good     *)
(* with the connection or when the broker refuses an operation on it; the  *)
(* code never opens another one.  Consumers are auto-acknowledged and the  *)
(* client library holds deliveries for them: brokerQ includes what it      *)
(* holds, which the goroutine takes from it, and which dies with link.     *)
(***************************************************************************)
EXTENDS Integers, Sequences, FiniteSets

CONSTANTS
  Queues,  \* the queues of the broker
  ChanCap  \* the capacity of the channel given to StartConsuming

ASSUME DriverAssumption == ChanCap \in Nat \ {0}

VARIABLES
  conn,      \* the driver: "new", "open", "closing" (inside Close), "closed"
  link,      \* is the AMQP channel alive?
  consumers, \* the consumer goroutines, in the order they were started
  brokerQ,   \* brokerQ[q]: the messages in queue q, oldest first
  msgChan    \* the channel the consumers write to

driverVars == <<conn, link, consumers, brokerQ, msgChan>>

NoMsg == [id |-> 0]

NewDriver ==
  /\ conn = "new"
  /\ link = FALSE
  /\ consumers = <<>>
  /\ brokerQ = [q \in Queues |-> <<>>]
  /\ msgChan = <<>>

ConnectedDriver ==
  /\ conn = "open"
  /\ link = TRUE
  /\ consumers = <<>>
  /\ brokerQ = [q \in Queues |-> <<>>]
  /\ msgChan = <<>>

Consumes(i, q) == consumers[i].queue = q /\ consumers[i].pc # "exited"

-----------------------------------------------------------------------------
(* Operations.  Whether the broker accepts one is its own choice.          *)

ConnectOK ==
  /\ conn = "new"
  /\ conn' = "open" /\ link' = TRUE
  /\ UNCHANGED <<consumers, brokerQ, msgChan>>

DeclareOK ==
  /\ conn = "open" /\ link
  /\ UNCHANGED driverVars

(* A closed driver and a dead channel fail; a refusal by the client        *)
(* library leaves the channel alive, one by the broker closes it.          *)
DeclareFails ==
  /\ conn # "closing"
  /\ link' \in {link, FALSE}
  /\ UNCHANGED <<conn, consumers, brokerQ, msgChan>>

ConsumeOK(q) ==
  /\ conn = "open" /\ link
  /\ consumers' = Append(consumers, [queue |-> q, pc |-> "recv", msg |-> NoMsg])
  /\ UNCHANGED <<conn, link, brokerQ, msgChan>>

ConsumeFails ==
  /\ conn # "closing"
  /\ link' = FALSE
  /\ UNCHANGED <<conn, consumers, brokerQ, msgChan>>

(* The broker routes a copy of the message to each of the queues qs. *)
PublishOK(m, qs) ==
  /\ conn = "open" /\ link
  /\ brokerQ' = [q \in Queues |->
                   IF q \in qs THEN Append(brokerQ[q], [m EXCEPT !.queue = q])
                   ELSE brokerQ[q]]
  /\ UNCHANGED <<conn, link, consumers, msgChan>>

(* Mutant: a dead channel is not noticed. *)
PublishFailsClosedOnly ==
  /\ conn = "closed"
  /\ UNCHANGED driverVars

(* A closed driver and a dead channel fail, and so do headers that the     *)
(* client library cannot encode.  A Publish that meets a Close waits.      *)
PublishFails ==
  /\ conn # "closing"
  /\ UNCHANGED driverVars

(* Close cancels the consumers, closes the channel and the connection, and *)
(* waits for the consumers to exit.                                        *)
CloseBegins ==
  /\ conn \in {"new", "open"}
  /\ conn' = "closing"
  /\ UNCHANGED <<link, consumers, brokerQ, msgChan>>

(* Mutant: Close does not wait for the consumers. *)
CloseReturnsEarly ==
  /\ conn = "closing"
  /\ conn' = "closed"
  /\ link' = FALSE
  /\ UNCHANGED <<consumers, brokerQ, msgChan>>

CloseReturns ==
  /\ conn = "closing"
  /\ \A i \in DOMAIN consumers : consumers[i].pc = "exited"
  /\ conn' = "closed"
  /\ link' = FALSE
  /\ UNCHANGED <<consumers, brokerQ, msgChan>>

-----------------------------------------------------------------------------
(* The consumer goroutines: receive a delivery, then send it on.           *)

ConsumerReceives(i) ==
  LET q == consumers[i].queue
  IN  /\ consumers[i].pc = "recv"
      /\ link
      /\ brokerQ[q] # <<>>
      /\ consumers' = [consumers EXCEPT ![i].pc = "send",
                                        ![i].msg = Head(brokerQ[q])]
      /\ brokerQ' = [brokerQ EXCEPT ![q] = Tail(@)]
      /\ UNCHANGED <<conn, link, msgChan>>

(* Mutant: a message that meets a full channel is dropped. *)
ConsumerSendsOrDrops(i) ==
  /\ consumers[i].pc = "send"
  /\ msgChan' = IF Len(msgChan) < ChanCap
                  THEN Append(msgChan, consumers[i].msg) ELSE msgChan
  /\ consumers' = [consumers EXCEPT ![i].pc = "recv", ![i].msg = NoMsg]
  /\ UNCHANGED <<conn, link, brokerQ>>

ConsumerSends(i) ==
  /\ consumers[i].pc = "send"
  /\ Len(msgChan) < ChanCap
  /\ msgChan' = Append(msgChan, consumers[i].msg)
  /\ consumers' = [consumers EXCEPT ![i].pc = "recv", ![i].msg = NoMsg]
  /\ UNCHANGED <<conn, link, brokerQ>>

(* Mutant: a blocked send ignores the cancellation. *)
ConsumerExitsIdle(i) ==
  /\ conn = "closing" \/ ~link
  /\ consumers[i].pc = "recv"
  /\ consumers' = [consumers EXCEPT ![i].pc = "exited", ![i].msg = NoMsg]
  /\ UNCHANGED <<conn, link, brokerQ, msgChan>>

(* Close cancels the consumer in either select, with the message it holds; *)
(* a dead channel ends its deliveries.                                     *)
ConsumerExits(i) ==
  /\ \/ conn = "closing" /\ consumers[i].pc # "exited"
     \/ ~link /\ consumers[i].pc = "recv"
  /\ consumers' = [consumers EXCEPT ![i].pc = "exited", ![i].msg = NoMsg]
  /\ UNCHANGED <<conn, link, brokerQ, msgChan>>

LinkLost ==
  /\ link
  /\ link' = FALSE
  /\ UNCHANGED <<conn, consumers, brokerQ, msgChan>>
=============================================================================
