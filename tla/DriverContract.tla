---------------------------- MODULE DriverContract ---------------------------
(***************************************************************************)
(* The contract of BrokerDriver as a specification of its own, with a      *)
(* reader of the message channel and other programs that publish: what a   *)
(* driver has to implement for the results about the engine to hold.  A    *)
(* message tells whether it came through the driver or from elsewhere, so  *)
(* that only an open driver with a live channel may publish.               *)
(***************************************************************************)
EXTENDS BrokerDriver

CONSTANTS
  Msgs,   \* the messages that are published through the driver
  Others  \* those of other programs, none of them in Msgs

ChannelRead ==
  /\ msgChan # <<>>
  /\ msgChan' = Tail(msgChan)
  /\ UNCHANGED <<conn, link, consumers, brokerQ>>

Arrival(m, q) ==
  /\ brokerQ' = [brokerQ EXCEPT ![q] = Append(@, [m EXCEPT !.queue = q])]
  /\ UNCHANGED <<conn, link, consumers, msgChan>>

Next ==
  \/ ConnectOK \/ DeclareOK \/ DeclareFails \/ ConsumeFails
  \/ \E q \in Queues : ConsumeOK(q)
  \/ \E m \in Msgs, qs \in SUBSET Queues : PublishOK(m, qs)
  \/ PublishFails \/ CloseBegins \/ CloseReturns \/ LinkLost \/ ChannelRead
  \/ \E m \in Others, q \in Queues : Arrival(m, q)
  \/ \E i \in DOMAIN consumers :
       ConsumerReceives(i) \/ ConsumerSends(i) \/ ConsumerExits(i)

Spec == NewDriver /\ [][Next]_driverVars
=============================================================================
