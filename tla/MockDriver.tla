------------------------------ MODULE MockDriver -----------------------------
(***************************************************************************)
(* pkg/broker/mock_driver.go: the in-memory driver of the tests.  Every    *)
(* method takes m.mu; Publish runs the test's hook under it, and           *)
(* SimulateIncomingMessage gives it back before it offers its message to   *)
(* the channel of the queue, or leaves when the driver is closed.          *)
(***************************************************************************)
EXTENDS Integers, Sequences, FiniteSets

CONSTANTS
  Callers,     \* goroutines of the test and of the engine
  Queues,
  Channels,    \* channels given to StartConsuming
  ChanCap,     \* their capacity
  MaxPublished \* bound: messages published

VARIABLES
  mu,        \* the holder of m.mu, {} when it is free
  Connected, Topology,
  Closed, done, \* the flag, and is the done channel closed?
  Consumers, \* Consumers[q]: the channel of queue q, {} if it has none
  Published, \* the queues published to, in order
  chans,     \* chans[c]: the messages in channel c
  pc,        \* pc[h]: the call of h: its method, "hook", "select" or "idle"
  arg,       \* the queue of the call
  dest       \* the channel SimulateIncomingMessage has looked up

stateVars == <<Connected, Topology, Consumers, Published, chans>>
closeVars == <<Closed, done>>
vars == <<mu, closeVars, stateVars, pc, arg, dest>>

Init ==
  /\ mu = {} /\ Connected = FALSE /\ Topology = FALSE /\ Closed = FALSE /\ done = FALSE
  /\ Consumers = [q \in Queues |-> {}]
  /\ Published = <<>>
  /\ chans = [c \in Channels |-> <<>>]
  /\ pc = [h \in Callers |-> "idle"]
  /\ arg \in [Callers -> Queues]
  /\ dest = [h \in Callers |-> {}]

Methods == {"Connect", "DeclareTopology", "StartConsuming", "Publish", "Close",
            "SimulateIncomingMessage", "GetPublished"}

Goto(h, where) == pc' = [pc EXCEPT ![h] = where]

Call(h, method, q) ==
  /\ pc[h] = "idle"
  /\ Goto(h, method)
  /\ arg' = [arg EXCEPT ![h] = q]
  /\ UNCHANGED <<mu, closeVars, stateVars, dest>>

(* A method that is done before it gives m.mu back. *)
Locked(h, method) == pc[h] = method /\ mu = {} /\ Goto(h, "idle") /\ UNCHANGED <<mu, arg, dest>>

Connect(h) ==
  /\ Locked(h, "Connect")
  /\ Connected' = TRUE
  /\ UNCHANGED <<closeVars, Topology, Consumers, Published, chans>>

DeclareTopology(h) ==
  /\ Locked(h, "DeclareTopology")
  /\ Topology' = TRUE
  /\ UNCHANGED <<closeVars, Connected, Consumers, Published, chans>>

StartConsuming(h, c) ==
  /\ Locked(h, "StartConsuming")
  /\ Consumers' = [Consumers EXCEPT ![arg[h]] = {c}]
  /\ UNCHANGED <<closeVars, Connected, Topology, Published, chans>>

GetPublished(h) == Locked(h, "GetPublished") /\ UNCHANGED <<closeVars, stateVars>>

Close(h) ==
  /\ Locked(h, "Close")
  /\ Closed' = TRUE /\ done' = TRUE
  /\ UNCHANGED stateVars

Publish(h) ==
  /\ pc[h] = "Publish" /\ mu = {}
  /\ mu' = {h}
  /\ Goto(h, "hook")
  /\ UNCHANGED <<closeVars, stateVars, arg, dest>>

(* The hook returns an error, or there is none and the message is kept. *)
PublishReturns(h) ==
  /\ pc[h] = "hook"
  /\ mu' = {}
  /\ Goto(h, "idle")
  /\ Published' \in {Published, Append(Published, arg[h])}
  /\ UNCHANGED <<closeVars, Connected, Topology, Consumers, chans, arg, dest>>

Lookup(h, holder) ==
  /\ pc[h] = "SimulateIncomingMessage" /\ mu = {}
  /\ \/ Consumers[arg[h]] = {} /\ Goto(h, "idle") /\ UNCHANGED <<mu, dest>>
     \/ /\ Consumers[arg[h]] # {}
        /\ dest' = [dest EXCEPT ![h] = Consumers[arg[h]]]
        /\ Goto(h, "select")
        /\ mu' = holder
  /\ UNCHANGED <<closeVars, stateVars, arg>>

(* Mutant: m.mu is kept until the message is delivered. *)
SimulateIncomingMessageLocked(h) == Lookup(h, {h})

SimulateIncomingMessage(h) == Lookup(h, {})

SelectReturns(h) ==
  /\ Goto(h, "idle")
  /\ mu' = mu \ {h}
  /\ dest' = [dest EXCEPT ![h] = {}]
  /\ UNCHANGED <<closeVars, Connected, Topology, Consumers, Published, arg>>

SelectSends(h) ==
  /\ pc[h] = "select"
  /\ \E c \in dest[h] :
       /\ Len(chans[c]) < ChanCap
       /\ chans' = [chans EXCEPT ![c] = Append(@, arg[h])]
  /\ SelectReturns(h)

SelectDone(h) ==
  /\ pc[h] = "select" /\ done
  /\ SelectReturns(h)
  /\ UNCHANGED chans

(* The engine's loop reads the channel, as long as it runs. *)
ChannelRead(c) ==
  /\ chans[c] # <<>>
  /\ chans' = [chans EXCEPT ![c] = Tail(@)]
  /\ UNCHANGED <<mu, closeVars, Connected, Topology, Consumers, Published, pc, arg, dest>>

Bounded == Len(Published) < MaxPublished

Proceeds(h) ==
  \/ Connect(h) \/ DeclareTopology(h) \/ GetPublished(h) \/ Close(h) \/ Publish(h)
  \/ \E c \in Channels : StartConsuming(h, c)
  \/ SimulateIncomingMessage(h)
Continues(h) == PublishReturns(h) \/ SelectSends(h) \/ SelectDone(h)

Next ==
  \/ \E h \in Callers, q \in Queues :
       \/ \E m \in Methods \ {"Publish"} : Call(h, m, q)
       \/ Bounded /\ Call(h, "Publish", q)
  \/ \E h \in Callers : Proceeds(h) \/ Continues(h)
  \/ \E c \in Channels : ChannelRead(c)

(* Go's mutex starves nobody, a select with a ready case proceeds, hooks   *)
(* return.  Nobody has to read the channels or to call anything.           *)
Fairness == \A h \in Callers : SF_vars(Proceeds(h)) /\ WF_vars(Continues(h))

Spec == Init /\ [][Next]_vars /\ Fairness

-----------------------------------------------------------------------------
(* Close returns although nobody reads the channels, and it "releases any  *)
(* blocked SimulateIncomingMessage callers", those that come to block      *)
(* after it included.                                                      *)
CloseReleases ==
  \A h \in Callers :
    (pc[h] = "Close" \/ (Closed /\ pc[h] = "select")) ~> pc[h] = "idle"
=============================================================================
