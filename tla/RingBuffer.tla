----------------------------- MODULE RingBuffer ------------------------------
(***************************************************************************)
(* spy.RingBuffer: the bounded, sliding window of captured messages.       *)
(*                                                                         *)
(* Every method runs under rb.mu, so each is one atomic action or one      *)
(* state function.  The channel rb.changed is modelled by the set of       *)
(* watchers that hold the current, still open channel: closing and         *)
(* replacing it (notifyLocked) empties the set, and a watcher's receive    *)
(* is ready exactly when it is no longer in the set.                       *)
(***************************************************************************)
EXTENDS SpyFilter

CONSTANTS
  RequestedSize, \* the capacity given to NewRingBuffer
  Messages,      \* the broker messages that may be recorded
  MaxSeq,        \* bound: the highest sequence number given out
  Watchers       \* the goroutines that may wait on Changed

ASSUME RingBufferAssumption ==
  /\ RequestedSize \in Int
  /\ MaxSeq \in Nat

VARIABLES
  messages, \* rb.messages
  nextSeq,  \* rb.nextSeq
  watching  \* the watchers that hold the open rb.changed

bufferVars == <<messages, nextSeq, watching>>

(* NewRingBuffer falls back to 1000 for a size that is not positive. *)
maxSize == IF RequestedSize <= 0 THEN 1000 ELSE RequestedSize

(* Mutant: the zero value of nextSeq is left alone. *)
NewRingBufferFromZero ==
  /\ messages = <<>>
  /\ nextSeq = 0
  /\ watching = {}

NewRingBuffer ==
  /\ messages = <<>>
  /\ nextSeq = 1
  /\ watching = {}

-----------------------------------------------------------------------------
notifyLocked == watching' = {}

(* Changed: the caller now holds the current channel. *)
Changed(w) == watching' = watching \cup {w}

(* The CapturedMessage that Record builds.  An empty direction counts as   *)
(* received; the timestamp and the message id take part in no decision.    *)
Captured(msg, seq) ==
  [seq |-> seq,
   direction |-> IF msg.direction = "" THEN DirectionReceived ELSE msg.direction,
   queue |-> msg.queue, exchange |-> msg.exchange,
   routing_key |-> msg.routing_key, rule |-> msg.rule,
   headers |-> normalizeHeaders(msg.headers), body |-> msg.body]

(* Mutant: a full buffer keeps the oldest messages instead. *)
RecordKeepsOldest(msg) ==
  /\ nextSeq <= MaxSeq
  /\ messages' = IF Len(messages) < maxSize
                   THEN Append(messages, Captured(msg, nextSeq)) ELSE messages
  /\ nextSeq' = nextSeq + 1
  /\ notifyLocked

(* Mutant: nobody is woken. *)
RecordSilently(msg) ==
  /\ nextSeq <= MaxSeq
  /\ messages' = LastN(Append(messages, Captured(msg, nextSeq)), maxSize)
  /\ nextSeq' = nextSeq + 1
  /\ UNCHANGED watching

Record(msg) ==
  /\ nextSeq <= MaxSeq
  /\ messages' = LastN(Append(messages, Captured(msg, nextSeq)), maxSize)
  /\ nextSeq' = nextSeq + 1
  /\ notifyLocked

(* Mutant: numbering starts again after a clear. *)
ClearResets ==
  /\ messages' = <<>>
  /\ nextSeq' = 1
  /\ notifyLocked

Clear ==
  /\ messages' = <<>>
  /\ UNCHANGED nextSeq
  /\ notifyLocked

Query(f) == QueryOf(messages, f)

Count == Len(messages)
=============================================================================
