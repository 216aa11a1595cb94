------------------------------ MODULE SpyCursor ------------------------------
(***************************************************************************)
(* The documented way to follow the traffic: clients that poll GET         *)
(* /_chitchat/messages?since=<seq> with the sequence number of the last    *)
(* message they were given, next to the engine that records and to clients *)
(* that clear.  Each poll is one Query under the buffer's lock.            *)
(***************************************************************************)
EXTENDS RingBuffer

CONSTANT PollQuery \* PollQuery[c]: the other parameters client c polls with

VARIABLES
  got, \* got[c]: the messages client c was given so far
  log  \* history: every broker message recorded so far

vars == <<bufferVars, got, log>>

Pollers == Watchers

(* A client that follows the traffic leaves the cursor to its loop, and    *)
(* asks for no limit, which would cut off what is older.                   *)
ASSUME PollQueryAssumption ==
  \A c \in Pollers : /\ PollQuery[c] \in QueryString
                     /\ PollQuery[c].since = NoParam
                     /\ PollQuery[c].limit = NoParam

Init ==
  /\ NewRingBuffer
  /\ got = [c \in Pollers |-> <<>>]
  /\ log = <<>>

cursor(c) == IF got[c] = <<>> THEN 0 ELSE got[c][Len(got[c])].seq

(* The parameter is left out before the first message is known; since=0    *)
(* would be the same.                                                      *)
pollFilter(c) ==
  parseFilter([PollQuery[c] EXCEPT
                 !.since = IF got[c] = <<>> THEN NoParam ELSE Num(cursor(c))])

Poll(c) ==
  /\ got' = [got EXCEPT ![c] = @ \o Query(pollFilter(c))]
  /\ UNCHANGED <<bufferVars, log>>

EngineRecords(msg) ==
  /\ Record(msg)
  /\ log' = Append(log, msg)
  /\ UNCHANGED got

ClientClears ==
  /\ Clear
  /\ UNCHANGED <<got, log>>

Next ==
  \/ \E msg \in Messages : EngineRecords(msg)
  \/ ClientClears
  \/ \E c \in Pollers : Poll(c)

Spec == Init /\ [][Next]_vars

-----------------------------------------------------------------------------
(* Properties.                                                             *)

(* What client c polls for, whatever the numbering. *)
Wanted(c) ==
  {m \in Messages : matches(parseFilter(PollQuery[c]), Captured(m, 1))}

(* A message given to a client is the one recorded under that number, with *)
(* its headers made readable and its direction filled in, although the     *)
(* buffer is cut and cleared between the polls.                            *)
GivenAsRecorded ==
  \A c \in Pollers : \A i \in 1..Len(got[c]) :
    LET seq == got[c][i].seq
    IN  seq \in 1..Len(log) /\ got[c][i] = Captured(log[seq], seq)

Promise == INSTANCE CaptureLog WITH
  Capacity <- maxSize, Events <- Messages, Readers <- Pollers,
  Interest <- [c \in Pollers |-> Wanted(c)],
  base <- nextSeq - 1 - Len(messages),
  got <- [c \in Pollers |-> [i \in DOMAIN got[c] |-> got[c][i].seq]]

(* The spy implements the abstract capture log: polling with ?since yields *)
(* each captured message at most once, in capture order, across evictions  *)
(* and clears, and misses only what had left the buffer before the poll.   *)
CaptureLogSpec == Promise!Spec
=============================================================================
