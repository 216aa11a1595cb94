------------------------------ MODULE SpyServer ------------------------------
(***************************************************************************)
(* spy.Server: the REST API over the ring buffer.  Each client has at most *)
(* one request in progress and each request runs in a goroutine of its     *)
(* own, next to the engine's goroutines that Record.  Handlers that take   *)
(* the buffer's lock once are one action; waitForMessages, which takes it  *)
(* twice per round and then parks in a select, is a small state machine:   *)
(*                                                                         *)
(*    "changed" -> "query" -> "select" -> "changed" ... -> "idle"          *)
(***************************************************************************)
EXTENDS RingBuffer

CONSTANT Requests \* the HTTP requests clients may send

Clients == Watchers

(* path, method, and for GET messages the parameters. *)
ASSUME RequestsAssumption ==
  \A r \in Requests : r.wait_for \in NumParam /\ r.query.limit \in NumParam

VARIABLES
  server,  \* the life of s.httpServer
  stopCtx, \* the context Stop was called with: "background" or "timeout"
  hooks,   \* which of s.rules and s.reloader are registered
  pc,      \* where each client's request is
  req,     \* waitForMessages' arguments: filter and n, and the request's limit
  expired, \* has the wait's timer fired?
  gone,    \* is r.Context() done, because the client went away?
  resp     \* the last answer written: its status, and the number it reports

waitVars == <<req, expired, gone>>
lifeVars == <<server, stopCtx, hooks>>
vars     == <<bufferVars, lifeVars, pc, waitVars, resp>>

NoWait   == [filter |-> EmptyFilter, n |-> 0, limit |-> 0]
NoAnswer == [status |-> 0, count |-> 0]

Init ==
  /\ NewRingBuffer
  /\ server = "new"
  /\ stopCtx = "background"
  /\ hooks = {}
  /\ pc = [c \in Clients |-> "idle"]
  /\ req = [c \in Clients |-> NoWait]
  /\ expired = [c \in Clients |-> FALSE]
  /\ gone = [c \in Clients |-> FALSE]
  /\ resp = NoAnswer

-----------------------------------------------------------------------------
(* Life of the server.                                                     *)

(* Start binds the port, which may fail, and serves in the background. *)
Start ==
  /\ server = "new"
  /\ server' \in {"serving", "failed"}
  /\ UNCHANGED <<bufferVars, stopCtx, hooks, pc, waitVars, resp>>

(* main registers the hooks once the engine runs, in this order. *)
SetRulesProvider ==
  /\ server = "serving"
  /\ hooks = {}
  /\ hooks' = {"rules"}
  /\ UNCHANGED <<bufferVars, server, stopCtx, pc, waitVars, resp>>

SetReloader ==
  /\ server = "serving"
  /\ hooks = {"rules"}
  /\ hooks' = {"rules", "reloader"}
  /\ UNCHANGED <<bufferVars, server, stopCtx, pc, waitVars, resp>>

(* Stop calls http.Server.Shutdown: no request is accepted any more ...    *)
(* main calls it with the background context when the driver or the engine *)
(* does not start, and with a timeout once a signal has come.              *)
Stop(ctx) ==
  /\ server = "serving"
  /\ \/ hooks = {} /\ ctx = "background"
     \/ "reloader" \in hooks /\ ctx = "timeout"
  /\ server' = "stopping"
  /\ stopCtx' = ctx
  /\ UNCHANGED <<bufferVars, hooks, pc, waitVars, resp>>

(* ... and it returns when no request is in progress, or with an error     *)
(* when its context expires first.                                         *)
ShutdownReturns ==
  /\ server = "stopping"
  /\ \A c \in Clients : pc[c] = "idle"
  /\ server' = "stopped"
  /\ UNCHANGED <<bufferVars, stopCtx, hooks, pc, waitVars, resp>>

ShutdownExpires ==
  /\ server = "stopping"
  /\ stopCtx = "timeout"
  /\ server' = "expired"
  /\ UNCHANGED <<bufferVars, stopCtx, hooks, pc, waitVars, resp>>

-----------------------------------------------------------------------------
(* Handlers.                                                               *)

(* Mutant: requests are accepted during a shutdown. *)
ArrivesLate(c, r, path) ==
  /\ server \in {"serving", "stopping"}
  /\ pc[c] = "idle"
  /\ r.path = path

Arrives(c, r, path) ==
  /\ server = "serving"
  /\ pc[c] = "idle"
  /\ r.path = path

(* writeJSON: the status and the number of messages the answer reports, in *)
(* the X-Chitchat-Count header, as "messages" or as "cleared".             *)
Reply(status, n) == resp' = [status |-> status, count |-> n]

(* handleMessages answers 400 to parameters it cannot parse; the timeout   *)
(* is only looked at when wait_for is given.                               *)
requestError(r) ==
  \/ filterError(r.query)
  \/ /\ r.wait_for.kind # "absent"
     /\ BadNum(r.wait_for) \/ BadNum(r.timeout)

WaitRequests ==
  {r \in Requests : /\ r.method = "GET" /\ ~requestError(r)
                    /\ r.wait_for.kind = "num"}

handleMessagesRejected(c, r) ==
  /\ Arrives(c, r, "messages")
  /\ r.method # "DELETE"
  /\ \/ /\ r.method # "GET"
        /\ Reply(405, 0)
     \/ /\ r.method = "GET"
        /\ requestError(r)
        /\ Reply(400, 0)
  /\ UNCHANGED <<bufferVars, lifeVars, pc, waitVars>>

handleMessagesQuery(c, r) ==
  /\ Arrives(c, r, "messages")
  /\ r.method = "GET"
  /\ ~requestError(r)
  /\ r.wait_for.kind = "absent"
  /\ Reply(200, Len(Query(parseFilter(r.query))))
  /\ UNCHANGED <<bufferVars, lifeVars, pc, waitVars>>

(* Mutant: the limit of the request stays in the filter of the wait. *)
waitArgsLimited(r) ==
  [filter |-> parseFilter(r.query),
   n |-> r.wait_for.n, limit |-> r.query.limit.n]

(* The wait runs on the filter without its limit. *)
waitArgs(r) ==
  [filter |-> [parseFilter(r.query) EXCEPT !.limit = 0],
   n |-> r.wait_for.n, limit |-> r.query.limit.n]

handleMessagesWait(c, r) ==
  /\ Arrives(c, r, "messages")
  /\ r \in WaitRequests
  /\ pc' = [pc EXCEPT ![c] = "changed"]
  /\ req' = [req EXCEPT ![c] = waitArgs(r)]
  /\ UNCHANGED <<bufferVars, lifeVars, expired, gone, resp>>

(* POST clear, and DELETE messages, which shares handleClear2. *)
handleClear(c, r) ==
  /\ \/ Arrives(c, r, "messages") /\ r.method = "DELETE"
     \/ Arrives(c, r, "clear") /\ r.method = "POST"
  /\ Clear
  /\ Reply(200, Len(messages))
  /\ UNCHANGED <<lifeVars, pc, waitVars>>

(* Health, whatever the method, reports Count, the length of the buffer. *)
handleHealth(c, r) ==
  /\ Arrives(c, r, "health")
  /\ Reply(200, Count)
  /\ UNCHANGED <<bufferVars, lifeVars, pc, waitVars>>

handleRules(c, r) ==
  /\ Arrives(c, r, "rules")
  /\ r.method = "GET"
  /\ Reply(200, 0)
  /\ UNCHANGED <<bufferVars, lifeVars, pc, waitVars>>

(* The reloader is read under hooksMu, then called without the lock. *)
handleReload(c, r) ==
  /\ Arrives(c, r, "reload")
  /\ r.method = "POST"
  /\ \/ /\ "reloader" \notin hooks
        /\ Reply(501, 0)
        /\ UNCHANGED pc
     \/ /\ "reloader" \in hooks
        /\ pc' = [pc EXCEPT ![c] = "reload"]
        /\ UNCHANGED resp
  /\ UNCHANGED <<bufferVars, lifeVars, waitVars>>

reloadReturns(c) ==
  /\ pc[c] = "reload"
  /\ \E status \in {200, 400} : Reply(status, 0)
  /\ pc' = [pc EXCEPT ![c] = "idle"]
  /\ UNCHANGED <<bufferVars, lifeVars, waitVars>>

methodNotAllowed(c, r) ==
  /\ \/ Arrives(c, r, "clear") /\ r.method # "POST"
     \/ Arrives(c, r, "rules") /\ r.method # "GET"
     \/ Arrives(c, r, "reload") /\ r.method # "POST"
  /\ Reply(405, 0)
  /\ UNCHANGED <<bufferVars, lifeVars, pc, waitVars>>

-----------------------------------------------------------------------------
(* The handler returns: its locals and its hold on the channel are gone. *)
Ends(c) ==
  /\ pc' = [pc EXCEPT ![c] = "idle"]
  /\ req' = [req EXCEPT ![c] = NoWait]
  /\ expired' = [expired EXCEPT ![c] = FALSE]
  /\ gone' = [gone EXCEPT ![c] = FALSE]
  /\ watching' = watching \ {c}

(* waitForMessages, one round: take the change channel, query, park.       *)

Waiting(c) == pc[c] \in {"changed", "query", "select"}

GrabChanged(c) ==
  /\ pc[c] = "changed"
  /\ Changed(c)
  /\ pc' = [pc EXCEPT ![c] = "query"]
  /\ UNCHANGED <<messages, nextSeq, lifeVars, waitVars, resp>>

(* The limit of the request is applied to what the wait returns. *)
WaitQuery(c) ==
  LET msgs == Query(req[c].filter)
  IN  /\ pc[c] = "query"
      /\ \/ /\ Len(msgs) >= req[c].n
            /\ Reply(200, Len(LastN(msgs, req[c].limit)))
            /\ Ends(c)
         \/ /\ ~(Len(msgs) >= req[c].n)
            /\ pc' = [pc EXCEPT ![c] = "select"]
            /\ UNCHANGED <<watching, req, expired, gone, resp>>
      /\ UNCHANGED <<messages, nextSeq, lifeVars>>

(* Mutant: a wake-up takes the new channel and parks again, unqueried. *)
SelectChangedParksAgain(c) ==
  /\ pc[c] = "select"
  /\ c \notin watching
  /\ Changed(c)
  /\ UNCHANGED <<messages, nextSeq, lifeVars, pc, waitVars, resp>>

(* The three cases of the select; Go picks any one of those that are ready.*)
SelectChanged(c) ==
  /\ pc[c] = "select"
  /\ c \notin watching
  /\ pc' = [pc EXCEPT ![c] = "changed"]
  /\ UNCHANGED <<bufferVars, lifeVars, waitVars, resp>>

(* Mutant: the timer's case goes round the loop instead of returning. *)
SelectTimerLoops(c) ==
  /\ pc[c] = "select"
  /\ expired[c]
  /\ pc' = [pc EXCEPT ![c] = "changed"]
  /\ UNCHANGED <<bufferVars, lifeVars, waitVars, resp>>

(* The timer's case queries again; a client that went away gets no answer. *)
SelectTimer(c) ==
  /\ pc[c] = "select"
  /\ expired[c]
  /\ \/ gone[c] /\ UNCHANGED resp
     \/ /\ ~gone[c]
        /\ Reply(408, Len(LastN(Query(req[c].filter), req[c].limit)))
  /\ Ends(c)
  /\ UNCHANGED <<messages, nextSeq, lifeVars>>

SelectDone(c) ==
  /\ pc[c] = "select"
  /\ gone[c]
  /\ Ends(c)
  /\ UNCHANGED <<messages, nextSeq, lifeVars, resp>>

-----------------------------------------------------------------------------
(* The environment: the clock, the clients' connections, the engine.       *)

TimerFires(c) ==
  /\ Waiting(c)
  /\ ~expired[c]
  /\ expired' = [expired EXCEPT ![c] = TRUE]
  /\ UNCHANGED <<bufferVars, lifeVars, pc, req, gone, resp>>

ClientGone(c) ==
  /\ Waiting(c)
  /\ ~gone[c]
  /\ gone' = [gone EXCEPT ![c] = TRUE]
  /\ UNCHANGED <<bufferVars, lifeVars, pc, req, expired, resp>>

(* The engine, which main creates after Start, records; a worker that      *)
(* outlasts the engine's Stop still does after Stop of the server.         *)
EngineRecords(msg) ==
  /\ server \notin {"new", "failed"}
  /\ Record(msg)
  /\ UNCHANGED <<lifeVars, pc, waitVars, resp>>

-----------------------------------------------------------------------------
Handler(c) ==
  \E r \in Requests :
    \/ handleMessagesRejected(c, r) \/ handleMessagesQuery(c, r)
    \/ handleMessagesWait(c, r) \/ handleClear(c, r) \/ handleHealth(c, r)
    \/ handleRules(c, r) \/ handleReload(c, r) \/ methodNotAllowed(c, r)

WaitLoop(c) ==
  \/ GrabChanged(c) \/ WaitQuery(c)
  \/ SelectChanged(c) \/ SelectTimer(c) \/ SelectDone(c)

Life ==
  \/ Start \/ SetRulesProvider \/ SetReloader
  \/ \E ctx \in {"background", "timeout"} : Stop(ctx)
  \/ ShutdownReturns \/ ShutdownExpires

Next ==
  \/ Life
  \/ \E c \in Clients :
       \/ Handler(c) \/ WaitLoop(c) \/ reloadReturns(c)
       \/ TimerFires(c) \/ ClientGone(c)
  \/ \E msg \in Messages : EngineRecords(msg)

(* A runnable handler keeps running. *)
HandlerFairness ==
  \A c \in Clients : WF_vars(WaitLoop(c)) /\ WF_vars(reloadReturns(c))

(* Every timer fires, and Go's select, which picks among the ready cases   *)
(* at random, does not pass over the timer for ever.                       *)
TimerFairness ==
  \A c \in Clients : WF_vars(TimerFires(c)) /\ SF_vars(SelectTimer(c))

Spec ==
  /\ Init /\ [][Next]_vars
  /\ HandlerFairness /\ TimerFairness /\ WF_vars(ShutdownReturns)

-----------------------------------------------------------------------------
(* Properties.                                                             *)

(* The messages a waiting client asked for are in the buffer. *)
Enough(c) == Len(Query([req[c].filter EXCEPT !.limit = 0])) >= req[c].n

CapturedMessages == {Captured(m, s) : m \in Messages, s \in 1..MaxSeq}

TypeOK ==
  /\ messages \in Seq(CapturedMessages)
  /\ nextSeq \in 1..(MaxSeq + 1)
  /\ watching \subseteq Clients
  /\ server \in {"new", "failed", "serving", "stopping", "stopped", "expired"}
  /\ stopCtx \in {"background", "timeout"}
  /\ hooks \subseteq {"rules", "reloader"}
  /\ pc \in [Clients -> {"idle", "changed", "query", "select", "reload"}]
  /\ req \in [Clients -> {NoWait} \cup {waitArgs(r) : r \in WaitRequests}]
  /\ expired \in [Clients -> BOOLEAN]
  /\ gone \in [Clients -> BOOLEAN]
  /\ resp.status \in {0, 200, 400, 405, 408, 501}

(* The buffer is a gap-free window of the capture history that ends at the *)
(* newest message and holds at most maxSize messages: eviction drops only  *)
(* the oldest, and clear drops messages but never reuses a number.         *)
WindowContiguous ==
  /\ Len(messages) <= maxSize
  /\ \A i \in 1..Len(messages) :
        messages[i].seq = nextSeq - 1 - Len(messages) + i

(* No lost wake-up: a handler parked in waitForMessages whose change       *)
(* channel is still open has not enough messages to answer with, whatever  *)
(* was recorded or cleared between its grabbing the channel and its query. *)
ParkedNotEnough ==
  \A c \in Clients : pc[c] = "select" /\ c \in watching => ~Enough(c)

(* Every request comes to an end, even if the buffer changes for ever:     *)
(* the timer of wait_for cannot be starved by wake-ups.                    *)
EveryRequestEnds == \A c \in Clients : pc[c] # "idle" ~> pc[c] = "idle"

(* Stop returns: Shutdown outlasts the long polls that are in progress. *)
ShutdownCompletes == server = "stopping" ~> server \in {"stopped", "expired"}

(* Whatever the timers do, a wait whose condition holds and goes on        *)
(* holding is answered.                                                    *)
WaitServed == \A c \in Clients : []<>~(Waiting(c) /\ Enough(c))
=============================================================================
