--------------------------- MODULE SpyServerProofs ---------------------------
(***************************************************************************)
(* What SpyServer guarantees for every buffer size, every set of clients,  *)
(* messages and requests.                                                  *)
(***************************************************************************)
EXTENDS SpyServer, TLAPS

(* NewRingBuffer's default makes every capacity positive. *)
LEMMA MaxSizePositive == maxSize \in Nat \ {0}
  BY RingBufferAssumption DEF maxSize

(* LastN, the slicing that evicts and that applies a limit: the result is  *)
(* the end of s, and not longer than n.                                    *)
LEMMA LastNProperties ==
  ASSUME NEW S, NEW s \in Seq(S), NEW n \in Nat \ {0}
  PROVE  /\ LastN(s, n) \in Seq(S)
         /\ Len(LastN(s, n)) <= n
         /\ Len(LastN(s, n)) <= Len(s)
         /\ \A i \in 1..Len(LastN(s, n)) :
              LastN(s, n)[i] = s[Len(s) - Len(LastN(s, n)) + i]
<1>1. CASE Len(s) > n
  <2>1. LastN(s, n) = SubSeq(s, Len(s) - n + 1, Len(s))
    BY <1>1 DEF LastN
  <2>2. /\ Len(s) - n + 1 \in 1..Len(s)
        /\ Len(s) \in Nat
    BY <1>1
  <2>3. Len(LastN(s, n)) = n
    BY <2>1, <2>2
  <2> QED BY <2>1, <2>2, <2>3
<1>2. CASE ~(Len(s) > n)
  BY <1>2 DEF LastN
<1> QED BY <1>1, <1>2

(* The arguments of a wait: the filter has no limit, so the unlimited      *)
(* match set is what the handler waits on.                                 *)
LEMMA WaitArgsUnlimited ==
  ASSUME NEW r
  PROVE  [waitArgs(r).filter EXCEPT !.limit = 0] = waitArgs(r).filter
  BY DEF waitArgs, parseFilter

LEMMA NoWaitUnlimited == [NoWait.filter EXCEPT !.limit = 0] = NoWait.filter
<1>1. ASSUME NEW q, q.limit.n = 0
      PROVE  [parseFilter(q) EXCEPT !.limit = 0] = parseFilter(q)
  <2> DEFINE hs == parseFilter(q).headers
             bs == parseFilter(q).body
  <2>1. parseFilter(q) =
          [queue |-> q.queue, exchange |-> q.exchange,
           routing_key |-> q.routing_key, direction |-> q.direction,
           rule |-> q.rule, since |-> q.since.n, limit |-> 0,
           headers |-> hs, body |-> bs]
    BY <1>1 DEF parseFilter
  <2> HIDE DEF hs, bs
  <2> QED BY <2>1
<1>2. EmptyQuery.limit.n = 0
  BY DEF EmptyQuery, NoParam
<1>3. [EmptyFilter EXCEPT !.limit = 0] = EmptyFilter
  BY <1>1, <1>2 DEF EmptyFilter
<1> QED BY <1>3 DEF NoWait

-----------------------------------------------------------------------------
(* Type correctness.                                                       *)

LEMMA TypeInit == Init => TypeOK
  BY RingBufferAssumption
  DEF Init, TypeOK, NewRingBuffer, NoAnswer

(* Record and Clear, whoever calls them. *)
LEMMA TypeRecord ==
  ASSUME TypeOK, NEW msg \in Messages, Record(msg)
  PROVE  /\ messages' \in Seq(CapturedMessages)
         /\ nextSeq' \in 1..(MaxSeq + 1)
<1>1. nextSeq \in 1..MaxSeq /\ nextSeq' = nextSeq + 1
  BY RingBufferAssumption DEF TypeOK, Record
<1>2. Captured(msg, nextSeq) \in CapturedMessages
  BY <1>1 DEF CapturedMessages
<1>3. Append(messages, Captured(msg, nextSeq)) \in Seq(CapturedMessages)
  BY <1>2 DEF TypeOK
<1>4. messages' \in Seq(CapturedMessages)
  BY <1>3, MaxSizePositive, LastNProperties DEF Record
<1> QED BY <1>1, <1>4, RingBufferAssumption

LEMMA TypeStep == TypeOK /\ [Next]_vars => TypeOK'
<1> SUFFICES ASSUME TypeOK, [Next]_vars PROVE TypeOK'
  OBVIOUS
<1> USE DEF TypeOK
<1>1. ASSUME Life PROVE TypeOK'
  <2> USE DEF bufferVars, waitVars
  <2>1. CASE Start
    BY <2>1 DEF Start
  <2>2. CASE SetRulesProvider
    BY <2>2 DEF SetRulesProvider
  <2>3. ASSUME NEW ctx \in {"background", "timeout"}, Stop(ctx) PROVE TypeOK'
    BY <2>3 DEF Stop
  <2>4. CASE ShutdownReturns
    BY <2>4 DEF ShutdownReturns
  <2>5. CASE SetReloader
    BY <2>5 DEF SetReloader
  <2>6. CASE ShutdownExpires
    BY <2>6 DEF ShutdownExpires
  <2> QED BY <1>1, <2>1, <2>2, <2>3, <2>4, <2>5, <2>6 DEF Life
<1>2. ASSUME NEW c \in Clients, Handler(c) PROVE TypeOK'
  <2> PICK r \in Requests :
        \/ handleMessagesRejected(c, r) \/ handleMessagesQuery(c, r)
        \/ handleMessagesWait(c, r) \/ handleClear(c, r) \/ handleHealth(c, r)
        \/ handleRules(c, r) \/ handleReload(c, r) \/ methodNotAllowed(c, r)
    BY <1>2 DEF Handler
  <2>1. CASE handleMessagesRejected(c, r)
    BY <2>1 DEF handleMessagesRejected, Reply, bufferVars, lifeVars, waitVars
  <2>2. CASE handleMessagesQuery(c, r)
    BY <2>2 DEF handleMessagesQuery, Reply, bufferVars, lifeVars, waitVars
  <2>3. CASE handleMessagesWait(c, r)
    BY <2>3 DEF handleMessagesWait, bufferVars, lifeVars
  <2>4. CASE handleClear(c, r)
    BY <2>4 DEF handleClear, Clear, notifyLocked, Reply, lifeVars, waitVars
  <2>5. CASE handleHealth(c, r)
    BY <2>5 DEF handleHealth, Reply, bufferVars, lifeVars, waitVars
  <2>6. CASE handleRules(c, r)
    BY <2>6 DEF handleRules, Reply, bufferVars, lifeVars, waitVars
  <2>7. CASE handleReload(c, r)
    BY <2>7 DEF handleReload, Reply, bufferVars, lifeVars, waitVars
  <2>8. CASE methodNotAllowed(c, r)
    BY <2>8 DEF methodNotAllowed, Reply, bufferVars, lifeVars, waitVars
  <2> QED BY <2>1, <2>2, <2>3, <2>4, <2>5, <2>6, <2>7, <2>8
<1>3. ASSUME NEW c \in Clients, WaitLoop(c) PROVE TypeOK'
  <2>1. CASE GrabChanged(c)
    BY <2>1 DEF GrabChanged, Changed, lifeVars, waitVars
  <2>2. CASE WaitQuery(c)
    <3> DEFINE msgs == Query(req[c].filter)
    <3>1. UNCHANGED <<messages, nextSeq, lifeVars>>
      BY <2>2 DEF WaitQuery
    <3>2. CASE Reply(200, Len(LastN(msgs, req[c].limit))) /\ Ends(c)
      BY <3>1, <3>2 DEF Ends, Reply, lifeVars
    <3>3. CASE /\ pc' = [pc EXCEPT ![c] = "select"]
               /\ UNCHANGED <<watching, req, expired, gone, resp>>
      BY <3>1, <3>3 DEF lifeVars
    <3> QED BY <2>2, <3>2, <3>3 DEF WaitQuery
  <2>3. CASE SelectChanged(c)
    BY <2>3 DEF SelectChanged, bufferVars, lifeVars, waitVars
  <2>4. CASE SelectTimer(c)
    BY <2>4 DEF SelectTimer, Ends, Reply, lifeVars
  <2>5. CASE SelectDone(c)
    BY <2>5 DEF SelectDone, Ends, lifeVars
  <2> QED BY <1>3, <2>1, <2>2, <2>3, <2>4, <2>5 DEF WaitLoop
<1>4. ASSUME NEW c \in Clients, reloadReturns(c) PROVE TypeOK'
  BY <1>4 DEF reloadReturns, Reply, bufferVars, lifeVars, waitVars
<1>5. ASSUME NEW c \in Clients, TimerFires(c) \/ ClientGone(c) PROVE TypeOK'
  <2>1. CASE TimerFires(c)
    BY <2>1 DEF TimerFires, bufferVars, lifeVars
  <2>2. CASE ClientGone(c)
    BY <2>2 DEF ClientGone, bufferVars, lifeVars
  <2> QED BY <1>5, <2>1, <2>2
<1>6. ASSUME NEW msg \in Messages, EngineRecords(msg) PROVE TypeOK'
  BY <1>6, TypeRecord DEF EngineRecords, Record, notifyLocked, lifeVars, waitVars
<1>7. CASE UNCHANGED vars
  BY <1>7 DEF vars, bufferVars, lifeVars, waitVars
<1> QED BY <1>1, <1>2, <1>3, <1>4, <1>5, <1>6, <1>7 DEF Next

(* Every variable of the server keeps its type, for every buffer size and  *)
(* every set of clients, messages and requests: in particular the numbers  *)
(* given out stay within bounds and a wait only runs on valid arguments.   *)
THEOREM TypeCorrect == Spec => []TypeOK
<1>1. Init => TypeOK
  BY TypeInit
<1>2. TypeOK /\ [Next]_vars => TypeOK'
  BY TypeStep
<1> QED BY <1>1, <1>2, PTL DEF Spec

-----------------------------------------------------------------------------
(* The window of the capture history.                                      *)

(* Nothing but Record and Clear touches the buffer. *)
LEMMA BufferSteps ==
  ASSUME [Next]_vars
  PROVE  \/ UNCHANGED <<messages, nextSeq>>
         \/ \E msg \in Messages : Record(msg)
         \/ Clear
<1>1. CASE Life
  BY <1>1 DEF Life, Start, SetRulesProvider, SetReloader, Stop,
    ShutdownReturns, ShutdownExpires, bufferVars
<1>2. ASSUME NEW c \in Clients, Handler(c)
      PROVE  UNCHANGED <<messages, nextSeq>> \/ Clear
  BY <1>2 DEF Handler, handleMessagesRejected, handleMessagesQuery,
    handleMessagesWait, handleClear, handleHealth, handleRules, handleReload,
    methodNotAllowed, bufferVars
<1>3. ASSUME NEW c \in Clients,
             WaitLoop(c) \/ reloadReturns(c) \/ TimerFires(c) \/ ClientGone(c)
      PROVE  UNCHANGED <<messages, nextSeq>>
  BY <1>3 DEF WaitLoop, GrabChanged, WaitQuery, SelectChanged, SelectTimer,
    SelectDone, reloadReturns, TimerFires, ClientGone, bufferVars
<1>4. ASSUME NEW msg \in Messages, EngineRecords(msg) PROVE Record(msg)
  BY <1>4 DEF EngineRecords
<1>5. CASE UNCHANGED vars
  BY <1>5 DEF vars, bufferVars
<1> QED BY <1>1, <1>2, <1>3, <1>4, <1>5 DEF Next

LEMMA WindowStep ==
  TypeOK /\ WindowContiguous /\ [Next]_vars => WindowContiguous'
<1> SUFFICES ASSUME TypeOK, WindowContiguous, [Next]_vars
             PROVE  WindowContiguous'
  OBVIOUS
<1>0. maxSize \in Nat \ {0} /\ messages \in Seq(CapturedMessages) /\ nextSeq \in Nat
  BY MaxSizePositive, RingBufferAssumption DEF TypeOK
<1>1. CASE UNCHANGED <<messages, nextSeq>>
  BY <1>1 DEF WindowContiguous, maxSize
<1>2. ASSUME NEW msg \in Messages, Record(msg) PROVE WindowContiguous'
  <2> DEFINE all == Append(messages, Captured(msg, nextSeq))
             S   == CapturedMessages \cup {Captured(msg, nextSeq)}
  <2>1. /\ all \in Seq(S)
        /\ Len(all) = Len(messages) + 1
        /\ Len(messages) \in Nat
    BY <1>0
  <2>2. \A i \in 1..Len(all) : all[i].seq = nextSeq - Len(all) + i
    <3> SUFFICES ASSUME NEW i \in 1..Len(all)
                 PROVE  all[i].seq = nextSeq - Len(all) + i
      OBVIOUS
    <3>1. CASE i = Len(messages) + 1
      <4>1. all[i] = Captured(msg, nextSeq)
        BY <1>0, <3>1
      <4>2. Captured(msg, nextSeq).seq = nextSeq
        BY DEF Captured
      <4> QED BY <1>0, <2>1, <3>1, <4>1, <4>2
    <3>2. CASE i \in 1..Len(messages)
      <4>1. all[i] = messages[i]
        BY <1>0, <3>2
      <4>2. messages[i].seq = nextSeq - 1 - Len(messages) + i
        BY <3>2 DEF WindowContiguous
      <4> QED BY <1>0, <2>1, <3>2, <4>1, <4>2
    <3> QED BY <2>1, <3>1, <3>2
  <2>3. messages' = LastN(all, maxSize) /\ nextSeq' = nextSeq + 1
    BY <1>2 DEF Record
  <2> HIDE DEF all, S
  <2>4. /\ messages' \in Seq(S)
        /\ Len(messages') <= maxSize /\ Len(messages') <= Len(all)
        /\ \A i \in 1..Len(messages') :
             messages'[i] = all[Len(all) - Len(messages') + i]
    <3> DEFINE w == LastN(all, maxSize)
    <3>1. /\ w \in Seq(S) /\ Len(w) <= maxSize /\ Len(w) <= Len(all)
          /\ \A i \in 1..Len(w) : w[i] = all[Len(all) - Len(w) + i]
      BY <1>0, <2>1, LastNProperties
    <3>2. messages' = w
      BY <2>3
    <3> HIDE DEF w
    <3> QED BY <3>1, <3>2
  <2>5. ASSUME NEW i \in 1..Len(messages')
        PROVE  messages'[i].seq = nextSeq' - 1 - Len(messages') + i
    <3>1. Len(messages') \in Nat /\ Len(all) \in Nat
      BY <2>1, <2>4
    <3>2. Len(all) - Len(messages') + i \in 1..Len(all)
      BY <2>4, <3>1
    <3>3. messages'[i].seq = nextSeq - Len(all) + (Len(all) - Len(messages') + i)
      BY <2>2, <2>4, <3>2
    <3> QED BY <1>0, <2>3, <3>1, <3>3
  <2>6. maxSize' = maxSize
    BY DEF maxSize
  <2> QED BY <2>4, <2>5, <2>6 DEF WindowContiguous
<1>3. CASE Clear
  <2>1. messages' = <<>> /\ Len(messages') = 0
    BY <1>3 DEF Clear
  <2> QED BY <1>0, <2>1 DEF WindowContiguous, maxSize
<1> QED BY <1>1, <1>2, <1>3, BufferSteps

(* Whatever is recorded, evicted and cleared, the buffer holds the newest  *)
(* messages without a gap, at most maxSize of them, and no sequence number *)
(* is ever used twice: a ?since= cursor stays valid.                       *)
THEOREM WindowAlwaysContiguous == Spec => []WindowContiguous
<1>1. Init => WindowContiguous
  BY MaxSizePositive DEF Init, NewRingBuffer, WindowContiguous
<1>2. TypeOK /\ WindowContiguous /\ [Next]_vars => WindowContiguous'
  BY WindowStep
<1> QED BY <1>1, <1>2, TypeCorrect, PTL DEF Spec

-----------------------------------------------------------------------------
(* No lost wake-up.                                                        *)

(* A handler that is parked on an open channel after a step was parked so  *)
(* before it, on the same buffer and with the same arguments, or has just  *)
(* found too few messages in that buffer.                                  *)
LEMMA ParkStep ==
  ASSUME TypeOK, [Next]_vars, NEW c \in Clients,
         pc'[c] = "select", c \in watching'
  PROVE  /\ messages' = messages
         /\ req'[c] = req[c]
         /\ \/ pc[c] = "select" /\ c \in watching
            \/ ~(Len(Query(req[c].filter)) >= req[c].n)
<1> USE DEF TypeOK
<1>1. CASE Life
  BY <1>1 DEF Life, Start, SetRulesProvider, SetReloader, Stop,
    ShutdownReturns, ShutdownExpires, bufferVars, waitVars
<1>2. ASSUME NEW d \in Clients, Handler(d)
      PROVE  /\ messages' = messages /\ req'[c] = req[c]
             /\ pc[c] = "select" /\ c \in watching
  <2> PICK r \in Requests :
        \/ handleMessagesRejected(d, r) \/ handleMessagesQuery(d, r)
        \/ handleMessagesWait(d, r) \/ handleClear(d, r) \/ handleHealth(d, r)
        \/ handleRules(d, r) \/ handleReload(d, r) \/ methodNotAllowed(d, r)
    BY <1>2 DEF Handler
  <2>1. CASE \/ handleMessagesRejected(d, r) \/ handleMessagesQuery(d, r)
             \/ handleHealth(d, r) \/ handleRules(d, r) \/ methodNotAllowed(d, r)
    BY <2>1 DEF handleMessagesRejected, handleMessagesQuery, handleHealth,
      handleRules, methodNotAllowed, bufferVars, waitVars
  <2>2. CASE handleMessagesWait(d, r)
    BY <2>2 DEF handleMessagesWait, bufferVars
  <2>3. CASE handleClear(d, r)
    BY <2>3 DEF handleClear, Clear, notifyLocked
  <2>4. CASE handleReload(d, r)
    BY <2>4 DEF handleReload, bufferVars, waitVars
  <2> QED BY <2>1, <2>2, <2>3, <2>4
<1>3. ASSUME NEW d \in Clients, WaitLoop(d)
      PROVE  /\ messages' = messages /\ req'[c] = req[c]
             /\ \/ pc[c] = "select" /\ c \in watching
                \/ ~(Len(Query(req[c].filter)) >= req[c].n)
  <2>1. CASE GrabChanged(d)
    BY <2>1 DEF GrabChanged, Changed, waitVars
  <2>2. CASE WaitQuery(d)
    <3>1. CASE Ends(d)
      BY <2>2, <3>1 DEF WaitQuery, Ends
    <3>2. CASE /\ ~(Len(Query(req[d].filter)) >= req[d].n)
               /\ pc' = [pc EXCEPT ![d] = "select"]
               /\ UNCHANGED <<watching, req, expired, gone, resp>>
      <4>1. messages' = messages
        BY <2>2 DEF WaitQuery
      <4> QED BY <3>2, <4>1
    <3> QED BY <2>2, <3>1, <3>2 DEF WaitQuery
  <2>3. CASE SelectChanged(d)
    BY <2>3 DEF SelectChanged, bufferVars, waitVars
  <2>4. CASE SelectTimer(d)
    BY <2>4 DEF SelectTimer, Ends
  <2>5. CASE SelectDone(d)
    BY <2>5 DEF SelectDone, Ends
  <2> QED BY <1>3, <2>1, <2>2, <2>3, <2>4, <2>5 DEF WaitLoop
<1>4. ASSUME NEW d \in Clients,
             reloadReturns(d) \/ TimerFires(d) \/ ClientGone(d)
      PROVE  /\ messages' = messages /\ req'[c] = req[c]
             /\ pc[c] = "select" /\ c \in watching
  BY <1>4 DEF reloadReturns, TimerFires, ClientGone, bufferVars, waitVars
<1>5. ASSUME NEW msg \in Messages, EngineRecords(msg) PROVE FALSE
  BY <1>5 DEF EngineRecords, Record, notifyLocked
<1>6. CASE UNCHANGED vars
  BY <1>6 DEF vars, bufferVars, waitVars
<1> QED BY <1>1, <1>2, <1>3, <1>4, <1>5, <1>6 DEF Next

LEMMA ParkedStep ==
  TypeOK /\ ParkedNotEnough /\ [Next]_vars => ParkedNotEnough'
<1> SUFFICES ASSUME TypeOK, ParkedNotEnough, [Next]_vars,
                    NEW c \in Clients, pc'[c] = "select", c \in watching'
             PROVE  ~Enough(c)'
  BY DEF ParkedNotEnough, Clients
<1>1. /\ messages' = messages
      /\ req'[c] = req[c]
      /\ \/ pc[c] = "select" /\ c \in watching
         \/ ~(Len(Query(req[c].filter)) >= req[c].n)
  BY ParkStep
<1>2. Enough(c)' <=> Enough(c)
  BY <1>1 DEF Enough, Query
<1>3. [req[c].filter EXCEPT !.limit = 0] = req[c].filter
  <2>1. req[c] = NoWait \/ \E r \in WaitRequests : req[c] = waitArgs(r)
    BY DEF TypeOK
  <2> QED BY <2>1, WaitArgsUnlimited, NoWaitUnlimited
<1>4. CASE pc[c] = "select" /\ c \in watching
  BY <1>2, <1>4 DEF ParkedNotEnough
<1>5. CASE ~(Len(Query(req[c].filter)) >= req[c].n)
  BY <1>2, <1>3, <1>5 DEF Enough
<1> QED BY <1>1, <1>4, <1>5

(* No wake-up is lost: a handler that waits on a change channel that is    *)
(* still open is right to wait, for every number of clients and every      *)
(* interleaving of records, clears, grabs and queries.                     *)
THEOREM NoLostWakeup == Spec => []ParkedNotEnough
<1>1. Init => ParkedNotEnough
  BY DEF Init, ParkedNotEnough
<1>2. TypeOK /\ ParkedNotEnough /\ [Next]_vars => ParkedNotEnough'
  BY ParkedStep
<1> QED BY <1>1, <1>2, TypeCorrect, PTL DEF Spec
=============================================================================
