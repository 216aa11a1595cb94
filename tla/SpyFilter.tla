------------------------------ MODULE SpyFilter ------------------------------
(***************************************************************************)
(* The pure part of pkg/spy/server.go: what a captured message is, how the *)
(* query parameters of GET /_chitchat/messages become a Filter, and which  *)
(* captured messages a Filter selects.                                     *)
(*                                                                         *)
(* Data is abstracted to what a filter can tell apart.  "" is Go's zero    *)
(* string.  A header value is a record [type, text]; text is what          *)
(* fmt.Sprint prints for it, except for raw bytes, which Sprint dumps.     *)
(* A body is the function from the gjson paths that exist in it to the     *)
(* text gjson gives for them (the empty function for a body with none).    *)
(* An optional expected value is a set: {} for nil, {v} for a value.       *)
(***************************************************************************)
EXTENDS Integers, Sequences

DirectionReceived  == "received"
DirectionPublished == "published"

(* A numeric query parameter: absent, malformed, or a number. *)
NoParam   == [kind |-> "absent", n |-> 0]
Malformed == [kind |-> "malformed", n |-> 0]
Num(n)    == [kind |-> "num", n |-> n]

(* Not a non-negative integer, as ParseUint, or Atoi and n < 0, report it. *)
BadNum(p) == p.kind = "malformed" \/ p.n < 0

-----------------------------------------------------------------------------
(* fmt.Sprint of a header value: raw bytes print as a list of numbers. *)
Sprint(v) == IF v.type = "bytes" THEN "[byte dump]" ELSE v.text

(* Raw bytes become a string; every other scalar is kept.  Lists and maps  *)
(* are abstracted to the text they print as once their elements are        *)
(* normalised.                                                             *)
normalizeHeaderValue(v) ==
  IF v.type = "bytes" THEN [v EXCEPT !.type = "string"] ELSE v

normalizeHeaders(h) == [k \in DOMAIN h |-> normalizeHeaderValue(h[k])]

(* The last n elements of s, all of s when n is 0 or s is not longer. *)
LastN(s, n) ==
  IF n > 0 /\ Len(s) > n THEN SubSeq(s, Len(s) - n + 1, Len(s)) ELSE s

(* The elements of s at the given positions, appended one by one. *)
Pick(s, positions) ==
  LET picked[n \in 0..Len(s)] ==
        IF n = 0 THEN <<>>
        ELSE IF n \in positions THEN Append(picked[n - 1], s[n]) ELSE picked[n - 1]
  IN  picked[Len(s)]

-----------------------------------------------------------------------------
(* Mutant: since selects the message with that number too. *)
matchesSinceInclusive(f, m) ==
  /\ f.queue \in {"", m.queue}
  /\ f.exchange \in {"", m.exchange}
  /\ f.routing_key \in {"", m.routing_key}
  /\ f.direction \in {"", m.direction}
  /\ f.rule \in {"", m.rule}
  /\ f.since > 0 => m.seq >= f.since

(* Filter.matches: an empty field of the filter selects everything. *)
matches(f, m) ==
  /\ f.queue \in {"", m.queue}
  /\ f.exchange \in {"", m.exchange}
  /\ f.routing_key \in {"", m.routing_key}
  /\ f.direction \in {"", m.direction}
  /\ f.rule \in {"", m.rule}
  /\ f.since > 0 => m.seq > f.since
  /\ \A h \in DOMAIN f.headers :
        /\ h \in DOMAIN m.headers
        /\ \A want \in f.headers[h] : Sprint(m.headers[h]) = want
  /\ \A bf \in f.body :
        /\ bf.path \in DOMAIN m.body
        /\ \A want \in bf.want : m.body[bf.path] = want

(* RingBuffer.Query over the buffered messages msgs: the matches, oldest   *)
(* first, cut to the most recent f.limit of them.                          *)
QueryOf(msgs, f) ==
  LastN(Pick(msgs, {i \in DOMAIN msgs : matches(f, msgs[i])}), f.limit)

-----------------------------------------------------------------------------
(* parseFilter: the parameters it refuses, and the Filter it builds.       *)
(* q.header and q.body are the repeated name[=value] parameters, already   *)
(* split by splitKV into [name, want] and [path, want].                    *)
filterError(q) ==
  \/ q.direction \notin {"", DirectionReceived, DirectionPublished}
  \/ BadNum(q.since)
  \/ BadNum(q.limit)
  \/ \E i \in DOMAIN q.header : q.header[i].name = ""
  \/ \E i \in DOMAIN q.body : q.body[i].path = ""

(* Repeated header filters go into a map, so the last one of a name stays; *)
(* repeated body filters are a list and all of them apply.                 *)
headerFilters(header) ==
  LET last(h) == CHOOSE i \in DOMAIN header :
                   /\ header[i].name = h
                   /\ \A j \in DOMAIN header : header[j].name = h => j <= i
  IN  [h \in {header[i].name : i \in DOMAIN header} |-> header[last(h)].want]

parseFilter(q) ==
  [queue |-> q.queue, exchange |-> q.exchange,
   routing_key |-> q.routing_key, direction |-> q.direction,
   rule |-> q.rule, since |-> q.since.n, limit |-> q.limit.n,
   headers |-> headerFilters(q.header),
   body |-> {q.body[i] : i \in DOMAIN q.body}]

(* What a query string decodes to. *)
NumParam == [kind : {"absent", "malformed", "num"}, n : Int]
QueryString ==
  [queue : STRING, exchange : STRING, routing_key : STRING, direction : STRING,
   rule : STRING, since : NumParam, limit : NumParam,
   header : Seq([name : STRING, want : SUBSET STRING]),
   body : Seq([path : STRING, want : SUBSET STRING])]

(* The query string without parameters, and the Filter it stands for. *)
EmptyQuery ==
  [queue |-> "", exchange |-> "", routing_key |-> "", direction |-> "",
   rule |-> "", since |-> NoParam, limit |-> NoParam,
   header |-> <<>>, body |-> <<>>]
EmptyFilter == parseFilter(EmptyQuery)
=============================================================================
