------------------------------- MODULE Config --------------------------------
(***************************************************************************)
(* pkg/config: what becomes of a configuration file.  ParseConfig fills in *)
(* defaults, ApplyOverrides puts the command line on top, Validate rejects *)
(* and Warnings points at responses that come back to a trigger queue,     *)
(* which takes AMQP's routing rules and a topic matcher.                   *)
(*                                                                         *)
(* Names and routing keys are sequences of words, those between the dots;  *)
(* the empty string has no word.  A broker URL is its scheme.  A setting   *)
(* that is omitted in the file is decoded like one that is written as ""   *)
(* or 0, since ParseConfig treats both alike.                              *)
(***************************************************************************)
EXTENDS Integers, Sequences, FiniteSets

CONSTANT
  Fold(_) \* strings.ToLower(strings.TrimSpace(_)) of a setting

VARIABLES
  file, \* the decoded configuration file
  flags \* the command line: [url, port, level, format]

(* What a file decodes to.  Words may be empty, but the empty string is    *)
(* the name without words.                                                 *)
Name == Seq(STRING) \ {<<"">>}
ExchangeDeclaration == [name : Name, type : STRING]
QueueBinding        == [exchange : Name, key : Name]
QueueDeclaration    == [name : Name, bindings : Seq(QueueBinding)]
Rule ==
  [name : Name, queue : Name, routing_key : Name, filters : Seq(Name),
   exchange : Name, key : Name, delay : Int]
ConfigFile ==
  [url : STRING, port : Int, ring : Int, level : STRING, format : STRING,
   exchanges : Seq(ExchangeDeclaration), queues : Seq(QueueDeclaration),
   spy : Seq(Name), rules : Seq(Rule)]

Empty == <<>>
TrimSpace(name) == IF name = <<" ">> THEN Empty ELSE name
Default(v, d) == IF v = "" THEN d ELSE v
Override(v, flag) == IF flag # "" THEN flag ELSE v

-----------------------------------------------------------------------------
(* Loading.                                                                *)

ParseConfig(f) ==
  [f EXCEPT !.url = Default(@, "amqp"), !.level = Default(@, "info"),
            !.format = Default(@, "text"),
            !.port = IF @ <= 0 THEN 8082 ELSE @,
            !.ring = IF @ <= 0 THEN 1000 ELSE @]

ApplyOverrides(c, l) ==
  [c EXCEPT !.url = Override(@, l.url), !.level = Override(@, l.level),
            !.port = IF l.port > 0 THEN l.port ELSE @]

loadConfig(f, l) ==
  [ApplyOverrides(ParseConfig(f), l) EXCEPT !.format = Override(@, l.format)]

-----------------------------------------------------------------------------
(* Validate: the sections and entries that have a problem.                 *)

validExchangeTypes == {"", "direct", "topic", "fanout", "headers"}
validLogLevels     == {"debug", "info", "warn", "warning", "error"}
validLogFormats    == {"text", "json"}

Repeats(s, i) == \E j \in 1..(i - 1) : s[j].name = s[i].name

exchangeProblem(c, i) ==
  LET ex == c.exchanges[i]
  IN  ex.name = Empty \/ Repeats(c.exchanges, i) \/ ex.type \notin validExchangeTypes

queueProblem(c, i) ==
  LET q == c.queues[i]
  IN  \/ q.name = Empty \/ Repeats(c.queues, i)
      \/ \E j \in DOMAIN q.bindings : q.bindings[j].exchange = Empty

ruleProblem(c, i) ==
  LET r == c.rules[i]
  IN  \/ TrimSpace(r.name) = Empty \/ Repeats(c.rules, i)
      \/ r.queue = Empty
      \/ \E j \in DOMAIN r.filters : TrimSpace(r.filters[j]) = Empty
      \/ r.exchange = Empty /\ r.key = Empty
      \/ r.delay < 0

Problems(section, s, bad(_)) == {<<section, i>> : i \in {j \in DOMAIN s : bad(j)}}
Setting(section, bad) == IF bad THEN {<<section, 0>>} ELSE {}

Validate(c) ==
  Setting("url", c.url \notin {"amqp", "amqps"})
    \cup Problems("exchanges", c.exchanges, LAMBDA i : exchangeProblem(c, i))
    \cup Problems("queues", c.queues, LAMBDA i : queueProblem(c, i))
    \cup Setting("port", c.port < 1 \/ c.port > 65535)
    \cup Setting("ring", c.ring < 1)
    \cup Setting("level", Fold(c.level) \notin validLogLevels)
    \cup Setting("format", Fold(c.format) \notin validLogFormats)
    \cup Problems("spy", c.spy, LAMBDA i : TrimSpace(c.spy[i]) = Empty)
    \cup Problems("rules", c.rules, LAMBDA i : ruleProblem(c, i))

-----------------------------------------------------------------------------
(* Topic matching.                                                         *)

(* strings.Split at the dots: the empty string is one empty word. *)
Split(s) == IF s = Empty THEN <<"">> ELSE s

(* Does the rest of the pattern from i on match the rest of the key from   *)
(* j on?  skip is the least number of words that "#" stands for.           *)
matchRest(pattern, key, skip) ==
  LET match[i \in 1..(Len(pattern) + 1)] ==
        [j \in 1..(Len(key) + 1) |->
           IF i > Len(pattern) THEN j > Len(key)
           ELSE IF pattern[i] = "#"
                THEN \E k \in (j + skip)..(Len(key) + 1) : match[i + 1][k]
                ELSE /\ j <= Len(key)
                     /\ pattern[i] \in {"*", key[j]}
                     /\ match[i + 1][j + 1]]
  IN  match[1][1]

(* Mutant: "#" stands for at least one word. *)
matchWordsOneOrMore(pattern, key) == matchRest(pattern, key, 1)

matchWords(pattern, key) == matchRest(pattern, key, 0)

topicMatches(pattern, key) == matchWords(Split(pattern), Split(key))

-----------------------------------------------------------------------------
(* Warnings.                                                               *)

ReachesAs(type, b, key) ==
  \/ type = "fanout"
  \/ type = "direct" /\ b.key = key
  \/ type = "topic" /\ topicMatches(b.key, key)

Declared(c, name) == {i \in DOMAIN c.exchanges : c.exchanges[i].name = name}

(* The type of the last declaration, "direct" when it names none; an       *)
(* exchange that is not declared counts as a topic exchange.               *)
exchangeType(c, name) ==
  IF Declared(c, name) = {} THEN "topic"
  ELSE LET last == CHOOSE i \in Declared(c, name) : \A j \in Declared(c, name) : j <= i
       IN  Default(c.exchanges[last].type, "direct")

(* Mutant: only the first binding to the exchange is looked at. *)
responseReachesQueueFirst(c, r, q) ==
  /\ r.exchange # Empty
  /\ \E j \in DOMAIN q.bindings :
       /\ q.bindings[j].exchange = r.exchange
       /\ \A k \in 1..(j - 1) : q.bindings[k].exchange # r.exchange
       /\ ReachesAs(exchangeType(c, r.exchange), q.bindings[j], r.key)

responseReachesQueue(c, r, q) ==
  /\ r.exchange # Empty
  /\ \E j \in DOMAIN q.bindings :
       /\ q.bindings[j].exchange = r.exchange
       /\ ReachesAs(exchangeType(c, r.exchange), q.bindings[j], r.key)

triggerQueues(c) == {c.rules[i].queue : i \in DOMAIN c.rules}
Names(s) == {s[i].name : i \in DOMAIN s}

idleWarnings(c) == Setting("idle", c.rules = <<>> /\ c.spy = <<>>)

(* The prefix "amq.". *)
Predeclared(exchange) == Len(exchange) > 1 /\ Head(exchange) = "amq"

ruleWarnings(c) ==
  Problems("matches all", c.rules,
           LAMBDA i : c.rules[i].filters = <<>> /\ c.rules[i].routing_key = Empty)
    \cup Problems("queue undeclared", c.rules,
           LAMBDA i : /\ c.queues # <<>> /\ c.rules[i].queue # Empty
                      /\ c.rules[i].queue \notin Names(c.queues))
    \cup Problems("exchange undeclared", c.rules,
           LAMBDA i : /\ c.exchanges # <<>> /\ c.rules[i].exchange # Empty
                      /\ c.rules[i].exchange \notin Names(c.exchanges)
                      /\ ~Predeclared(c.rules[i].exchange))

loopWarnings(c) ==
  Problems("loop", c.rules, LAMBDA i :
    LET r == c.rules[i]
    IN  \/ \E j \in DOMAIN c.queues : /\ c.queues[j].name \in triggerQueues(c)
                                      /\ responseReachesQueue(c, r, c.queues[j])
        \/ r.exchange = Empty /\ r.key # Empty /\ r.key \in triggerQueues(c))

Warnings(c) == idleWarnings(c) \cup ruleWarnings(c) \cup loopWarnings(c)

-----------------------------------------------------------------------------
(* What the configuration is used for.                                     *)

Handler(level, format) ==
  [level |-> level, format |-> IF Fold(format) = "json" THEN "json" ELSE "text"]

(* Mutant: the level is compared with the names the command line lists. *)
InitLoggerListed(level, format) ==
  LET l == Fold(level)
  IN  Handler(IF l \in {"debug", "warn", "error"} THEN l ELSE "info", format)

(* The level and the format of the default logger. *)
InitLogger(level, format) ==
  LET l == Fold(level)
  IN  Handler(CASE l = "warning" -> "warn"
                [] l \in {"debug", "warn", "error"} -> l
                [] OTHER -> "info", format)

desiredQueues(c) ==
  (triggerQueues(c) \cup {c.spy[i] : i \in DOMAIN c.spy}) \ {Empty}

(* External: AMQP routing.  "*" stands for one word and "#" for any number *)
(* of them; a binding without arguments matches every message of a headers *)
(* exchange.                                                               *)
TopicMatch(pattern, key) ==
  \E cut \in [0..Len(pattern) -> 0..Len(key)] :
    /\ cut[0] = 0 /\ cut[Len(pattern)] = Len(key)
    /\ \A i \in 1..Len(pattern) :
         /\ cut[i - 1] <= cut[i]
         /\ pattern[i] # "#" => /\ cut[i] = cut[i - 1] + 1
                                /\ pattern[i] \in {"*", key[cut[i]]}

Routes(type, b, key) ==
  CASE type = "direct"  -> b.key = key
    [] type = "topic"   -> TopicMatch(b.key, key)
    [] type \in {"fanout", "headers"} -> TRUE

(* What DeclareTopology makes of the type of an exchange. *)
DeclaredTypes(c, name) ==
  {Default(c.exchanges[i].type, "direct") : i \in Declared(c, name)}

-----------------------------------------------------------------------------
cfg == loadConfig(file, flags)
ConfigAccepted == Validate(cfg) = {}

(* Bindings with the routing keys of the responses they may catch. *)
BindingKeys ==
  {<<b, r.key>> : b \in UNION {{q.bindings[j] : j \in DOMAIN q.bindings} :
                                 q \in {cfg.queues[i] : i \in DOMAIN cfg.queues}},
                  r \in {cfg.rules[i] : i \in DOMAIN cfg.rules}}

(* The recursion of matchWords decides AMQP's topic matching, for routing  *)
(* keys of one word or more.                                               *)
TopicOnWords ==
  \A bk \in BindingKeys :
    bk[2] # Empty => (topicMatches(bk[1].key, bk[2]) <=> TopicMatch(bk[1].key, bk[2]))

(* The response of rule r is routed to a queue that some rule listens on,  *)
(* by the topology DeclareTopology sets up; an exchange it does not set up *)
(* is one of the types given.                                              *)
Loops(c, r, undeclared) ==
  IF r.exchange = Empty THEN r.key \in triggerQueues(c)
  ELSE \E i \in DOMAIN c.queues : \E j \in DOMAIN c.queues[i].bindings :
         /\ c.queues[i].name \in triggerQueues(c)
         /\ c.queues[i].bindings[j].exchange = r.exchange
         /\ \E t \in IF Declared(c, r.exchange) = {} THEN undeclared
                     ELSE DeclaredTypes(c, r.exchange) :
              Routes(t, c.queues[i].bindings[j], r.key)

(* Where the warning can be right: no headers exchange, and no empty       *)
(* routing key on a topic exchange or on one that may be one.              *)
LoopsKnown(c, r) ==
  LET types == DeclaredTypes(c, r.exchange)
  IN  /\ "headers" \notin types
      /\ r.key = Empty /\ r.exchange # Empty => types # {} /\ "topic" \notin types

(* Exactly the rules whose responses feed back are warned of, on direct,   *)
(* topic and fanout exchanges; "topic semantics, a superset of direct      *)
(* matching" also serves exchanges that are declared elsewhere.            *)
LoopsWarned ==
  ConfigAccepted => \A i \in DOMAIN cfg.rules :
    LoopsKnown(cfg, cfg.rules[i]) =>
      (<<"loop", i>> \in Warnings(cfg) <=> Loops(cfg, cfg.rules[i], {"direct", "topic"}))

(* What Validate lets through does what it says: the queue of every rule   *)
(* is consumed, a configuration that consumes nothing is warned of and no  *)
(* other is, and InitLogger knows the level and the format as they are.    *)
AcceptedWorks ==
  LET l == InitLogger(cfg.level, cfg.format)
  IN  ConfigAccepted =>
        /\ triggerQueues(cfg) \subseteq desiredQueues(cfg)
        /\ desiredQueues(cfg) = {} <=> <<"idle", 0>> \in Warnings(cfg)
        /\ l.level = "info" => Fold(cfg.level) = "info"
        /\ l.format = Fold(cfg.format)
=============================================================================
