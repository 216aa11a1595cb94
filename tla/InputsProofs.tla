---------------------------- MODULE InputsProofs -----------------------------
(***************************************************************************)
(* What matching, timeouts, configurations, the rewriting of templates and *)
(* the rendering of payloads promise, for every input and not only for the *)
(* small ones of MCInputs: the variables hold any value, message,          *)
(* parameter, configuration file, text or payload of their types.          *)
(***************************************************************************)
EXTENDS Config, Matcher, Numbers, Template, Payload, WellFoundedInduction, TLAPS

-----------------------------------------------------------------------------
(* Matching.                                                               *)

(* The rule of one condition matches exactly if the values compare equal.  *)
LEMMA MatchIsComparison ==
  MatchesRule(TheRule, TheMessage) <=> compareValues(actual, expected)
<1> DEFINE rule == [filter |-> "path", equals |-> expected]
           content == [path |-> actual]
<1>1. MatchesRule(TheRule, TheMessage) <=> evalJSONPathRule(content, rule)
  <2>1. TheRule.jsonpath_rules = <<rule>> /\ TheMessage.body = content
    BY DEF TheRule, TheMessage
  <2>2. TheRule.queue = "q" /\ TheRule.routing_key = "" /\ TheMessage.queue = "q"
    BY DEF TheRule, TheMessage
  <2> HIDE DEF rule, content
  <2>3. DOMAIN <<rule>> = {1} /\ <<rule>>[1] = rule
    OBVIOUS
  <2> QED BY <2>1, <2>2, <2>3 DEF MatchesRule
<1>2. "path" \in DOMAIN content /\ content["path"] = actual
  OBVIOUS
<1>3. rule.filter = "path" /\ rule.equals = expected
  OBVIOUS
<1> HIDE DEF rule, content
<1> QED BY <1>1, <1>2, <1>3 DEF evalJSONPathRule

(* compareValues is sound in each case that NoFalseMatch tells apart. *)
LEMMA ComparisonSound ==
  ASSUME NEW a \in Value, NEW e \in Value, compareValues(a, e)
  PROVE  /\ IsNumber(a) /\ IsNumber(e) => a.val = e.val
         /\ a.type = "bool" /\ e.type = "bool" => a.val = e.val
         /\ a.type = "nil" <=> e.type = "nil"
         /\ IsNumber(a) => e.type # "bool"
<1>1. a.type = "nil" <=> e.type = "nil"
  BY DEF compareValues
<1>2. ~(a.type = "nil") => EqualFold(Sprintv(a), Sprintv(e))
  BY DEF compareValues
<1>3. IsNumber(a) => a.type # "nil" /\ Sprintv(a).form # "word" /\ Sprintv(a).val = a.val
  BY DEF IsNumber, Sprintv, Dec, Exp, Value
<1>4. IsNumber(e) => Sprintv(e).form # "word" /\ Sprintv(e).val = e.val
  BY DEF IsNumber, Sprintv, Dec, Exp, Value
<1>5. e.type = "bool" => /\ Sprintv(e).form = "word"
                         /\ e.val \in BOOLEAN
                         /\ e.val = TRUE => Sprintv(e).val = "true"
                         /\ e.val = FALSE => Sprintv(e).val = "false"
  BY DEF Sprintv, Word, Value
<1>6. a.type = "bool" => /\ a.type # "nil"
                         /\ Sprintv(a).form = "word"
                         /\ a.val \in BOOLEAN
                         /\ a.val = TRUE => Sprintv(a).val = "true"
                         /\ a.val = FALSE => Sprintv(a).val = "false"
  BY DEF Sprintv, Word, Value
<1> QED BY <1>1, <1>2, <1>3, <1>4, <1>5, <1>6, LowerAssumption DEF EqualFold

(* A rule fires on no other number, no other truth value and no null for a *)
(* value: the textual comparison of compareValues is sound for all values. *)
THEOREM MatchesSound ==
  ASSUME actual \in Value, expected \in Value
  PROVE  NoFalseMatch
BY MatchIsComparison, ComparisonSound DEF NoFalseMatch

-----------------------------------------------------------------------------
(* The timeout of a long poll.                                             *)

(* The bounds of Go's integers enclose zero and the settings. *)
LEMMA Bounds ==
  /\ IntMax \in Int /\ IntMin \in Int
  /\ IntMin <= 0 /\ MaxWait <= IntMax /\ MaxWait \in Nat
  /\ DefaultWait \in 0..MaxWait
BY NumbersAssumption DEF IntMax, IntMin

(* Whatever parseTimeout accepts lies between 0 and the maximum, for every *)
(* width of the integers, and is the time asked for if that fits.          *)
THEOREM TimeoutsInRange ==
  ASSUME param \in Param
  PROVE  TimeoutInRange
<1> SUFFICES ASSUME NEW d \in parseTimeout(param)
             PROVE  /\ d # Rejected => d \in 0..MaxWait
                    /\ param[1] \in {"duration", "seconds"} /\ param[2] \in 0..MaxWait
                         => d = param[2]
  BY DEF TimeoutInRange
<1>1. ASSUME NEW x \in Int
      PROVE  /\ checkTimeout(x) # Rejected => checkTimeout(x) \in 0..MaxWait
             /\ x \in 0..MaxWait => checkTimeout(x) = x
  BY Bounds DEF checkTimeout
<1>2. CASE param = <<"none">>
  BY <1>2, Bounds DEF parseTimeout
<1>3. CASE param = <<"junk">>
  BY <1>3 DEF parseTimeout
<1>4. CASE param = <<"NaN">>
  <2>1. FloatToInt(param) = {IntMin, 0}
    BY <1>4 DEF FloatToInt
  <2>2. parseTimeout(param) = {checkTimeout(x) : x \in {IntMin, 0}}
    BY <1>4, <2>1 DEF parseTimeout
  <2> QED BY <2>2, <1>1, <1>4, Bounds
<1>5. CASE \E x \in Ints : param = <<"duration", x>>
  <2>1. PICK x \in Ints : param = <<"duration", x>>
    BY <1>5
  <2>2. parseTimeout(param) = {checkTimeout(x)}
    BY <2>1 DEF parseTimeout
  <2>3. x \in Int
    BY Bounds DEF Ints
  <2> QED BY <2>1, <2>2, <2>3, <1>1
<1>6. CASE \E x \in Int : param = <<"seconds", x>>
  <2>1. PICK x \in Int : param = <<"seconds", x>>
    BY <1>6
  <2>2. parseTimeout(param) = {checkTimeout(y) : y \in FloatToInt(param)}
    BY <2>1 DEF parseTimeout
  <2>3. FloatToInt(param) \subseteq Int
    BY <2>1, Bounds DEF FloatToInt
  <2>4. x \in 0..MaxWait => FloatToInt(param) = {x}
    BY <2>1, Bounds DEF FloatToInt, Ints
  <2> QED BY <2>1, <2>2, <2>3, <2>4, <1>1
<1> QED BY <1>2, <1>3, <1>4, <1>5, <1>6 DEF Param

-----------------------------------------------------------------------------
(* Loading and validating a configuration.                                 *)

(* Loading only fills in settings: exchanges, queues, spied queues and     *)
(* rules are those of the file.                                            *)
Sections(c) ==
  /\ c.exchanges \in Seq(ExchangeDeclaration)
  /\ c.queues \in Seq(QueueDeclaration)
  /\ c.spy \in Seq(Name)
  /\ c.rules \in Seq(Rule)

LEMMA Loaded ==
  ASSUME file \in ConfigFile
  PROVE  Sections(cfg)
<1>1. ASSUME NEW f \in ConfigFile, NEW l
      PROVE  Sections(loadConfig(f, l))
  BY DEF loadConfig, ApplyOverrides, ParseConfig, ConfigFile, Sections
<1> QED BY <1>1 DEF cfg

(* What acceptance says of the sections that the theorems are about. *)
LEMMA Accepted ==
  ASSUME NEW c, Validate(c) = {}
  PROVE  /\ Fold(c.level) \in validLogLevels
         /\ Fold(c.format) \in validLogFormats
         /\ \A i \in DOMAIN c.exchanges : ~exchangeProblem(c, i)
         /\ \A i \in DOMAIN c.spy : TrimSpace(c.spy[i]) # Empty
         /\ \A i \in DOMAIN c.rules : ~ruleProblem(c, i)
<1> DEFINE url       == Setting("url", c.url \notin {"amqp", "amqps"})
           exchanges == Problems("exchanges", c.exchanges, LAMBDA i : exchangeProblem(c, i))
           queues    == Problems("queues", c.queues, LAMBDA i : queueProblem(c, i))
           port      == Setting("port", c.port < 1 \/ c.port > 65535)
           ring      == Setting("ring", c.ring < 1)
           level     == Setting("level", Fold(c.level) \notin validLogLevels)
           format    == Setting("format", Fold(c.format) \notin validLogFormats)
           spy       == Problems("spy", c.spy, LAMBDA i : TrimSpace(c.spy[i]) = Empty)
           rules     == Problems("rules", c.rules, LAMBDA i : ruleProblem(c, i))
<1>1. Validate(c) = url \cup exchanges \cup queues \cup port \cup ring \cup level
                      \cup format \cup spy \cup rules
  BY DEF Validate
<1> HIDE DEF url, exchanges, queues, port, ring, level, format, spy, rules
<1>2. level = {} /\ format = {} /\ exchanges = {} /\ spy = {} /\ rules = {}
  BY <1>1
<1>3. Fold(c.level) \in validLogLevels
  BY <1>2 DEF level, Setting
<1>4. Fold(c.format) \in validLogFormats
  BY <1>2 DEF format, Setting
<1>5. \A i \in DOMAIN c.exchanges : ~exchangeProblem(c, i)
  BY <1>2 DEF exchanges, Problems
<1>6. \A i \in DOMAIN c.spy : TrimSpace(c.spy[i]) # Empty
  BY <1>2 DEF spy, Problems
<1>7. \A i \in DOMAIN c.rules : ~ruleProblem(c, i)
  BY <1>2 DEF rules, Problems
<1> QED BY <1>3, <1>4, <1>5, <1>6, <1>7

(* The warnings of each kind. *)
LEMMA WarnedIdle ==
  ASSUME NEW c
  PROVE  <<"idle", 0>> \in Warnings(c) <=> c.rules = <<>> /\ c.spy = <<>>
BY DEF Warnings, idleWarnings, ruleWarnings, loopWarnings, Setting, Problems

(* Every accepted configuration does what it says: all its triggers are    *)
(* consumed, the idle warning is exact, and the logger knows its settings. *)
THEOREM AcceptedConfigsWork ==
  ASSUME file \in ConfigFile
  PROVE  AcceptedWorks
<1> DEFINE l == InitLogger(cfg.level, cfg.format)
<1> SUFFICES ASSUME Validate(cfg) = {}
             PROVE  /\ triggerQueues(cfg) \subseteq desiredQueues(cfg)
                    /\ desiredQueues(cfg) = {} <=> <<"idle", 0>> \in Warnings(cfg)
                    /\ l.level = "info" => Fold(cfg.level) = "info"
                    /\ l.format = Fold(cfg.format)
  BY DEF AcceptedWorks, ConfigAccepted
<1> HIDE DEF l
<1>0. Sections(cfg)
  BY Loaded
<1> DEFINE c == cfg
<1> HIDE DEF c
<1>c. c = cfg
  BY DEF c
<1>1. Sections(c) /\ Validate(c) = {}
  BY <1>0, <1>c
<1>2. \A i \in DOMAIN c.rules : c.rules[i].queue # Empty
  BY <1>1, Accepted DEF ruleProblem
<1>3. \A i \in DOMAIN c.spy : c.spy[i] # Empty
  BY <1>1, Accepted DEF TrimSpace, Empty
<1>4. triggerQueues(c) \subseteq desiredQueues(c)
  BY <1>2 DEF triggerQueues, desiredQueues
<1>5. desiredQueues(c) = {} <=> c.rules = <<>> /\ c.spy = <<>>
  <2>1. c.rules \in Seq(Rule) /\ c.spy \in Seq(Name)
    BY <1>1 DEF Sections
  <2>2. c.rules # <<>> => c.rules[1].queue \in desiredQueues(c)
    BY <2>1, <1>2 DEF triggerQueues, desiredQueues
  <2>3. c.spy # <<>> => c.spy[1] \in desiredQueues(c)
    BY <2>1, <1>3 DEF desiredQueues
  <2>4. c.rules = <<>> /\ c.spy = <<>> => desiredQueues(c) = {}
    BY DEF triggerQueues, desiredQueues
  <2> QED BY <2>2, <2>3, <2>4
<1>6. l.level = "info" => Fold(c.level) = "info"
  BY <1>1, <1>c, Accepted DEF l, InitLogger, Handler, validLogLevels
<1>7. l.format = Fold(c.format)
  BY <1>1, <1>c, Accepted DEF l, InitLogger, Handler, validLogFormats
<1> QED BY <1>c, <1>4, <1>5, <1>6, <1>7, WarnedIdle

-----------------------------------------------------------------------------
(* Topic matching.  What the recursion of matchWords computes is shown by  *)
(* induction over the rest of the pattern, in the form of least elements.  *)

(* A set of natural numbers has a least element. *)
LEMMA LeastNat ==
  ASSUME NEW T, T \subseteq Nat, T # {}
  PROVE  \E m \in T : \A k \in T : m <= k
<1> DEFINE R == OpToRel(<, Nat)
<1>1. IsWellFoundedOn(R, Nat)
  BY NatLessThanWellFounded
<1>2. \A a, b \in Nat : a < b => <<a, b>> \in R
  BY DEF OpToRel
<1> HIDE DEF R
<1>3. PICK m \in T : \A k \in T : ~ (<<k, m>> \in R)
  BY <1>1, WFMin
<1>4. \A k \in T : m <= k
  <2> SUFFICES ASSUME NEW k \in T, ~ (m <= k)
               PROVE  FALSE
    OBVIOUS
  <2>1. m \in Nat /\ k \in Nat /\ k < m
    OBVIOUS
  <2> QED BY <2>1, <1>2, <1>3
<1> QED BY <1>3, <1>4

(* The words of the pattern from i on can be laid out along those of the   *)
(* key from j on: TopicMatch, for the rest of both.                        *)
Cuts(p, k, i, j, cut) ==
  /\ cut \in [(i - 1)..Len(p) -> 0..Len(k)]
  /\ cut[i - 1] = j - 1 /\ cut[Len(p)] = Len(k)
  /\ \A h \in i..Len(p) :
       /\ cut[h - 1] <= cut[h]
       /\ p[h] # "#" => /\ cut[h] = cut[h - 1] + 1
                        /\ p[h] \in {"*", k[cut[h]]}

RestMatches(p, k, i, j) == \E cut : Cuts(p, k, i, j, cut)

(* The recursion of matchWords, as an equation for the table of results. *)
MatchStep(f, p, k, i, j) ==
  IF i > Len(p) THEN j > Len(k)
  ELSE IF p[i] = "#"
       THEN \E h \in (j + 0)..(Len(k) + 1) : f[i + 1][h]
       ELSE /\ j <= Len(k)
            /\ p[i] \in {"*", k[j]}
            /\ f[i + 1][j + 1]

MatchTable(f, p, k) ==
  f = [i \in 1..(Len(p) + 1) |-> [j \in 1..(Len(k) + 1) |-> MatchStep(f, p, k, i, j)]]

LEMMA MatchWordsTable ==
  ASSUME NEW p, NEW k
  PROVE  matchWords(p, k) = (CHOOSE f : MatchTable(f, p, k))[1][1]
BY DEF matchWords, matchRest, MatchTable, MatchStep

LEMMA TableEntry ==
  ASSUME NEW W, NEW p \in Seq(W), NEW k \in Seq(W), NEW f, MatchTable(f, p, k),
         NEW a \in 1..(Len(p) + 1), NEW b \in 1..(Len(k) + 1)
  PROVE  f[a][b] = MatchStep(f, p, k, a, b)
<1> DEFINE P(i, j) == MatchStep(f, p, k, i, j)
<1>1. f = [i \in 1..(Len(p) + 1) |-> [j \in 1..(Len(k) + 1) |-> P(i, j)]]
  BY DEF MatchTable
<1> HIDE DEF P
<1>2. f[a] = [j \in 1..(Len(k) + 1) |-> P(a, j)]
  BY <1>1
<1>3. f[a][b] = P(a, b)
  BY <1>2
<1> QED BY <1>3 DEF P

(* RestMatches obeys the recursion: at the end of the pattern, *)
LEMMA RestEnds ==
  ASSUME NEW W, NEW p \in Seq(W), NEW k \in Seq(W), NEW j \in 1..(Len(k) + 1)
  PROVE  RestMatches(p, k, Len(p) + 1, j) <=> j > Len(k)
<1>1. ASSUME RestMatches(p, k, Len(p) + 1, j) PROVE j > Len(k)
  BY <1>1 DEF RestMatches, Cuts
<1>2. ASSUME j > Len(k) PROVE RestMatches(p, k, Len(p) + 1, j)
  <2> DEFINE cut == [h \in Len(p)..Len(p) |-> Len(k)]
  <2>1. Cuts(p, k, Len(p) + 1, j, cut)
    BY <1>2 DEF Cuts
  <2> QED BY <2>1 DEF RestMatches
<1> QED BY <1>1, <1>2

(* where the next word of the pattern leaves the rest at h, *)
LEMMA RestSteps ==
  ASSUME NEW W, NEW p \in Seq(W), NEW k \in Seq(W),
         NEW i \in 1..Len(p), NEW j \in 1..(Len(k) + 1)
  PROVE  RestMatches(p, k, i, j) <=>
           \E h \in j..(Len(k) + 1) :
             /\ p[i] # "#" => h = j + 1 /\ p[i] \in {"*", k[j]}
             /\ RestMatches(p, k, i + 1, h)
<1>1. ASSUME RestMatches(p, k, i, j)
      PROVE  \E h \in j..(Len(k) + 1) :
               /\ p[i] # "#" => h = j + 1 /\ p[i] \in {"*", k[j]}
               /\ RestMatches(p, k, i + 1, h)
  <2>1. PICK cut : Cuts(p, k, i, j, cut)
    BY <1>1 DEF RestMatches
  <2> DEFINE rest == [h \in i..Len(p) |-> cut[h]]
  <2>2. cut[i] \in (j - 1)..Len(k)
    BY <2>1 DEF Cuts
  <2>3. Cuts(p, k, i + 1, cut[i] + 1, rest)
    BY <2>1, <2>2 DEF Cuts
  <2>4. p[i] # "#" => cut[i] + 1 = j + 1 /\ p[i] \in {"*", k[j]}
    BY <2>1, <2>2 DEF Cuts
  <2>5. cut[i] + 1 \in j..(Len(k) + 1)
    BY <2>2
  <2> QED BY <2>3, <2>4, <2>5 DEF RestMatches
<1>2. ASSUME NEW h \in j..(Len(k) + 1),
             p[i] # "#" => h = j + 1 /\ p[i] \in {"*", k[j]},
             RestMatches(p, k, i + 1, h)
      PROVE  RestMatches(p, k, i, j)
  <2>1. PICK rest : Cuts(p, k, i + 1, h, rest)
    BY <1>2 DEF RestMatches
  <2> DEFINE cut == [g \in (i - 1)..Len(p) |-> IF g = i - 1 THEN j - 1 ELSE rest[g]]
  <2>2. cut \in [(i - 1)..Len(p) -> 0..Len(k)]
    BY <2>1 DEF Cuts
  <2>3. cut[i - 1] = j - 1 /\ cut[Len(p)] = Len(k) /\ cut[i] = h - 1
    BY <2>1 DEF Cuts
  <2>4. \A g \in (i + 1)..Len(p) : cut[g] = rest[g] /\ cut[g - 1] = rest[g - 1]
    BY <2>1 DEF Cuts
  <2> HIDE DEF cut
  <2>5. ASSUME NEW g \in i..Len(p)
        PROVE  /\ cut[g - 1] <= cut[g]
               /\ p[g] # "#" => cut[g] = cut[g - 1] + 1 /\ p[g] \in {"*", k[cut[g]]}
    <3>1. CASE g = i
      BY <3>1, <2>3, <1>2
    <3>2. CASE g # i
      BY <3>2, <2>1, <2>4 DEF Cuts
    <3> QED BY <3>1, <3>2
  <2>6. Cuts(p, k, i, j, cut)
    BY <2>2, <2>3, <2>5 DEF Cuts
  <2> QED BY <2>6 DEF RestMatches
<1> QED BY <1>1, <1>2

(* which for a word other than "#" is the one behind j, *)
LEMMA RestWord ==
  ASSUME NEW W, NEW p \in Seq(W), NEW k \in Seq(W),
         NEW i \in 1..Len(p), NEW j \in 1..(Len(k) + 1), p[i] # "#"
  PROVE  RestMatches(p, k, i, j) <=>
           j <= Len(k) /\ p[i] \in {"*", k[j]} /\ RestMatches(p, k, i + 1, j + 1)
<1>1. RestMatches(p, k, i, j) <=>
        \E h \in j..(Len(k) + 1) :
          h = j + 1 /\ p[i] \in {"*", k[j]} /\ RestMatches(p, k, i + 1, h)
  BY RestSteps
<1>2. j + 1 \in j..(Len(k) + 1) <=> j <= Len(k)
  OBVIOUS
<1> QED BY <1>1, <1>2

(* so that the table of RestMatches solves the recursion of matchWords, *)
LEMMA RestTable ==
  ASSUME NEW W, NEW p \in Seq(W), NEW k \in Seq(W)
  PROVE  MatchTable([i \in 1..(Len(p) + 1) |->
                       [j \in 1..(Len(k) + 1) |-> RestMatches(p, k, i, j)]], p, k)
<1> DEFINE g == [i \in 1..(Len(p) + 1) |->
                   [j \in 1..(Len(k) + 1) |-> RestMatches(p, k, i, j)]]
<1>1. ASSUME NEW i \in 1..(Len(p) + 1), NEW j \in 1..(Len(k) + 1)
      PROVE  g[i][j] = RestMatches(p, k, i, j)
  OBVIOUS
<1> HIDE DEF g
<1>2. ASSUME NEW i \in 1..(Len(p) + 1), NEW j \in 1..(Len(k) + 1)
      PROVE  RestMatches(p, k, i, j) <=> MatchStep(g, p, k, i, j)
  <2>1. CASE i = Len(p) + 1
    BY <2>1, RestEnds DEF MatchStep
  <2>2. CASE i \in 1..Len(p)
    <3>1. CASE p[i] = "#"
      <4>1. RestMatches(p, k, i, j) <=>
              \E h \in j..(Len(k) + 1) : RestMatches(p, k, i + 1, h)
        BY <2>2, <3>1, RestSteps
      <4>2. \A h \in j..(Len(k) + 1) : g[i + 1][h] = RestMatches(p, k, i + 1, h)
        BY <1>1, <2>2
      <4>3. MatchStep(g, p, k, i, j) <=> \E h \in j..(Len(k) + 1) : g[i + 1][h]
        BY <2>2, <3>1 DEF MatchStep
      <4> QED BY <4>1, <4>2, <4>3
    <3>2. CASE p[i] # "#"
      <4>1. RestMatches(p, k, i, j) <=>
              j <= Len(k) /\ p[i] \in {"*", k[j]} /\ RestMatches(p, k, i + 1, j + 1)
        BY <2>2, <3>2, RestWord
      <4>2. j <= Len(k) => g[i + 1][j + 1] = RestMatches(p, k, i + 1, j + 1)
        BY <1>1, <2>2
      <4>3. MatchStep(g, p, k, i, j) <=>
              j <= Len(k) /\ p[i] \in {"*", k[j]} /\ g[i + 1][j + 1]
        BY <2>2, <3>2 DEF MatchStep
      <4> QED BY <4>1, <4>2, <4>3
    <3> QED BY <3>1, <3>2
  <2> QED BY <2>1, <2>2
<1>3. ASSUME NEW i \in 1..(Len(p) + 1), NEW j \in 1..(Len(k) + 1)
      PROVE  RestMatches(p, k, i, j) = MatchStep(g, p, k, i, j)
  <2>1. RestMatches(p, k, i, j) = TRUE \/ RestMatches(p, k, i, j) = FALSE
    BY DEF RestMatches
  <2>2. MatchStep(g, p, k, i, j) = TRUE \/ MatchStep(g, p, k, i, j) = FALSE
    BY DEF MatchStep
  <2> HIDE DEF g
  <2>3. CASE RestMatches(p, k, i, j) = TRUE
    <3>1. MatchStep(g, p, k, i, j) = TRUE
      BY <1>2, <2>2, <2>3
    <3> QED BY Zenon, <3>1, <2>3
  <2>4. CASE RestMatches(p, k, i, j) = FALSE
    <3>1. MatchStep(g, p, k, i, j) = FALSE
      BY <1>2, <2>2, <2>4
    <3> QED BY Zenon, <3>1, <2>4
  <2> QED BY Zenon, <2>1, <2>3, <2>4
<1>4. g = [i \in 1..(Len(p) + 1) |->
             [j \in 1..(Len(k) + 1) |-> MatchStep(g, p, k, i, j)]]
  <2> DEFINE P(i, j) == RestMatches(p, k, i, j)
             Q(i, j) == MatchStep(g, p, k, i, j)
  <2>1. g = [i \in 1..(Len(p) + 1) |-> [j \in 1..(Len(k) + 1) |-> P(i, j)]]
    BY DEF g
  <2>2. \A i \in 1..(Len(p) + 1) : \A j \in 1..(Len(k) + 1) : P(i, j) = Q(i, j)
    BY <1>3
  <2> HIDE DEF P, Q
  <2>3. \A i \in 1..(Len(p) + 1) :
          [j \in 1..(Len(k) + 1) |-> P(i, j)] = [j \in 1..(Len(k) + 1) |-> Q(i, j)]
    BY <2>2
  <2>4. g = [i \in 1..(Len(p) + 1) |-> [j \in 1..(Len(k) + 1) |-> Q(i, j)]]
    BY <2>1, <2>3
  <2> QED BY <2>4 DEF Q
<1> QED BY <1>4 DEF g, MatchTable

(* and every solution agrees with it, from the end of the pattern on. *)
LEMMA TableUnique ==
  ASSUME NEW W, NEW p \in Seq(W), NEW k \in Seq(W), NEW f, MatchTable(f, p, k)
  PROVE  \A i \in 1..(Len(p) + 1) : \A j \in 1..(Len(k) + 1) :
           f[i][j] <=> RestMatches(p, k, i, j)
<1> DEFINE Agrees(i) == \A j \in 1..(Len(k) + 1) : f[i][j] <=> RestMatches(p, k, i, j)
           Left == {n \in 0..Len(p) : ~Agrees(Len(p) + 1 - n)}
<1>1. Left = {}
  <2> SUFFICES ASSUME Left # {} PROVE FALSE
    OBVIOUS
  <2>1. PICK n \in Left : \A m \in Left : n <= m
    <3>1. Left \subseteq Nat
      OBVIOUS
    <3> HIDE DEF Left
    <3> QED BY <3>1, LeastNat
  <2> DEFINE i == Len(p) + 1 - n
  <2>2. i \in 1..(Len(p) + 1) /\ n \in 0..Len(p) /\ ~Agrees(i)
    OBVIOUS
  <2>3. n > 0 => Agrees(i + 1)
    <3>1. n > 0 => Len(p) + 1 - (n - 1) = i + 1
      BY <2>2
    <3>2. n > 0 => n - 1 \in 0..Len(p) /\ ~(n <= n - 1)
      BY <2>2
    <3>3. n > 0 => n - 1 \notin Left
      <4> HIDE DEF Left
      <4> QED BY <2>1, <3>2
    <3> HIDE DEF i, Agrees
    <3> QED BY <3>1, <3>2, <3>3
  <2>4. n = 0 <=> i = Len(p) + 1
    BY <2>2
  <2>5. Agrees(i)
    <3> HIDE DEF i
    <3> SUFFICES ASSUME NEW j \in 1..(Len(k) + 1)
                 PROVE  f[i][j] <=> RestMatches(p, k, i, j)
      OBVIOUS
    <3>1. f[i][j] <=> MatchStep(f, p, k, i, j)
      BY <2>2, TableEntry
    <3>2. CASE i = Len(p) + 1
      BY <3>1, <3>2, RestEnds DEF MatchStep
    <3>3. CASE i \in 1..Len(p)
      <4>1. \A h \in 1..(Len(k) + 1) : f[i + 1][h] <=> RestMatches(p, k, i + 1, h)
        <5>1. i # Len(p) + 1
          BY <3>3
        <5>2. Agrees(i + 1)
          <6>1. n \in 0..Len(p) /\ n # 0
            BY <5>1, <2>2, <2>4
          <6>2. n > 0
            BY <6>1
          <6> HIDE DEF Agrees
          <6> QED BY <6>2, <2>3
        <5> QED BY <5>2
      <4>2. CASE p[i] = "#"
        <5>1. RestMatches(p, k, i, j) <=>
                \E h \in j..(Len(k) + 1) : RestMatches(p, k, i + 1, h)
          BY <3>3, <4>2, RestSteps
        <5>2. MatchStep(f, p, k, i, j) <=> \E h \in j..(Len(k) + 1) : f[i + 1][h]
          BY <3>3, <4>2 DEF MatchStep
        <5> QED BY <5>1, <5>2, <4>1, <3>1
      <4>3. CASE p[i] # "#"
        <5>1. RestMatches(p, k, i, j) <=>
                j <= Len(k) /\ p[i] \in {"*", k[j]} /\ RestMatches(p, k, i + 1, j + 1)
          BY <3>3, <4>3, RestWord
        <5>2. MatchStep(f, p, k, i, j) <=>
                j <= Len(k) /\ p[i] \in {"*", k[j]} /\ f[i + 1][j + 1]
          BY <3>3, <4>3 DEF MatchStep
        <5> QED BY <5>1, <5>2, <4>1, <3>1
      <4> QED BY <4>2, <4>3
    <3> QED BY <3>2, <3>3, <2>2
  <2> QED BY <2>2, <2>5
<1>2. ASSUME NEW i \in 1..(Len(p) + 1) PROVE Agrees(i)
  <2>1. Len(p) + 1 - i \in 0..Len(p) /\ Len(p) + 1 - (Len(p) + 1 - i) = i
    OBVIOUS
  <2> HIDE DEF Agrees
  <2> QED BY <2>1, <1>1
<1> QED BY <1>2

(* The recursion of matchWords decides AMQP's topic matching, for all      *)
(* patterns and keys.                                                      *)
LEMMA MatchWordsExact ==
  ASSUME NEW W, NEW p \in Seq(W), NEW k \in Seq(W)
  PROVE  matchWords(p, k) <=> TopicMatch(p, k)
<1> DEFINE f == CHOOSE g : MatchTable(g, p, k)
<1>1. MatchTable(f, p, k)
  BY Zenon, RestTable
<1>2. matchWords(p, k) = f[1][1]
  BY MatchWordsTable
<1> HIDE DEF f
<1>3. f[1][1] <=> RestMatches(p, k, 1, 1)
  BY <1>1, TableUnique
<1>4. RestMatches(p, k, 1, 1) <=> TopicMatch(p, k)
  BY DEF RestMatches, Cuts, TopicMatch
<1> QED BY <1>2, <1>3, <1>4

(* Splitting makes no difference for routing keys of one word or more. *)
LEMMA TopicMatchesExact ==
  ASSUME NEW p \in Name, NEW k \in Name, k # Empty
  PROVE  topicMatches(p, k) <=> TopicMatch(p, k)
<1>0. k # <<"">>
  BY Zenon DEF Name
<1>1. p \in Seq(STRING) /\ k \in Seq(STRING)
  BY Zenon DEF Name
<1>2. Split(k) = k /\ (p # Empty => Split(p) = p) /\ (p = Empty => Split(p) = <<"">>)
  BY Zenon DEF Split
<1>3. CASE p # Empty
  BY <1>1, <1>2, <1>3, MatchWordsExact DEF topicMatches
<1>4. CASE p = Empty
  <2>1. Len(p) = 0 /\ Len(k) # 0
    BY <1>1, <1>4 DEF Empty
  <2>2. ~TopicMatch(p, k)
    BY <2>1 DEF TopicMatch
  <2>3. ASSUME NEW w, w # "#", w # "*", k # <<w>>
        PROVE  ~matchWords(<<w>>, k)
    <3> DEFINE W == STRING \cup {w}
    <3>1. <<w>> \in Seq(W) /\ k \in Seq(W)
      BY <1>1
    <3>2. ASSUME TopicMatch(<<w>>, k) PROVE FALSE
      <4>1. Len(<<w>>) = 1 /\ <<w>>[1] = w
        OBVIOUS
      <4>2. PICK cut \in [0..1 -> 0..Len(k)] :
              /\ cut[0] = 0 /\ cut[1] = Len(k)
              /\ cut[1] = cut[0] + 1 /\ w \in {"*", k[cut[1]]}
        BY <3>2, <4>1, <2>3 DEF TopicMatch
      <4>3. Len(k) = 1 /\ k[1] = w
        BY <4>2, <2>3
      <4> QED BY <4>3, <1>1, <2>3
    <3> HIDE DEF W
    <3> QED BY <3>1, <3>2, MatchWordsExact
  <2>4. "" # "#" /\ "" # "*"
    BY Zenon
  <2>5. ~matchWords(<<"">>, k)
    BY Zenon, <1>0, <2>3, <2>4
  <2> QED BY Zenon, <1>2, <1>4, <2>2, <2>5 DEF topicMatches
<1> QED BY <1>3, <1>4

(* Whatever the configuration, the topic matcher behind the loop warning   *)
(* gives the broker's answer on its bindings and responses.                *)
THEOREM TopicsDecided ==
  ASSUME file \in ConfigFile
  PROVE  TopicOnWords
<1> DEFINE c == cfg
<1>1. Sections(c)
  BY Loaded
<1> SUFFICES ASSUME NEW bk \in BindingKeys, bk[2] # Empty
             PROVE  topicMatches(bk[1].key, bk[2]) <=> TopicMatch(bk[1].key, bk[2])
  BY DEF TopicOnWords
<1>2. \E i \in DOMAIN c.queues : \E j \in DOMAIN c.queues[i].bindings :
        \E n \in DOMAIN c.rules :
          bk[1] = c.queues[i].bindings[j] /\ bk[2] = c.rules[n].key
  BY DEF BindingKeys
<1> HIDE DEF c
<1>3. bk[1].key \in Name /\ bk[2] \in Name
  <2>1. PICK i \in DOMAIN c.queues : \E j \in DOMAIN c.queues[i].bindings :
               \E n \in DOMAIN c.rules :
                 bk[1] = c.queues[i].bindings[j] /\ bk[2] = c.rules[n].key
    BY <1>2
  <2>2. PICK j \in DOMAIN c.queues[i].bindings, n \in DOMAIN c.rules :
                 bk[1] = c.queues[i].bindings[j] /\ bk[2] = c.rules[n].key
    BY <2>1
  <2>3. c.queues[i] \in QueueDeclaration /\ c.rules[n] \in Rule
    BY <1>1 DEF Sections
  <2>4. c.queues[i].bindings[j] \in QueueBinding
    BY <2>3 DEF QueueDeclaration
  <2> QED BY <2>2, <2>3, <2>4 DEF Rule, QueueBinding
<1> QED BY <1>3, TopicMatchesExact

-----------------------------------------------------------------------------
(* The loop warning.                                                       *)

(* Topic matching with the key as the pattern: a superset of equality. *)
LEMMA TopicReflexive ==
  ASSUME NEW k \in Name
  PROVE  TopicMatch(k, k)
<1> DEFINE cut == [i \in 0..Len(k) |-> i]
<1>1. k \in Seq(STRING)
  BY Zenon DEF Name
<1>2. cut \in [0..Len(k) -> 0..Len(k)] /\ cut[0] = 0 /\ cut[Len(k)] = Len(k)
  BY <1>1
<1>3. \A i \in 1..Len(k) : cut[i] = i /\ cut[i - 1] = i - 1
  BY <1>1
<1> HIDE DEF cut
<1>4. \A i \in 1..Len(k) :
         /\ cut[i - 1] <= cut[i]
         /\ k[i] # "#" => /\ cut[i] = cut[i - 1] + 1
                          /\ k[i] \in {"*", k[cut[i]]}
  BY <1>1, <1>3
<1> QED BY <1>2, <1>4 DEF TopicMatch

(* In an accepted configuration an exchange is declared once, with a type  *)
(* that the driver knows, and exchangeType is that one.                    *)
LEMMA OneDeclaration ==
  ASSUME NEW c, Sections(c), Validate(c) = {}, NEW name, Declared(c, name) # {}
  PROVE  /\ DeclaredTypes(c, name) = {exchangeType(c, name)}
         /\ exchangeType(c, name) \in {"direct", "topic", "fanout", "headers"}
<1>1. PICK d \in DOMAIN c.exchanges : c.exchanges[d].name = name
  BY DEF Declared
<1>2. c.exchanges \in Seq(ExchangeDeclaration)
  BY DEF Sections
<1>3. \A i \in DOMAIN c.exchanges : ~Repeats(c.exchanges, i)
                                    /\ c.exchanges[i].type \in validExchangeTypes
  BY Accepted DEF exchangeProblem
<1>4. ASSUME NEW i \in Declared(c, name) PROVE i = d
  <2>1. i \in DOMAIN c.exchanges /\ c.exchanges[i].name = name
    BY DEF Declared
  <2>2. i \in Nat /\ d \in Nat /\ i >= 1 /\ d >= 1
    BY <1>2, <2>1
  <2>3. ~(i < d)
    BY <1>1, <1>3, <2>1, <2>2 DEF Repeats
  <2>4. ~(d < i)
    BY <1>1, <1>3, <2>1, <2>2 DEF Repeats
  <2> QED BY <2>2, <2>3, <2>4
<1>5. Declared(c, name) = {d}
  BY <1>1, <1>4 DEF Declared
<1>6. exchangeType(c, name) = Default(c.exchanges[d].type, "direct")
  <2> DEFINE last == CHOOSE i \in Declared(c, name) : \A j \in Declared(c, name) : j <= i
  <2>1. d \in Nat
    BY <1>2
  <2>2. \E i \in Declared(c, name) : \A j \in Declared(c, name) : j <= i
    BY <1>5, <2>1
  <2>3. last \in Declared(c, name)
    BY Zenon, <2>2
  <2>4. last = d
    BY Zenon, <2>3, <1>4
  <2>5. exchangeType(c, name) = Default(c.exchanges[last].type, "direct")
    BY Zenon DEF exchangeType
  <2> QED BY Zenon, <2>4, <2>5
<1>7. DeclaredTypes(c, name) = {exchangeType(c, name)}
  BY Zenon, <1>5, <1>6 DEF DeclaredTypes
<1>8. Default(c.exchanges[d].type, "direct") \in {"direct", "topic", "fanout", "headers"}
  BY Zenon, <1>3 DEF Default, validExchangeTypes
<1> QED BY Zenon, <1>6, <1>7, <1>8

(* For an exchange that is no headers exchange, ReachesAs with the type    *)
(* that exchangeType finds agrees with the routing of the broker.          *)
LEMMA ReachesRight ==
  ASSUME NEW c, Sections(c), Validate(c) = {}, NEW name,
         "headers" \notin DeclaredTypes(c, name), NEW b \in QueueBinding, NEW k \in Name,
         k = Empty => DeclaredTypes(c, name) # {} /\ "topic" \notin DeclaredTypes(c, name)
  PROVE  ReachesAs(exchangeType(c, name), b, k) <=>
           \E t \in IF Declared(c, name) = {} THEN {"direct", "topic"}
                    ELSE DeclaredTypes(c, name) : Routes(t, b, k)
<1>1. b.key \in Name
  BY DEF QueueBinding
<1>2. k # Empty => (topicMatches(b.key, k) <=> TopicMatch(b.key, k))
  BY <1>1, TopicMatchesExact
<1>3. CASE Declared(c, name) = {}
  <2>0. k # Empty
    BY <1>3 DEF DeclaredTypes
  <2>1. exchangeType(c, name) = "topic"
    BY Zenon, <1>3 DEF exchangeType
  <2>2. ReachesAs(exchangeType(c, name), b, k) <=> TopicMatch(b.key, k)
    BY <2>0, <2>1, <1>2 DEF ReachesAs
  <2>3. Routes("topic", b, k) <=> TopicMatch(b.key, k)
    BY DEF Routes
  <2>4. Routes("direct", b, k) <=> b.key = k
    BY DEF Routes
  <2>5. b.key = k => TopicMatch(b.key, k)
    BY TopicReflexive
  <2> QED BY <1>3, <2>2, <2>3, <2>4, <2>5
<1>4. CASE Declared(c, name) # {}
  <2> DEFINE type == exchangeType(c, name)
  <2>1. DeclaredTypes(c, name) = {type} /\ type \in {"direct", "topic", "fanout", "headers"}
    BY <1>4, OneDeclaration
  <2> HIDE DEF type
  <2>2. type \in {"direct", "topic", "fanout"} /\ (k = Empty => type # "topic")
    BY <2>1
  <2>3. ReachesAs(type, b, k) <=> Routes(type, b, k)
    BY <2>2, <1>2 DEF ReachesAs, Routes
  <2> QED BY <1>4, <2>1, <2>3 DEF type
<1> QED BY <1>3, <1>4

(* The warnings about loops, spelled out. *)
LEMMA WarnedLoop ==
  ASSUME NEW c, NEW i \in DOMAIN c.rules
  PROVE  <<"loop", i>> \in Warnings(c) <=>
           \/ \E j \in DOMAIN c.queues : /\ c.queues[j].name \in triggerQueues(c)
                                         /\ responseReachesQueue(c, c.rules[i], c.queues[j])
           \/ /\ c.rules[i].exchange = Empty /\ c.rules[i].key # Empty
              /\ c.rules[i].key \in triggerQueues(c)
<1> DEFINE L(n) == \/ \E j \in DOMAIN c.queues :
                        /\ c.queues[j].name \in triggerQueues(c)
                        /\ responseReachesQueue(c, c.rules[n], c.queues[j])
                   \/ /\ c.rules[n].exchange = Empty /\ c.rules[n].key # Empty
                      /\ c.rules[n].key \in triggerQueues(c)
<1>1. loopWarnings(c) = {<<"loop", n>> : n \in {m \in DOMAIN c.rules : L(m)}}
  BY DEF loopWarnings, Problems
<1> HIDE DEF L
<1>2. <<"loop", i>> \in loopWarnings(c) <=> L(i)
  BY <1>1
<1>3. <<"loop", i>> \notin idleWarnings(c)
  BY DEF idleWarnings, Setting
<1>4. <<"loop", i>> \notin ruleWarnings(c)
  BY DEF ruleWarnings, Problems
<1>5. <<"loop", i>> \in Warnings(c) <=> L(i)
  BY <1>2, <1>3, <1>4 DEF Warnings
<1> QED BY <1>5 DEF L

(* In every accepted configuration the rules whose responses come back to  *)
(* a trigger queue are warned of, and no others: the routing that Warnings *)
(* predicts is the routing of the topology that the driver declares.       *)
THEOREM LoopWarningsExact ==
  ASSUME file \in ConfigFile
  PROVE  LoopsWarned
<1> DEFINE c == cfg
<1>1. Sections(c)
  BY Loaded
<1> SUFFICES ASSUME Validate(c) = {}, NEW i \in DOMAIN c.rules, LoopsKnown(c, c.rules[i])
             PROVE  <<"loop", i>> \in Warnings(c)
                      <=> Loops(c, c.rules[i], {"direct", "topic"})
  BY DEF LoopsWarned, ConfigAccepted
<1> HIDE DEF c
<1> DEFINE r == c.rules[i]
<1>2. r \in Rule
  BY <1>1 DEF Sections
<1>3. CASE r.exchange = Empty
  <2>1. Loops(c, r, {"direct", "topic"}) <=> r.key \in triggerQueues(c)
    BY <1>3 DEF Loops
  <2>2. \A j \in DOMAIN c.queues : ~responseReachesQueue(c, r, c.queues[j])
    BY <1>3 DEF responseReachesQueue
  <2>3. \A n \in DOMAIN c.rules : c.rules[n].queue # Empty
    BY Accepted DEF ruleProblem
  <2>4. Empty \notin triggerQueues(c)
    BY <2>3 DEF triggerQueues
  <2> QED BY <1>3, <2>1, <2>2, <2>4, WarnedLoop
<1>4. CASE r.exchange # Empty
  <2> DEFINE types == IF Declared(c, r.exchange) = {} THEN {"direct", "topic"}
                      ELSE DeclaredTypes(c, r.exchange)
  <2> HIDE DEF r
  <2>1. /\ r.key \in Name
        /\ r.key = Empty => /\ DeclaredTypes(c, r.exchange) # {}
                            /\ "topic" \notin DeclaredTypes(c, r.exchange)
    BY <1>2, <1>4 DEF Rule, LoopsKnown, r
  <2>2. ASSUME NEW n \in DOMAIN c.queues, NEW j \in DOMAIN c.queues[n].bindings
        PROVE  ReachesAs(exchangeType(c, r.exchange), c.queues[n].bindings[j], r.key)
                 <=> \E t \in types : Routes(t, c.queues[n].bindings[j], r.key)
    <3>1. c.queues[n] \in QueueDeclaration
      BY <1>1 DEF Sections
    <3>2. c.queues[n].bindings[j] \in QueueBinding
      BY <3>1 DEF QueueDeclaration
    <3>3. "headers" \notin DeclaredTypes(c, r.exchange)
      BY DEF LoopsKnown, r
    <3> QED BY <1>1, <2>1, <3>2, <3>3, ReachesRight
  <2>3. Loops(c, r, {"direct", "topic"}) <=>
          \E n \in DOMAIN c.queues : \E j \in DOMAIN c.queues[n].bindings :
            /\ c.queues[n].name \in triggerQueues(c)
            /\ c.queues[n].bindings[j].exchange = r.exchange
            /\ \E t \in types : Routes(t, c.queues[n].bindings[j], r.key)
    BY Zenon, <1>4 DEF Loops
  <2> HIDE DEF types
  <2>4. ASSUME NEW n \in DOMAIN c.queues
        PROVE  responseReachesQueue(c, r, c.queues[n]) <=>
                 \E j \in DOMAIN c.queues[n].bindings :
                   /\ c.queues[n].bindings[j].exchange = r.exchange
                   /\ \E t \in types : Routes(t, c.queues[n].bindings[j], r.key)
    BY <1>4, <2>2 DEF responseReachesQueue
  <2>5. <<"loop", i>> \in Warnings(c) <=>
          \E n \in DOMAIN c.queues : /\ c.queues[n].name \in triggerQueues(c)
                                     /\ responseReachesQueue(c, r, c.queues[n])
    BY <1>4, WarnedLoop DEF r
  <2>6. <<"loop", i>> \in Warnings(c) <=> Loops(c, r, {"direct", "topic"})
    BY <2>3, <2>4, <2>5
  <2> QED BY <2>6 DEF r
<1> QED BY <1>3, <1>4

-----------------------------------------------------------------------------
(* Templates.                                                              *)

(* Counting down: a set of numbers up to hi has a greatest element. *)
LEMMA GreatestUpTo ==
  ASSUME NEW lo \in Int, NEW hi \in Int, NEW T, T \subseteq lo..hi, T # {}
  PROVE  \E m \in T : \A k \in T : k <= m
<1> DEFINE D == {d \in Nat : hi - d \in T}
<1>1. D # {}
  <2>1. PICK k \in T : TRUE
    OBVIOUS
  <2>2. hi - k \in Nat /\ hi - (hi - k) = k
    BY <2>1
  <2> QED BY <2>1, <2>2
<1>2. PICK d \in D : \A e \in D : d <= e
  <2>1. D \subseteq Nat
    OBVIOUS
  <2> HIDE DEF D
  <2> QED BY <1>1, <2>1, LeastNat
<1>3. \A k \in T : k <= hi - d
  <2> SUFFICES ASSUME NEW k \in T PROVE k <= hi - d
    OBVIOUS
  <2>1. hi - k \in Nat /\ hi - (hi - k) = k /\ k \in Int
    OBVIOUS
  <2>2. hi - k \in D
    BY <2>1
  <2>3. d \in Nat /\ d <= hi - k
    BY <1>2, <2>2
  <2> QED BY <2>1, <2>3
<1> QED BY <1>2, <1>3

-----------------------------------------------------------------------------
(* The scanners of a text are recursive functions that go on from a later  *)
(* position, or stop.                                                      *)
ChainStep(f, E, U, b, nxt, i) ==
  IF i \in E THEN b[i] ELSE IF i \in U THEN b[i] \cup f[nxt[i]] ELSE f[nxt[i]]

ChainTable(f, lo, hi, E, U, b, nxt) ==
  f = [i \in lo..hi |-> ChainStep(f, E, U, b, nxt, i)]

LEMMA ChainEntry ==
  ASSUME NEW lo, NEW hi, NEW E, NEW U, NEW b, NEW nxt, NEW f,
         ChainTable(f, lo, hi, E, U, b, nxt), NEW a \in lo..hi
  PROVE  f[a] = ChainStep(f, E, U, b, nxt, a)
<1> DEFINE P(i) == ChainStep(f, E, U, b, nxt, i)
<1>1. f = [i \in lo..hi |-> P(i)]
  BY DEF ChainTable
<1> HIDE DEF P
<1>2. f[a] = P(a)
  BY <1>1
<1> QED BY <1>2 DEF P

LEMMA ChainExists ==
  ASSUME NEW lo \in Int, NEW hi \in Int, lo <= hi, NEW E, NEW U, NEW b, NEW nxt,
         \A i \in lo..hi : i \notin E => nxt[i] \in (i + 1)..hi
  PROVE  \E f : ChainTable(f, lo, hi, E, U, b, nxt)
<1> DEFINE Bad == {l \in lo..hi : ~ \E f : ChainTable(f, l, hi, E, U, b, nxt)}
<1> SUFFICES Bad = {}
  OBVIOUS
<1> SUFFICES ASSUME Bad # {} PROVE FALSE
  OBVIOUS
<1>1. PICK l \in Bad : \A k \in Bad : k <= l
  <2>1. Bad \subseteq lo..hi
    OBVIOUS
  <2> HIDE DEF Bad
  <2> QED BY <2>1, GreatestUpTo
<1>2. l \in lo..hi /\ ~ \E f : ChainTable(f, l, hi, E, U, b, nxt)
  OBVIOUS
<1>3. l = hi \/ \E f : ChainTable(f, l + 1, hi, E, U, b, nxt)
  BY <1>1, <1>2
<1>4. PICK g : l = hi \/ ChainTable(g, l + 1, hi, E, U, b, nxt)
  BY <1>3
<1> DEFINE f == [a \in l..hi |-> IF a = l THEN ChainStep(g, E, U, b, nxt, l) ELSE g[a]]
<1>5. ASSUME NEW a \in l..hi
      PROVE  f[a] = ChainStep(f, E, U, b, nxt, a)
  <2>1. a \notin E => nxt[a] \in (a + 1)..hi
    BY <1>2
  <2>2. a \notin E => f[nxt[a]] = g[nxt[a]]
    <3>1. a \notin E => nxt[a] \in l..hi /\ nxt[a] # l
      BY <1>2, <2>1
    <3> QED BY <3>1
  <2>3. ChainStep(f, E, U, b, nxt, a) = ChainStep(g, E, U, b, nxt, a)
    <3> HIDE DEF f
    <3> QED BY <2>2 DEF ChainStep
  <2>4. a # l => g[a] = ChainStep(g, E, U, b, nxt, a)
    <3>1. a # l => a \in (l + 1)..hi /\ l # hi
      BY <1>2
    <3> QED BY <1>4, <3>1, ChainEntry
  <2> QED BY <2>3, <2>4
<1>6. ChainTable(f, l, hi, E, U, b, nxt)
  <2> DEFINE P(a) == ChainStep(f, E, U, b, nxt, a)
  <2>1. DOMAIN f = l..hi /\ f = [a \in l..hi |-> f[a]]
    OBVIOUS
  <2>2. \A a \in l..hi : f[a] = P(a)
    BY <1>5
  <2> HIDE DEF f, P
  <2>3. f = [a \in l..hi |-> P(a)]
    BY <2>1, <2>2
  <2> QED BY <2>3 DEF ChainTable, P
<1> QED BY <1>2, <1>6

LEMMA FirstFromIs ==
  ASSUME NEW W, NEW s \in Seq(W), NEW i \in 1..(Len(s) + 1), NEW T
  PROVE  /\ FirstFrom(s, i, T) \in i..(Len(s) + 1)
         /\ FirstFrom(s, i, T) = Len(s) + 1 \/ s[FirstFrom(s, i, T)] \in T
         /\ \A k \in i..(FirstFrom(s, i, T) - 1) : s[k] \notin T
<1> DEFINE n == Len(s) + 1
           H == {j \in i..n : j = n \/ s[j] \in T}
<1>1. n \in Nat /\ H \subseteq Nat /\ n \in H
  OBVIOUS
<1>2. PICK j \in H : \A k \in H : j <= k
  <2> HIDE DEF H, n
  <2> QED BY <1>1, LeastNat
<1>3. j \in i..n /\ (j = n \/ s[j] \in T) /\ \A k \in i..(j - 1) : s[k] \notin T
  <2>1. ASSUME NEW k \in i..(j - 1), s[k] \in T PROVE FALSE
    <3>1. k \in H
      BY <1>1, <1>2, <2>1
    <3> QED BY <1>1, <1>2, <3>1
  <2> QED BY <1>2, <2>1
<1> DEFINE P(h) == /\ h = n \/ s[h] \in T
                   /\ \A k \in i..(h - 1) : s[k] \notin T
<1>4. FirstFrom(s, i, T) = CHOOSE h \in i..n : P(h)
  BY DEF FirstFrom
<1>5. \E h \in i..n : P(h)
  BY <1>3
<1>6. FirstFrom(s, i, T) \in i..n /\ P(FirstFrom(s, i, T))
  <2> HIDE DEF P, n
  <2> QED BY <1>4, <1>5
<1> QED BY <1>6

-----------------------------------------------------------------------------
(* The lexer.                                                              *)

LexStates ==
  {"text", "comment", "code", "char", "charescape", "quoted", "escape", "raw", "error"}
Outside == {"text", "comment"}
Coded == {"code", "char", "charescape"}

LEMMA LexStepIs ==
  ASSUME NEW t
  PROVE  /\ lexStep("text", t) = IF t = Open THEN "code"
                                 ELSE IF t = OpenComment THEN "comment" ELSE "text"
         /\ lexStep("comment", t) = IF t = CloseComment THEN "text" ELSE "comment"
         /\ lexStep("code", t) = IF t = Quote THEN "quoted" ELSE IF t = Tick THEN "raw"
                                 ELSE IF t = Apos THEN "char" ELSE IF t = Close THEN "text"
                                 ELSE IF t \in Begins \cup Ends THEN "error" ELSE "code"
         /\ lexStep("char", t) \in {"code", "char", "charescape", "error"}
         /\ lexStep("charescape", t) \in {"char", "error"}
         /\ t \in Begins \cup Ends \cup {ContextVar, BareVar} =>
              lexStep("char", t) = "error" /\ lexStep("charescape", t) = "error"
         /\ lexStep("quoted", t) = IF t = Quote THEN "code" ELSE IF t = Esc THEN "escape"
                                   ELSE "quoted"
         /\ lexStep("escape", t) = "quoted"
         /\ lexStep("raw", t) = IF t = Tick THEN "code" ELSE "raw"
         /\ lexStep("error", t) = "error"
BY DEF lexStep, lexChar

LexTable(f, s, m) ==
  f = [i \in 1..m |-> IF i = 1 THEN "text" ELSE lexStep(f[i - 1], s[i - 1])]

LEMMA LexTableEntry ==
  ASSUME NEW s, NEW m, NEW f, LexTable(f, s, m), NEW a \in 1..m
  PROVE  f[a] = IF a = 1 THEN "text" ELSE lexStep(f[a - 1], s[a - 1])
<1> DEFINE P(i) == IF i = 1 THEN "text" ELSE lexStep(f[i - 1], s[i - 1])
<1>1. f = [i \in 1..m |-> P(i)]
  BY DEF LexTable
<1> HIDE DEF P
<1>2. f[a] = P(a)
  BY <1>1
<1> QED BY <1>2 DEF P

LEMMA LexTableExists ==
  ASSUME NEW s, NEW m \in Nat
  PROVE  \E f : LexTable(f, s, m)
<1> DEFINE Bad == {l \in Nat : ~ \E f : LexTable(f, s, l)}
<1> SUFFICES Bad = {}
  OBVIOUS
<1> SUFFICES ASSUME Bad # {} PROVE FALSE
  OBVIOUS
<1>1. PICK l \in Bad : \A k \in Bad : l <= k
  <2>1. Bad \subseteq Nat
    OBVIOUS
  <2> HIDE DEF Bad
  <2> QED BY <2>1, LeastNat
<1>2. l \in Nat /\ ~ \E f : LexTable(f, s, l)
  OBVIOUS
<1>3. l = 0 \/ \E f : LexTable(f, s, l - 1)
  BY <1>1, <1>2
<1>4. PICK g : l = 0 \/ LexTable(g, s, l - 1)
  BY <1>3
<1> DEFINE Step(h, a) == IF a = 1 THEN "text" ELSE lexStep(h[a - 1], s[a - 1])
           f == [a \in 1..l |-> IF a = l THEN Step(g, l) ELSE g[a]]
<1>5. ASSUME NEW a \in 1..l
      PROVE  f[a] = Step(f, a)
  <2>1. a # 1 => a - 1 \in 1..l /\ a - 1 # l
    BY <1>2
  <2>2. a # 1 => f[a - 1] = g[a - 1]
    BY <2>1
  <2>3. Step(f, a) = Step(g, a)
    <3> HIDE DEF f
    <3> QED BY <2>2
  <2>4. a # l => g[a] = Step(g, a)
    <3>1. a # l => a \in 1..(l - 1) /\ l # 0
      BY <1>2
    <3> QED BY <1>4, <3>1, LexTableEntry
  <2> HIDE DEF Step
  <2> QED BY <2>3, <2>4
<1>6. LexTable(f, s, l)
  <2> DEFINE P(a) == Step(f, a)
  <2>1. DOMAIN f = 1..l /\ f = [a \in 1..l |-> f[a]]
    OBVIOUS
  <2>2. \A a \in 1..l : f[a] = P(a)
    BY <1>5
  <2> HIDE DEF f, P
  <2>3. f = [a \in 1..l |-> P(a)]
    BY <2>1, <2>2
  <2> QED BY <2>3 DEF LexTable, P
<1> QED BY <1>2, <1>6

(* The states t are those of the lexer on the tokens of c. *)
Follows(t, c) ==
  /\ \A k \in 1..(Len(c) + 1) : t[k] \in LexStates
  /\ \A k \in 1..Len(c) : t[k + 1] = lexStep(t[k], c[k])

LEMMA LexFollows ==
  ASSUME NEW W, NEW s \in Seq(W)
  PROVE  lex(s)[1] = "text" /\ Follows(lex(s), s)
<1> DEFINE f == lex(s)
           m == Len(s) + 1
<1>0. m \in Nat \ {0}
  OBVIOUS
<1>1. LexTable(f, s, m)
  <2>1. \E g : LexTable(g, s, m)
    BY <1>0, LexTableExists
  <2>2. f = CHOOSE g : LexTable(g, s, m)
    BY DEF lex, LexTable
  <2> QED BY Zenon, <2>1, <2>2
<1> HIDE DEF f
<1>2. \A a \in 1..m : f[a] = IF a = 1 THEN "text" ELSE lexStep(f[a - 1], s[a - 1])
  BY <1>1, LexTableEntry
<1>3. f[1] = "text"
  BY <1>0, <1>2
<1>4. ASSUME NEW k \in 1..Len(s) PROVE f[k + 1] = lexStep(f[k], s[k])
  <2>1. k + 1 \in 1..m /\ k + 1 # 1 /\ (k + 1) - 1 = k
    OBVIOUS
  <2> QED BY <1>2, <2>1
<1>5. \A k \in 1..m : f[k] \in LexStates
  <2> DEFINE Bad == {k \in 1..m : f[k] \notin LexStates}
  <2> SUFFICES ASSUME Bad # {} PROVE FALSE
    OBVIOUS
  <2>1. PICK k \in Bad : \A h \in Bad : k <= h
    <3>1. Bad \subseteq Nat
      BY <1>0
    <3> HIDE DEF Bad
    <3> QED BY <3>1, LeastNat
  <2>2. CASE k = 1
    BY <1>3, <2>1, <2>2 DEF LexStates
  <2>3. CASE k # 1
    <3>1. k - 1 \in 1..Len(s) /\ k - 1 \in 1..m /\ k - 1 \notin Bad /\ (k - 1) + 1 = k
      BY <1>0, <2>1, <2>3
    <3>2. f[k - 1] \in LexStates /\ f[k] = lexStep(f[k - 1], s[k - 1])
      BY <3>1, <1>4
    <3> DEFINE x == f[k - 1]
               y == s[k - 1]
    <3>3. x \in LexStates => lexStep(x, y) \in LexStates
      <4> HIDE DEF x, y
      <4> QED BY LexStepIs DEF LexStates
    <3> QED BY <2>1, <3>2, <3>3
  <2> QED BY <2>2, <2>3
<1> QED BY <1>3, <1>4, <1>5 DEF Follows, f

(* A lexer that has failed stays so. *)
LEMMA NoErrorBefore ==
  ASSUME NEW W, NEW c \in Seq(W), NEW t, Follows(t, c), t[Len(c) + 1] # "error"
  PROVE  \A k \in 1..(Len(c) + 1) : t[k] # "error"
<1> DEFINE n == Len(c) + 1
           Bad == {k \in 1..n : t[k] = "error"}
<1> SUFFICES ASSUME Bad # {} PROVE FALSE
  OBVIOUS
<1>1. n \in Int
  OBVIOUS
<1>2. PICK k \in Bad : \A h \in Bad : h <= k
  <2>1. Bad \subseteq 1..n /\ 1 \in Int
    OBVIOUS
  <2> HIDE DEF Bad, n
  <2> QED BY <1>1, <2>1, GreatestUpTo
<1>3. k \in 1..Len(c) /\ t[k] = "error"
  BY <1>1, <1>2
<1>4. t[k + 1] = "error"
  BY <1>3, LexStepIs DEF Follows
<1>5. k + 1 \in Bad
  BY <1>3, <1>4
<1> QED BY <1>2, <1>3, <1>5

(* Text and comments last until an action begins. *)
LEMMA TextLasts ==
  ASSUME NEW W, NEW c \in Seq(W), NEW t, Follows(t, c),
         NEW a \in 1..(Len(c) + 1), NEW b \in a..(Len(c) + 1),
         t[a] \in Outside, \A k \in a..(b - 1) : c[k] \notin Begins
  PROVE  \A k \in a..b : t[k] \in Outside
<1> DEFINE Bad == {k \in a..b : t[k] \notin Outside}
<1> SUFFICES ASSUME Bad # {} PROVE FALSE
  OBVIOUS
<1>1. PICK k \in Bad : \A h \in Bad : k <= h
  <2>1. Bad \subseteq Nat
    OBVIOUS
  <2> HIDE DEF Bad
  <2> QED BY <2>1, LeastNat
<1>2. k - 1 \in a..b /\ k - 1 \in a..(b - 1) /\ k - 1 \in 1..Len(c) /\ (k - 1) + 1 = k
  BY <1>1
<1> DEFINE x == t[k - 1]
           y == c[k - 1]
<1>3. x \in Outside /\ y \notin Begins
  BY <1>1, <1>2
<1>4. t[k] = lexStep(x, y) /\ t[k] \notin Outside
  BY <1>1, <1>2 DEF Follows
<1> HIDE DEF x, y
<1>5. lexStep(x, y) \in Outside
  BY <1>3, LexStepIs DEF Outside, Begins
<1> QED BY <1>4, <1>5

(* A comment lasts until it is closed. *)
LEMMA CommentLasts ==
  ASSUME NEW W, NEW c \in Seq(W), NEW t, Follows(t, c),
         NEW a \in 1..(Len(c) + 1), NEW b \in a..(Len(c) + 1),
         t[a] = "comment", \A k \in a..(b - 1) : c[k] \notin Ends
  PROVE  \A k \in a..b : t[k] = "comment"
<1> DEFINE Bad == {k \in a..b : t[k] # "comment"}
<1> SUFFICES ASSUME Bad # {} PROVE FALSE
  OBVIOUS
<1>1. PICK k \in Bad : \A h \in Bad : k <= h
  <2>1. Bad \subseteq Nat
    OBVIOUS
  <2> HIDE DEF Bad
  <2> QED BY <2>1, LeastNat
<1>2. k - 1 \in a..b /\ k - 1 \in a..(b - 1) /\ k - 1 \in 1..Len(c) /\ (k - 1) + 1 = k
  BY <1>1
<1>3. t[k - 1] = "comment" /\ c[k - 1] # CloseComment
  BY <1>1, <1>2 DEF Ends
<1>4. t[k] = lexStep("comment", c[k - 1])
  BY <1>2, <1>3 DEF Follows
<1> QED BY <1>1, <1>3, <1>4, LexStepIs

(* An action lasts until it is closed. *)
LEMMA ActionLasts ==
  ASSUME NEW W, NEW c \in Seq(W), NEW t, Follows(t, c),
         NEW a \in 1..(Len(c) + 1), NEW b \in a..(Len(c) + 1),
         t[a] \notin Outside, \A k \in a..(b - 1) : c[k] \notin Ends
  PROVE  \A k \in a..b : t[k] \notin Outside
<1> DEFINE Bad == {k \in a..b : t[k] \in Outside}
<1> SUFFICES ASSUME Bad # {} PROVE FALSE
  OBVIOUS
<1>1. PICK k \in Bad : \A h \in Bad : k <= h
  <2>1. Bad \subseteq Nat
    OBVIOUS
  <2> HIDE DEF Bad
  <2> QED BY <2>1, LeastNat
<1>2. k - 1 \in a..b /\ k - 1 \in a..(b - 1) /\ k - 1 \in 1..Len(c) /\ (k - 1) + 1 = k
  BY <1>1
<1> DEFINE x == t[k - 1]
           y == c[k - 1]
<1>3. x \notin Outside /\ y # Close
  BY <1>1, <1>2 DEF Ends
<1>4. t[k] = lexStep(x, y) /\ x \in LexStates
  BY <1>2 DEF Follows
<1>5. t[k] \in Outside
  BY <1>1
<1> HIDE DEF x, y
<1>6. lexStep(x, y) \notin {"text", "comment"}
  <2>1. CASE x = "code"
    BY <1>3, <2>1, LexStepIs
  <2>2. CASE x \in {"char", "charescape"}
    BY <2>2, LexStepIs
  <2>3. CASE x \in {"quoted", "escape"}
    BY <2>3, LexStepIs
  <2>4. CASE x \in {"raw", "error"}
    BY <2>4, LexStepIs
  <2> QED BY <1>3, <1>4, <2>1, <2>2, <2>3, <2>4 DEF LexStates, Outside
<1> QED BY <1>4, <1>5, <1>6 DEF Outside

(* Code, with its character constants, lasts until a string begins. *)
LEMMA CodeLasts ==
  ASSUME NEW W, NEW c \in Seq(W), NEW t, Follows(t, c),
         \A k \in 1..(Len(c) + 1) : t[k] # "error",
         NEW a \in 1..(Len(c) + 1), NEW b \in a..(Len(c) + 1),
         t[a] = "code", \A k \in a..(b - 1) : c[k] # Close /\ c[k] \notin Quotes
  PROVE  \A k \in a..b : t[k] \in Coded
<1> DEFINE Bad == {k \in a..b : t[k] \notin Coded}
<1> SUFFICES ASSUME Bad # {} PROVE FALSE
  OBVIOUS
<1>1. PICK k \in Bad : \A h \in Bad : k <= h
  <2>1. Bad \subseteq Nat
    OBVIOUS
  <2> HIDE DEF Bad
  <2> QED BY <2>1, LeastNat
<1>0. t[a] \in Coded
  BY DEF Coded
<1>2. k - 1 \in a..b /\ k - 1 \in a..(b - 1) /\ k - 1 \in 1..Len(c) /\ (k - 1) + 1 = k
  BY <1>0, <1>1
<1> DEFINE x == t[k - 1]
           y == c[k - 1]
<1>3. x \in Coded /\ y # Close /\ y # Quote /\ y # Tick
  BY <1>1, <1>2 DEF Quotes
<1>4. t[k] = lexStep(x, y)
  BY <1>2 DEF Follows
<1>5. k \in 1..(Len(c) + 1) /\ t[k] \notin Coded
  BY <1>1
<1>6. t[k] # "error"
  BY <1>5
<1> HIDE DEF x, y
<1>7. lexStep(x, y) \in Coded \cup {"error"}
  <2>1. CASE x = "code"
    BY <1>3, <2>1, LexStepIs DEF Coded
  <2>2. CASE x \in {"char", "charescape"}
    BY <2>2, LexStepIs DEF Coded
  <2> QED BY <1>3, <2>1, <2>2 DEF Coded
<1> QED BY <1>4, <1>5, <1>6, <1>7

-----------------------------------------------------------------------------
(* A literal is over where the lexer is back in code.                      *)
PastStep(f, c, escapes, i, j) ==
  IF j > Len(c) THEN Len(c) + 1
  ELSE IF c[j] = c[i] THEN j + 1
  ELSE IF c[i] \in escapes /\ c[j] = Esc THEN f[j + 2]
  ELSE f[j + 1]

PastTable(f, c, escapes, i) ==
  f = [j \in (i + 1)..(Len(c) + 2) |-> PastStep(f, c, escapes, i, j)]

LEMMA PastTableExists ==
  ASSUME NEW W, NEW c \in Seq(W), NEW escapes, NEW i \in 1..Len(c)
  PROVE  \E f : PastTable(f, c, escapes, i)
<1> DEFINE lo == i + 1
           hi == Len(c) + 2
           E == {j \in lo..hi : j > Len(c) \/ c[j] = c[i]}
           b == [j \in lo..hi |-> IF j > Len(c) THEN Len(c) + 1 ELSE j + 1]
           nxt == [j \in lo..hi |-> IF c[i] \in escapes /\ c[j] = Esc THEN j + 2 ELSE j + 1]
<1>1. lo \in Int /\ hi \in Int /\ lo <= hi
  OBVIOUS
<1>2. \A j \in lo..hi : j \notin E => nxt[j] \in (j + 1)..hi
  OBVIOUS
<1>3. PICK f : ChainTable(f, lo, hi, E, {}, b, nxt)
  <2> HIDE DEF lo, hi, E, b, nxt
  <2> QED BY <1>1, <1>2, ChainExists
<1>4. \A j \in lo..hi : ChainStep(f, E, {}, b, nxt, j) = PastStep(f, c, escapes, i, j)
  BY DEF ChainStep, PastStep
<1> DEFINE P(j) == ChainStep(f, E, {}, b, nxt, j)
           Q(j) == PastStep(f, c, escapes, i, j)
<1>5. f = [j \in lo..hi |-> P(j)] /\ \A j \in lo..hi : P(j) = Q(j)
  BY <1>3, <1>4 DEF ChainTable
<1>6. f = [j \in lo..hi |-> Q(j)]
  <2> HIDE DEF P, Q, lo, hi
  <2> QED BY <1>5
<1> QED BY <1>6 DEF PastTable

LEMMA PastTableEntry ==
  ASSUME NEW c, NEW escapes, NEW i, NEW f, PastTable(f, c, escapes, i),
         NEW a \in (i + 1)..(Len(c) + 2)
  PROVE  f[a] = PastStep(f, c, escapes, i, a)
<1> DEFINE P(j) == PastStep(f, c, escapes, i, j)
<1>1. f = [j \in (i + 1)..(Len(c) + 2) |-> P(j)]
  BY DEF PastTable
<1> HIDE DEF P
<1>2. f[a] = P(a)
  BY <1>1
<1> QED BY <1>2 DEF P

LEMMA LiteralEnds ==
  ASSUME NEW W, NEW c \in Seq(W), NEW t, Follows(t, c),
         NEW i \in 1..Len(c), c[i] \in Quotes, t[i] = "code"
  PROVE  LET e == literal(c, {Quote}, i)
         IN  /\ e \in (i + 1)..(Len(c) + 1)
             /\ e <= Len(c) => t[e] = "code" /\ c[e - 1] \in Quotes
             /\ \A k \in (i + 1)..(e - 1) : t[k] # "code"
<1> DEFINE n == Len(c)
           f == CHOOSE g : PastTable(g, c, {Quote}, i)
<1>0. n \in Nat
  OBVIOUS
<1>1. PastTable(f, c, {Quote}, i)
  <2>1. \E g : PastTable(g, c, {Quote}, i)
    BY PastTableExists
  <2> QED BY Zenon, <2>1
<1>2. literal(c, {Quote}, i) = f[i + 1]
  BY DEF literal, PastTable, PastStep
<1> HIDE DEF f
<1>3. \A j \in (i + 1)..(n + 2) : f[j] = PastStep(f, c, {Quote}, i, j)
  BY <1>1, PastTableEntry
<1> DEFINE inner == IF c[i] = Quote THEN "quoted" ELSE "raw"
           In(j) == j = n + 2 \/ t[j] = inner
           Good(j) == /\ f[j] \in (i + 1)..(n + 1)
                      /\ f[j] <= n => t[f[j]] = "code" /\ c[f[j] - 1] \in Quotes
                      /\ \A k \in j..(f[j] - 1) : t[k] # "code"
           Bad == {j \in (i + 1)..(n + 2) : In(j) /\ ~Good(j)}
<1>4. In(i + 1)
  <2>1. t[i + 1] = lexStep("code", c[i])
    BY DEF Follows
  <2> QED BY <2>1, LexStepIs DEF Quotes, Quote, Tick
<1>5. Bad = {}
  <2> SUFFICES ASSUME Bad # {} PROVE FALSE
    OBVIOUS
  <2>1. PICK j \in Bad : \A h \in Bad : h <= j
    <3>1. Bad \subseteq (i + 1)..(n + 2) /\ i + 1 \in Int /\ n + 2 \in Int
      BY <1>0
    <3> HIDE DEF Bad
    <3> QED BY <3>1, GreatestUpTo
  <2>2. j \in (i + 1)..(n + 2) /\ In(j) /\ ~Good(j)
    BY <2>1
  <2>3. \A h \in (i + 1)..(n + 2) : h > j /\ In(h) => Good(h)
    BY <2>1, <2>2
  <2> HIDE DEF Bad
  <2>4. f[j] = PastStep(f, c, {Quote}, i, j)
    BY <1>3, <2>2
  <2>5. CASE j > n
    <3>1. f[j] = n + 1
      BY <2>4, <2>5 DEF PastStep
    <3> QED BY <3>1, <2>2, <2>5, <1>0
  <2>6. CASE j <= n
    <3>1. j \in 1..n /\ t[j] = inner /\ t[j + 1] = lexStep(inner, c[j]) /\ inner # "code"
      BY <1>0, <2>2, <2>6 DEF Follows
    <3>2. CASE c[j] = c[i]
      <4>1. f[j] = j + 1
        BY <2>4, <2>6, <3>2, <1>0, <2>2 DEF PastStep
      <4>2. t[j + 1] = "code"
        BY <3>1, <3>2, LexStepIs DEF Quotes, Quote, Tick
      <4>3. \A k \in j..j : t[k] # "code"
        BY <3>1
      <4> HIDE DEF inner
      <4> QED BY <4>1, <4>2, <4>3, <3>1, <3>2, <2>2, <1>0
    <3>3. CASE c[j] # c[i] /\ c[i] = Quote /\ c[j] = Esc
      <4>1. f[j] = f[j + 2]
        BY <2>4, <2>6, <3>3, <1>0, <2>2 DEF PastStep
      <4>2. t[j + 1] = "escape"
        BY <3>1, <3>3, LexStepIs
      <4>3. In(j + 2)
        <5>1. CASE j = n
          BY <5>1
        <5>2. CASE j # n
          <6>1. j + 1 \in 1..n /\ (j + 1) + 1 = j + 2
            BY <3>1, <5>2, <1>0
          <6>2. t[j + 2] = lexStep("escape", c[j + 1])
            BY <4>2, <6>1 DEF Follows
          <6> QED BY <6>2, <3>3, LexStepIs
        <5> QED BY <5>1, <5>2
      <4>4. Good(j + 2)
        <5>1. j + 2 \in (i + 1)..(n + 2) /\ j + 2 > j
          BY <2>2, <3>1, <1>0
        <5> HIDE DEF In, Good
        <5> QED BY <5>1, <4>3, <2>3
      <4>5. \A k \in j..(f[j] - 1) : t[k] # "code"
        <5> SUFFICES ASSUME NEW k \in j..(f[j] - 1) PROVE t[k] # "code"
          OBVIOUS
        <5>1. k = j \/ k = j + 1 \/ k \in (j + 2)..(f[j] - 1)
          BY <3>1
        <5> QED BY <5>1, <3>1, <4>1, <4>2, <4>4
      <4> HIDE DEF inner
      <4> QED BY <4>1, <4>4, <4>5, <2>2
    <3>4. CASE c[j] # c[i] /\ ~(c[i] = Quote /\ c[j] = Esc)
      <4>1. f[j] = f[j + 1]
        BY <2>4, <2>6, <3>4, <1>0, <2>2 DEF PastStep
      <4>2. In(j + 1)
        BY <3>1, <3>4, LexStepIs DEF Quotes, Quote, Tick
      <4>3. Good(j + 1)
        <5>1. j + 1 \in (i + 1)..(n + 2) /\ j + 1 > j
          BY <2>2, <3>1, <1>0
        <5> HIDE DEF In, Good
        <5> QED BY <5>1, <4>2, <2>3
      <4>4. \A k \in j..(f[j] - 1) : t[k] # "code"
        <5> SUFFICES ASSUME NEW k \in j..(f[j] - 1) PROVE t[k] # "code"
          OBVIOUS
        <5>1. k = j \/ k \in (j + 1)..(f[j] - 1)
          BY <3>1
        <5> QED BY <5>1, <3>1, <4>1, <4>3
      <4> HIDE DEF inner
      <4> QED BY <4>1, <4>3, <4>4, <2>2
    <3> QED BY <3>2, <3>3, <3>4
  <2> QED BY <2>2, <2>5, <2>6, <1>0
<1>6. Good(i + 1)
  <2>1. i + 1 \in (i + 1)..(n + 2)
    BY <1>0
  <2> HIDE DEF Good, In
  <2> QED BY <2>1, <1>4, <1>5
<1> QED BY <1>2, <1>6

-----------------------------------------------------------------------------
(* The references in the body c of an action, from position i on, by the   *)
(* states t of the lexer.                                                  *)
RefsFrom(t, c, i) ==
  {k \in i..Len(c) :
    /\ t[k] = "code" /\ c[k] \in {ContextVar, BareVar}
    /\ k = 1 \/ c[k - 1] \notin Identifiers
    /\ c[k] = BareVar => k = Len(c) \/ c[k + 1] \notin Identifiers}

(* An action's body as the theorem allows it. *)
PlainAction(t, c) ==
  /\ Follows(t, c) /\ t[1] = "code"
  /\ \A k \in 1..(Len(c) + 1) : t[k] # "error"
  /\ \A k \in 1..Len(c) : c[k] \notin Ends
  /\ \A k \in 1..Len(c) : c[k] \in Quotes => t[k] \notin {"char", "charescape"}
  /\ \A k \in RefsFrom(t, c, 1) : k = 1 \/ c[k - 1] \in Separators \cup {Open} \cup Quotes

LEMMA TokensApart ==
  /\ Identifiers \cap (Separators \cup Quotes \cup Begins \cup Ends) = {}
  /\ Begins \cap (Separators \cup Quotes \cup Ends) = {}
  /\ Quotes \cap Ends = {} /\ Apos \notin Begins \cup Ends \cup Quotes
  /\ Open \in Begins /\ Close \in Ends /\ Open # OpenComment /\ Close # CloseComment
  /\ {ContextVar, BareVar} \cap Quotes = {} /\ ContextVar # BareVar
  /\ ContextVar \in Identifiers /\ BareVar \in Identifiers
BY DEF Identifiers, Separators, Quotes, Begins, Ends, Open, Close, OpenComment,
       CloseComment, ContextVar, BareVar, Space, Pipe, Quote, Tick, Apos

(* A code segment, from a quote or the begin of the action to a quote or   *)
(* its end: exactly the references in it are rewritten.                    *)
LEMMA SegmentRewritten ==
  ASSUME NEW W, NEW c \in Seq(W), NEW t, PlainAction(t, c),
         NEW i \in 1..Len(c), NEW j \in (i + 1)..(Len(c) + 1),
         i = 1 \/ c[i - 1] \in Quotes,
         j = Len(c) + 1 \/ c[j] \in Quotes,
         \A k \in i..(j - 1) : c[k] \notin Quotes,
         \A k \in i..j : t[k] \in Coded
  PROVE  Shift(rewriteCode(SubSeq(c, i, j - 1)), i - 1) = {k \in RefsFrom(t, c, i) : k < j}
<1> DEFINE d == SubSeq(c, i, j - 1)
           m == j - i
           R == rewriteCode(d)
<1>1. m \in Nat \ {0} /\ d \in Seq(W) /\ Len(d) = m /\ Len(c) \in Nat
  OBVIOUS
<1>2. \A h \in 1..m : d[h] = c[h + (i - 1)]
  OBVIOUS
<1>3. DOMAIN d = 1..m
  BY <1>1
<1> HIDE DEF d
<1>4. \A h : h \in R <=> /\ h \in 1..m
                         /\ h = 1 \/ d[h - 1] \in Separators
                         /\ \/ d[h] = ContextVar
                            \/ d[h] = BareVar /\ (h = m \/ d[h + 1] \notin Identifiers)
  BY <1>1, <1>3 DEF rewriteCode
<1> HIDE DEF R
<1>5. ASSUME NEW h \in R PROVE h + (i - 1) \in RefsFrom(t, c, i) /\ h + (i - 1) < j
  <2> DEFINE k == h + (i - 1)
  <2>1. h \in 1..m /\ k \in i..(j - 1) /\ k \in i..Len(c) /\ k \in i..j /\ d[h] = c[k]
    <3>1. h \in 1..m
      BY <1>4
    <3>2. k \in i..(j - 1) /\ k \in i..Len(c) /\ k \in i..j
      BY <1>1, <3>1
    <3> QED BY <3>1, <3>2, <1>2
  <2>0. h \in Int /\ i \in Int /\ m \in Int
    BY <1>1, <2>1
  <2>2. h # 1 => h - 1 \in 1..m /\ (h - 1) + (i - 1) = k - 1
    <3>1. (h - 1) + (i - 1) = k - 1
      BY <2>0
    <3>2. h \in 1..m /\ m \in Int
      BY <2>0, <2>1
    <3> HIDE DEF m, k
    <3> QED BY <3>1, <3>2
  <2>3. h # m => h + 1 \in 1..m /\ (h + 1) + (i - 1) = k + 1
    <3>1. (h + 1) + (i - 1) = k + 1
      BY <2>0
    <3>2. h \in 1..m /\ m \in Int
      BY <2>0, <2>1
    <3> HIDE DEF m, k
    <3> QED BY <3>1, <3>2
  <2>4. k = 1 \/ c[k - 1] \notin Identifiers
    <3>1. CASE h = 1
      <4>1. k = i
        BY <3>1
      <4> QED BY <4>1, TokensApart
    <3>2. CASE h # 1
      <4>1. c[k - 1] \in Separators
        BY <3>2, <2>2, <1>2, <1>4
      <4> QED BY <4>1, TokensApart
    <3> QED BY <3>1, <3>2
  <2>5. c[k] \in {ContextVar, BareVar} /\ (c[k] = BareVar => h = m \/ d[h + 1] \notin Identifiers)
    BY <1>4, <2>1, TokensApart
  <2>6. c[k] = BareVar => k = Len(c) \/ c[k + 1] \notin Identifiers
    <3>1. CASE h = m
      <4>1. k + 1 = j
        BY <3>1, <1>1
      <4>2. j = Len(c) + 1 => k = Len(c)
        BY <4>1, <1>1, <2>1
      <4> QED BY <4>1, <4>2, TokensApart
    <3>2. CASE h # m
      BY <3>2, <2>3, <2>5, <1>2
    <3> QED BY <3>1, <3>2
  <2>7. t[k] = "code" /\ k < j
    <3>1. k \in i..(j - 1) /\ k \in i..j /\ k \in 1..Len(c)
      BY <2>1
    <3> HIDE DEF k, m
    <3>2. k < j /\ k + 1 \in 1..(Len(c) + 1)
      BY <3>1, <1>1
    <3>3. t[k] \in Coded /\ t[k + 1] = lexStep(t[k], c[k]) /\ t[k + 1] # "error"
      BY <3>1, <3>2 DEF PlainAction, Follows
    <3> QED BY <2>5, <3>2, <3>3, LexStepIs DEF Coded
  <2> HIDE DEF k
  <2>8. k \in RefsFrom(t, c, i) /\ k < j
    BY <2>1, <2>4, <2>5, <2>6, <2>7 DEF RefsFrom
  <2> QED BY <2>8 DEF k
<1>6. ASSUME NEW k \in RefsFrom(t, c, i), k < j
      PROVE  \E h \in R : k = h + (i - 1)
  <2>1. /\ k \in i..Len(c) /\ t[k] = "code" /\ c[k] \in {ContextVar, BareVar}
        /\ k = 1 \/ c[k - 1] \notin Identifiers
        /\ c[k] = BareVar => k = Len(c) \/ c[k + 1] \notin Identifiers
    BY DEF RefsFrom
  <2> DEFINE h == k - (i - 1)
  <2>2. h \in 1..m /\ h + (i - 1) = k /\ d[h] = c[k]
    BY <1>1, <1>2, <1>6, <2>1
  <2>3. h = 1 \/ d[h - 1] \in Separators
    <3> SUFFICES ASSUME h # 1 PROVE d[h - 1] \in Separators
      OBVIOUS
    <3>1. h - 1 \in 1..m /\ (h - 1) + (i - 1) = k - 1 /\ k - 1 \in i..(j - 1) /\ k # 1
      BY <2>1, <2>2, <1>1, <1>6
    <3>2. k \in RefsFrom(t, c, 1)
      BY <2>1 DEF RefsFrom
    <3>3. c[k - 1] \in Separators \cup {Open} \cup Quotes
      BY <3>1, <3>2 DEF PlainAction
    <3>4. c[k - 1] \notin Quotes /\ t[k - 1] \in Coded
      <4>1. k - 1 \in i..j
        BY <3>1
      <4> QED BY <3>1, <4>1
    <3>5. c[k - 1] # Open
      <4>1. k - 1 \in 1..Len(c) /\ (k - 1) + 1 = k
        BY <2>1, <3>1
      <4>2. t[k] = lexStep(t[k - 1], c[k - 1])
        BY <4>1, <3>4 DEF PlainAction, Follows
      <4>3. Open \in Begins /\ Open \notin {Quote, Tick, Apos, Close}
        BY TokensApart DEF Quotes
      <4>4. c[k - 1] = Open => lexStep(t[k - 1], c[k - 1]) = "error"
        BY <3>4, <4>3, LexStepIs DEF Coded
      <4> QED BY <4>2, <4>4, <2>1
    <3> QED BY <3>1, <3>3, <3>4, <3>5, <1>2
  <2>4. d[h] = ContextVar \/ (d[h] = BareVar /\ (h = m \/ d[h + 1] \notin Identifiers))
    <3>1. h # m => h + 1 \in 1..m /\ (h + 1) + (i - 1) = k + 1 /\ k # Len(c)
      <4>1. h \in Int /\ i \in Int /\ m \in Int /\ k \in Int /\ j \in Int
        BY <1>1, <2>1, <2>2
      <4>2. k = Len(c) => j = Len(c) + 1
        BY <1>1, <1>6, <4>1
      <4>3. j = Len(c) + 1 /\ k = Len(c) => h = m
        BY <4>1, <1>1
      <4>4. h # m => h + 1 \in 1..m
        <5> HIDE DEF m, h
        <5> QED BY <2>2, <4>1
      <4>5. (h + 1) + (i - 1) = k + 1
        <5> HIDE DEF m, h
        <5> QED BY <2>2, <4>1
      <4> HIDE DEF m, h
      <4> QED BY <4>2, <4>3, <4>4, <4>5
    <3>2. h # m => d[h + 1] = c[k + 1]
      BY <3>1, <1>2
    <3> QED BY <2>1, <2>2, <3>1, <3>2
  <2> HIDE DEF h
  <2> QED BY <1>4, <2>2, <2>3, <2>4
<1>7. \A k : k \in Shift(R, i - 1) <=> \E h \in R : k = h + (i - 1)
  BY DEF Shift
<1> QED BY <1>5, <1>6, <1>7 DEF R, d

-----------------------------------------------------------------------------
(* The scan of an action.                                                  *)

LEMMA LiteralForward ==
  ASSUME NEW W, NEW c \in Seq(W), NEW escapes, NEW i \in 1..Len(c)
  PROVE  literal(c, escapes, i) \in (i + 1)..(Len(c) + 1)
<1> DEFINE n == Len(c)
           f == CHOOSE g : PastTable(g, c, escapes, i)
<1>0. n \in Nat
  OBVIOUS
<1>1. PastTable(f, c, escapes, i)
  <2>1. \E g : PastTable(g, c, escapes, i)
    BY PastTableExists
  <2> QED BY Zenon, <2>1
<1>2. literal(c, escapes, i) = f[i + 1]
  BY DEF literal, PastTable, PastStep
<1> HIDE DEF f
<1>3. \A j \in (i + 1)..(n + 2) : f[j] = PastStep(f, c, escapes, i, j)
  BY <1>1, PastTableEntry
<1> DEFINE Bad == {j \in (i + 1)..(n + 2) : f[j] \notin (i + 1)..(n + 1)}
<1>4. Bad = {}
  <2> SUFFICES ASSUME Bad # {} PROVE FALSE
    OBVIOUS
  <2>1. PICK j \in Bad : \A h \in Bad : h <= j
    <3>1. Bad \subseteq (i + 1)..(n + 2) /\ i + 1 \in Int /\ n + 2 \in Int
      BY <1>0
    <3> HIDE DEF Bad
    <3> QED BY <3>1, GreatestUpTo
  <2>2. j \in (i + 1)..(n + 2) /\ f[j] \notin (i + 1)..(n + 1)
    BY <2>1
  <2>3. \A h \in (i + 1)..(n + 2) : h > j => f[h] \in (i + 1)..(n + 1)
    BY <2>1, <2>2
  <2> HIDE DEF Bad
  <2>4. f[j] = PastStep(f, c, escapes, i, j)
    BY <1>3, <2>2
  <2>5. j > n => f[j] = n + 1
    BY <2>4 DEF PastStep
  <2>6. j <= n => f[j] = j + 1 \/ f[j] = f[j + 2] \/ f[j] = f[j + 1]
    BY <2>2, <2>4, <1>0 DEF PastStep
  <2>7. j <= n => /\ j + 1 \in (i + 1)..(n + 1)
                  /\ f[j + 1] \in (i + 1)..(n + 1) /\ f[j + 2] \in (i + 1)..(n + 1)
    BY <2>2, <2>3, <1>0
  <2> QED BY <2>2, <2>5, <2>6, <2>7, <1>0
<1> QED BY <1>0, <1>2, <1>4

ScanStep(f, c, escapes, i) ==
  IF i > Len(c) THEN {}
  ELSE IF c[i] \in Quotes THEN f[literal(c, escapes, i)]
  ELSE Shift(rewriteCode(SubSeq(c, i, FirstFrom(c, i, Quotes) - 1)), i - 1)
         \cup f[FirstFrom(c, i, Quotes)]

ScanTable(f, c, escapes) == f = [i \in 1..(Len(c) + 1) |-> ScanStep(f, c, escapes, i)]

LEMMA ScanTableEntry ==
  ASSUME NEW c, NEW escapes, NEW f, ScanTable(f, c, escapes), NEW a \in 1..(Len(c) + 1)
  PROVE  f[a] = ScanStep(f, c, escapes, a)
<1> DEFINE P(i) == ScanStep(f, c, escapes, i)
<1>1. f = [i \in 1..(Len(c) + 1) |-> P(i)]
  BY DEF ScanTable
<1> HIDE DEF P
<1>2. f[a] = P(a)
  BY <1>1
<1> QED BY <1>2 DEF P

LEMMA SegmentForward ==
  ASSUME NEW W, NEW c \in Seq(W), NEW i \in 1..Len(c), c[i] \notin Quotes
  PROVE  LET j == FirstFrom(c, i, Quotes)
         IN  /\ j \in (i + 1)..(Len(c) + 1)
             /\ j = Len(c) + 1 \/ c[j] \in Quotes
             /\ \A k \in i..(j - 1) : c[k] \notin Quotes
<1> DEFINE j == FirstFrom(c, i, Quotes)
<1>1. /\ j \in i..(Len(c) + 1)
      /\ j = Len(c) + 1 \/ c[j] \in Quotes
      /\ \A k \in i..(j - 1) : c[k] \notin Quotes
  BY FirstFromIs
<1> HIDE DEF j
<1>2. j # i
  BY <1>1
<1>3. j \in (i + 1)..(Len(c) + 1)
  BY <1>1, <1>2
<1> QED BY <1>1, <1>3 DEF j

LEMMA ScanTableExists ==
  ASSUME NEW W, NEW c \in Seq(W), NEW escapes
  PROVE  \E f : ScanTable(f, c, escapes)
<1> DEFINE hi == Len(c) + 1
           E == {i \in 1..hi : i > Len(c)}
           U == {i \in 1..hi : c[i] \notin Quotes}
           seg(i) == Shift(rewriteCode(SubSeq(c, i, FirstFrom(c, i, Quotes) - 1)), i - 1)
           lit(i) == literal(c, escapes, i)
           end(i) == FirstFrom(c, i, Quotes)
           b == [i \in 1..hi |-> IF i > Len(c) THEN {} ELSE seg(i)]
           nxt == [i \in 1..hi |-> IF c[i] \in Quotes THEN lit(i) ELSE end(i)]
<1>1. 1 \in Int /\ hi \in Int /\ 1 <= hi
  OBVIOUS
<1>2. \A i \in 1..Len(c) : lit(i) \in (i + 1)..hi
  BY LiteralForward
<1>3. \A i \in 1..Len(c) : c[i] \notin Quotes => end(i) \in (i + 1)..hi
  BY SegmentForward
<1> HIDE DEF seg, lit, end
<1>4. \A i \in 1..hi : i \notin E => nxt[i] \in (i + 1)..hi
  BY <1>2, <1>3
<1>5. PICK f : ChainTable(f, 1, hi, E, U, b, nxt)
  <2> HIDE DEF hi, E, U, b, nxt
  <2> QED BY <1>1, <1>4, ChainExists
<1>6. ASSUME NEW i \in 1..hi
      PROVE  ChainStep(f, E, U, b, nxt, i) = ScanStep(f, c, escapes, i)
  <2>1. ScanStep(f, c, escapes, i) =
          IF i > Len(c) THEN {} ELSE IF c[i] \in Quotes THEN f[lit(i)]
          ELSE seg(i) \cup f[end(i)]
    BY DEF ScanStep, seg, lit, end
  <2>2. ChainStep(f, E, U, b, nxt, i) =
          IF i > Len(c) THEN {} ELSE IF c[i] \in Quotes THEN f[lit(i)]
          ELSE seg(i) \cup f[end(i)]
    BY DEF ChainStep
  <2> QED BY <2>1, <2>2
<1> DEFINE P(i) == ChainStep(f, E, U, b, nxt, i)
           Q(i) == ScanStep(f, c, escapes, i)
<1>7. f = [i \in 1..hi |-> P(i)] /\ \A i \in 1..hi : P(i) = Q(i)
  BY <1>5, <1>6 DEF ChainTable
<1>8. f = [i \in 1..hi |-> Q(i)]
  <2> HIDE DEF P, Q, hi
  <2> QED BY <1>7
<1> QED BY <1>8 DEF ScanTable

(* In an action exactly the references are rewritten: the scanner starts   *)
(* each code segment where the lexer is in code.                           *)
LEMMA ActionRewritten ==
  ASSUME NEW W, NEW c \in Seq(W), NEW t, PlainAction(t, c)
  PROVE  rewriteAction(c) = RefsFrom(t, c, 1)
<1> DEFINE n == Len(c)
           f == CHOOSE g : ScanTable(g, c, {Quote})
<1>0. n \in Nat
  OBVIOUS
<1>1. ScanTable(f, c, {Quote})
  <2>1. \E g : ScanTable(g, c, {Quote})
    BY ScanTableExists
  <2> QED BY Zenon, <2>1
<1>2. rewriteAction(c) = f[1]
  BY DEF rewriteAction, Scan, ScanTable, ScanStep
<1> HIDE DEF f
<1>3. \A i \in 1..(n + 1) : f[i] = ScanStep(f, c, {Quote}, i)
  BY <1>1, ScanTableEntry
<1> DEFINE Start(i) == i <= n => /\ t[i] = "code"
                                 /\ c[i] \in Quotes \/ i = 1 \/ c[i - 1] \in Quotes
           Good(i) == f[i] = RefsFrom(t, c, i)
           Bad == {i \in 1..(n + 1) : Start(i) /\ ~Good(i)}
<1>4. Bad = {}
  <2> SUFFICES ASSUME Bad # {} PROVE FALSE
    OBVIOUS
  <2>1. PICK i \in Bad : \A h \in Bad : h <= i
    <3>1. Bad \subseteq 1..(n + 1) /\ 1 \in Int /\ n + 1 \in Int
      BY <1>0
    <3> HIDE DEF Bad
    <3> QED BY <3>1, GreatestUpTo
  <2>2. i \in 1..(n + 1) /\ Start(i) /\ ~Good(i)
    BY <2>1
  <2>3. \A h \in (i + 1)..(n + 1) : Start(h) => Good(h)
    BY <2>1, <2>2, <1>0
  <2> HIDE DEF Bad
  <2>4. f[i] = ScanStep(f, c, {Quote}, i)
    BY <1>3, <2>2
  <2>5. CASE i > n
    <3>1. f[i] = {}
      BY <2>4, <2>5 DEF ScanStep
    <3>2. RefsFrom(t, c, i) = {}
      BY <2>5, <1>0, <2>2 DEF RefsFrom
    <3> QED BY <3>1, <3>2, <2>2
  <2>6. CASE i <= n /\ c[i] \in Quotes
    <3> DEFINE e == literal(c, {Quote}, i)
    <3>1. i \in 1..n /\ t[i] = "code"
      BY <2>2, <2>6, <1>0
    <3>2. /\ e \in (i + 1)..(n + 1)
          /\ e <= n => t[e] = "code" /\ c[e - 1] \in Quotes
          /\ \A k \in (i + 1)..(e - 1) : t[k] # "code"
      BY <3>1, <2>6, LiteralEnds DEF PlainAction
    <3>3. f[i] = f[e]
      BY <2>4, <2>6, <2>2, <1>0 DEF ScanStep
    <3> HIDE DEF e
    <3>4. f[e] = RefsFrom(t, c, e)
      BY <2>3, <3>2
    <3>5. RefsFrom(t, c, i) = RefsFrom(t, c, e)
      <4>1. \A k \in i..n : k < e => ~(t[k] = "code" /\ c[k] \in {ContextVar, BareVar})
        <5> SUFFICES ASSUME NEW k \in i..n, k < e
                     PROVE  ~(t[k] = "code" /\ c[k] \in {ContextVar, BareVar})
          OBVIOUS
        <5>1. k = i \/ k \in (i + 1)..(e - 1)
          BY <3>1, <3>2
        <5> QED BY <5>1, <3>2, <2>6, TokensApart
      <4>2. ASSUME NEW k \in RefsFrom(t, c, i) PROVE k \in RefsFrom(t, c, e)
        BY <4>1, <3>1, <3>2 DEF RefsFrom
      <4>3. ASSUME NEW k \in RefsFrom(t, c, e) PROVE k \in RefsFrom(t, c, i)
        BY <3>1, <3>2 DEF RefsFrom
      <4> QED BY <4>2, <4>3
    <3> QED BY <3>3, <3>4, <3>5, <2>2
  <2>7. CASE i <= n /\ c[i] \notin Quotes
    <3> DEFINE j == FirstFrom(c, i, Quotes)
               seg == Shift(rewriteCode(SubSeq(c, i, j - 1)), i - 1)
    <3>1. i \in 1..n /\ t[i] = "code" /\ (i = 1 \/ c[i - 1] \in Quotes)
      BY <2>2, <2>7, <1>0
    <3>2. /\ j \in (i + 1)..(n + 1)
          /\ j = n + 1 \/ c[j] \in Quotes
          /\ \A k \in i..(j - 1) : c[k] \notin Quotes
      BY <3>1, <2>7, SegmentForward
    <3>3. f[i] = seg \cup f[j]
      BY <2>4, <2>7, <2>2, <1>0 DEF ScanStep
    <3> HIDE DEF j
    <3>4. \A k \in i..j : t[k] \in Coded
      <4>1. i \in 1..(n + 1) /\ j \in i..(n + 1)
        BY <3>1, <3>2
      <4>2. \A k \in i..(j - 1) : c[k] # Close /\ c[k] \notin Quotes
        BY <3>1, <3>2 DEF PlainAction, Ends
      <4>3. Follows(t, c) /\ \A k \in 1..(n + 1) : t[k] # "error"
        BY DEF PlainAction
      <4> QED BY <3>1, <4>1, <4>2, <4>3, CodeLasts
    <3>5. seg = {k \in RefsFrom(t, c, i) : k < j}
      BY <3>1, <3>2, <3>4, SegmentRewritten
    <3>6. f[j] = RefsFrom(t, c, j)
      <4>1. j <= n => t[j] = "code" /\ c[j] \in Quotes
        <5>1. j \in i..j /\ (j <= n => j \in 1..n /\ j # n + 1)
          BY <3>1, <3>2, <1>0
        <5> QED BY <5>1, <3>2, <3>4 DEF PlainAction, Coded
      <4>2. Start(j)
        BY <4>1
      <4> HIDE DEF Start
      <4> QED BY <4>2, <2>3, <3>2
    <3>7. RefsFrom(t, c, i) = {k \in RefsFrom(t, c, i) : k < j} \cup RefsFrom(t, c, j)
      BY <3>1, <3>2 DEF RefsFrom
    <3> HIDE DEF seg
    <3> QED BY <3>3, <3>5, <3>6, <3>7, <2>2
  <2> QED BY <2>2, <2>5, <2>6, <2>7, <1>0
<1>5. Good(1)
  <2>1. 1 \in 1..(n + 1)
    BY <1>0
  <2>2. Start(1)
    BY DEF PlainAction
  <2> HIDE DEF Good, Start
  <2> QED BY <2>1, <2>2, <1>4
<1> QED BY <1>2, <1>5

(* In whatever actionRegex matches, dots go nowhere else. *)
LEMMA ScanWithin ==
  ASSUME NEW W, NEW c \in Seq(W)
  PROVE  rewriteAction(c) \subseteq 1..Len(c)
<1> DEFINE n == Len(c)
           f == CHOOSE g : ScanTable(g, c, {Quote})
<1>0. n \in Nat
  OBVIOUS
<1>1. ScanTable(f, c, {Quote})
  <2>1. \E g : ScanTable(g, c, {Quote})
    BY ScanTableExists
  <2> QED BY Zenon, <2>1
<1>2. rewriteAction(c) = f[1]
  BY DEF rewriteAction, Scan, ScanTable, ScanStep
<1> HIDE DEF f
<1>3. \A i \in 1..(n + 1) : f[i] = ScanStep(f, c, {Quote}, i)
  BY <1>1, ScanTableEntry
<1> DEFINE Bad == {i \in 1..(n + 1) : ~(f[i] \subseteq 1..n)}
<1>4. Bad = {}
  <2> SUFFICES ASSUME Bad # {} PROVE FALSE
    OBVIOUS
  <2>1. PICK i \in Bad : \A h \in Bad : h <= i
    <3>1. Bad \subseteq 1..(n + 1) /\ 1 \in Int /\ n + 1 \in Int
      BY <1>0
    <3> HIDE DEF Bad
    <3> QED BY <3>1, GreatestUpTo
  <2>2. i \in 1..(n + 1) /\ ~(f[i] \subseteq 1..n)
    BY <2>1
  <2>3. \A h \in (i + 1)..(n + 1) : f[h] \subseteq 1..n
    BY <2>1, <2>2, <1>0
  <2> HIDE DEF Bad
  <2>4. f[i] = ScanStep(f, c, {Quote}, i)
    BY <1>3, <2>2
  <2>5. CASE i > n
    BY <2>2, <2>4, <2>5 DEF ScanStep
  <2>6. CASE i <= n /\ c[i] \in Quotes
    <3> DEFINE e == literal(c, {Quote}, i)
    <3>1. i \in 1..n
      BY <2>2, <2>6, <1>0
    <3>2. e \in (i + 1)..(n + 1)
      BY <3>1, LiteralForward
    <3>3. f[i] = f[e]
      BY <2>4, <2>6, <2>2, <1>0 DEF ScanStep
    <3> HIDE DEF e
    <3> QED BY <2>2, <2>3, <3>2, <3>3
  <2>7. CASE i <= n /\ c[i] \notin Quotes
    <3> DEFINE j == FirstFrom(c, i, Quotes)
               d == SubSeq(c, i, j - 1)
               seg == Shift(rewriteCode(d), i - 1)
    <3>1. i \in 1..n
      BY <2>2, <2>7, <1>0
    <3>2. j \in (i + 1)..(n + 1)
      BY <3>1, <2>7, SegmentForward
    <3>3. f[i] = seg \cup f[j]
      BY <2>4, <2>7, <2>2, <1>0 DEF ScanStep
    <3> HIDE DEF j
    <3>4. DOMAIN d = 1..(j - i)
      BY <3>1, <3>2
    <3> HIDE DEF d
    <3>5. \A h \in rewriteCode(d) : h \in 1..(j - i)
      BY <3>4 DEF rewriteCode
    <3>6. \A h \in 1..(j - i) : h + (i - 1) \in 1..n
      BY <1>0, <3>1, <3>2
    <3>7. seg \subseteq 1..n
      BY <3>5, <3>6 DEF Shift
    <3> HIDE DEF seg
    <3> QED BY <2>2, <2>3, <3>2, <3>3, <3>7
  <2> QED BY <2>2, <2>5, <2>6, <2>7, <1>0
<1>5. 1 \in 1..(n + 1)
  BY <1>0
<1> QED BY <1>2, <1>4, <1>5

-----------------------------------------------------------------------------
(* The whole text.                                                         *)

Closes(s, i) == FirstFrom(s, FirstFrom(s, i, Begins), Ends)
Body(s, i) == SubSeq(s, FirstFrom(s, i, Begins) + 1, Closes(s, i) - 1)

TextStep(f, s, i) ==
  IF Closes(s, i) > Len(s) THEN {}
  ELSE Shift(rewriteAction(Body(s, i)), FirstFrom(s, i, Begins)) \cup f[Closes(s, i) + 1]

TextTable(f, s) == f = [i \in 1..(Len(s) + 1) |-> TextStep(f, s, i)]

LEMMA TextTableEntry ==
  ASSUME NEW s, NEW f, TextTable(f, s), NEW a \in 1..(Len(s) + 1)
  PROVE  f[a] = TextStep(f, s, a)
<1> DEFINE P(i) == TextStep(f, s, i)
<1>1. f = [i \in 1..(Len(s) + 1) |-> P(i)]
  BY DEF TextTable
<1> HIDE DEF P
<1>2. f[a] = P(a)
  BY <1>1
<1> QED BY <1>2 DEF P

(* Where the next action begins and ends. *)
LEMMA ActionFound ==
  ASSUME NEW W, NEW s \in Seq(W), NEW i \in 1..(Len(s) + 1)
  PROVE  LET o == FirstFrom(s, i, Begins)
         IN  /\ o \in i..(Len(s) + 1) /\ (o = Len(s) + 1 \/ s[o] \in Begins)
             /\ \A k \in i..(o - 1) : s[k] \notin Begins
             /\ Closes(s, i) \in o..(Len(s) + 1)
             /\ Closes(s, i) = Len(s) + 1 \/ s[Closes(s, i)] \in Ends
             /\ \A k \in o..(Closes(s, i) - 1) : s[k] \notin Ends
<1> DEFINE o == FirstFrom(s, i, Begins)
<1>1. /\ o \in i..(Len(s) + 1) /\ (o = Len(s) + 1 \/ s[o] \in Begins)
      /\ \A k \in i..(o - 1) : s[k] \notin Begins
  BY FirstFromIs
<1> HIDE DEF o
<1>2. o \in 1..(Len(s) + 1)
  BY <1>1
<1> DEFINE e == FirstFrom(s, o, Ends)
<1>3. /\ e \in o..(Len(s) + 1) /\ (e = Len(s) + 1 \/ s[e] \in Ends)
      /\ \A k \in o..(e - 1) : s[k] \notin Ends
  BY <1>2, FirstFromIs
<1>4. Closes(s, i) = e
  BY DEF Closes, o
<1> HIDE DEF e
<1> QED BY <1>1, <1>3, <1>4 DEF o

LEMMA TextTableExists ==
  ASSUME NEW W, NEW s \in Seq(W)
  PROVE  \E f : TextTable(f, s)
<1> DEFINE hi == Len(s) + 1
           end(i) == Closes(s, i)
           dots(i) == Shift(rewriteAction(Body(s, i)), FirstFrom(s, i, Begins))
           E == {i \in 1..hi : end(i) > Len(s)}
           b == [i \in 1..hi |-> IF end(i) > Len(s) THEN {} ELSE dots(i)]
           nxt == [i \in 1..hi |-> end(i) + 1]
<1>1. 1 \in Int /\ hi \in Int /\ 1 <= hi
  OBVIOUS
<1>2. \A i \in 1..hi : end(i) \in i..hi
  <2> SUFFICES ASSUME NEW i \in 1..hi PROVE end(i) \in i..hi
    OBVIOUS
  <2> DEFINE o == FirstFrom(s, i, Begins)
  <2>1. o \in i..hi /\ end(i) \in o..hi
    BY ActionFound
  <2> HIDE DEF o, end
  <2> QED BY <2>1
<1> HIDE DEF end, dots
<1>3. \A i \in 1..hi : i \notin E => nxt[i] \in (i + 1)..hi
  BY <1>2
<1>4. PICK f : ChainTable(f, 1, hi, E, 1..hi, b, nxt)
  <2> HIDE DEF hi, E, b, nxt
  <2> QED BY <1>1, <1>3, ChainExists
<1>5. ASSUME NEW i \in 1..hi
      PROVE  ChainStep(f, E, 1..hi, b, nxt, i) = TextStep(f, s, i)
  <2>1. TextStep(f, s, i) = IF end(i) > Len(s) THEN {} ELSE dots(i) \cup f[end(i) + 1]
    BY DEF TextStep, end, dots
  <2>2. ChainStep(f, E, 1..hi, b, nxt, i) =
          IF end(i) > Len(s) THEN {} ELSE dots(i) \cup f[end(i) + 1]
    BY DEF ChainStep
  <2> QED BY <2>1, <2>2
<1> DEFINE P(i) == ChainStep(f, E, 1..hi, b, nxt, i)
           Q(i) == TextStep(f, s, i)
<1>6. f = [i \in 1..hi |-> P(i)] /\ \A i \in 1..hi : P(i) = Q(i)
  BY <1>4, <1>5 DEF ChainTable
<1>7. f = [i \in 1..hi |-> Q(i)]
  <2> HIDE DEF P, Q, hi
  <2> QED BY <1>6
<1> QED BY <1>7 DEF TextTable

(* The body of an action that the lexer takes for one: what is rewritten   *)
(* in it are the references of the text between its delimiters.            *)
LEMMA BodyRewritten ==
  ASSUME NEW W, NEW s \in Seq(W), Ordinary(s), Lexes(s),
         NEW o \in 1..Len(s), NEW e \in (o + 1)..Len(s),
         s[o] = Open, lex(s)[o] = "text", s[e] = Close,
         \A k \in o..(e - 1) : s[k] \notin Ends
  PROVE  Shift(rewriteAction(SubSeq(s, o + 1, e - 1)), o)
           = {k \in References(s) : k > o /\ k < e}
<1> DEFINE st == lex(s)
           c == SubSeq(s, o + 1, e - 1)
           n == e - 1 - o
           t == [k \in 1..(n + 1) |-> st[o + k]]
<1>1. st[1] = "text" /\ Follows(st, s) /\ st[Len(s) + 1] = "text"
  BY LexFollows DEF Lexes
<1>2. \A i : i \in References(s) <=>
        /\ i \in 1..Len(s) /\ st[i] = "code" /\ s[i] \in {ContextVar, BareVar}
        /\ i = 1 \/ s[i - 1] \notin Identifiers
        /\ s[i] = BareVar => i = Len(s) \/ s[i + 1] \notin Identifiers
  BY DEF References
<1>3. \A i \in References(s) : s[i - 1] \in Separators \cup {Open} \cup Quotes
  BY DEF Ordinary
<1> HIDE DEF st
<1>4. n \in Nat /\ c \in Seq(W) /\ Len(c) = n
  OBVIOUS
<1>5. \A k \in 1..n : c[k] = s[o + k] /\ o + k \in 1..Len(s) /\ o + k < e
  <2> SUFFICES ASSUME NEW k \in 1..n PROVE c[k] = s[o + k] /\ o + k \in 1..Len(s) /\ o + k < e
    OBVIOUS
  <2>1. o + k \in 1..Len(s) /\ o + k < e
    BY <1>4
  <2>2. c[k] = s[(o + 1) + k - 1]
    BY <1>4
  <2>3. (o + 1) + k - 1 = o + k
    BY <1>4
  <2> QED BY <2>1, <2>2, <2>3
<1>6. \A k \in 1..(n + 1) : t[k] = st[o + k] /\ o + k \in 1..(Len(s) + 1)
  BY <1>4
<1>7. \A k \in 1..(Len(s) + 1) : st[k] # "error"
  BY <1>1, NoErrorBefore
<1> HIDE DEF c, t
<1>8. Follows(t, c)
  <2>1. ASSUME NEW k \in 1..(Len(c) + 1) PROVE t[k] \in LexStates
    BY <1>1, <1>4, <1>6 DEF Follows
  <2>2. ASSUME NEW k \in 1..Len(c) PROVE t[k + 1] = lexStep(t[k], c[k])
    <3>1. k \in 1..n /\ k \in 1..(n + 1) /\ k + 1 \in 1..(n + 1) /\ o + (k + 1) = (o + k) + 1
      BY <1>4
    <3>2. t[k] = st[o + k] /\ t[k + 1] = st[(o + k) + 1] /\ c[k] = s[o + k]
          /\ o + k \in 1..Len(s)
      BY <3>1, <1>5, <1>6
    <3> QED BY <3>2, <1>1 DEF Follows
  <2> QED BY <2>1, <2>2 DEF Follows
<1>9. t[1] = "code"
  <2>1. st[o + 1] = lexStep("text", Open)
    BY <1>1 DEF Follows, st
  <2>2. 1 \in 1..(n + 1)
    BY <1>4
  <2> QED BY <2>1, <2>2, <1>6, LexStepIs
<1>10. ASSUME NEW k \in 1..n
       PROVE  k \in RefsFrom(t, c, 1) <=> o + k \in References(s)
  <2>1. c[k] = s[o + k] /\ t[k] = st[o + k] /\ o + k \in 1..Len(s) /\ o + k < e
    <3>1. k \in 1..(n + 1)
      BY <1>4
    <3>2. t[k] = st[o + k]
      BY <3>1, <1>6
    <3>3. c[k] = s[o + k] /\ o + k \in 1..Len(s) /\ o + k < e
      BY <1>5
    <3> QED BY <3>2, <3>3
  <2>2. (k = 1 \/ c[k - 1] \notin Identifiers) <=> (o + k = 1 \/ s[(o + k) - 1] \notin Identifiers)
    <3>1. CASE k = 1
      <4>1. (o + k) - 1 = o
        BY <3>1
      <4> QED BY <3>1, <4>1, TokensApart
    <3>2. CASE k # 1
      <4>1. k - 1 \in 1..n /\ o + (k - 1) = (o + k) - 1 /\ o + k # 1
        BY <3>2, <1>4
      <4>2. c[k - 1] = s[(o + k) - 1]
        BY <4>1, <1>5
      <4> QED BY <3>2, <4>1, <4>2
    <3> QED BY <3>1, <3>2
  <2>3. (k = Len(c) \/ c[k + 1] \notin Identifiers)
          <=> (o + k = Len(s) \/ s[(o + k) + 1] \notin Identifiers)
    <3>1. CASE k = n
      <4>1. (o + k) + 1 = e
        BY <3>1, <1>4
      <4> QED BY <3>1, <4>1, <1>4, TokensApart
    <3>2. CASE k # n
      <4>1. k + 1 \in 1..n /\ o + (k + 1) = (o + k) + 1 /\ o + k # Len(s)
        BY <3>2, <1>4
      <4>2. c[k + 1] = s[(o + k) + 1]
        BY <4>1, <1>5
      <4> QED BY <3>2, <4>1, <4>2, <1>4
    <3> QED BY <3>1, <3>2
  <2>4. k \in RefsFrom(t, c, 1) <=>
          /\ t[k] = "code" /\ c[k] \in {ContextVar, BareVar}
          /\ k = 1 \/ c[k - 1] \notin Identifiers
          /\ c[k] = BareVar => k = Len(c) \/ c[k + 1] \notin Identifiers
    BY <1>4 DEF RefsFrom
  <2> HIDE DEF n
  <2> QED BY <1>2, <2>1, <2>2, <2>3, <2>4
<1>11. RefsFrom(t, c, 1) \subseteq 1..n
  BY <1>4 DEF RefsFrom
<1>12. \A k \in 1..Len(c) :
         /\ c[k] \notin Ends
         /\ c[k] \in Quotes => t[k] \notin {"char", "charescape"}
  <2> SUFFICES ASSUME NEW k \in 1..n
               PROVE  /\ c[k] \notin Ends
                      /\ c[k] \in Quotes => t[k] \notin {"char", "charescape"}
    BY <1>4
  <2>1. o + k \in o..(e - 1) /\ k \in 1..(n + 1)
    BY <1>4
  <2>2. c[k] = s[o + k] /\ t[k] = st[o + k] /\ o + k \in DOMAIN s
    BY <2>1, <1>5, <1>6
  <2>3. s[o + k] \in Quotes => st[o + k] \notin {"char", "charescape"}
    BY <2>2 DEF Ordinary, st
  <2> QED BY <2>1, <2>2, <2>3
<1>13. \A k \in RefsFrom(t, c, 1) : k = 1 \/ c[k - 1] \in Separators \cup {Open} \cup Quotes
  <2> SUFFICES ASSUME NEW k \in RefsFrom(t, c, 1), k # 1
               PROVE  c[k - 1] \in Separators \cup {Open} \cup Quotes
    OBVIOUS
  <2>1. k \in 1..n /\ o + k \in References(s)
    BY <1>10, <1>11
  <2>2. k - 1 \in 1..n /\ o + (k - 1) = (o + k) - 1
    BY <2>1, <1>4
  <2>3. c[k - 1] = s[(o + k) - 1]
    BY <2>2, <1>5
  <2> QED BY <2>1, <2>3, <1>3
<1>14. \A k \in 1..(Len(c) + 1) : t[k] # "error"
  BY <1>4, <1>6, <1>7
<1>15. rewriteAction(c) = RefsFrom(t, c, 1)
  <2>1. PlainAction(t, c)
    BY <1>8, <1>9, <1>12, <1>13, <1>14 DEF PlainAction
  <2> QED BY <1>4, <2>1, ActionRewritten
<1>16. \A k : k \in Shift(RefsFrom(t, c, 1), o) <=> \E h \in RefsFrom(t, c, 1) : k = h + o
  BY DEF Shift
<1>17. ASSUME NEW h \in RefsFrom(t, c, 1)
       PROVE  h + o \in References(s) /\ h + o > o /\ h + o < e
  <2>1. h \in 1..n /\ o + h \in References(s)
    BY <1>10, <1>11
  <2>2. h + o = o + h /\ h + o > o /\ h + o < e
    BY <2>1, <1>4
  <2> QED BY <2>1, <2>2
<1>18. ASSUME NEW k \in References(s), k > o, k < e
       PROVE  \E h \in RefsFrom(t, c, 1) : k = h + o
  <2>1. k \in 1..Len(s)
    BY <1>2
  <2>2. k - o \in 1..n /\ o + (k - o) = k /\ (k - o) + o = k
    BY <2>1, <1>4, <1>18
  <2>3. k - o \in RefsFrom(t, c, 1)
    BY <2>2, <1>10
  <2> QED BY <2>2, <2>3
<1> QED BY <1>15, <1>16, <1>17, <1>18 DEF c

(* Where the lexer is outside of the actions, the rest of the text is      *)
(* rewritten exactly.                                                      *)
LEMMA RestRewritten ==
  ASSUME NEW W, NEW s \in Seq(W), Ordinary(s), Lexes(s),
         NEW f, NEW i \in 1..(Len(s) + 1), f[i] = TextStep(f, s, i), lex(s)[i] \in Outside,
         \A h \in (i + 1)..(Len(s) + 1) :
           lex(s)[h] \in Outside =>
             {k \in f[h] : lex(s)[k] # "comment"} = {k \in References(s) : k >= h}
  PROVE  {k \in f[i] : lex(s)[k] # "comment"} = {k \in References(s) : k >= i}
<1> DEFINE st == lex(s)
           o == FirstFrom(s, i, Begins)
           e == Closes(s, i)
           dots == Shift(rewriteAction(SubSeq(s, o + 1, e - 1)), o)
<1>0. Len(s) \in Nat
  OBVIOUS
<1>1. st[1] = "text" /\ Follows(st, s) /\ st[Len(s) + 1] = "text"
  BY LexFollows DEF Lexes
<1>2. \A k \in References(s) : k \in 1..Len(s) /\ st[k] = "code" /\ s[k] \in {ContextVar, BareVar}
  BY DEF References
<1>3. /\ o \in i..(Len(s) + 1) /\ (o = Len(s) + 1 \/ s[o] \in Begins)
      /\ \A k \in i..(o - 1) : s[k] \notin Begins
      /\ e \in o..(Len(s) + 1) /\ (e = Len(s) + 1 \/ s[e] \in Ends)
      /\ \A k \in o..(e - 1) : s[k] \notin Ends
  BY ActionFound
<1>4. f[i] = IF e > Len(s) THEN {} ELSE dots \cup f[e + 1]
  BY DEF TextStep, Body
<1> HIDE DEF o, e, dots
<1>5. \A k \in i..o : st[k] \in Outside
  <2> HIDE DEF st
  <2> QED BY <1>1, <1>3, TextLasts DEF st
<1>6. \A k \in References(s) : k >= i => k > o
  <2> SUFFICES ASSUME NEW k \in References(s), k >= i, k <= o PROVE FALSE
    <3>1. \A k \in References(s) : k \in Int /\ o \in Int
      BY <1>0, <1>2, <1>3
    <3> QED BY <3>1
  <2>1. k \in i..o
    BY <1>2, <1>3
  <2> QED BY <2>1, <1>2, <1>5 DEF Outside
<1>7. CASE o = Len(s) + 1
  <2>1. e > Len(s)
    BY <1>0, <1>3, <1>7
  <2>2. {k \in References(s) : k >= i} = {}
    BY <1>0, <1>2, <1>6, <1>7
  <2> QED BY <1>4, <2>1, <2>2
<1>8. CASE o # Len(s) + 1
  <2>1. o \in 1..Len(s) /\ s[o] \in Begins /\ st[o] \in Outside /\ e # o
    <3>1. o \in 1..Len(s) /\ s[o] \in Begins /\ o \in i..o
      BY <1>0, <1>3, <1>8
    <3>2. e = o => s[e] \in Ends
      BY <1>0, <1>3, <3>1
    <3> QED BY <1>5, <3>1, <3>2, TokensApart
  <2>2. e \in (o + 1)..(Len(s) + 1) /\ o + 1 \in 1..(Len(s) + 1)
    BY <1>0, <1>3, <2>1
  <2>3. \A k \in (o + 1)..(e - 1) : s[k] \notin Ends
    BY <1>3, <2>1, <2>2
  <2>4. st[o + 1] = lexStep(st[o], s[o])
    BY <1>1, <2>1 DEF Follows
  (* The begin of an action: exactly its references are rewritten. *)
  <2>5. CASE st[o] = "text" /\ s[o] = Open
    <3>1. st[o + 1] = "code"
      BY <2>4, <2>5, LexStepIs
    <3>2. \A k \in (o + 1)..e : st[k] \notin Outside
      <4>1. st[o + 1] \notin Outside
        BY <3>1 DEF Outside
      <4> HIDE DEF st
      <4> QED BY <1>1, <2>2, <2>3, <4>1, ActionLasts
    <3>3. e \in (o + 1)..Len(s) /\ e \in 1..Len(s) /\ s[e] \in Ends /\ st[e] \notin Outside
      <4>1. st[e] \notin Outside
        BY <2>2, <3>2
      <4>2. e # Len(s) + 1
        BY <1>1, <4>1 DEF Outside
      <4> QED BY <1>0, <1>3, <2>1, <2>2, <4>1, <4>2
    <3>4. s[e] = Close /\ st[e + 1] = "text"
      <4>1. st[e + 1] = lexStep(st[e], s[e]) /\ st[e] \in LexStates
        BY <1>1, <3>3 DEF Follows
      <4>2. \A k \in 1..(Len(s) + 1) : st[k] # "error"
        <5> HIDE DEF st
        <5> QED BY <1>1, NoErrorBefore
      <4>3. st[e] # "error" /\ st[e + 1] # "error"
        BY <4>2, <1>0, <3>3
      <4>4. st[e] \notin {"quoted", "escape", "raw"}
        BY <3>3 DEF Ordinary
      <4>5. st[e] \in Coded
        BY <3>3, <4>1, <4>3, <4>4 DEF LexStates, Outside, Coded
      <4>6. s[e] \notin {Quote, Tick, Apos}
        BY <3>3, TokensApart DEF Quotes
      <4> DEFINE x == st[e]
                 y == s[e]
      <4>7. x \in Coded /\ y \in Ends /\ y \notin {Quote, Tick, Apos} /\ lexStep(x, y) # "error"
        BY <3>3, <4>1, <4>3, <4>5, <4>6
      <4> HIDE DEF x, y
      <4>8. y = Close /\ lexStep(x, y) = "text"
        BY <4>7, LexStepIs DEF Coded
      <4> QED BY <4>1, <4>8 DEF x, y
    <3>5. e + 1 \in (i + 1)..(Len(s) + 1)
      BY <1>0, <1>3, <3>3
    <3>6. {k \in f[e + 1] : st[k] # "comment"} = {k \in References(s) : k >= e + 1}
      BY <3>4, <3>5 DEF Outside
    <3>7. dots = {k \in References(s) : k > o /\ k < e}
      <4>1. \A k \in o..(e - 1) : s[k] \notin Ends
        BY <1>3, <2>1, <3>3
      <4>2. s[o] = Open /\ lex(s)[o] = "text" /\ s[e] = Close
        BY <2>5, <3>4
      <4> HIDE DEF o, e
      <4> QED BY <2>1, <3>3, <4>1, <4>2, BodyRewritten DEF dots
    <3>8. e \notin References(s)
      BY <1>2, <3>4, TokensApart
    <3>9. \A k \in References(s) : k >= i <=> (k > o /\ k < e) \/ k >= e + 1
      <4> SUFFICES ASSUME NEW k \in References(s)
                   PROVE  k >= i <=> (k > o /\ k < e) \/ k >= e + 1
        OBVIOUS
      <4>1. k \in Int /\ e \in Int /\ o \in Int /\ i \in Int /\ k # e /\ o >= i /\ e > o
        BY <1>0, <1>2, <1>3, <2>1, <3>3, <3>8
      <4> QED BY <4>1, <1>6
    <3>10. f[i] = dots \cup f[e + 1]
      <4>1. ~(e > Len(s))
        BY <1>0, <3>3
      <4> QED BY <1>4, <4>1
    <3>11. \A k \in dots : st[k] # "comment"
      BY <1>2, <3>7
    <3> HIDE DEF st
    <3>12. {k \in f[i] : st[k] # "comment"} = dots \cup {k \in References(s) : k >= e + 1}
      BY <3>6, <3>10, <3>11
    <3>13. {k \in f[i] : st[k] # "comment"} = {k \in References(s) : k >= i}
      BY <3>7, <3>9, <3>12
    <3> QED BY <3>13 DEF st
  (* A "{{" of or in a comment: the match does not leave the comment. *)
  <2>6. CASE ~(st[o] = "text" /\ s[o] = Open)
    <3>1. st[o + 1] = "comment"
      <4>1. st[o] = "text" => s[o] = OpenComment /\ s[o] # Open
        BY <2>1, <2>6 DEF Begins
      <4>2. s[o] # CloseComment
        BY <2>1, TokensApart DEF Ends
      <4> QED BY <2>1, <2>4, <4>1, <4>2, LexStepIs DEF Outside
    <3>2. \A k \in (o + 1)..e : st[k] = "comment"
      <4> DEFINE a == o + 1
      <4>1. a \in 1..(Len(s) + 1) /\ e \in a..(Len(s) + 1) /\ st[a] = "comment"
        BY <2>2, <3>1
      <4>2. \A k \in a..(e - 1) : s[k] \notin Ends
        BY <2>3
      <4> HIDE DEF st, a
      <4>3. \A k \in a..e : st[k] = "comment"
        BY <1>1, <4>1, <4>2, CommentLasts
      <4> QED BY <4>3 DEF a
    <3>3. e \in (o + 1)..Len(s) /\ e \in 1..Len(s) /\ st[e] = "comment"
      <4>1. st[e] = "comment"
        BY <2>2, <3>2
      <4>2. e # Len(s) + 1
        BY <1>1, <4>1
      <4> QED BY <1>0, <2>1, <2>2, <4>1, <4>2
    <3>4. st[e + 1] \in Outside /\ e + 1 \in (i + 1)..(Len(s) + 1)
      <4>1. st[e + 1] = lexStep("comment", s[e])
        BY <1>1, <3>3 DEF Follows
      <4>2. e + 1 \in (i + 1)..(Len(s) + 1)
        BY <1>0, <1>3, <3>3
      <4> QED BY <4>1, <4>2, LexStepIs DEF Outside
    <3>5. {k \in f[e + 1] : st[k] # "comment"} = {k \in References(s) : k >= e + 1}
      BY <3>4
    <3>6. \A k \in dots : st[k] = "comment"
      <4> DEFINE c == SubSeq(s, o + 1, e - 1)
      <4>1. c \in Seq(W) /\ Len(c) = (e - 1) - o
        BY <1>0, <2>1, <3>3
      <4>2. rewriteAction(c) \subseteq 1..((e - 1) - o)
        <5> HIDE DEF c
        <5> QED BY <4>1, ScanWithin
      <4> HIDE DEF c
      <4>3. \A h \in 1..((e - 1) - o) : h + o \in (o + 1)..e
        BY <1>0, <2>1, <3>3
      <4>4. \A k \in dots : \E h \in rewriteAction(c) : k = h + o
        BY DEF dots, c, Shift
      <4> QED BY <3>2, <4>2, <4>3, <4>4
    <3>7. \A k \in References(s) : k >= i <=> k >= e + 1
      <4> SUFFICES ASSUME NEW k \in References(s) PROVE k >= i <=> k >= e + 1
        OBVIOUS
      <4>1. k \in Int /\ e \in Int /\ o \in Int /\ i \in Int /\ o >= i /\ e > o
        BY <1>0, <1>2, <1>3, <2>1, <3>3
      <4>2. ~(k > o /\ k <= e)
        <5>1. k > o /\ k <= e => k \in (o + 1)..e
          BY <4>1
        <5> QED BY <5>1, <3>2, <1>2
      <4> QED BY <4>1, <4>2, <1>6
    <3>8. f[i] = dots \cup f[e + 1]
      <4>1. ~(e > Len(s))
        BY <1>0, <3>3
      <4> QED BY <1>4, <4>1
    <3> HIDE DEF st
    <3>9. {k \in f[i] : st[k] # "comment"} = {k \in References(s) : k >= i}
      BY <3>5, <3>6, <3>7, <3>8
    <3> QED BY <3>9 DEF st
  <2> QED BY <2>5, <2>6
<1> QED BY <1>7, <1>8

(* Every text of any length that text/template can lex and that puts no    *)
(* "}}" into a string, no quote into a character constant and no reference *)
(* behind something that is no separator: outside the comments             *)
(* preprocessTemplate gives its dot to every reference and to nothing      *)
(* else, whatever literals, escapes and comments come before.              *)
THEOREM RewritesExact ==
  ASSUME text \in Seq(STRING)
  PROVE  RewriteExact
<1> DEFINE s == text
           f == CHOOSE g : TextTable(g, s)
<1> SUFFICES ASSUME Ordinary(s), Lexes(s)
             PROVE  {k \in preprocessTemplate(s) : lex(s)[k] # "comment"} = References(s)
  BY DEF RewriteExact
<1>0. s \in Seq(STRING) /\ Len(s) \in Nat
  OBVIOUS
<1> HIDE DEF s
<1>1. TextTable(f, s)
  <2>1. \E g : TextTable(g, s)
    BY <1>0, TextTableExists
  <2> QED BY Zenon, <2>1
<1>2. preprocessTemplate(s) = f[1]
  BY DEF preprocessTemplate, TextTable, TextStep, Closes, Body
<1> HIDE DEF f
<1>3. \A i \in 1..(Len(s) + 1) : f[i] = TextStep(f, s, i)
  BY <1>1, TextTableEntry
<1> DEFINE Good(i) == {k \in f[i] : lex(s)[k] # "comment"} = {k \in References(s) : k >= i}
           Bad == {i \in 1..(Len(s) + 1) : lex(s)[i] \in Outside /\ ~Good(i)}
<1>4. Bad = {}
  <2> SUFFICES ASSUME Bad # {} PROVE FALSE
    OBVIOUS
  <2>1. PICK i \in Bad : \A h \in Bad : h <= i
    <3>1. Bad \subseteq 1..(Len(s) + 1) /\ 1 \in Int /\ Len(s) + 1 \in Int
      BY <1>0
    <3> HIDE DEF Bad
    <3> QED BY <3>1, GreatestUpTo
  <2>2. i \in 1..(Len(s) + 1) /\ lex(s)[i] \in Outside /\ ~Good(i)
    BY <2>1
  <2>3. \A h \in (i + 1)..(Len(s) + 1) : lex(s)[h] \in Outside => Good(h)
    BY <1>0, <2>1, <2>2
  <2> QED BY <1>0, <1>3, <2>2, <2>3, RestRewritten
<1>5. Good(1)
  <2>1. 1 \in 1..(Len(s) + 1) /\ lex(s)[1] \in Outside
    BY <1>0, LexFollows DEF Outside
  <2> HIDE DEF Good
  <2> QED BY <2>1, <1>4
<1>6. \A k \in References(s) : k >= 1
  BY <1>0 DEF References
<1> QED BY <1>2, <1>5, <1>6

-----------------------------------------------------------------------------
(* Payloads.                                                               *)

LEMMA ChoiceIs ==
  ASSUME NEW outs, NEW f \in Choices(outs)
  PROVE  /\ f = [i \in DOMAIN outs |-> f[i]]
         /\ \A i \in DOMAIN outs : f[i] \in outs[i]
BY DEF Choices

LEMMA IsChoice ==
  ASSUME NEW outs, NEW f, f = [i \in DOMAIN outs |-> f[i]],
         \A i \in DOMAIN outs : f[i] \in outs[i]
  PROVE  f \in Choices(outs)
<1>1. \A i \in DOMAIN outs : f[i] \in UNION {outs[j] : j \in DOMAIN outs}
  OBVIOUS
<1> QED BY <1>1 DEF Choices

(* What a text becomes. *)
LEMMA ExecuteIs ==
  ASSUME NEW t, NEW b
  PROVE  /\ executeTemplate(t, b)[1] \in {"error", "text"}
         /\ executeTemplate(t, b) = Error("parse") <=> ~t.parses
         /\ ~t.parses => Failed(executeTemplate(t, b))
BY DEF executeTemplate, Printed, Error, Failed

(* The value that a leaf renders to. *)
LeafValue(t, b) == renderLeaf(t, FALSE, b)

LEMMA LeafIs ==
  ASSUME NEW t, NEW b, NEW isKey \in BOOLEAN
  PROVE  LET o == renderLeaf(t, isKey, b)
         IN  /\ o[1] \in {"error", "text", "raw"}
             /\ o = Error("parse") => ~t.parses
             /\ ~t.parses => Failed(o)
             /\ isKey => o = executeTemplate(t, b)
             /\ ~Failed(o) /\ ~isKey /\ t.opens # 0 =>
                  o[1] = IF isTyped(t) THEN "raw" ELSE "text"
             /\ t.opens = 0 => o = executeTemplate(t, b)
BY ExecuteIs DEF renderLeaf, Leaf, Failed, Error

LEMMA LeafValueIs ==
  ASSUME NEW t, NEW b
  PROVE  LET o == LeafValue(t, b)
         IN  /\ o[1] \in {"error", "text", "raw"}
             /\ o = Error("parse") => ~t.parses
             /\ ~t.parses => Failed(o)
             /\ ~Failed(o) => o[1] = IF isTyped(t) THEN "raw" ELSE "text"
<1> DEFINE o == renderLeaf(t, FALSE, b)
<1>1. /\ o[1] \in {"error", "text", "raw"}
      /\ o = Error("parse") => ~t.parses
      /\ ~t.parses => Failed(o)
      /\ ~Failed(o) /\ t.opens # 0 => o[1] = IF isTyped(t) THEN "raw" ELSE "text"
      /\ t.opens = 0 => o = executeTemplate(t, b)
  BY Zenon, LeafIs
<1>2. executeTemplate(t, b)[1] \in {"error", "text"}
  BY ExecuteIs
<1>3. t.opens = 0 => ~isTyped(t)
  BY DEF isTyped
<1>4. o = LeafValue(t, b)
  BY Zenon DEF LeafValue
<1> HIDE DEF o
<1> QED BY <1>1, <1>2, <1>3, <1>4 DEF Failed

(* A list fails exactly if an item does, with the error of an item; it can *)
(* be encoded if its items can.                                            *)
LEMMA ListIs ==
  ASSUME NEW n \in Nat, NEW f, DOMAIN f = 1..n
  PROVE  IF \E k \in 1..n : Failed(f[k])
         THEN \E k \in 1..n : Failed(f[k]) /\ List(f) = f[k]
         ELSE \/ List(f) = <<"list", f>>
              \/ List(f) = Unencodable /\ \E k \in 1..n : f[k] = Unencodable
<1> DEFINE errors == {i \in DOMAIN f : Failed(f[i])}
           values == {f[i] : i \in DOMAIN f}
           whole == Holding(values, <<"list", f>>)
<1>0. \/ whole = <<"list", f>>
      \/ whole = Unencodable /\ \E k \in 1..n : f[k] = Unencodable
  <2>1. Unencodable \in values => \E k \in 1..n : f[k] = Unencodable
    OBVIOUS
  <2> HIDE DEF values
  <2> QED BY <2>1 DEF Holding
<1>1. List(f) = IF errors = {} THEN whole
                ELSE f[CHOOSE i \in errors : \A j \in errors : i <= j]
  BY DEF List
<1>2. ASSUME errors # {}
      PROVE  (CHOOSE i \in errors : \A j \in errors : i <= j) \in errors
  <2>1. errors \subseteq Nat
    OBVIOUS
  <2> HIDE DEF errors
  <2>2. \E i \in errors : \A j \in errors : i <= j
    BY <1>2, <2>1, LeastNat
  <2> QED BY <2>2
<1>3. \A i : i \in errors <=> i \in 1..n /\ Failed(f[i])
  OBVIOUS
<1> HIDE DEF errors, whole
<1> QED BY <1>0, <1>1, <1>2, <1>3

(* An entry of a map, by its key and the outcome of its value. *)
LEMMA EntryIs ==
  ASSUME NEW e, NEW out, NEW b, NEW x \in transformEntry(e, out, b)
  PROVE  LET key == executeTemplate(e[1], b)
         IN  \/ Failed(key) /\ x = key
             \/ ~Failed(key) /\ \E nv \in out[e[2]] : Failed(nv) /\ x = nv
             \/ ~Failed(key) /\ \E nv \in out[e[2]] : ~Failed(nv) /\ x = <<"entry", key, nv>>
<1> DEFINE key == executeTemplate(e[1], b)
<1>1. renderLeaf(e[1], TRUE, b) = key /\ key[1] # "raw"
  BY LeafIs, ExecuteIs
<1>2. transformEntry(e, out, b) =
        IF Failed(key) THEN {key}
        ELSE {IF Failed(nv) THEN nv ELSE <<"entry", key, nv>> : nv \in out[e[2]]}
  BY <1>1 DEF transformEntry
<1> HIDE DEF key
<1> QED BY <1>2 DEF key

(* A map fails exactly if an entry does, with the error of an entry. *)
LEMMA MapsFail ==
  ASSUME NEW entries, NEW o \in Maps(entries)
  PROVE  IF \E x \in entries : Failed(x)
         THEN o \in entries /\ Failed(o)
         ELSE ~Failed(o)
<1> DEFINE errors == {x \in entries : Failed(x)}
           keys == {x[2] : x \in entries}
           G == {g \in [keys -> {x[3] : x \in entries}] :
                   \A k \in keys : <<"entry", k, g[k]>> \in entries}
           H(g) == Holding({g[k] : k \in keys}, <<"map", {<<k, g[k]>> : k \in keys}>>)
<1>1. Maps(entries) = IF errors # {} THEN errors ELSE {H(g) : g \in G}
  BY DEF Maps
<1>2. \A x : x \in errors <=> x \in entries /\ Failed(x)
  OBVIOUS
<1>3. \A g : ~Failed(H(g))
  BY DEF Holding, Failed, Unencodable
<1> HIDE DEF errors, G, H
<1> QED BY <1>1, <1>2, <1>3

LEMMA MapsIs ==
  ASSUME NEW entries, NEW o \in Maps(entries), \A x \in entries : ~Failed(x)
  PROVE  LET keys == {x[2] : x \in entries}
         IN  \E g : /\ \/ o = <<"map", {<<k, g[k]>> : k \in keys}>>
                       \/ o = Unencodable /\ \E k \in keys : g[k] = Unencodable
                    /\ \A k \in keys : <<"entry", k, g[k]>> \in entries
<1> DEFINE keys == {x[2] : x \in entries}
           G == {g \in [keys -> {x[3] : x \in entries}] :
                   \A k \in keys : <<"entry", k, g[k]>> \in entries}
           V(g) == {g[k] : k \in keys}
           M(g) == <<"map", {<<k, g[k]>> : k \in keys}>>
           H(g) == Holding(V(g), M(g))
<1>1. Maps(entries) = {H(g) : g \in G}
  BY DEF Maps
<1>2. \A g \in G : \A k \in keys : <<"entry", k, g[k]>> \in entries
  OBVIOUS
<1> HIDE DEF G
<1>3. PICK g \in G : o = H(g)
  <2> HIDE DEF H
  <2> QED BY <1>1
<1>4. o = M(g) \/ (o = Unencodable /\ \E k \in keys : g[k] = Unencodable)
  <2>1. Unencodable \in V(g) => \E k \in keys : g[k] = Unencodable
    OBVIOUS
  <2> HIDE DEF V, M, keys
  <2> QED BY <1>3, <2>1 DEF Holding
<1> HIDE DEF keys
<1> QED BY <1>2, <1>4 DEF keys

-----------------------------------------------------------------------------
(* The table of outcomes exists: parts stand before the whole.             *)

NodeStep(f, p, b, i) == transformNode(p[i], [j \in Parts(p[i]) |-> f[j]], b)
OutTable(f, p, b, m) == f = [i \in 1..m |-> NodeStep(f, p, b, i)]

LEMMA NodeStepSame ==
  ASSUME NEW p, NEW b, NEW f, NEW g, NEW i, \A j \in Parts(p[i]) : f[j] = g[j]
  PROVE  NodeStep(f, p, b, i) = NodeStep(g, p, b, i)
<1>1. [j \in Parts(p[i]) |-> f[j]] = [j \in Parts(p[i]) |-> g[j]]
  OBVIOUS
<1> QED BY <1>1 DEF NodeStep

LEMMA OutTableEntry ==
  ASSUME NEW p, NEW b, NEW m, NEW f, OutTable(f, p, b, m), NEW a \in 1..m
  PROVE  f[a] = NodeStep(f, p, b, a)
<1> DEFINE P(i) == NodeStep(f, p, b, i)
<1>1. f = [i \in 1..m |-> P(i)]
  BY DEF OutTable
<1> HIDE DEF P
<1>2. f[a] = P(a)
  BY <1>1
<1> QED BY <1>2 DEF P

LEMMA OutTableExists ==
  ASSUME NEW p, IsPayload(p), NEW b
  PROVE  \A m \in 0..Len(p) : \E f : OutTable(f, p, b, m)
<1> DEFINE Left == {m \in 0..Len(p) : ~\E f : OutTable(f, p, b, m)}
<1> SUFFICES ASSUME Left # {} PROVE FALSE
  OBVIOUS
<1>0. Len(p) \in Nat /\ DOMAIN p = 1..Len(p)
  BY DEF IsPayload
<1>1. PICK m \in Left : \A k \in Left : m <= k
  <2>1. Left \subseteq Nat
    BY <1>0
  <2> HIDE DEF Left
  <2> QED BY <2>1, LeastNat
<1>2. m \in 0..Len(p) /\ ~\E f : OutTable(f, p, b, m)
  OBVIOUS
<1>3. m # 0
  <2> DEFINE e == [i \in 1..0 |-> {}]
             P(i) == NodeStep(e, p, b, i)
  <2>1. e = [i \in 1..0 |-> P(i)]
    <3> HIDE DEF P
    <3> QED OBVIOUS
  <2>2. OutTable(e, p, b, 0)
    BY <2>1 DEF OutTable
  <2> QED BY <1>2, <2>2
<1>4. PICK f : OutTable(f, p, b, m - 1)
  <2>1. m - 1 \in 0..Len(p) /\ ~(m <= m - 1)
    BY <1>0, <1>2, <1>3
  <2>2. m - 1 \notin Left
    <3> HIDE DEF Left
    <3> QED BY <1>1, <2>1
  <2> QED BY <2>1, <2>2
<1> DEFINE P(i) == NodeStep(f, p, b, i)
           g == [i \in 1..m |-> P(i)]
           Q(i) == NodeStep(g, p, b, i)
<1>5. \A j \in 1..(m - 1) : g[j] = f[j]
  <2> SUFFICES ASSUME NEW j \in 1..(m - 1) PROVE g[j] = f[j]
    OBVIOUS
  <2>1. f[j] = P(j)
    BY <1>4, OutTableEntry
  <2>2. j \in 1..m
    BY <1>0, <1>2
  <2> HIDE DEF P
  <2> QED BY <2>1, <2>2
<1>6. ASSUME NEW i \in 1..m PROVE P(i) = Q(i)
  <2>1. i \in DOMAIN p
    BY <1>0, <1>2
  <2>2. Parts(p[i]) \subseteq 1..(i - 1)
    BY <2>1 DEF IsPayload
  <2>3. 1..(i - 1) \subseteq 1..(m - 1)
    BY <1>0, <1>2
  <2>4. \A j \in Parts(p[i]) : f[j] = g[j]
    <3> HIDE DEF g
    <3> QED BY <1>5, <2>2, <2>3
  <2> HIDE DEF g
  <2> QED BY <2>4, NodeStepSame
<1>7. g = [i \in 1..m |-> Q(i)]
  <2>1. g = [i \in 1..m |-> P(i)]
    OBVIOUS
  <2> HIDE DEF P, Q, g
  <2> QED BY <1>6, <2>1
<1>8. OutTable(g, p, b, m)
  <2> HIDE DEF g
  <2> QED BY <1>7 DEF OutTable
<1> QED BY <1>2, <1>8

(* transformPayload gives each node what transformNode makes of it. *)
LEMMA NodeRendered ==
  ASSUME NEW p, IsPayload(p), NEW b, NEW i \in 1..Len(p)
  PROVE  transformPayload(p, b)[i] = NodeStep(transformPayload(p, b), p, b, i)
<1> DEFINE f == CHOOSE g : OutTable(g, p, b, Len(p))
<1>1. Len(p) \in Nat /\ DOMAIN p = 1..Len(p)
  BY DEF IsPayload
<1>2. \E g : OutTable(g, p, b, Len(p))
  BY <1>1, OutTableExists
<1>3. OutTable(f, p, b, Len(p))
  BY Zenon, <1>2
<1>4. transformPayload(p, b) = f
  BY <1>1 DEF transformPayload, OutTable, NodeStep
<1> HIDE DEF f
<1> QED BY <1>3, <1>4, OutTableEntry

(* The kinds of node. *)
LEMMA NodeKinds ==
  ASSUME NEW v \in Node
  PROVE  /\ v[1] \in {"nil", "other", "unencodable", "string", "map", "list"}
         /\ v[1] = "unencodable" => v = Unencodable
         /\ v[1] = "string" => v[2] \in PayloadText
         /\ v[1] = "map" => v[2] \subseteq PayloadText \X Nat
         /\ v[1] = "list" => v[2] \in Seq(Nat)
<1>1. CASE v \in {<<"nil">>, <<"other">>, Unencodable}
  BY <1>1 DEF Unencodable
<1>2. CASE v \in {"string"} \X PayloadText
  <2> HIDE DEF PayloadText
  <2> QED BY <1>2
<1>3. CASE v \in {"map"} \X SUBSET (PayloadText \X Nat)
  BY <1>3
<1>4. CASE v \in {"list"} \X Seq(Nat)
  BY <1>4
<1> QED BY <1>1, <1>2, <1>3, <1>4 DEF Node

LEMMA StringRendered ==
  ASSUME NEW p, IsPayload(p), NEW b, NEW i \in 1..Len(p), p[i][1] = "string",
         NEW o \in transformPayload(p, b)[i]
  PROVE  o = LeafValue(p[i][2], b)
<1> DEFINE part == [j \in Parts(p[i]) |-> transformPayload(p, b)[j]]
<1>1. transformPayload(p, b)[i] = transformNode(p[i], part, b)
  BY NodeRendered DEF NodeStep
<1> HIDE DEF part
<1>2. transformNode(p[i], part, b) = {LeafValue(p[i][2], b)}
  BY Zenon DEF transformNode, LeafValue
<1> QED BY <1>1, <1>2

LEMMA OtherRendered ==
  ASSUME NEW p, IsPayload(p), NEW b, NEW i \in 1..Len(p),
         p[i][1] \notin {"string", "map", "list"}
  PROVE  transformPayload(p, b)[i] = {p[i]}
<1> DEFINE part == [j \in Parts(p[i]) |-> transformPayload(p, b)[j]]
<1>1. transformPayload(p, b)[i] = transformNode(p[i], part, b)
  BY NodeRendered DEF NodeStep
<1> HIDE DEF part
<1>2. transformNode(p[i], part, b) = {p[i]}
  BY Zenon DEF transformNode
<1> QED BY <1>1, <1>2

LEMMA ListRendered ==
  ASSUME NEW p, IsPayload(p), NEW b, NEW i \in 1..Len(p), p[i][1] = "list",
         NEW o \in transformPayload(p, b)[i]
  PROVE  LET items == [k \in DOMAIN p[i][2] |-> transformPayload(p, b)[p[i][2][k]]]
         IN  \E f \in Choices(items) : o = List(f)
<1> DEFINE v == p[i]
           out == transformPayload(p, b)
           part == [j \in Parts(v) |-> out[j]]
           items == [k \in DOMAIN v[2] |-> out[v[2][k]]]
<1>1. out[i] = transformNode(v, part, b)
  BY NodeRendered DEF NodeStep
<1>2. transformNode(v, part, b)
        = {List(f) : f \in Choices([k \in DOMAIN v[2] |-> part[v[2][k]]])}
  BY DEF transformNode
<1>3. [k \in DOMAIN v[2] |-> part[v[2][k]]] = items
  <2>1. \A k \in DOMAIN v[2] : v[2][k] \in Parts(v)
    BY DEF Parts
  <2> HIDE DEF v, out
  <2> QED BY <2>1
<1> HIDE DEF part, items, out
<1>4. \E f \in Choices(items) : o = List(f)
  BY <1>1, <1>2, <1>3 DEF out
<1> QED BY <1>4 DEF items, out

(* o is a map of the entries that f gives, one for each of v. *)
MapFrom(f, o, v, out, b) ==
  /\ \A e \in v[2] : f[e] \in transformEntry(e, out, b)
  /\ o \in Maps({f[e] : e \in v[2]})

LEMMA MapRendered ==
  ASSUME NEW p, IsPayload(p), NEW b, NEW i \in 1..Len(p), p[i][1] = "map",
         NEW o \in transformPayload(p, b)[i]
  PROVE  \E f : MapFrom(f, o, p[i], transformPayload(p, b), b)
<1> DEFINE v == p[i]
           out == transformPayload(p, b)
           part == [j \in Parts(v) |-> out[j]]
           entries == [e \in v[2] |-> transformEntry(e, part, b)]
<1>1. out[i] = transformNode(v, part, b)
  BY NodeRendered DEF NodeStep
<1>2. transformNode(v, part, b) = UNION {Maps({f[e] : e \in v[2]}) : f \in Choices(entries)}
  BY DEF transformNode
<1>3. ASSUME NEW e \in v[2]
      PROVE  transformEntry(e, part, b) = transformEntry(e, out, b)
  <2>1. part[e[2]] = out[e[2]]
    <3>1. e[2] \in Parts(v)
      BY DEF Parts
    <3> HIDE DEF v, out
    <3> QED BY <3>1
  <2> HIDE DEF part, out
  <2> QED BY <2>1 DEF transformEntry
<1> DEFINE M(f) == Maps({f[e] : e \in v[2]})
<1>4. PICK f \in Choices(entries) : o \in M(f)
  <2>1. out[i] = UNION {M(f) : f \in Choices(entries)}
    BY <1>1, <1>2
  <2> HIDE DEF M, entries
  <2> QED BY <2>1
<1>5. \A e \in v[2] : f[e] \in entries[e]
  <2>1. DOMAIN entries = v[2]
    OBVIOUS
  <2> HIDE DEF entries, v
  <2> QED BY <1>4, <2>1, ChoiceIs
<1>6. \A e \in v[2] : f[e] \in transformEntry(e, out, b)
  <2>1. \A e \in v[2] : entries[e] = transformEntry(e, part, b)
    OBVIOUS
  <2> HIDE DEF entries, part, out
  <2> QED BY <1>3, <1>5, <2>1
<1>7. MapFrom(f, o, v, out, b)
  BY <1>4, <1>6 DEF MapFrom
<1> QED BY <1>7

-----------------------------------------------------------------------------
(* Structure.                                                              *)

LEMMA MapStructure ==
  ASSUME NEW v, v[1] = "map", NEW out, NEW b, NEW f, NEW o,
         MapFrom(f, o, v, out, b), ~Failed(o), o # Unencodable,
         \A d, e \in v[2] : executeTemplate(d[1], b) = executeTemplate(e[1], b) => d = e
  PROVE  SameStructure(v, o, out, b)
<1> DEFINE entries == {f[e] : e \in v[2]}
           key(e) == executeTemplate(e[1], b)
           h == [e \in v[2] |-> f[e][3]]
           outs == [e \in v[2] |-> out[e[2]]]
<1>0. o \in Maps(entries) /\ \A e \in v[2] : f[e] \in transformEntry(e, out, b)
  BY DEF MapFrom
<1>1. \A x \in entries : ~Failed(x)
  <2> HIDE DEF entries
  <2> QED BY <1>0, MapsFail
<1>2. ASSUME NEW e \in v[2]
      PROVE  f[e] = <<"entry", key(e), h[e]>> /\ h[e] \in out[e[2]] /\ ~Failed(h[e])
  <2>1. f[e] \in transformEntry(e, out, b) /\ ~Failed(f[e])
    BY <1>0, <1>1
  <2>2. \E nv \in out[e[2]] : ~Failed(nv) /\ f[e] = <<"entry", key(e), nv>>
    BY <2>1, EntryIs
  <2> HIDE DEF key
  <2> QED BY <2>2
<1> DEFINE keys == {x[2] : x \in entries}
<1>3. PICK g : /\ o = <<"map", {<<k, g[k]>> : k \in keys}>>
               /\ \A k \in keys : <<"entry", k, g[k]>> \in entries
  <2> HIDE DEF entries
  <2>1. PICK g : /\ \/ o = <<"map", {<<k, g[k]>> : k \in keys}>>
                    \/ o = Unencodable /\ \E k \in keys : g[k] = Unencodable
                 /\ \A k \in keys : <<"entry", k, g[k]>> \in entries
    BY <1>0, <1>1, MapsIs
  <2>2. o = <<"map", {<<k, g[k]>> : k \in keys}>>
    <3> HIDE DEF keys
    <3> QED BY <2>1
  <2> HIDE DEF keys
  <2> QED BY <2>1, <2>2
<1> HIDE DEF key, h
<1>4. keys = {key(e) : e \in v[2]}
  <2>1. \A e \in v[2] : f[e][2] = key(e)
    BY <1>2
  <2>2. \A k : k \in keys <=> \E e \in v[2] : k = f[e][2]
    OBVIOUS
  <2> HIDE DEF keys
  <2> QED BY <2>1, <2>2
<1>5. \A e \in v[2] : g[key(e)] = h[e]
  <2> SUFFICES ASSUME NEW e \in v[2] PROVE g[key(e)] = h[e]
    OBVIOUS
  <2>1. <<"entry", key(e), g[key(e)]>> \in entries
    BY <1>3, <1>4
  <2>2. PICK d \in v[2] : <<"entry", key(e), g[key(e)]>> = f[d]
    BY <2>1
  <2>3. key(e) = key(d) /\ g[key(e)] = h[d]
    BY <1>2, <2>2
  <2>4. d = e
    BY <2>3 DEF key
  <2> QED BY <2>3, <2>4
<1>6. {<<k, g[k]>> : k \in keys} = {<<key(e), h[e]>> : e \in v[2]}
  <2> HIDE DEF keys
  <2> QED BY <1>4, <1>5
<1>7. h \in Choices(outs)
  <2>1. DOMAIN outs = v[2] /\ \A e \in v[2] : outs[e] = out[e[2]]
    OBVIOUS
  <2>2. h = [e \in v[2] |-> h[e]]
    BY DEF h
  <2> HIDE DEF outs
  <2> QED BY <1>2, <2>1, <2>2, IsChoice
<1>8. /\ o = <<"map", {<<key(e), h[e]>> : e \in v[2]}>>
      /\ \A e \in v[2] : ~Failed(h[e])
  BY <1>2, <1>3, <1>6
<1>9. SameStructure(v, o, out, b) =
        \E q \in Choices(outs) :
           /\ o = <<"map", {<<key(e), q[e]>> : e \in v[2]}>>
           /\ \A e \in v[2] : ~Failed(q[e])
  BY DEF SameStructure, key
<1> HIDE DEF outs
<1> QED BY <1>7, <1>8, <1>9

LEMMA ListStructure ==
  ASSUME NEW v \in Node, v[1] = "list", NEW out, NEW b, NEW o,
         NEW f \in Choices([k \in DOMAIN v[2] |-> out[v[2][k]]]), o = List(f), ~Failed(o),
         o # Unencodable
  PROVE  SameStructure(v, o, out, b)
<1> DEFINE outs == [k \in DOMAIN v[2] |-> out[v[2][k]]]
<1>1. v[2] \in Seq(Nat)
  BY NodeKinds
<1>2. Len(v[2]) \in Nat /\ DOMAIN v[2] = 1..Len(v[2])
  BY <1>1
<1>3. DOMAIN f = 1..Len(v[2])
  <2>1. DOMAIN outs = 1..Len(v[2])
    BY <1>2
  <2>2. f = [k \in DOMAIN outs |-> f[k]]
    BY ChoiceIs
  <2> HIDE DEF outs
  <2> QED BY <2>1, <2>2
<1>4. o = <<"list", f>> /\ \A k \in DOMAIN v[2] : ~Failed(f[k])
  BY <1>2, <1>3, ListIs
<1>5. SameStructure(v, o, out, b) =
        \E q \in Choices(outs) : o = <<"list", q>> /\ \A k \in DOMAIN v[2] : ~Failed(q[k])
  BY DEF SameStructure
<1> HIDE DEF outs
<1> QED BY <1>4, <1>5 DEF outs

(* Payloads of any form and depth: at every node, what is rendered has the *)
(* structure of its definition, whatever the message holds.                *)
THEOREM StructuresKept ==
  ASSUME IsPayload(payload)
  PROVE  StructureKept
<1> DEFINE p == payload
           b == body
           out == transformPayload(p, b)
<1>1. DOMAIN p = 1..Len(p) /\ p \in Seq(Node)
  BY DEF IsPayload
<1> SUFFICES ASSUME KeysDistinct(p, b), NEW i \in 1..Len(p), NEW o \in out[i], ~Failed(o),
                    o # Unencodable
             PROVE  SameStructure(p[i], o, out, b)
  BY <1>1 DEF StructureKept
<1>2. p[i] \in Node
  BY <1>1
<1> HIDE DEF p, b
<1>3. IsPayload(p)
  BY DEF p
<1>4. CASE p[i][1] = "map"
  <2>1. PICK f : MapFrom(f, o, p[i], out, b)
    BY <1>3, <1>4, MapRendered
  <2>2. \A d, e \in p[i][2] : executeTemplate(d[1], b) = executeTemplate(e[1], b) => d = e
    BY <1>1, <1>4 DEF KeysDistinct
  <2> HIDE DEF out
  <2> QED BY <1>4, <2>1, <2>2, MapStructure
<1>5. CASE p[i][1] = "list"
  <2>1. PICK f \in Choices([k \in DOMAIN p[i][2] |-> out[p[i][2][k]]]) : o = List(f)
    BY <1>3, <1>5, ListRendered
  <2> HIDE DEF out
  <2> QED BY <1>2, <1>5, <2>1, ListStructure
<1>6. CASE p[i][1] = "string"
  <2>1. o = LeafValue(p[i][2], b)
    BY <1>3, <1>6, StringRendered
  <2>2. o[1] = IF isTyped(p[i][2]) THEN "raw" ELSE "text"
    BY <2>1, LeafValueIs
  <2> QED BY <1>6, <2>2 DEF SameStructure
<1>7. CASE p[i][1] \notin {"string", "map", "list"}
  BY <1>3, <1>7, OtherRendered DEF SameStructure
<1> QED BY <1>4, <1>5, <1>6, <1>7

-----------------------------------------------------------------------------
(* Rendering always comes to an outcome.                                   *)

LEMMA ChoiceExists ==
  ASSUME NEW outs, \A i \in DOMAIN outs : outs[i] # {}
  PROVE  Choices(outs) # {}
<1> DEFINE one(i) == CHOOSE x : x \in outs[i]
           f == [i \in DOMAIN outs |-> one(i)]
<1>1. \A i \in DOMAIN outs : one(i) \in outs[i]
  BY Zenon
<1> HIDE DEF one
<1>2. f = [i \in DOMAIN outs |-> f[i]] /\ \A i \in DOMAIN outs : f[i] \in outs[i]
  BY <1>1
<1> HIDE DEF f
<1>3. f \in Choices(outs)
  BY <1>2, IsChoice
<1> QED BY <1>3

LEMMA MapExists ==
  ASSUME NEW entries, \A x \in entries : Failed(x) \/ x = <<"entry", x[2], x[3]>>
  PROVE  Maps(entries) # {}
<1> DEFINE errors == {x \in entries : Failed(x)}
           keys == {x[2] : x \in entries}
           G == {g \in [keys -> {x[3] : x \in entries}] :
                   \A k \in keys : <<"entry", k, g[k]>> \in entries}
           H(g) == Holding({g[k] : k \in keys}, <<"map", {<<k, g[k]>> : k \in keys}>>)
<1>1. Maps(entries) = IF errors # {} THEN errors ELSE {H(g) : g \in G}
  BY DEF Maps
<1>2. ASSUME errors = {} PROVE G # {}
  <2> DEFINE one(k) == CHOOSE x : x \in entries /\ x[2] = k
             g == [k \in keys |-> one(k)[3]]
  <2>1. \A k \in keys : \E x : x \in entries /\ x[2] = k
    OBVIOUS
  <2>2. \A k \in keys : one(k) \in entries /\ one(k)[2] = k
    <3> HIDE DEF keys
    <3> QED BY Zenon, <2>1
  <2> HIDE DEF one
  <2>3. \A x \in entries : x = <<"entry", x[2], x[3]>>
    BY <1>2
  <2>4. \A k \in keys : <<"entry", k, one(k)[3]>> \in entries
    <3> HIDE DEF keys
    <3> QED BY <2>2, <2>3
  <2>5. \A k \in keys : one(k)[3] \in {x[3] : x \in entries}
    <3> HIDE DEF keys
    <3> QED BY <2>2
  <2>6. g \in [keys -> {x[3] : x \in entries}] /\ \A k \in keys : g[k] = one(k)[3]
    <3> HIDE DEF keys
    <3> QED BY <2>5
  <2>7. \A k \in keys : <<"entry", k, g[k]>> \in entries
    <3> HIDE DEF keys, g
    <3> QED BY <2>4, <2>6
  <2>8. g \in G
    <3> HIDE DEF g, keys
    <3> QED BY <2>6, <2>7
  <2> QED BY <2>8
<1> HIDE DEF errors, G, H
<1> QED BY <1>1, <1>2

LEMMA EntryExists ==
  ASSUME NEW e, NEW out, NEW b, out[e[2]] # {}
  PROVE  /\ transformEntry(e, out, b) # {}
         /\ \A x \in transformEntry(e, out, b) : Failed(x) \/ x = <<"entry", x[2], x[3]>>
<1> DEFINE key == executeTemplate(e[1], b)
<1>1. renderLeaf(e[1], TRUE, b) = key /\ key[1] # "raw"
  BY LeafIs, ExecuteIs
<1>2. transformEntry(e, out, b) =
        IF Failed(key) THEN {key}
        ELSE {IF Failed(nv) THEN nv ELSE <<"entry", key, nv>> : nv \in out[e[2]]}
  BY <1>1 DEF transformEntry
<1> HIDE DEF key
<1>3. transformEntry(e, out, b) # {}
  BY <1>2
<1>4. \A x \in transformEntry(e, out, b) : Failed(x) \/ \E nv : x = <<"entry", key, nv>>
  BY <1>2
<1> QED BY <1>3, <1>4

(* Every node of every payload has an outcome. *)
LEMMA RenderingTotal ==
  ASSUME NEW p, IsPayload(p), NEW b
  PROVE  \A i \in 1..Len(p) : transformPayload(p, b)[i] # {}
<1> DEFINE out == transformPayload(p, b)
           Left == {i \in 1..Len(p) : out[i] = {}}
<1>0. Len(p) \in Nat /\ DOMAIN p = 1..Len(p) /\ p \in Seq(Node)
  BY DEF IsPayload
<1> SUFFICES ASSUME Left # {} PROVE FALSE
  OBVIOUS
<1>1. PICK i \in Left : \A k \in Left : i <= k
  <2>1. Left \subseteq Nat
    BY <1>0
  <2> HIDE DEF Left
  <2> QED BY <2>1, LeastNat
<1>2. i \in 1..Len(p) /\ p[i] \in Node /\ out[i] = {}
  BY <1>0
<1>3. \A j \in Parts(p[i]) : out[j] # {}
  <2>1. \A j \in 1..(i - 1) : j \in 1..Len(p) /\ ~(i <= j)
    BY <1>0, <1>2
  <2>2. Parts(p[i]) \subseteq 1..(i - 1)
    BY <1>0, <1>2 DEF IsPayload
  <2>3. \A j \in 1..(i - 1) : j \notin Left
    <3> HIDE DEF Left
    <3> QED BY <1>1, <2>1
  <2> HIDE DEF out
  <2> QED BY <2>1, <2>2, <2>3
<1> DEFINE v == p[i]
           part == [j \in Parts(v) |-> out[j]]
<1>4. out[i] = transformNode(v, part, b)
  BY <1>2, NodeRendered DEF NodeStep
<1>5. \A j \in Parts(v) : part[j] # {}
  <2> HIDE DEF out, v
  <2> QED BY <1>3 DEF v
<1> HIDE DEF Left, part
<1>6. CASE v[1] = "list"
  <2> DEFINE items == [k \in DOMAIN v[2] |-> part[v[2][k]]]
  <2>1. transformNode(v, part, b) = {List(f) : f \in Choices(items)}
    BY <1>6 DEF transformNode
  <2>2. \A k \in DOMAIN items : items[k] # {}
    <3>1. \A k \in DOMAIN v[2] : v[2][k] \in Parts(v)
      BY <1>6 DEF Parts
    <3> HIDE DEF v
    <3> QED BY <1>5, <3>1
  <2> HIDE DEF items
  <2>3. Choices(items) # {}
    BY <2>2, ChoiceExists
  <2> HIDE DEF out, v
  <2> QED BY <1>2, <1>4, <2>1, <2>3
<1>7. CASE v[1] = "map"
  <2> DEFINE entries == [e \in v[2] |-> transformEntry(e, part, b)]
             M(f) == Maps({f[e] : e \in v[2]})
  <2>1. transformNode(v, part, b) = UNION {M(f) : f \in Choices(entries)}
    BY <1>7 DEF transformNode
  <2>2. \A e \in v[2] : part[e[2]] # {}
    <3>1. \A e \in v[2] : e[2] \in Parts(v)
      BY <1>7 DEF Parts
    <3> HIDE DEF v
    <3> QED BY <1>5, <3>1
  <2>3. \A e \in v[2] : /\ transformEntry(e, part, b) # {}
                        /\ \A x \in transformEntry(e, part, b) :
                             Failed(x) \/ x = <<"entry", x[2], x[3]>>
    BY <2>2, EntryExists
  <2>4. DOMAIN entries = v[2] /\ \A e \in v[2] : entries[e] = transformEntry(e, part, b)
    OBVIOUS
  <2> HIDE DEF entries, v
  <2>5. Choices(entries) # {}
    BY <2>3, <2>4, ChoiceExists
  <2>6. PICK f : f \in Choices(entries)
    BY <2>5
  <2>7. \A e \in v[2] : Failed(f[e]) \/ f[e] = <<"entry", f[e][2], f[e][3]>>
    BY <2>3, <2>4, <2>6, ChoiceIs
  <2>8. M(f) # {}
    <3> DEFINE S == {f[e] : e \in v[2]}
    <3>1. \A x \in S : Failed(x) \/ x = <<"entry", x[2], x[3]>>
      BY <2>7
    <3> HIDE DEF S
    <3>2. Maps(S) # {}
      BY <3>1, MapExists
    <3> QED BY <3>2 DEF S
  <2> HIDE DEF M, out
  <2>9. UNION {M(g) : g \in Choices(entries)} # {}
    BY <2>6, <2>8
  <2> QED BY <1>2, <1>4, <2>1, <2>9 DEF v
<1>8. CASE v[1] = "string"
  <2>1. transformNode(v, part, b) = {LeafValue(v[2], b)}
    BY <1>8, Zenon DEF transformNode, LeafValue
  <2> HIDE DEF out, v
  <2> QED BY <1>2, <1>4, <2>1 DEF v
<1>9. CASE v[1] \notin {"string", "list", "map"}
  <2>1. transformNode(v, part, b) = {v}
    BY <1>9, Zenon DEF transformNode
  <2> HIDE DEF out, v
  <2> QED BY <1>2, <1>4, <2>1 DEF v
<1> QED BY <1>6, <1>7, <1>8, <1>9
-----------------------------------------------------------------------------
(* Validation.                                                             *)

(* An error that some text causes is the only error of a whole payload. *)
LEMMA ErrorsFrom ==
  ASSUME NEW p, IsPayload(p), NEW b, NEW E,
         \A t \in Leaves(p) : Failed(LeafValue(t, b)) => LeafValue(t, b) \in E,
         \A t \in KeyTexts(p) : Failed(executeTemplate(t, b)) => executeTemplate(t, b) \in E
  PROVE  \A i \in 1..Len(p) : \A o \in transformPayload(p, b)[i] : Failed(o) => o \in E
<1> DEFINE out == transformPayload(p, b)
           Fine(i) == \A o \in out[i] : Failed(o) => o \in E
           Left == {i \in 1..Len(p) : ~Fine(i)}
<1>0. Len(p) \in Nat /\ DOMAIN p = 1..Len(p) /\ p \in Seq(Node)
  BY DEF IsPayload
<1> SUFFICES ASSUME Left # {} PROVE FALSE
  OBVIOUS
<1>1. PICK i \in Left : \A k \in Left : i <= k
  <2>1. Left \subseteq Nat
    BY <1>0
  <2> HIDE DEF Left
  <2> QED BY <2>1, LeastNat
<1>2. i \in 1..Len(p) /\ p[i] \in Node
  BY <1>0
<1>3. \A j \in Parts(p[i]) : Fine(j)
  <2>1. \A j \in 1..(i - 1) : j \in 1..Len(p) /\ ~(i <= j)
    BY <1>0, <1>2
  <2>2. Parts(p[i]) \subseteq 1..(i - 1)
    BY <1>0, <1>2 DEF IsPayload
  <2>3. \A j \in 1..(i - 1) : j \notin Left
    <3> HIDE DEF Left
    <3> QED BY <1>1, <2>1
  <2> HIDE DEF Fine
  <2> QED BY <2>1, <2>2, <2>3
<1>4. PICK o \in out[i] : Failed(o) /\ o \notin E
  OBVIOUS
<1> HIDE DEF Left, Fine
<1>5. CASE p[i][1] = "string"
  <2>1. o = LeafValue(p[i][2], b)
    BY <1>2, <1>4, <1>5, StringRendered
  <2>2. p[i][2] \in Leaves(p)
    BY <1>0, <1>2, <1>5 DEF Leaves
  <2> QED BY <1>4, <2>1, <2>2
<1>6. CASE p[i][1] = "list"
  <2> DEFINE items == [k \in DOMAIN p[i][2] |-> out[p[i][2][k]]]
  <2>1. PICK f \in Choices(items) : o = List(f)
    BY <1>2, <1>4, <1>6, ListRendered
  <2>2. p[i][2] \in Seq(Nat)
    BY <1>2, <1>6, NodeKinds
  <2> DEFINE n == Len(p[i][2])
  <2>3. n \in Nat /\ DOMAIN p[i][2] = 1..n /\ DOMAIN items = 1..n
    BY <2>2
  <2>4. DOMAIN f = 1..n /\ \A k \in 1..n : f[k] \in items[k]
    <3> HIDE DEF items, n
    <3>1. f = [k \in DOMAIN items |-> f[k]] /\ \A k \in DOMAIN items : f[k] \in items[k]
      BY <2>1, ChoiceIs
    <3> QED BY <2>3, <3>1
  <2>5. \A k \in 1..n : items[k] = out[p[i][2][k]] /\ p[i][2][k] \in Parts(p[i])
    <3>1. \A k \in DOMAIN p[i][2] : p[i][2][k] \in Parts(p[i])
      BY <1>6 DEF Parts
    <3> HIDE DEF n, out
    <3> QED BY <2>3, <3>1
  <2> HIDE DEF items, n
  <2>6. CASE \E k \in 1..n : Failed(f[k])
    <3>1. PICK k \in 1..n : Failed(f[k]) /\ o = f[k]
      BY <2>1, <2>3, <2>4, <2>6, ListIs
    <3> QED BY <1>3, <1>4, <2>4, <2>5, <3>1 DEF Fine
  <2>7. CASE ~\E k \in 1..n : Failed(f[k])
    <3>1. o \in {Unencodable, <<"list", f>>}
      BY <2>1, <2>3, <2>4, <2>7, ListIs
    <3> QED BY <1>4, <3>1 DEF Failed, Unencodable
  <2> QED BY <2>6, <2>7
<1>7. CASE p[i][1] = "map"
  <2>1. PICK f : MapFrom(f, o, p[i], out, b)
    BY <1>2, <1>4, <1>7, MapRendered
  <2> DEFINE entries == {f[e] : e \in p[i][2]}
  <2>2. o \in Maps(entries) /\ \A e \in p[i][2] : f[e] \in transformEntry(e, out, b)
    BY <2>1 DEF MapFrom
  <2>3. o \in entries
    <3> HIDE DEF entries, out
    <3> QED BY <1>4, <2>2, MapsFail
  <2>4. PICK e \in p[i][2] : o = f[e]
    BY <2>3
  <2>5. e[1] \in KeyTexts(p)
    BY <1>0, <1>2, <1>7 DEF KeyTexts
  <2>6. e[2] \in Parts(p[i])
    BY <1>7 DEF Parts
  <2> HIDE DEF out
  <2>7. o \in transformEntry(e, out, b)
    BY <2>2, <2>4
  <2> DEFINE key == executeTemplate(e[1], b)
  <2>8. \/ Failed(key) /\ o = key
        \/ \E nv \in out[e[2]] : Failed(nv) /\ o = nv
        \/ \E nv \in out[e[2]] : o = <<"entry", key, nv>>
    BY <2>7, EntryIs
  <2>9. Failed(key) => key \in E
    BY <2>5
  <2>10. \A x, y : ~Failed(<<"entry", x, y>>)
    BY DEF Failed
  <2> HIDE DEF key
  <2> QED BY <1>3, <1>4, <2>6, <2>8, <2>9, <2>10 DEF Fine, out
<1>8. CASE p[i][1] \notin {"string", "list", "map"}
  <2>1. o = p[i]
    BY <1>2, <1>4, <1>8, OtherRendered
  <2>2. p[i][1] # "error"
    BY <1>2, NodeKinds
  <2> QED BY <1>4, <2>1, <2>2 DEF Failed
<1> QED BY <1>5, <1>6, <1>7, <1>8

(* What is made of values that JSON can express is one too. *)
LEMMA NothingRefused ==
  ASSUME NEW p, IsPayload(p), NEW b, Encodable(p)
  PROVE  \A i \in 1..Len(p) : Unencodable \notin transformPayload(p, b)[i]
<1> DEFINE out == transformPayload(p, b)
           Left == {i \in 1..Len(p) : Unencodable \in out[i]}
<1>0. Len(p) \in Nat /\ DOMAIN p = 1..Len(p) /\ p \in Seq(Node)
  BY DEF IsPayload
<1> SUFFICES ASSUME Left # {} PROVE FALSE
  OBVIOUS
<1>1. PICK i \in Left : \A k \in Left : i <= k
  <2>1. Left \subseteq Nat
    BY <1>0
  <2> HIDE DEF Left
  <2> QED BY <2>1, LeastNat
<1>2. i \in 1..Len(p) /\ p[i] \in Node /\ Unencodable \in out[i] /\ p[i] # Unencodable
  BY <1>0 DEF Encodable
<1>3. \A j \in Parts(p[i]) : Unencodable \notin out[j]
  <2>1. \A j \in 1..(i - 1) : j \in 1..Len(p) /\ ~(i <= j)
    BY <1>0, <1>2
  <2>2. Parts(p[i]) \subseteq 1..(i - 1)
    BY <1>0, <1>2 DEF IsPayload
  <2>3. \A j \in 1..(i - 1) : j \notin Left
    <3> HIDE DEF Left
    <3> QED BY <1>1, <2>1
  <2> HIDE DEF out
  <2> QED BY <2>1, <2>2, <2>3
<1>4. ~Failed(Unencodable) /\ Unencodable[1] = "unencodable"
  BY DEF Failed, Unencodable
<1> HIDE DEF Left
<1>5. CASE p[i][1] = "string"
  <2>1. Unencodable = LeafValue(p[i][2], b)
    BY <1>2, <1>5, StringRendered
  <2>2. LeafValue(p[i][2], b)[1] \in {"error", "text", "raw"}
    BY LeafValueIs
  <2> QED BY <1>4, <2>1, <2>2
<1>6. CASE p[i][1] = "list"
  <2> DEFINE items == [k \in DOMAIN p[i][2] |-> out[p[i][2][k]]]
  <2>1. PICK f \in Choices(items) : Unencodable = List(f)
    BY <1>2, <1>6, ListRendered
  <2>2. p[i][2] \in Seq(Nat)
    BY <1>2, <1>6, NodeKinds
  <2> DEFINE n == Len(p[i][2])
  <2>3. n \in Nat /\ DOMAIN p[i][2] = 1..n /\ DOMAIN items = 1..n
    BY <2>2
  <2>4. DOMAIN f = 1..n /\ \A k \in 1..n : f[k] \in items[k]
    <3> HIDE DEF items, n
    <3>1. f = [k \in DOMAIN items |-> f[k]] /\ \A k \in DOMAIN items : f[k] \in items[k]
      BY <2>1, ChoiceIs
    <3> QED BY <2>3, <3>1
  <2>5. \A k \in 1..n : items[k] = out[p[i][2][k]] /\ p[i][2][k] \in Parts(p[i])
    <3>1. \A k \in DOMAIN p[i][2] : p[i][2][k] \in Parts(p[i])
      BY <1>6 DEF Parts
    <3> HIDE DEF n, out
    <3> QED BY <2>3, <3>1
  <2> HIDE DEF items, n
  <2>6. ~(Unencodable = <<"list", f>>)
    BY DEF Unencodable
  <2>7. PICK k \in 1..n : f[k] = Unencodable
    BY <1>4, <2>1, <2>3, <2>4, <2>6, ListIs
  <2> QED BY <1>3, <2>4, <2>5, <2>7
<1>7. CASE p[i][1] = "map"
  <2>1. PICK f : MapFrom(f, Unencodable, p[i], out, b)
    BY <1>2, <1>7, MapRendered
  <2> DEFINE entries == {f[e] : e \in p[i][2]}
             keys == {x[2] : x \in entries}
  <2>2. Unencodable \in Maps(entries) /\ \A e \in p[i][2] : f[e] \in transformEntry(e, out, b)
    BY <2>1 DEF MapFrom
  <2>3. \A x \in entries : ~Failed(x)
    <3> HIDE DEF entries, out
    <3> QED BY <1>4, <2>2, MapsFail
  <2>4. \E k : <<"entry", k, Unencodable>> \in entries
    <3> HIDE DEF entries, out
    <3>1. PICK g : /\ \/ Unencodable = <<"map", {<<k, g[k]>> : k \in keys}>>
                      \/ \E k \in keys : g[k] = Unencodable
                   /\ \A k \in keys : <<"entry", k, g[k]>> \in entries
      BY <2>2, <2>3, MapsIs
    <3>2. \A S : ~(Unencodable = <<"map", S>>)
      BY DEF Unencodable
    <3>3. PICK k \in keys : g[k] = Unencodable
      <4> DEFINE S == {<<k, g[k]>> : k \in keys}
      <4>1. Unencodable = <<"map", S>> \/ \E k \in keys : g[k] = Unencodable
        BY <3>1
      <4> HIDE DEF S, keys
      <4> QED BY <3>2, <4>1
    <3> HIDE DEF keys
    <3>4. <<"entry", k, g[k]>> \in entries
      BY <3>1
    <3> QED BY <3>3, <3>4
  <2>5. PICK e \in p[i][2] : \E k : f[e] = <<"entry", k, Unencodable>>
    BY <2>4
  <2>6. e[2] \in Parts(p[i])
    BY <1>7 DEF Parts
  <2>7. f[e] \in transformEntry(e, out, b) /\ ~Failed(f[e])
    BY <2>2, <2>3
  <2> HIDE DEF out, entries
  <2>8. PICK nv \in out[e[2]] : f[e] = <<"entry", executeTemplate(e[1], b), nv>>
    BY <2>7, EntryIs
  <2>9. nv = Unencodable
    BY <2>5, <2>8
  <2> QED BY <1>3, <2>6, <2>8, <2>9
<1>8. CASE p[i][1] \notin {"string", "list", "map"}
  BY <1>2, <1>8, OtherRendered
<1> QED BY <1>5, <1>6, <1>7, <1>8

(* A node that cannot be rendered takes the node it is part of with it. *)
LEMMA WholeFails ==
  ASSUME NEW p, IsPayload(p), NEW b, NEW h \in 1..Len(p), NEW i \in Parts(p[h]),
         \A o \in transformPayload(p, b)[i] : Failed(o)
  PROVE  \A o \in transformPayload(p, b)[h] : Failed(o)
<1> DEFINE out == transformPayload(p, b)
<1> SUFFICES ASSUME NEW o \in out[h] PROVE Failed(o)
  OBVIOUS
<1>0. p[h] \in Node
  BY DEF IsPayload
<1>1. CASE p[h][1] = "list"
  <2> DEFINE items == [k \in DOMAIN p[h][2] |-> out[p[h][2][k]]]
  <2>1. PICK f \in Choices(items) : o = List(f)
    BY <1>1, ListRendered
  <2>2. p[h][2] \in Seq(Nat)
    BY <1>0, <1>1, NodeKinds
  <2> DEFINE n == Len(p[h][2])
  <2>3. n \in Nat /\ DOMAIN p[h][2] = 1..n /\ DOMAIN items = 1..n
    BY <2>2
  <2>4. DOMAIN f = 1..n /\ \A k \in 1..n : f[k] \in items[k]
    <3> HIDE DEF items, n
    <3>1. f = [k \in DOMAIN items |-> f[k]] /\ \A k \in DOMAIN items : f[k] \in items[k]
      BY <2>1, ChoiceIs
    <3> QED BY <2>3, <3>1
  <2>5. PICK k \in 1..n : p[h][2][k] = i
    <3>1. \E k \in DOMAIN p[h][2] : p[h][2][k] = i
      BY <1>1 DEF Parts
    <3> HIDE DEF n
    <3> QED BY <2>3, <3>1
  <2>6. items[k] = out[i]
    <3> HIDE DEF n, out
    <3> QED BY <2>3, <2>5
  <2>7. Failed(f[k])
    <3> HIDE DEF items, n
    <3> QED BY <2>4, <2>6
  <2> HIDE DEF items, n
  <2>8. \E m \in 1..n : Failed(f[m]) /\ o = f[m]
    BY <2>1, <2>3, <2>4, <2>7, ListIs
  <2> QED BY <2>8
<1>2. CASE p[h][1] = "map"
  <2>1. PICK f : MapFrom(f, o, p[h], out, b)
    BY <1>2, MapRendered
  <2> DEFINE entries == {f[e] : e \in p[h][2]}
  <2>2. o \in Maps(entries) /\ \A e \in p[h][2] : f[e] \in transformEntry(e, out, b)
    BY <2>1 DEF MapFrom
  <2>3. PICK e \in p[h][2] : e[2] = i
    BY <1>2 DEF Parts
  <2>4. f[e] \in entries
    OBVIOUS
  <2>5. Failed(f[e])
    <3>1. f[e] \in transformEntry(e, out, b)
      BY <2>2
    <3>2. \A nv \in out[e[2]] : Failed(nv)
      BY <2>3
    <3> HIDE DEF out, entries
    <3> QED BY <3>1, <3>2, EntryIs
  <2> HIDE DEF entries, out
  <2> QED BY <2>2, <2>4, <2>5, MapsFail
<1>3. CASE p[h][1] \notin {"list", "map"}
  BY <1>3 DEF Parts
<1> QED BY <1>1, <1>2, <1>3

(* A node with a text that does not parse cannot be rendered. *)
LEMMA NodeFails ==
  ASSUME NEW p, IsPayload(p), NEW b, NEW i \in 1..Len(p),
         \/ p[i][1] = "string" /\ ~p[i][2].parses
         \/ p[i][1] = "map" /\ \E e \in p[i][2] : ~e[1].parses
  PROVE  \A o \in transformPayload(p, b)[i] : Failed(o)
<1> DEFINE out == transformPayload(p, b)
<1> SUFFICES ASSUME NEW o \in out[i] PROVE Failed(o)
  OBVIOUS
<1>1. CASE p[i][1] = "string" /\ ~p[i][2].parses
  BY <1>1, StringRendered, LeafValueIs
<1>2. CASE p[i][1] = "map" /\ \E e \in p[i][2] : ~e[1].parses
  <2>1. PICK f : MapFrom(f, o, p[i], out, b)
    BY <1>2, MapRendered
  <2> DEFINE entries == {f[e] : e \in p[i][2]}
  <2>2. o \in Maps(entries) /\ \A e \in p[i][2] : f[e] \in transformEntry(e, out, b)
    BY <2>1 DEF MapFrom
  <2>3. PICK e \in p[i][2] : ~e[1].parses
    BY <1>2
  <2>4. f[e] \in entries
    OBVIOUS
  <2>5. Failed(f[e])
    <3>1. f[e] \in transformEntry(e, out, b)
      BY <2>2
    <3>2. Failed(executeTemplate(e[1], b))
      BY <2>3, ExecuteIs
    <3> HIDE DEF out, entries
    <3> QED BY <3>1, <3>2, EntryIs
  <2> HIDE DEF entries, out
  <2> QED BY <2>2, <2>4, <2>5, MapsFail
<1> QED BY <1>1, <1>2

(* One text that does not parse is enough: no payload with it is rendered. *)
LEMMA RootFails ==
  ASSUME NEW p, IsPayload(p), NEW b, NEW i \in 1..Len(p),
         \A o \in transformPayload(p, b)[i] : Failed(o)
  PROVE  \A o \in transformPayload(p, b)[Len(p)] : Failed(o)
<1> DEFINE Fails(h) == \A o \in transformPayload(p, b)[h] : Failed(o)
           Failing == {h \in 1..Len(p) : Fails(h)}
<1>0. Len(p) \in Nat /\ DOMAIN p = 1..Len(p)
  BY DEF IsPayload
<1>1. PICK m \in Failing : \A h \in Failing : h <= m
  <2>1. Failing \subseteq 1..Len(p) /\ Failing # {} /\ 1 \in Int /\ Len(p) \in Int
    BY <1>0
  <2> HIDE DEF Failing
  <2> QED BY <2>1, GreatestUpTo
<1>2. m \in 1..Len(p) /\ Fails(m)
  OBVIOUS
<1>3. CASE m = Len(p)
  BY <1>2, <1>3
<1>4. CASE m # Len(p)
  <2>1. m \in 1..(Len(p) - 1)
    <3>1. \A n \in Nat : \A k \in 1..n : k # n => k \in 1..(n - 1)
      OBVIOUS
    <3> HIDE DEF Fails, Failing
    <3> QED BY <1>0, <1>2, <1>4, <3>1
  <2>2. PICK h \in DOMAIN p : m \in Parts(p[h])
    BY <2>1 DEF IsPayload
  <2>3. m \in 1..(h - 1)
    BY <2>2 DEF IsPayload
  <2>4. h \in 1..Len(p) /\ ~(h <= m)
    BY <1>0, <2>2, <2>3
  <2>5. Fails(h)
    BY <1>2, <2>2, <2>4, WholeFails
  <2>6. h \in Failing
    <3> HIDE DEF Fails
    <3> QED BY <2>4, <2>5
  <2> HIDE DEF Failing
  <2> QED BY <1>1, <2>4, <2>6
<1> QED BY <1>3, <1>4

LEMMA RootAlone ==
  ASSUME NEW p, IsPayload(p), Parts(p[Len(p)]) = {}
  PROVE  Len(p) = 1
<1>0. Len(p) \in Nat /\ DOMAIN p = 1..Len(p) /\ Len(p) # 0
  BY DEF IsPayload
<1> SUFFICES ASSUME Len(p) # 1 PROVE FALSE
  OBVIOUS
<1> DEFINE i == Len(p) - 1
<1>1. i \in 1..(Len(p) - 1)
  BY <1>0
<1>2. PICK h \in DOMAIN p : i \in Parts(p[h])
  BY <1>1 DEF IsPayload
<1>3. i \in 1..(h - 1)
  BY <1>2 DEF IsPayload
<1>4. h = Len(p)
  BY <1>0, <1>2, <1>3
<1> QED BY <1>2, <1>4

(* A field of the trigger. *)
LEMMA LookupOne ==
  ASSUME NEW value, NEW path \in Seq(STRING), Len(path) = 1
  PROVE  Lookup(value, path) =
           IF Field(value, path[1]) = Missing THEN Null ELSE Field(value, path[1])
<1> DEFINE T(at) == at = [i \in 0..Len(path) |->
                            IF i = 0 THEN value ELSE Field(at[i - 1], path[i])]
           f == [i \in 0..1 |-> IF i = 0 THEN value ELSE Field(value, path[1])]
           g == CHOOSE at : T(at)
<1>1. T(f)
  <2>1. \A i \in 0..1 : i = 0 \/ i = 1
    OBVIOUS
  <2>2. f[0] = value
    OBVIOUS
  <2>3. \A i \in 0..1 : f[i] = IF i = 0 THEN value ELSE Field(f[i - 1], path[i])
    BY <2>1, <2>2
  <2> DEFINE Q(i) == IF i = 0 THEN value ELSE Field(f[i - 1], path[i])
  <2>4. f = [i \in 0..1 |-> f[i]]
    OBVIOUS
  <2>5. \A i \in 0..1 : f[i] = Q(i)
    BY <2>3
  <2>6. f = [i \in 0..1 |-> Q(i)]
    <3> HIDE DEF f, Q
    <3> QED BY <2>4, <2>5
  <2> QED BY <2>6
<1>2. T(g)
  <2> HIDE DEF T, f
  <2> QED BY Zenon, <1>1
<1>3. Lookup(value, path) = IF g[1] = Missing THEN Null ELSE g[1]
  BY DEF Lookup
<1> HIDE DEF g
<1>4. g[0] = value /\ g[1] = Field(g[0], path[1])
  BY <1>2
<1> QED BY <1>3, <1>4

LEMMA PlainExecutes ==
  ASSUME NEW t \in PayloadText, t.parses, Len(t.path) = 1,
         NEW b, IsBody(b), b[1] = "json" => b[2][1] \in {"object", "null"}
  PROVE  /\ ~Failed(executeTemplate(t, b))
         /\ t.opens # 0 /\ t.helper = "json" => executeTemplate(t, b)[2][1] = "json"
<1> DEFINE c == buildTemplateContext(b)
           value == Lookup(c, t.path)
<1>1. t.path \in Seq(STRING)
  BY DEF PayloadText
<1>2. /\ c[1] = "object"
      /\ \A name \in DOMAIN c[2] : c[2][name][1] \in {"null", "scalar", "object"}
  <2>1. CASE Unmarshal(b) = Null
    <3>1. c = <<"object", [x \in {} |-> Null]>>
      BY <2>1 DEF buildTemplateContext
    <3> HIDE DEF c
    <3> QED BY <3>1
  <2>2. CASE Unmarshal(b) # Null
    <3>1. b[1] = "json" /\ c = b[2] /\ b[2] # Null
      BY <2>2 DEF buildTemplateContext, Unmarshal
    <3> HIDE DEF c
    <3> QED BY <3>1 DEF IsBody
  <2> QED BY <2>1, <2>2
<1>3. value = IF Field(c, t.path[1]) = Missing THEN Null ELSE Field(c, t.path[1])
  BY <1>1, LookupOne
<1> HIDE DEF c
<1>4. ~Failed(value)
  <2>0. c # Missing
    BY <1>2 DEF Missing
  <2>1. CASE t.path[1] \in DOMAIN c[2]
    BY <1>2, <1>3, <2>0, <2>1 DEF Field, Failed, Null
  <2>2. CASE t.path[1] \notin DOMAIN c[2]
    BY <1>2, <1>3, <2>0, <2>2 DEF Field, Failed, Null
  <2> QED BY <2>1, <2>2
<1>5. executeTemplate(t, b) = IF t.opens = 0 THEN <<"text", <<"lit", t.lit>>>>
                              ELSE Printed(value, t.helper)
  BY <1>4 DEF executeTemplate, c
<1> HIDE DEF value
<1> QED BY <1>5 DEF Printed, Failed

LEMMA PlainLeaf ==
  ASSUME NEW t \in PayloadText, t.parses, Len(t.path) = 1, t.typed => t.helper = "json",
         NEW b, IsBody(b), b[1] = "json" => b[2][1] \in {"object", "null"}
  PROVE  ~Failed(LeafValue(t, b))
<1> DEFINE out == executeTemplate(t, b)
<1>1. ~Failed(out) /\ (t.opens # 0 /\ t.helper = "json" => out[2][1] = "json")
  BY PlainExecutes
<1>2. LeafValue(t, b) = IF t.opens = 0 \/ Failed(out) \/ ~isTyped(t) THEN out
                        ELSE IF out[2][1] = "json" THEN <<"raw", out[2][2]>> ELSE Error("json")
  BY DEF LeafValue, renderLeaf, Leaf
<1> HIDE DEF out
<1> QED BY <1>1, <1>2 DEF isTyped, Failed

(* What can go wrong with a text that parses. *)
LEMMA ParsedErrors ==
  ASSUME NEW t, t.parses, NEW b
  PROVE  /\ Failed(executeTemplate(t, b)) => executeTemplate(t, b) = Error("execute")
         /\ Failed(LeafValue(t, b)) => LeafValue(t, b) \in {Error("execute"), Error("json")}
<1> DEFINE out == executeTemplate(t, b)
<1>1. Failed(out) => out = Error("execute")
  BY DEF executeTemplate, Printed, Failed
<1>2. LeafValue(t, b) = IF t.opens = 0 \/ Failed(out) \/ ~isTyped(t) THEN out
                        ELSE IF out[2][1] = "json" THEN <<"raw", out[2][2]>> ELSE Error("json")
  BY DEF LeafValue, renderLeaf, Leaf
<1> HIDE DEF out
<1> QED BY <1>1, <1>2 DEF Failed, out

LEMMA TextsTyped ==
  ASSUME NEW p, IsPayload(p), NEW t \in Leaves(p) \cup KeyTexts(p)
  PROVE  t \in PayloadText
<1>1. CASE t \in Leaves(p)
  <2>1. PICK i \in DOMAIN p : p[i][1] = "string" /\ t = p[i][2]
    BY <1>1 DEF Leaves
  <2>2. p[i] \in Node
    BY DEF IsPayload
  <2> QED BY <2>1, <2>2, NodeKinds
<1>2. CASE t \in KeyTexts(p)
  <2>1. PICK i \in DOMAIN p : p[i][1] = "map" /\ \E e \in p[i][2] : t = e[1]
    BY <1>2 DEF KeyTexts
  <2>2. p[i] \in Node
    BY DEF IsPayload
  <2>3. p[i][2] \subseteq PayloadText \X Nat
    BY <2>1, <2>2, NodeKinds
  <2> HIDE DEF PayloadText
  <2> QED BY <2>1, <2>3
<1> QED BY <1>1, <1>2

(* ValidateTemplates judges every payload, of any form and depth, rightly  *)
(* for every message: what it rejects is never sent, what it accepts meets *)
(* no parse error and, with plain references and values that JSON can      *)
(* express, always renders.  None of this is for want of an outcome:       *)
(* rendering always has one.                                               *)
THEOREM ValidationSound ==
  ASSUME IsPayload(payload), IsBody(body)
  PROVE  ValidationPredicts /\ Outcomes # {}
<1> DEFINE p == payload
           b == body
           out == transformPayload(p, b)
           root == p[Len(p)]
           texts == Leaves(p) \cup KeyTexts(p)
<1>0. Len(p) \in Nat /\ DOMAIN p = 1..Len(p) /\ Len(p) \in 1..Len(p) /\ root \in Node
  BY DEF IsPayload
<1>1. IsPayload(p) /\ IsBody(b)
  OBVIOUS
<1>2. Outcomes = CASE root[1] = "nil"    -> {<<"text", <<"lit", "{}">>>>}
                   [] root[1] = "string" -> {executeTemplate(root[2], b)}
                   [] OTHER -> {Marshal(o) : o \in out[Len(p)]}
  BY DEF Outcomes, RenderPayload
<1>3. PayloadAccepted <=> \A t \in texts : ~(t.opens > 0 /\ ~t.parses)
  BY DEF PayloadAccepted, ValidateTemplates, Unparsable
<1>4. \A t \in texts : t \in PayloadText
  BY <1>1, TextsTyped
<1>5. root[1] = "string" => root[2] \in Leaves(p)
  BY <1>0 DEF Leaves
<1>6. ASSUME PayloadAccepted PROVE ValidationPredicts
  <2>1. \A t \in texts : t.parses
    <3> SUFFICES ASSUME NEW t \in texts PROVE t.parses
      OBVIOUS
    <3>1. t.opens \in Nat /\ (t.opens = 0 => t.parses) /\ t.parses \in BOOLEAN
      BY <1>4 DEF PayloadText
    <3> QED BY <1>3, <1>6, <3>1
  <2>2. ASSUME NEW E,
               \A t \in Leaves(p) : Failed(LeafValue(t, b)) => LeafValue(t, b) \in E,
               \A t \in texts : Failed(executeTemplate(t, b)) => executeTemplate(t, b) \in E
        PROVE  \A o \in Outcomes : Failed(o) => o \in E \/ (o = Error("marshal") /\ ~Encodable(p))
    <3>1. \A o \in out[Len(p)] : Failed(o) => o \in E
      <4> HIDE DEF p, b
      <4> QED BY <1>0, <1>1, <2>2, ErrorsFrom
    <3>2. Encodable(p) => Unencodable \notin out[Len(p)]
      <4> HIDE DEF p, b
      <4> QED BY <1>0, <1>1, NothingRefused
    <3>3. \A o \in out[Len(p)] : Failed(Marshal(o)) =>
            Marshal(o) \in E \/ (Marshal(o) = Error("marshal") /\ ~Encodable(p))
      <4> HIDE DEF p, b, out
      <4> QED BY <3>1, <3>2 DEF Marshal
    <3>4. ~Failed(<<"text", <<"lit", "{}">>>>)
      BY DEF Failed
    <3>5. root[1] = "string" => (Failed(executeTemplate(root[2], b)) => executeTemplate(root[2], b) \in E)
      BY <1>5, <2>2
    <3> HIDE DEF out, root, b, p
    <3> QED BY <1>2, <3>3, <3>4, <3>5
  <2>3. Error("parse") \notin Outcomes
    <3> DEFINE E == {Error("execute"), Error("json")}
    <3>1. \A o \in Outcomes : Failed(o) => o \in E \/ o = Error("marshal")
      <4>1. \A t \in texts : Failed(executeTemplate(t, b)) => executeTemplate(t, b) \in E
        BY <2>1, ParsedErrors
      <4>2. \A t \in Leaves(p) : Failed(LeafValue(t, b)) => LeafValue(t, b) \in E
        BY <2>1, ParsedErrors
      <4> HIDE DEF E
      <4> QED BY <2>2, <4>1, <4>2
    <3>2. Failed(Error("parse")) /\ Error("parse") \notin E /\ Error("parse") # Error("marshal")
      BY DEF Failed, Error
    <3> HIDE DEF E
    <3> QED BY <3>1, <3>2
  <2>4. PlainReferences /\ Encodable(p) => \A o \in Outcomes : ~Failed(o)
    <3> SUFFICES ASSUME PlainReferences, Encodable(p) PROVE \A o \in Outcomes : ~Failed(o)
      OBVIOUS
    <3>1. /\ \A t \in texts : Len(t.path) = 1 /\ (t.typed => t.helper = "json")
          /\ b[1] = "json" => b[2][1] \in {"object", "null"}
      BY DEF PlainReferences
    <3>2. \A t \in texts : ~Failed(executeTemplate(t, b))
      BY <1>1, <1>4, <2>1, <3>1, PlainExecutes
    <3>3. \A t \in Leaves(p) : ~Failed(LeafValue(t, b))
      BY <1>1, <1>4, <2>1, <3>1, PlainLeaf
    <3>4. \A o \in Outcomes : Failed(o) => o \in {}
      <4> DEFINE E == {}
      <4>1. \A t \in texts : Failed(executeTemplate(t, b)) => executeTemplate(t, b) \in E
        BY <3>2
      <4>2. \A t \in Leaves(p) : Failed(LeafValue(t, b)) => LeafValue(t, b) \in E
        BY <3>3
      <4>3. \A o \in Outcomes : Failed(o) => o \in E
        <5> HIDE DEF E
        <5> QED BY <2>2, <4>1, <4>2
      <4> QED BY <4>3
    <3> QED BY <3>4
  <2> QED BY <1>6, <2>3, <2>4 DEF ValidationPredicts
<1>7. ASSUME ~PayloadAccepted PROVE ValidationPredicts
  <2>1. PICK t \in texts : t.opens > 0 /\ ~t.parses
    BY <1>3, <1>7
  <2>2. PICK i \in 1..Len(p) : \/ p[i][1] = "string" /\ t = p[i][2]
                               \/ p[i][1] = "map" /\ \E e \in p[i][2] : t = e[1]
    BY <1>0 DEF Leaves, KeyTexts
  <2>3. \A o \in out[Len(p)] : Failed(o)
    <3>1. \A o \in out[i] : Failed(o)
      <4> HIDE DEF p, b, texts
      <4> QED BY <1>1, <2>1, <2>2, NodeFails
    <3> HIDE DEF p, b, texts
    <3> QED BY <1>1, <3>1, RootFails
  <2>4. root[1] \in {"nil", "string"} => i = Len(p)
    <3>1. root[1] \in {"nil", "string"} => Parts(root) = {}
      BY DEF Parts
    <3>2. Parts(root) = {} => Len(p) = 1
      <4> HIDE DEF p
      <4> QED BY <1>1, RootAlone
    <3>3. Len(p) = 1 => i = Len(p)
      <4> HIDE DEF p
      <4> QED BY <1>0
    <3> HIDE DEF p, root
    <3> QED BY <3>1, <3>2, <3>3
  <2>5. root[1] # "nil"
    BY <2>2, <2>4
  <2>6. \A o \in out[Len(p)] : Failed(Marshal(o))
    <3> HIDE DEF out, p
    <3> QED BY <2>3 DEF Marshal, Failed, Error
  <2>7. root[1] = "string" => Failed(executeTemplate(root[2], b))
    <3>1. root[1] = "string" => root[2] = t
      BY <2>2, <2>4
    <3> QED BY <2>1, <3>1, ExecuteIs
  <2>8. \A o \in Outcomes : Failed(o)
    <3> HIDE DEF root, out, b, p
    <3> QED BY <1>2, <2>5, <2>6, <2>7
  <2> QED BY <1>7, <2>8 DEF ValidationPredicts
<1>8. Outcomes # {}
  <2>1. out[Len(p)] # {}
    <3> HIDE DEF p, b
    <3> QED BY <1>0, <1>1, RenderingTotal
  <2> HIDE DEF root, out, b, p
  <2> QED BY <1>2, <2>1
<1> QED BY <1>6, <1>7, <1>8
=============================================================================
