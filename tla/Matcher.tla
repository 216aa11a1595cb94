------------------------------- MODULE Matcher -------------------------------
(***************************************************************************)
(* pkg/engine/matcher.go: does a message trigger a rule?                   *)
(*                                                                         *)
(* A decoded value is [type, val]: "nil", "bool", "string", "int" (what    *)
(* YAML makes of an integer) and "float64" (what gjson makes of every JSON *)
(* number).  A text, the outcome of fmt's %v, is [form, val]: a number in  *)
(* decimal ("dec") or exponent ("exp") notation, or a word.  A string      *)
(* holds a text, so that "10" and 10 print alike.  A message body is the   *)
(* function from the paths that exist in it to their values.               *)
(***************************************************************************)
EXTENDS Integers, Sequences

CONSTANT Lower(_) \* the case folding of words

(* All that is needed of it: the two truth values are told apart. *)
ASSUME LowerAssumption == Lower("true") # Lower("false")

VARIABLES
  actual,  \* the value in the message, of any type but "int"
  expected \* the value the rule asks for

Dec(n)  == [form |-> "dec", val |-> n]
Exp(n)  == [form |-> "exp", val |-> n]
Word(w) == [form |-> "word", val |-> w]

Text == [form : {"dec", "exp"}, val : Int] \cup [form : {"word"}, val : STRING]
Value ==
  [type : {"nil"}, val : {0}] \cup [type : {"bool"}, val : BOOLEAN]
    \cup [type : {"int", "float64"}, val : Int] \cup [type : {"string"}, val : Text]

Abs(n) == IF n < 0 THEN -n ELSE n

(* fmt.Sprintf("%v", v).  A float64 prints in %g with the shortest         *)
(* precision, that is in exponent notation from 1e+06 on; an int never is. *)
Sprintv(v) ==
  CASE v.type = "nil"     -> Word("<nil>")
    [] v.type = "bool"    -> Word(IF v.val THEN "true" ELSE "false")
    [] v.type = "int"     -> Dec(v.val)
    [] v.type = "float64" -> IF Abs(v.val) < 1000000 THEN Dec(v.val) ELSE Exp(v.val)
    [] v.type = "string"  -> v.val

EqualFold(s, t) ==
  /\ s.form = t.form
  /\ IF s.form = "word" THEN Lower(s.val) = Lower(t.val) ELSE s.val = t.val

(* Mutant: nil is compared by what it prints. *)
compareValuesByText(a, e) == EqualFold(Sprintv(a), Sprintv(e))

(* DeepEqual, and equality of the printed forms, up to case. *)
compareValues(a, e) ==
  IF a.type = "nil" \/ e.type = "nil" THEN a.type = e.type
  ELSE EqualFold(Sprintv(a), Sprintv(e))

evalJSONPathRule(body, rule) ==
  /\ rule.filter \in DOMAIN body
  /\ compareValues(body[rule.filter], rule.equals)

MatchesRule(rule, msg) ==
  /\ rule.queue \in {"", msg.queue}
  /\ rule.routing_key \in {"", msg.routing_key}
  /\ \A i \in DOMAIN rule.jsonpath_rules :
        evalJSONPathRule(msg.body, rule.jsonpath_rules[i])

-----------------------------------------------------------------------------
(* A rule of one condition, and a message that carries the actual value.   *)
TheRule ==
  [queue |-> "q", routing_key |-> "",
   jsonpath_rules |-> <<[filter |-> "path", equals |-> expected]>>]
TheMessage == [queue |-> "q", routing_key |-> "rk", body |-> [path |-> actual]]

IsNumber(v) == v.type \in {"int", "float64"}

(* The textual comparison is sound: a rule never fires on a value that is  *)
(* a different number, a different truth value, or null where the rule     *)
(* asks for something (and the other way round).                           *)
NoFalseMatch ==
  MatchesRule(TheRule, TheMessage) =>
    /\ IsNumber(actual) /\ IsNumber(expected) => actual.val = expected.val
    /\ actual.type = "bool" /\ expected.type = "bool" => actual.val = expected.val
    /\ actual.type = "nil" <=> expected.type = "nil"
    /\ IsNumber(actual) => expected.type # "bool"

(* "handles number conversions e.g. int vs float64": a rule that asks for  *)
(* a number fires on a message that holds this number.                     *)
NumbersConverted ==
  IsNumber(actual) /\ IsNumber(expected) /\ actual.val = expected.val
    => MatchesRule(TheRule, TheMessage)
=============================================================================
