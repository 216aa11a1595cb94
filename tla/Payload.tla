------------------------------- MODULE Payload -------------------------------
(***************************************************************************)
(* pkg/engine/template.go: rendering the payload of a mock response, leaf  *)
(* by leaf, and the check of its templates when the configuration loads.   *)
(*                                                                         *)
(* A payload is a sequence of nodes, each behind its parts, the whole      *)
(* last: <<"nil">>, <<"string", t>>, <<"map", {<<t, node>>, ...}>>,        *)
(* <<"list", <<node, ...>>>>, <<"other">>, a number or truth value, or     *)
(* <<"unencodable">>, a value that JSON has no form for, as .nan and .inf  *)
(* are, where a node is named by its position.                             *)
(* A text t is [opens, parses, typed, helper, path, lit]: its number of    *)
(* "{{", does parseTemplate accept it, does typedJSONRegex match it (as in *)
(* module Template), what its action makes of the value it finds at path,  *)
(* and, where it has no action, the text itself.                           *)
(*                                                                         *)
(* Go walks a map in any order, so operators return sets of outcomes.      *)
(***************************************************************************)
EXTENDS Integers, Sequences, FiniteSets

VARIABLES
  payload, \* the payload of a rule
  body     \* a message body: <<"empty">>, <<"invalid">> or <<"json", value>>

Unencodable == <<"unencodable">>

(* What YAML decodes to; a text without actions always parses. *)
PayloadText ==
  {t \in [opens : Nat, parses : BOOLEAN, typed : BOOLEAN, helper : STRING,
          path : Seq(STRING), lit : STRING] : t.opens = 0 => t.parses}
Node ==
  {<<"nil">>, <<"other">>, Unencodable} \cup ({"string"} \X PayloadText)
    \cup ({"map"} \X SUBSET (PayloadText \X Nat)) \cup ({"list"} \X Seq(Nat))

Parts(v) ==
  CASE v[1] = "map"  -> {e[2] : e \in v[2]}
    [] v[1] = "list" -> {v[2][k] : k \in DOMAIN v[2]}
    [] OTHER -> {}

IsPayload(p) ==
  /\ p \in Seq(Node) /\ p # <<>>
  /\ \A i \in DOMAIN p : Parts(p[i]) \subseteq 1..(i - 1)
  /\ \A i \in 1..(Len(p) - 1) : \E whole \in DOMAIN p : i \in Parts(p[whole])

(* JSON values: <<"null">>, <<"scalar", string>>, <<"object", function>>. *)
Null == <<"null">>
IsBody(b) ==
  b[1] = "json" =>
    /\ b[2][1] = "null" => b[2] = Null
    /\ b[2][1] = "object" =>
         \A name \in DOMAIN b[2][2] : b[2][2][name][1] \in {"null", "scalar", "object"}

Error(kind) == <<"error", kind>>
Failed(outcome) == outcome[1] = "error"

-----------------------------------------------------------------------------
(* The data of the templates, and text/template on it.                     *)

Unmarshal(b) == IF b[1] = "json" THEN b[2] ELSE Null

(* What "trigger" stands for. *)
buildTemplateContext(b) ==
  IF Unmarshal(b) = Null THEN <<"object", [x \in {} |-> Null]>> ELSE Unmarshal(b)

(* External: a field of an object.  One it does not have is missing, and   *)
(* so are the fields of that; nothing else has fields, not even null.      *)
Missing == <<"missing">>
Field(value, name) ==
  IF value = Missing THEN Missing
  ELSE IF value[1] # "object" THEN Error("execute")
  ELSE IF name \in DOMAIN value[2] THEN value[2][name] ELSE Missing

(* External: the value at a path; what is missing counts as null. *)
Lookup(value, path) ==
  LET at[i \in 0..Len(path)] == IF i = 0 THEN value ELSE Field(at[i - 1], path[i])
  IN  IF at[Len(path)] = Missing THEN Null ELSE at[Len(path)]

(* External: what the action prints; a string comes out verbatim. *)
Printed(value, helper) ==
  IF helper = "print" /\ value[1] = "scalar" THEN <<"text", <<"lit", value[2]>>>>
  ELSE <<"text", <<helper, value>>>>

executeTemplate(t, b) ==
  IF ~t.parses THEN Error("parse")
  ELSE IF t.opens = 0 THEN <<"text", <<"lit", t.lit>>>>
  ELSE LET value == Lookup(buildTemplateContext(b), t.path)
       IN  IF Failed(value) THEN Error("execute") ELSE Printed(value, t.helper)

-----------------------------------------------------------------------------
(* RenderPayload.                                                          *)

isTyped(t) == t.opens = 1 /\ t.typed

(* The function that transformPayload applies to strings; raw are the      *)
(* texts that become JSON values.                                          *)
Leaf(t, b, raw) ==
  LET out == executeTemplate(t, b)
  IN  IF t.opens = 0 \/ Failed(out) \/ ~raw THEN out
      ELSE IF out[2][1] = "json" THEN <<"raw", out[2][2]>> ELSE Error("json")

(* Mutant: keys may become JSON values too. *)
renderLeafAnywhere(t, isKey, b) == Leaf(t, b, isTyped(t))

renderLeaf(t, isKey, b) == Leaf(t, b, ~isKey /\ isTyped(t))

(* All ways to choose an outcome for each part. *)
Choices(outcomes) ==
  {f \in [DOMAIN outcomes -> UNION {outcomes[i] : i \in DOMAIN outcomes}] :
     \A i \in DOMAIN outcomes : f[i] \in outcomes[i]}

(* A map or list whose values include one that JSON cannot express is no   *)
(* better than that value.                                                 *)
Holding(values, whole) == IF Unencodable \in values THEN Unencodable ELSE whole

(* The map that entries make, where those with the same key replace each   *)
(* other in any order; any error if there is one.                          *)
Maps(entries) ==
  LET errors == {e \in entries : Failed(e)}
      keys == {e[2] : e \in entries}
  IN  IF errors # {} THEN errors
      ELSE {Holding({f[k] : k \in keys}, <<"map", {<<k, f[k]>> : k \in keys}>>) :
              f \in {g \in [keys -> {e[3] : e \in entries}] :
                       \A k \in keys : <<"entry", k, g[k]>> \in entries}}

(* The list of the items, or the first error. *)
List(items) ==
  LET errors == {i \in DOMAIN items : Failed(items[i])}
  IN  IF errors = {} THEN Holding({items[i] : i \in DOMAIN items}, <<"list", items>>)
      ELSE items[CHOOSE i \in errors : \A j \in errors : i <= j]

(* A key that is not a string any more is lost: nk.(string) gives "". *)
LostKey == <<"text", <<"lit", "">>>>

transformEntry(e, out, b) ==
  LET nk == renderLeaf(e[1], TRUE, b)
      ks == IF nk[1] = "raw" THEN LostKey ELSE nk
  IN  IF Failed(nk) THEN {nk}
      ELSE {IF Failed(nv) THEN nv ELSE <<"entry", ks, nv>> : nv \in out[e[2]]}

(* One node, given the outcomes of its parts. *)
transformNode(v, out, b) ==
  CASE v[1] = "string" -> {renderLeaf(v[2], FALSE, b)}
    [] v[1] = "map"    -> UNION {Maps({f[e] : e \in v[2]}) :
                                   f \in Choices([e \in v[2] |-> transformEntry(e, out, b)])}
    [] v[1] = "list"   -> {List(f) : f \in Choices([k \in DOMAIN v[2] |-> out[v[2][k]]])}
    [] OTHER -> {v}

(* The outcomes of each node, parts first. *)
transformPayload(p, b) ==
  LET out[i \in DOMAIN p] == transformNode(p[i], [j \in Parts(p[i]) |-> out[j]], b)
  IN  out

(* json.Marshal. *)
Marshal(o) == IF o = Unencodable THEN Error("marshal") ELSE o

RenderPayload(p, b) ==
  LET whole == p[Len(p)]
  IN  CASE whole[1] = "nil"    -> {<<"text", <<"lit", "{}">>>>}
        [] whole[1] = "string" -> {executeTemplate(whole[2], b)}
        [] OTHER -> {Marshal(o) : o \in transformPayload(p, b)[Len(p)]}

-----------------------------------------------------------------------------
(* ValidateTemplates: the texts it complains of.                           *)

Leaves(p) == {p[i][2] : i \in {j \in DOMAIN p : p[j][1] = "string"}}
KeyTexts(p) == UNION {{e[1] : e \in p[i][2]} : i \in {j \in DOMAIN p : p[j][1] = "map"}}

Unparsable(texts) == {t \in texts : t.opens > 0 /\ ~t.parses}

(* Mutant: the keys of maps are not checked. *)
ValidateTemplatesLeaves(p) == Unparsable(Leaves(p))

ValidateTemplates(p) == Unparsable(Leaves(p) \cup KeyTexts(p))

-----------------------------------------------------------------------------
Outcomes == RenderPayload(payload, body)
PayloadAccepted == ValidateTemplates(payload) = {}

(* References to fields of the trigger, as text or through json, and a     *)
(* body that is an object, null, empty or no JSON at all.                  *)
PlainReferences ==
  /\ \A t \in Leaves(payload) \cup KeyTexts(payload) :
       Len(t.path) = 1 /\ (t.typed => t.helper = "json")
  /\ body[1] = "json" => body[2][1] \in {"object", "null"}

Encodable(p) == \A i \in DOMAIN p : p[i] # Unencodable

(* ValidateTemplates is right about every message to come: a payload it    *)
(* rejects is never sent, one it accepts never meets a parse error, and    *)
(* with plain references and values that JSON can express it renders,      *)
(* whether or not the body has the fields.                                 *)
ValidationPredicts ==
  IF PayloadAccepted
  THEN /\ Error("parse") \notin Outcomes
       /\ PlainReferences /\ Encodable(payload) => \A o \in Outcomes : ~Failed(o)
  ELSE \A o \in Outcomes : Failed(o)

KeysDistinct(p, b) ==
  \A i \in DOMAIN p : p[i][1] = "map" =>
    \A e, f \in p[i][2] : executeTemplate(e[1], b) = executeTemplate(f[1], b) => e = f

(* o is made of renderings of the parts of v, one for each and in their    *)
(* places, entries under the texts of their keys.                          *)
SameStructure(v, o, out, b) ==
  CASE v[1] = "map"    ->
         \E f \in Choices([e \in v[2] |-> out[e[2]]]) :
           /\ o = <<"map", {<<executeTemplate(e[1], b), f[e]>> : e \in v[2]}>>
           /\ \A e \in v[2] : ~Failed(f[e])
    [] v[1] = "list"   ->
         \E f \in Choices([k \in DOMAIN v[2] |-> out[v[2][k]]]) :
           o = <<"list", f>> /\ \A k \in DOMAIN v[2] : ~Failed(f[k])
    [] v[1] = "string" -> o[1] = IF isTyped(v[2]) THEN "raw" ELSE "text"
    [] OTHER -> o = v

(* The message decides on the values only: at every node, what is rendered *)
(* has the structure of its definition, strings are strings and only       *)
(* leaves of the json helper have another type.  What cannot be encoded is *)
(* never sent and left out.                                                *)
StructureKept ==
  LET out == transformPayload(payload, body)
  IN  KeysDistinct(payload, body) =>
        \A i \in DOMAIN payload : \A o \in out[i] :
          ~Failed(o) /\ o # Unencodable => SameStructure(payload[i], o, out, body)
=============================================================================
