------------------------------- MODULE Inputs --------------------------------
(***************************************************************************)
(* The parts of chitchat that compute and keep no state: configuration,    *)
(* templates, payloads, matching, timeouts.  Each action is a call with  *)
(* any of its inputs, which the variables of these modules hold until the  *)
(* call returns; between calls they have the values of an empty input.     *)
(***************************************************************************)
EXTENDS Config, Template, Payload, Matcher, Numbers

CONSTANTS
  Files, CmdLines,  \* decoded configuration files, and command lines
  Texts,            \* texts of templates
  Payloads, Bodies, \* payloads of rules, and bodies of messages
  Values,           \* values in bodies and in rules
  FloatRange        \* bound: numbers of seconds, to either side of 0

ASSUME InputsAssumption ==
  /\ Files \subseteq ConfigFile
  /\ \A p \in Payloads : IsPayload(p)
  /\ \A b \in Bodies : IsBody(b)

EmptyFile ==
  [url |-> "", port |-> 0, ring |-> 0, level |-> "", format |-> "",
   exchanges |-> <<>>, queues |-> <<>>, spy |-> <<>>, rules |-> <<>>]
NoFlags == [url |-> "", port |-> 0, level |-> "", format |-> ""]
Nil == [type |-> "nil", val |-> 0]

configIn  == <<file, flags>>
payloadIn == <<payload, body>>
matchIn   == <<actual, expected>>
inputs    == <<configIn, text, payloadIn, matchIn, param>>

NoInput ==
  <<<<EmptyFile, NoFlags>>, <<>>, <<<<<<"nil">>>>, <<"empty">>>>, <<Nil, Nil>>,
    <<"none">>>>

Params ==
  {<<"none">>, <<"junk">>, <<"NaN">>}
    \cup {<<"duration", d>> : d \in Ints}
    \cup {<<"seconds", x>> : x \in (-FloatRange)..FloatRange}

-----------------------------------------------------------------------------
LoadsConfig ==
  /\ file' \in Files /\ flags' \in CmdLines
  /\ UNCHANGED <<text, payloadIn, matchIn, param>>

ParsesTemplate ==
  /\ text' \in Texts
  /\ UNCHANGED <<configIn, payloadIn, matchIn, param>>

RendersPayload ==
  /\ payload' \in Payloads /\ body' \in Bodies
  /\ UNCHANGED <<configIn, text, matchIn, param>>

(* A JSON number is a float64, never an int. *)
Matches ==
  /\ actual' \in {v \in Values : v.type # "int"} /\ expected' \in Values
  /\ UNCHANGED <<configIn, text, payloadIn, param>>

ParsesTimeout ==
  /\ param' \in Params
  /\ UNCHANGED <<configIn, text, payloadIn, matchIn>>

Returns ==
  /\ file' = EmptyFile /\ flags' = NoFlags
  /\ text' = <<>>
  /\ payload' = <<<<"nil">>>> /\ body' = <<"empty">>
  /\ actual' = Nil /\ expected' = Nil
  /\ param' = <<"none">>

Init ==
  /\ file = EmptyFile /\ flags = NoFlags
  /\ text = <<>>
  /\ payload = <<<<"nil">>>> /\ body = <<"empty">>
  /\ actual = Nil /\ expected = Nil
  /\ param = <<"none">>

Next ==
  \/ /\ inputs = NoInput
     /\ \/ Matches \/ ParsesTimeout
        \/ LoadsConfig \/ RendersPayload \/ ParsesTemplate
  \/ inputs # NoInput /\ Returns

Spec == Init /\ [][Next]_inputs
=============================================================================
