------------------------------ MODULE MCPayload ------------------------------
(* Payloads of every form to depth two, over texts of every kind, against  *)
(* bodies that are objects, other JSON, no JSON and nothing.               *)
EXTENDS Payload

MCLit(s) == [opens |-> 0, parses |-> TRUE, typed |-> FALSE, helper |-> "print",
             path |-> <<"a">>, lit |-> s]
MCRef(opens, typed, helper, path) ==
  [opens |-> opens, parses |-> TRUE, typed |-> typed, helper |-> helper,
   path |-> path, lit |-> ""]

MCLeaves ==
  {MCLit("id"), [MCRef(1, FALSE, "print", <<"a">>) EXCEPT !.parses = FALSE],
   MCRef(1, FALSE, "print", <<"a">>), MCRef(1, FALSE, "print", <<"b", "c">>),
   MCRef(1, TRUE, "json", <<"a">>), MCRef(1, TRUE, "json", <<"b">>),
   MCRef(2, TRUE, "json", <<"b">>), MCRef(1, TRUE, "suffix", <<"b">>)}

MCStrings == {<<"string", t>> : t \in MCLeaves}
MCKeyPairs == {tu \in MCLeaves \X MCLeaves : tu[1] # tu[2]}
MCPairs ==
  {<<v, w, <<"map", {<<k[1], 1>>, <<k[2], 2>>}>>>> :
     k \in MCKeyPairs, v, w \in MCStrings \cup {<<"other">>, Unencodable}}
MCLists == {<<v, w, <<"list", <<1, 2>>>>>> : v \in MCStrings \cup {Unencodable}, w \in MCStrings}
MCNested ==
  {l \o <<<<"other">>, <<"map", {<<k[1], 3>>, <<k[2], 4>>}>>>> :
     k \in MCKeyPairs, l \in MCLists}
    \cup {<<v, <<"map", {<<t, 1>>}>>, w, <<"list", <<2, 3>>>>>> :
             t \in MCLeaves, v, w \in MCStrings}

MCPayloads == {<<<<"nil">>>>} \cup {<<v>> : v \in MCStrings} \cup MCLists \cup MCPairs \cup MCNested

MCScalar == <<"scalar", "id">>
MCObject == <<"object", [a |-> MCScalar, b |-> <<"object", [c |-> MCScalar]>>]>>
MCBodies ==
  {<<"empty">>, <<"invalid">>, <<"json", Null>>, <<"json", MCScalar>>,
   <<"json", <<"object", [a |-> MCScalar]>>>>, <<"json", <<"object", [b |-> Null]>>>>,
   <<"json", MCObject>>, <<"json", <<"object", [b |-> MCScalar]>>>>}
=============================================================================
