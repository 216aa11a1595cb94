------------------------------ MODULE MCConfig -------------------------------
(* Configuration files in two families: one rule against every short       *)
(* binding pattern, routing key and exchange type, and variations of the   *)
(* settings and names of a small file.                                     *)
EXTENDS Config

MCRule(name, queue, exchange, key) ==
  [name |-> name, queue |-> queue, routing_key |-> Empty, filters |-> <<>>,
   exchange |-> exchange, key |-> key, delay |-> 0]

MCEmptyFile ==
  [url |-> "", port |-> 0, ring |-> 0, level |-> "", format |-> "",
   exchanges |-> <<>>, queues |-> <<>>, spy |-> <<>>, rules |-> <<>>]

MCSeqs(words, n) == UNION {[1..k -> words] : k \in 0..n}
MCKeys     == MCSeqs({"a", "b"}, 3)
MCPatterns == MCSeqs({"a", "b", "*", "#"}, 3)
MCBinding(exchange, key) == [exchange |-> exchange, key |-> key]

(* Queue q is bound twice to exchange x and r is bound to y; the rule      *)
(* listens on q or on a queue that is not declared.                        *)
MCRouting(patterns, keys, types, queues, exchanges) ==
  {[MCEmptyFile EXCEPT
      !.exchanges = <<[name |-> <<"x">>, type |-> t], [name |-> <<"y">>, type |-> "fanout"]>>,
      !.queues = <<[name |-> <<"q">>, bindings |-> <<MCBinding(<<"x">>, <<"b">>), MCBinding(<<"x">>, p)>>],
                   [name |-> <<"a">>, bindings |-> <<MCBinding(<<"y">>, p), MCBinding(<<"z">>, p)>>]>>,
      !.rules = <<MCRule(<<"r">>, listen, to, k)>>] :
   p \in patterns, k \in keys, t \in types, listen \in queues, to \in exchanges}

MCRules ==
  {<<>>, <<MCRule(<<" ">>, <<"q">>, <<"x">>, Empty)>>,
   <<MCRule(<<"r">>, Empty, <<"x">>, Empty)>>,
   <<MCRule(<<"r">>, <<"q">>, Empty, Empty)>>,
   <<[MCRule(<<"r">>, <<"q">>, <<"amq", "topic">>, Empty) EXCEPT !.filters = <<<<" ">>>>]>>,
   <<[MCRule(<<"r">>, <<"q">>, <<"amq", "topic">>, Empty) EXCEPT !.delay = -1]>>,
   <<MCRule(<<"r">>, <<"q">>, <<"x">>, Empty), MCRule(<<"r">>, <<"q">>, <<"x">>, Empty)>>}

MCSettings ==
  {[MCEmptyFile EXCEPT !.url = u, !.port = p, !.ring = n, !.level = l,
                       !.format = f, !.spy = s, !.rules = r, !.exchanges = x] :
   u \in {"", "amqps", "http"}, p \in {-1, 0, 65536}, n \in {-1, 2},
   l \in {"", "WARNING", "loud"}, f \in {"", "json", "xml"},
   s \in {<<>>, <<<<"q">>>>, <<<<" ">>>>}, r \in MCRules,
   x \in {<<>>, <<[name |-> <<"x">>, type |-> "x-delayed"]>>}}

MCFold(s) ==
  IF s = "WARNING" THEN "warning" ELSE IF s = " error" THEN "error" ELSE s

MCNoFlags == [url |-> "", port |-> 0, level |-> "", format |-> ""]
MCCmdLines == {MCNoFlags, [url |-> "amqp", port |-> 9000, level |-> " error", format |-> "json"]}

MCTypes == {"", "topic", "fanout"}
MCQueues == {<<"q">>, <<"a">>}
MCExchanges == {<<"x">>, <<"y">>, <<"z">>, Empty}

MCFiles ==
  MCSettings \cup MCRouting(MCPatterns, MCKeys \ {Empty}, MCTypes, {<<"q">>}, {<<"x">>})
    \cup MCRouting({Empty, <<"a">>, <<"#">>}, {Empty, <<"a">>, <<"b">>, <<"q">>}, MCTypes, MCQueues, MCExchanges)
=============================================================================
