------------------------------ MODULE MCEngine -------------------------------
(* Small instances of Engine for TLC.                                      *)
(* The first configuration has two rules on queue 1, the first delayed and *)
(* routed back into queue 1, the second with a payload that does not       *)
(* render; the second one has a rule on queue 2, spies on queue 1 and      *)
(* routes its response to queue 1.                                         *)
EXTENDS Engine, TLC

MCRule(q, delay, renders, routes) ==
  [queue |-> q, contents |-> {"order", "reply"}, delay |-> delay,
   renders |-> renders, routes |-> routes]

MCFirst  == [rules |-> <<MCRule(1, TRUE, TRUE, {1}), MCRule(1, FALSE, FALSE, {})>>,
             spy |-> {}]
MCSecond == [rules |-> <<MCRule(2, FALSE, TRUE, {1})>>, spy |-> {0, 1}]

(* One rule whose responses come back to the queue it listens on. *)
MCEcho == [rules |-> <<MCRule(1, TRUE, TRUE, {1})>>, spy |-> {}]

MCConfigs == {MCFirst, MCSecond}
MCEchoConfigs == {MCEcho}
MCSymmetry == Permutations(Callers)
=============================================================================
