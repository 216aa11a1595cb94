------------------------------ MODULE MCInputs -------------------------------
(* Every short text of a template, behind a prefix that brings the lexer   *)
(* into each of its states, next to the inputs of MCConfig, MCPayload and  *)
(* MCMatcher.                                                              *)
EXTENDS Inputs, MCConfig, MCPayload, MCMatcher

CONSTANT MCLength \* bound: tokens between the prefix and the last "}}"

MCTokens == {Open, Close, OpenComment, CloseComment, Quote, Tick, Apos, Esc, Space,
             ContextVar, BareVar}
MCPrefixes == {<<Open>>, <<Open, Quote>>, <<Open, Tick>>, <<Open, Apos>>,
               <<OpenComment>>, <<OpenComment, Close>>}
MCTexts == {p \o t \o <<Close>> :
              p \in MCPrefixes, t \in UNION {[1..n -> MCTokens] : n \in 1..MCLength}}
=============================================================================
