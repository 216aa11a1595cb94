----------------------------- MODULE MCSpyCursor -----------------------------
(* A small instance of SpyCursor for TLC: one client follows all traffic,  *)
(* the other the published messages with a raw-bytes header "tag".         *)
EXTENDS SpyCursor, TLC

MCTag(type) == [tag |-> [type |-> type, text |-> "x"]]

MCMessage(dir, rule, headers) ==
  [direction |-> dir, queue |-> "", exchange |-> "", routing_key |-> "rk",
   rule |-> rule, headers |-> headers, body |-> [id |-> "1"]]

MCMessages ==
  {MCMessage("", "", MCTag("string")),
   MCMessage(DirectionPublished, "r", MCTag("bytes"))}

MCPollQuery ==
  [c \in Watchers |->
     IF c = "all" THEN EmptyQuery
     ELSE [EmptyQuery EXCEPT
             !.direction = DirectionPublished,
             !.header = <<[name |-> "tag", want |-> {}],
                          [name |-> "tag", want |-> {"x"}]>>,
             !.body = <<[path |-> "id", want |-> {"1"}]>>]]
=============================================================================
