----------------------------- MODULE MCChitchat ------------------------------
(* A small instance of Chitchat for TLC: one rule whose responses come back *)
(* to the queue it listens on, and clients that wait for a response.       *)
EXTENDS Chitchat

F == INSTANCE SpyFilter

MCConfigs ==
  {[rules |-> <<[queue |-> 1, contents |-> {"order"}, delay |-> TRUE,
                 renders |-> TRUE, routes |-> {1}]>>,
    spy |-> {}]}

MCGet ==
  [method |-> "GET", path |-> "messages", query |-> F!EmptyQuery,
   wait_for |-> F!NoParam, timeout |-> F!NoParam]

MCWaitFor(id) ==
  [MCGet EXCEPT !.wait_for = F!Num(1), !.query.direction = "published",
                !.query.body = <<[path |-> "id", want |-> {id}]>>]

(* Two messages of any kind, reported as the latest one. *)
MCWaitTwo == [MCGet EXCEPT !.wait_for = F!Num(2), !.query.limit = F!Num(1)]

MCRequests == {MCWaitFor(id) : id \in 1..MaxMsgs} \cup
              {MCWaitTwo, [MCGet EXCEPT !.method = "DELETE"]}
=============================================================================
