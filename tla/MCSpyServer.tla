----------------------------- MODULE MCSpyServer -----------------------------
(* Small instances of SpyServer for TLC. *)
EXTENDS SpyServer, TLC

MCMessage(dir, q) ==
  [direction |-> dir, queue |-> q, exchange |-> "", routing_key |-> "rk",
   rule |-> "", headers |-> <<>>, body |-> <<>>]

MCTwoMessages == {MCMessage("", "a"), MCMessage(DirectionReceived, "b")}

MCRequest(method, path) ==
  [method |-> method, path |-> path, query |-> EmptyQuery,
   wait_for |-> NoParam, timeout |-> NoParam]

MCGet == MCRequest("GET", "messages")

(* A wait for one message of queue "a". *)
MCWaitA ==
  [MCGet EXCEPT !.wait_for = Num(1), !.query.queue = "a"]

(* Every handler and every way to be refused, around one kind of wait. *)
MCRequests ==
  {MCWaitA,
   [MCGet EXCEPT !.query.since = Num(1)],
   [MCGet EXCEPT !.query.direction = "sideways"],
   [MCWaitA EXCEPT !.timeout = Malformed],
   MCRequest("PUT", "messages"), MCRequest("DELETE", "messages"),
   MCRequest("POST", "clear"), MCRequest("GET", "clear"),
   MCRequest("GET", "health"), MCRequest("GET", "rules"),
   MCRequest("POST", "rules"), MCRequest("POST", "reload"),
   MCRequest("GET", "reload")}
=============================================================================
