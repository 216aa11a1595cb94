----------------------------- MODULE MCLifecycle -----------------------------
(* Small instances of Lifecycle: a file that is good, moved to another     *)
(* host and broker, invalid, or half-written.                              *)
EXTENDS Lifecycle

MCContent(reads, valid, url, host) ==
  [reads |-> reads, valid |-> valid, url |-> url, host |-> host, port |-> 1]

MCGood  == MCContent(TRUE, TRUE, "amqp://a", "")
MCMoved == MCContent(TRUE, TRUE, "amqp://b", "localhost")
MCInvalid == MCContent(TRUE, FALSE, "amqp://a", "")
MCBroken  == MCContent(FALSE, FALSE, "", "")

MCContents == {MCGood, MCMoved, MCInvalid, MCBroken}

MCNoFlags  == [url |-> "", port |-> 0]
MCPortFlag == [url |-> "", port |-> 2]
=============================================================================
