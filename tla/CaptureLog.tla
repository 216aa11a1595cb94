------------------------------ MODULE CaptureLog -----------------------------
(***************************************************************************)
(* What the spy promises its readers, without ring buffer, filters or      *)
(* numbering: a log of everything captured, of which the part after base   *)
(* is still available, and readers that each fetch, in order and once,     *)
(* what interests them in the part they have not passed yet.               *)
(***************************************************************************)
EXTENDS Integers, Sequences

CONSTANTS
  Capacity, \* how many captured events stay available
  Events,   \* what can be captured
  Readers,
  Interest  \* Interest[r]: the events reader r asks for

VARIABLES
  log,  \* everything captured, oldest first
  base, \* the events log[1..base] are no longer available
  got   \* got[r]: the positions of log that r was given, in the order given

logVars == <<log, base, got>>

Init ==
  /\ log = <<>>
  /\ base = 0
  /\ got = [r \in Readers |-> <<>>]

Capture(e) ==
  /\ log' = Append(log, e)
  /\ base' = IF Len(log') - base > Capacity THEN base + 1 ELSE base
  /\ UNCHANGED got

Flush ==
  /\ base' = Len(log)
  /\ UNCHANGED <<log, got>>

Cursor(r) == IF got[r] = <<>> THEN 0 ELSE got[r][Len(got[r])]

(* All of a set of numbers, each once and in ascending order. *)
Lists(s, set) ==
  /\ \A i, j \in DOMAIN s : i < j => s[i] < s[j]
  /\ \A x \in set : \E i \in DOMAIN s : s[i] = x

Due(r) == {i \in 1..Len(log) : i > base /\ i > Cursor(r) /\ log[i] \in Interest[r]}

Fetch(r) ==
  /\ \E n \in 0..Len(log) : \E new \in [1..n -> Due(r)] :
       /\ Lists(new, Due(r))
       /\ got' = [got EXCEPT ![r] = @ \o new]
  /\ UNCHANGED <<log, base>>

Next ==
  \/ \E e \in Events : Capture(e)
  \/ Flush
  \/ \E r \in Readers : Fetch(r)

Spec == Init /\ [][Next]_logVars
=============================================================================
