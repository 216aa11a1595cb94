------------------------------ MODULE MCMatcher ------------------------------
(* Values on both sides of the points where printing changes. *)
EXTENDS Matcher

MCNumbers == {-1000000, -1, 0, 1, 999999, 1000000}
MCWords   == {"true", "TRUE", "false", "<nil>", "1"}

MCValues ==
  {[type |-> "nil", val |-> 0]}
  \cup [type : {"bool"}, val : BOOLEAN]
  \cup [type : {"int", "float64"}, val : MCNumbers]
  \cup {[type |-> "string", val |-> Word(w)] : w \in MCWords \ {"1"}}
  \cup {[type |-> "string", val |-> Dec(1)]}

MCLower(w) == IF w = "TRUE" THEN "true" ELSE w
=============================================================================
