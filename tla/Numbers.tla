------------------------------- MODULE Numbers -------------------------------
(***************************************************************************)
(* The timeout of a long poll (parseTimeout in pkg/spy/server.go) at the   *)
(* edges of Go's integers.                                                 *)
(***************************************************************************)
EXTENDS Integers

CONSTANTS
  Width,       \* the width of time.Duration, in bits
  DefaultWait, \* defaultWaitTimeout
  MaxWait      \* maxWaitTimeout

VARIABLE
  param \* the timeout parameter: <<"none">>, <<"duration", d>>,
        \* <<"seconds", x>>, <<"NaN">> or <<"junk">>

IntMin == -(2 ^ (Width - 1))
IntMax == 2 ^ (Width - 1) - 1
Ints == IntMin..IntMax

(* The two settings are durations themselves. *)
ASSUME NumbersAssumption ==
  /\ Width \in Nat \ {0}
  /\ MaxWait \in 0..IntMax
  /\ DefaultWait \in 0..MaxWait

(* What the timeout parameter may be. *)
Param ==
  {<<"none">>, <<"junk">>, <<"NaN">>}
    \cup {<<"duration", d>> : d \in Ints} \cup {<<"seconds", x>> : x \in Int}

Rejected == IntMax + 1

-----------------------------------------------------------------------------
(* External: a float that does not fit becomes the least integer on amd64  *)
(* and the nearest one, or 0 for NaN, on arm64.                            *)
FloatToInt(p) ==
  IF p = <<"NaN">> THEN {IntMin, 0}
  ELSE IF p[2] \in Ints THEN {p[2]}
  ELSE {IntMin, IF p[2] < 0 THEN IntMin ELSE IntMax}

(* Mutant: negative durations are let through. *)
checkTimeoutUnsigned(d) == IF d > MaxWait THEN MaxWait ELSE d

checkTimeout(d) ==
  IF d < 0 THEN Rejected ELSE IF d > MaxWait THEN MaxWait ELSE d

(* Every timeout that may come out. *)
parseTimeout(p) ==
  CASE p = <<"none">> -> {DefaultWait}
    [] p = <<"junk">> -> {Rejected}
    [] p[1] = "duration" -> {checkTimeout(p[2])}
    [] OTHER -> {checkTimeout(d) : d \in FloatToInt(p)}

-----------------------------------------------------------------------------
(* Whatever the number and the processor, a timeout that is accepted lies  *)
(* between 0 and the maximum, and it is the one asked for if that fits: no *)
(* long poll lasts for years, nor does an overflow cut one short.          *)
TimeoutInRange ==
  \A d \in parseTimeout(param) :
    /\ d # Rejected => d \in 0..MaxWait
    /\ param[1] \in {"duration", "seconds"} /\ param[2] \in 0..MaxWait => d = param[2]
=============================================================================
