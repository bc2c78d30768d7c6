--------------------------- MODULE CircuitBreaker ---------------------------
(***************************************************************************)
(* The breaker of one upstream account (internal/provider/circuit.go): a   *)
(* record and the two operations on it, each atomic under its mutex.       *)
(***************************************************************************)
EXTENDS Integers

CONSTANTS
  Threshold,   \* CIRCUIT_FAILURE_THRESHOLD
  Cooldown     \* CIRCUIT_COOLDOWN

ASSUME CircuitAssumption == Threshold \in Nat \ {0} /\ Cooldown \in Nat \ {0}

Never == -1    \* the zero time of openedAt

Breakers(Times) ==
  [state : {"closed", "open", "half_open"}, failures : Nat, openedAt : Times \cup {Never}]

NewBreaker == [state |-> "closed", failures |-> 0, openedAt |-> Never]

Resting(b, now) == b.state = "open" /\ now - b.openedAt < Cooldown

AllowUntouched(b, now) == b

(* Allow: what asking leaves behind; the answer is ~Resting(b, now).       *)
Allow(b, now) ==
  IF b.state = "open" /\ ~Resting(b, now) THEN [b EXCEPT !.state = "half_open"] ELSE b

(* A broken variant: a success leaves the count of failures. *)
RecordUncleared(b, success, now) ==
  IF success THEN [b EXCEPT !.state = "closed", !.openedAt = Never]
  ELSE LET failed == [b EXCEPT !.failures = @ + 1]
       IN IF b.state = "half_open" \/ failed.failures >= Threshold
          THEN [failed EXCEPT !.state = "open", !.openedAt = now]
          ELSE failed

(* Record: a success closes the breaker from any state; a failure opens it *)
(* when it is one too many, or the first one since half open.              *)
Record(b, success, now) ==
  IF success THEN NewBreaker
  ELSE LET failed == [b EXCEPT !.failures = @ + 1]
       IN IF b.state = "half_open" \/ failed.failures >= Threshold
          THEN [failed EXCEPT !.state = "open", !.openedAt = now]
          ELSE failed

=============================================================================
