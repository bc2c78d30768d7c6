---------------------------- MODULE DurableUsage ----------------------------
(***************************************************************************)
(* What the usage manager promises about a key's lifetime usage, with the  *)
(* flush, the connection and the two copies of the counters left out:      *)
(* every request counts at most once; a checkpoint saves some amount       *)
(* between what was saved and what is used, and never takes back; when the *)
(* process ends, usage falls back to exactly what was saved.               *)
(***************************************************************************)
EXTENDS Integers

CONSTANTS Keys, Requests, KeyOf, Charges, Cap

VARIABLES
  used,   \* key -> usage counted
  saved,  \* key -> usage that survives the process
  open    \* requests that may still be counted
vars == <<used, saved, open>>

Add(a, b) == IF a + b > Cap THEN Cap ELSE a + b

Init ==
  /\ used = [k \in Keys |-> 0]
  /\ saved = [k \in Keys |-> 0]
  /\ open = Requests

Count(r, amount) ==
  /\ r \in open
  /\ open' = open \ {r}
  /\ used' = [used EXCEPT ![KeyOf[r]] = Add(@, amount)]
  /\ UNCHANGED saved

Refuse(r) ==
  /\ r \in open
  /\ open' = open \ {r}
  /\ UNCHANGED <<used, saved>>

Save ==
  /\ saved' \in [Keys -> 0 .. Cap]
  /\ \A k \in Keys : saved[k] <= saved'[k] /\ saved'[k] <= used[k]
  /\ UNCHANGED <<used, open>>

Lose ==
  /\ used' = saved
  /\ open' \in SUBSET open
  /\ UNCHANGED saved

Next ==
  \/ Save \/ Lose
  \/ \E r \in Requests : Refuse(r)
  \/ \E r \in Requests, amount \in Charges : Count(r, amount)

Spec == Init /\ [][Next]_vars
=============================================================================
