----------------------------- MODULE RequestLog -----------------------------
(***************************************************************************)
(* What the telemetry promises of the request log, with the channel, the   *)
(* batch, the places of the writer and its connection left out: entries    *)
(* wait in the order they were handed over, one is refused only if the     *)
(* queue's worth of others wait, at most a batch at a time is logged or    *)
(* lost as a whole and from the front, and what is lost is counted. A      *)
(* report is answered when nothing waits of what did when its request was  *)
(* taken, and is told that it failed exactly if a batch was lost since.    *)
(***************************************************************************)
EXTENDS Integers, Sequences, Functions

CONSTANTS MaxEntries, Callers, QueueSize, BatchSize

VARIABLES
  sent,      \* entries handed over so far
  waiting,   \* those neither logged nor lost, in their order
  logged,
  dropped,   \* how many were lost
  report,    \* caller -> out, waiting, accepted, spoiled, ok, failed, cancelled, read
  owed       \* caller -> what waited when its request was taken
vars == <<sent, waiting, logged, dropped, report, owed>>

Init ==
  /\ sent = 0 /\ waiting = <<>> /\ logged = {} /\ dropped = 0
  /\ report = [c \in Callers |-> "out"] /\ owed = [c \in Callers |-> {}]

HandOver ==
  /\ sent < MaxEntries /\ sent' = sent + 1
  /\ Len(waiting) < QueueSize + BatchSize /\ waiting' = Append(waiting, sent')
  /\ UNCHANGED <<logged, dropped, report, owed>>

Refuse ==
  /\ sent < MaxEntries /\ sent' = sent + 1
  /\ Len(waiting) >= QueueSize /\ dropped' = dropped + 1
  /\ UNCHANGED <<waiting, logged, report, owed>>

Write(n) ==
  /\ logged' = logged \cup {waiting[i] : i \in 1 .. n}
  /\ waiting' = SubSeq(waiting, n + 1, Len(waiting))
  /\ UNCHANGED <<sent, dropped, report, owed>>

Lose(n) ==
  /\ dropped' = dropped + n
  /\ waiting' = SubSeq(waiting, n + 1, Len(waiting))
  /\ report' = [c \in Callers |-> IF report[c] = "accepted" THEN "spoiled" ELSE report[c]]
  /\ UNCHANGED <<sent, logged, owed>>

Accept(c) ==
  /\ report[c] = "waiting"
  /\ report' = [report EXCEPT ![c] = "accepted"]
  /\ owed' = [owed EXCEPT ![c] = Range(waiting)]
  /\ UNCHANGED <<sent, waiting, logged, dropped>>

Answer(c) ==
  /\ report[c] \in {"accepted", "spoiled"} /\ owed[c] \cap Range(waiting) = {}
  /\ report' = [report EXCEPT ![c] = IF @ = "accepted" THEN "ok" ELSE "failed"]
  /\ UNCHANGED <<sent, waiting, logged, dropped, owed>>

Becomes(c, from, to) ==
  /\ report[c] \in from
  /\ report' = [report EXCEPT ![c] = to]
  /\ UNCHANGED <<sent, waiting, logged, dropped, owed>>

Call(c) == Becomes(c, {"out"}, "waiting")
Cancel(c) == Becomes(c, {"waiting", "accepted", "spoiled"}, "cancelled")
Query(c) == Becomes(c, {"ok"}, "read")

Next ==
  \/ HandOver \/ Refuse
  \/ \E n \in 1 .. Len(waiting) : n <= BatchSize /\ (Write(n) \/ Lose(n))
  \/ \E c \in Callers : Accept(c) \/ Answer(c) \/ Call(c) \/ Cancel(c) \/ Query(c)

Spec == Init /\ [][Next]_vars
=============================================================================
