--------------------------- MODULE MCUsageManager ---------------------------
(* Small instances of UsageManager for TLC. *)
EXTENDS UsageManager, TLC

CONSTANTS k1

\* A 5h window of two ticks and a calendar hour of two ticks: every window
\* can end, and be reopened, while requests of the previous one still run.
OneKey == {k1}
Anchored == {"5h"}
Aligned == {"1h"}
TwoTicks == [w \in {"5h", "1h"} |-> 2]
LimitAnchored == [k \in {k1} |-> {"5h"}]
LimitBoth == [k \in {k1} |-> {"5h", "1h"}]
\* Quotas on the windows only: the total may then grow until it saturates.
QuotaWindows == [k \in {k1} |-> [w \in {"5h", "1h", "total"} |-> IF w = "total" THEN 0 ELSE 2]]
QuotaAll == [k \in {k1} |-> [w \in {"5h", "1h", "total"} |-> 2]]
NoLegacy == [k \in {k1} |-> 0]
SomeLegacy == [k \in {k1} |-> 1]
\* The old version aligned its 5h buckets to the clock; one may be left whose
\* start an admission happens to hit.
LeftBehind == {{}, {<<k1, "5h", 1>>}}
Requested == {2, 3}
RequestedOrFree == {0, 2}
OneOwner == [r \in Requests |-> k1]
Symmetric == Permutations(Requests)
=============================================================================
