-------------------------- MODULE SplitMigration --------------------------
(***************************************************************************)
(* transit-hub-migrate: the way from one database to three and back        *)
(* (internal/store/split_migration.go, cmd/transit-hub-migrate), together  *)
(* with the two versions of the service that run before, between and       *)
(* after the commands. The operator follows the procedure of README.md: a  *)
(* command only runs while the service is stopped, and the other version   *)
(* is only started after a command that reported success.                  *)
(*                                                                         *)
(* Every served request is known by its number. A database holds one row   *)
(* of request_logs per request, one session per key (a single device) and  *)
(* the number of requests of a key; tokens and costs move along with it.   *)
(* 1h, 1d and 30d are one calendar window.                                 *)
(***************************************************************************)
EXTENDS Naturals, Sequences, FiniteSets, Functions

CONSTANTS
  Keys,        \* ids of API keys
  MaxRequests  \* bound on the requests served

ASSUME MaxRequestsAssumption == MaxRequests \in Nat

VARIABLES
  requests,   \* the key of every request served so far
  retained,   \* the first request that is not older than the retention
  window,     \* the first request of the calendar window that goes on now
  control,    \* transit-hub.db
  usage,      \* transit-hub-usage.db
  telemetry,  \* transit-hub-telemetry.db
  running,    \* the version that runs: "old", "new" or "none"
  ran,        \* the version that ran last
  may,        \* the versions that may be started
  tool,       \* the command that runs, and how far it is
  backup,     \* backups/split-<second>: "absent", "partial" or "complete"
  safe        \* a complete backup holds all that the service last left behind

service == <<requests, retained, window, running, ran>>
vars == <<service, control, usage, telemetry, may, tool, backup, safe>>

Larger(m, n) == IF m > n THEN m ELSE n

(* The rows of two tables; where both have one, it is that of the first.   *)
Over(f, g) == [x \in DOMAIN f \cup DOMAIN g |-> IF x \in DOMAIN f THEN f[x] ELSE g[x]]
Put(f, x, row) == [y \in DOMAIN f \cup {x} |-> IF y = x THEN row ELSE f[y]]

Used(k) == Cardinality({n \in 1..Len(requests) : requests[n] = k})

(* request_logs: id -> request, with the AUTOINCREMENT counter, and        *)
(* api_key_sessions: key -> its last request and their number.             *)
NoRows == <<>>

Insert(db, k, n) ==
  LET seen == IF k \in DOMAIN db.sessions THEN db.sessions[k].count ELSE 0
  IN [db EXCEPT !.logs = Put(@, db.nextId, n),
                !.nextId = @ + 1,
                !.sessions = Put(@, k, [last |-> n, count |-> seen + 1])]

(* A broken variant: the sequence of ids is not moved on. *)
WithLogsUncounted(db, logs, added) == [db EXCEPT !.logs = logs]

(* Rows with their own ids: the counter stays above every id.              *)
NextId(from, added) ==
  CHOOSE i \in 1..MaxRequests + 1 : /\ i >= from
                                    /\ \A id \in DOMAIN added : i > id
                                    /\ i = from \/ i - 1 \in DOMAIN added
WithLogs(db, logs, added) == [db EXCEPT !.logs = logs, !.nextId = NextId(@, added)]

Recent(n) == n >= retained
RecentLogs(db) == RestrictValues(db.logs, Recent)
RecentSessions(db) == RestrictValues(db.sessions, LAMBDA session : Recent(session.last))

NoCommand == [cmd |-> "none", at |-> "idle"]

Init ==
  /\ requests = <<>> /\ retained = 1 /\ window = 1
  /\ control = [logs |-> NoRows, nextId |-> 1, sessions |-> NoRows, totals |-> [k \in Keys |-> 0]]
  /\ usage = [totals |-> NoRows, start |-> 1, bucket |-> NoRows, windows |-> FALSE, marked |-> FALSE]
  /\ telemetry = [logs |-> NoRows, nextId |-> 1, sessions |-> NoRows, marked |-> FALSE]
  /\ running = "none" /\ ran = "old" /\ may = {"old"}
  /\ tool = NoCommand /\ backup = "absent" /\ safe = FALSE

----------------------------------------------------------------------------
(* The service.                                                            *)

Stopped == running = "none" /\ tool.at = "idle"

(* Bootstrap: a key that the usage database does not know starts with the  *)
(* counters of the control database.                                       *)
Start(v) ==
  /\ Stopped /\ v \in may
  /\ running' = v /\ ran' = v /\ may' = {v}
  /\ backup' = "absent" /\ safe' = FALSE
  /\ usage' = IF v = "new" THEN [usage EXCEPT !.totals = Over(@, control.totals)] ELSE usage
  /\ UNCHANGED <<requests, retained, window, control, telemetry, tool>>

Stop ==
  /\ running # "none"
  /\ running' = "none"
  /\ UNCHANGED <<requests, retained, window, ran, control, usage, telemetry, may, tool, backup, safe>>

Served(k) ==
  /\ Len(requests) < MaxRequests
  /\ requests' = Append(requests, k)
  /\ UNCHANGED <<retained, window, running, ran, may, tool, backup, safe>>

RecordOld(k) ==
  /\ running = "old" /\ Served(k)
  /\ control' = [Insert(control, k, Len(requests) + 1) EXCEPT !.totals[k] = @ + 1]
  /\ UNCHANGED <<usage, telemetry>>

Bucket == IF usage.start = window THEN usage.bucket ELSE <<>>
InBucket(k) == IF k \in DOMAIN Bucket THEN Bucket[k] ELSE 0

(* independent: the key has a 5h or 7d limit, so that it opens a window.   *)
RecordNew(k, independent) ==
  /\ running = "new" /\ Served(k)
  /\ usage' = [usage EXCEPT !.totals[k] = @ + 1, !.start = window,
                            !.bucket = Put(Bucket, k, InBucket(k) + 1),
                            !.windows = @ \/ independent]
  /\ telemetry' = Insert(telemetry, k, Len(requests) + 1)
  /\ UNCHANGED control

Prune ==
  /\ running = "new"
  /\ telemetry' = [telemetry EXCEPT !.logs = RecentLogs(telemetry),
                                    !.sessions = RecentSessions(telemetry)]
  /\ UNCHANGED <<service, control, usage, may, tool, backup, safe>>

(* Time passes: the calendar window may end, and the retention run out for *)
(* some of what was served. TELEMETRY_RETENTION is any positive duration,  *)
(* shorter or longer than the window, so either may happen without the     *)
(* other.                                                                  *)
Wait(ends, oldest) ==
  /\ tool.at = "idle"
  /\ window' = IF ends THEN Len(requests) + 1 ELSE window
  /\ retained' = oldest
  /\ UNCHANGED <<requests, running, ran, control, usage, telemetry, may, tool, backup, safe>>

----------------------------------------------------------------------------
(* The commands. Every step is a transaction of one database.              *)

Go(from, to) ==
  /\ tool.at = from
  /\ tool' = IF to = "idle" THEN NoCommand ELSE [tool EXCEPT !.at = to]
  /\ UNCHANGED service

splitAlreadyApplied == usage.marked /\ telemetry.marked

(* main: the first step of the command. A second later the directory of    *)
(* the backup has another name.                                            *)
Begin(cmd, nextSecond) ==
  /\ Stopped
  /\ cmd = "merge-back" => ran = "new"
  /\ tool' = [cmd |-> cmd,
              at |-> CASE cmd = "verify" -> "verify"
                       [] cmd = "merge-back" -> "merge logs"
                       [] cmd = "split" -> IF splitAlreadyApplied THEN "verify" ELSE "backup"]
  /\ backup' = IF nextSecond THEN "absent" ELSE backup
  /\ UNCHANGED <<service, control, usage, telemetry, may, safe>>

(* An error of a step, or the end of the process: the transaction is       *)
(* rolled back.                                                            *)
Abort ==
  /\ tool.at # "idle"
  /\ tool' = NoCommand
  /\ UNCHANGED <<service, control, usage, telemetry, may, backup, safe>>

(* A broken variant: a directory of that name is taken for a backup. *)
BackupTakenAsItIs ==
  /\ Go("backup", IF backup = "absent" THEN "copying" ELSE "totals")
  /\ backup' = IF backup = "absent" THEN "partial" ELSE backup
  /\ UNCHANGED <<control, usage, telemetry, may, safe>>

(* backupSplitData: a complete directory is taken as it is, one without    *)
(* the marker is refused.                                                  *)
backupSplitData ==
  /\ \/ /\ backup = "complete" /\ Go("backup", "totals")
        /\ UNCHANGED <<backup, safe>>
     \/ /\ backup = "absent" /\ Go("backup", "copying")
        /\ backup' = "partial" /\ UNCHANGED safe
  /\ UNCHANGED <<control, usage, telemetry, may>>

(* copyDirectory is through, and the marker is written.                    *)
MarkBackup ==
  /\ Go("copying", "totals")
  /\ backup' = "complete" /\ safe' = TRUE
  /\ UNCHANGED <<control, usage, telemetry, may>>

copyLegacyUsageTotals ==
  /\ Go("totals", "buckets")
  /\ usage' = [usage EXCEPT !.totals = Over(control.totals, @)]
  /\ UNCHANGED <<control, telemetry, may, backup, safe>>

LegacyCount(k) ==
  Cardinality({id \in DOMAIN RecentLogs(control) :
                 control.logs[id] >= window /\ requests[control.logs[id]] = k})
LegacyBuckets == RestrictValues([k \in Keys |-> LegacyCount(k)], LAMBDA c : c > 0)

(* A broken variant: a repeated aggregation adds to the first. *)
AddLegacyUsageBuckets ==
  /\ ~usage.windows
  /\ Go("buckets", "logs")
  /\ usage' = [usage EXCEPT !.start = window,
                 !.bucket = [k \in DOMAIN LegacyBuckets |-> LegacyBuckets[k] + InBucket(k)]]
  /\ UNCHANGED <<control, telemetry, may, backup, safe>>

aggregateLegacyUsageBuckets ==
  /\ ~usage.windows
  /\ Go("buckets", "logs")
  /\ usage' = [usage EXCEPT !.start = window, !.bucket = LegacyBuckets]
  /\ UNCHANGED <<control, telemetry, may, backup, safe>>

copyLegacyRequestLogs ==
  /\ Go("logs", "sessions")
  /\ telemetry' = WithLogs(telemetry, Over(RecentLogs(control), telemetry.logs), RecentLogs(control))
  /\ UNCHANGED <<control, usage, may, backup, safe>>

copyLegacyAPISessions ==
  /\ Go("sessions", "mark usage")
  /\ telemetry' = [telemetry EXCEPT !.sessions = Over(RecentSessions(control), @)]
  /\ UNCHANGED <<control, usage, may, backup, safe>>

markUsage ==
  /\ Go("mark usage", "mark telemetry")
  /\ usage' = [usage EXCEPT !.marked = TRUE]
  /\ UNCHANGED <<control, telemetry, may, backup, safe>>

markTelemetry ==
  /\ Go("mark telemetry", "verify")
  /\ telemetry' = [telemetry EXCEPT !.marked = TRUE]
  /\ UNCHANGED <<control, usage, may, backup, safe>>

(* Success of a split or of a merge-back lets the operator go on.          *)
verifyOpenDatabases ==
  /\ \A k \in Keys : /\ k \in DOMAIN usage.totals
                     /\ usage.totals[k] >= control.totals[k]
  /\ Cardinality(DOMAIN telemetry.logs) >= Cardinality(DOMAIN RecentLogs(control))
  /\ Cardinality(DOMAIN telemetry.sessions) >= Cardinality(DOMAIN RecentSessions(control))
  /\ \A k \in DOMAIN LegacyBuckets : InBucket(k) >= LegacyBuckets[k]
  /\ may' = CASE tool.cmd = "split" -> may \cup {"new"}
              [] tool.cmd = "merge-back" -> may \cup {"old"}
              [] OTHER -> may
  /\ Go("verify", "idle")
  /\ UNCHANGED <<control, usage, telemetry, backup, safe>>

(* INSERT OR IGNORE: a row of the control database keeps its id.           *)
mergeTelemetryLogsBack ==
  /\ Go("merge logs", "merge sessions")
  /\ control' = WithLogs(control, Over(control.logs, telemetry.logs), telemetry.logs)
  /\ UNCHANGED <<usage, telemetry, may, backup, safe>>

Merged(old, k) ==
  LET new == telemetry.sessions[k]
  IN [new EXCEPT !.last = IF k \in DOMAIN old THEN Larger(old[k].last, @) ELSE @]

mergeTelemetrySessionsBack ==
  /\ Go("merge sessions", "merge totals")
  /\ control' = [control EXCEPT
       !.sessions = Over([k \in DOMAIN telemetry.sessions |-> Merged(control.sessions, k)], @)]
  /\ UNCHANGED <<usage, telemetry, may, backup, safe>>

mergeUsageTotalsBack ==
  /\ Go("merge totals", "verify")
  /\ control' = [control EXCEPT !.totals = Over(usage.totals, @)]
  /\ UNCHANGED <<usage, telemetry, may, backup, safe>>

Split ==
  \/ backupSplitData \/ MarkBackup
  \/ copyLegacyUsageTotals \/ aggregateLegacyUsageBuckets
  \/ copyLegacyRequestLogs \/ copyLegacyAPISessions
  \/ markUsage \/ markTelemetry

MergeBack ==
  mergeTelemetryLogsBack \/ mergeTelemetrySessionsBack \/ mergeUsageTotalsBack

Next ==
  \/ \E v \in {"old", "new"} : Start(v)
  \/ Stop \/ Prune
  \/ \E k \in Keys : RecordOld(k) \/ \E independent \in BOOLEAN : RecordNew(k, independent)
  \/ \E ends \in BOOLEAN, oldest \in retained..Len(requests) + 1 : Wait(ends, oldest)
  \/ \E cmd \in {"split", "verify", "merge-back"}, nextSecond \in BOOLEAN : Begin(cmd, nextSecond)
  \/ Abort
  \/ Split \/ MergeBack \/ verifyOpenDatabases

Spec == Init /\ [][Next]_vars

----------------------------------------------------------------------------
Steps == {"idle", "backup", "copying", "totals", "buckets", "logs", "sessions", "mark usage",
          "mark telemetry", "verify", "merge logs", "merge sessions", "merge totals"}

TelemetryOK(db) ==
  /\ DOMAIN db.logs \subseteq 1..(db.nextId - 1)
  /\ \A id \in DOMAIN db.logs : db.logs[id] \in 1..Len(requests)
  /\ DOMAIN db.sessions \subseteq Keys
  /\ \A k \in DOMAIN db.sessions : requests[db.sessions[k].last] = k

(* Types: the rows of a database are about keys and requests that exist,   *)
(* and no id is handed out twice.                                          *)
TypeOK ==
  /\ requests \in Seq(Keys)
  /\ retained \in 1..Len(requests) + 1 /\ window \in 1..Len(requests) + 1
  /\ DOMAIN control.totals = Keys /\ DOMAIN usage.totals \subseteq Keys
  /\ TelemetryOK(control) /\ TelemetryOK(telemetry)
  /\ running \in {"old", "new", "none"} /\ ran \in {"old", "new"} /\ may \subseteq {"old", "new"}
  /\ tool.cmd \in {"none", "split", "verify", "merge-back"} /\ tool.at \in Steps
  /\ backup \in {"absent", "partial", "complete"} /\ safe \in BOOLEAN

(* Whichever version runs, it counts every request that any version ever   *)
(* served, once: commands that were interrupted anywhere and repeated, and *)
(* roll-backs, neither lose nor double the usage of a key.                 *)
UsageCarriedOver ==
  \A k \in Keys : /\ running = "old" => control.totals[k] = Used(k)
                  /\ running = "new" => usage.totals[k] = Used(k)

(* A key's limit in the current calendar window goes on after the split:   *)
(* the new version counts in it what the old one served, each request at   *)
(* most once, and at least what is within the retention: exactly what was  *)
(* served, if the retention reaches back to the beginning of the window,   *)
(* and less, if it is shorter, for the old version kept its counts in the  *)
(* request log alone and the tool reads no older row.                      *)
SinceThen(first, k) == {n \in first..Len(requests) : requests[n] = k}
LimitsCarriedOver ==
  running = "new" =>
    \A k \in Keys :
      /\ InBucket(k) >= Cardinality(SinceThen(Larger(window, retained), k))
      /\ InBucket(k) <= Cardinality(SinceThen(window, k))

(* The request n is reported by a database once, and it knows the last     *)
(* request of the session.                                                 *)
LoggedOnce(db, n) == Cardinality({id \in DOMAIN db.logs : db.logs[id] = n}) = 1
SessionKnown(db, n) ==
  requests[n] \in DOMAIN db.sessions /\ db.sessions[requests[n]].last >= n

(* No id stands for one request in one database and for another in the     *)
(* other one.                                                              *)
IdsAgree ==
  \A id \in DOMAIN control.logs \cap DOMAIN telemetry.logs : control.logs[id] = telemetry.logs[id]

(* The version that runs reports every request within the retention        *)
(* exactly once, whichever version served it, and knows the last request   *)
(* of every session within it. The old version reports all only if no two  *)
(* requests got the same id: LogsMergedBack says when that fails.          *)
ReportsCarriedOver ==
  \A n \in retained..Len(requests) :
    /\ running = "new" => LoggedOnce(telemetry, n) /\ SessionKnown(telemetry, n)
    /\ running = "old" => (IdsAgree => LoggedOnce(control, n)) /\ SessionKnown(control, n)

(* Nothing is lost or doubled on the way from one version to the other.    *)
CarriedOver == UsageCarriedOver /\ LimitsCarriedOver /\ ReportsCarriedOver

(* After a roll-back the old version reports every request within the      *)
(* retention, those the new version served among them.                     *)
LogsMergedBack ==
  running = "old" => \A n \in retained..Len(requests) : LoggedOnce(control, n)

(* Before the split writes to a database, a complete backup holds what the *)
(* service left behind, whatever happened to earlier attempts.             *)
BackedUpFirst ==
  tool.at \in {"totals", "buckets", "logs", "sessions", "mark usage", "mark telemetry"} => safe
=============================================================================
