------------------------ MODULE SplitMigrationProofs ------------------------
(***************************************************************************)
(* Proofs about SplitMigration, for every set of keys, every number of     *)
(* requests and every retention: however often the commands are            *)
(* interrupted and repeated, whichever version runs has counted every      *)
(* request exactly once and reports what is retained, and a backup is      *)
(* complete before anything is written. IInv follows the way to the new    *)
(* version; Returned, over it, the way back to the old one.                *)
(***************************************************************************)
EXTENDS SplitMigration, TLAPS, FiniteSetTheorems, WellFoundedInduction

----------------------------------------------------------------------------
(* The inductive invariant.                                                *)

(* The fields of the three databases, and what their rows are.             *)
Session == [last : Nat, count : Nat]

Shapes ==
  /\ control = [logs |-> control.logs, nextId |-> control.nextId,
                sessions |-> control.sessions, totals |-> control.totals]
  /\ telemetry = [logs |-> telemetry.logs, nextId |-> telemetry.nextId,
                  sessions |-> telemetry.sessions, marked |-> telemetry.marked]
  /\ usage = [totals |-> usage.totals, start |-> usage.start, bucket |-> usage.bucket,
              windows |-> usage.windows, marked |-> usage.marked]
  /\ tool = [cmd |-> tool.cmd, at |-> tool.at]

(* request_logs and api_key_sessions, of requests that were served.        *)
LogsOK(logs, nextId, served) ==
  /\ nextId \in 1 .. Len(served) + 1
  /\ DOMAIN logs \subseteq 1 .. nextId - 1
  /\ \A id \in DOMAIN logs : logs[id] \in 1 .. Len(served)

SessionsOK(sessions, served) ==
  /\ DOMAIN sessions \subseteq Keys
  /\ \A k \in DOMAIN sessions : /\ sessions[k] \in Session
                               /\ sessions[k].last \in 1 .. Len(served)
                               /\ served[sessions[k].last] = k

Tables ==
  /\ LogsOK(control.logs, control.nextId, requests) /\ SessionsOK(control.sessions, requests)
  /\ LogsOK(telemetry.logs, telemetry.nextId, requests)
  /\ SessionsOK(telemetry.sessions, requests)

Counters ==
  /\ control.totals \in [Keys -> Nat]
  /\ DOMAIN usage.totals \subseteq Keys /\ usage.totals \in [DOMAIN usage.totals -> Nat]
  /\ DOMAIN usage.bucket \subseteq Keys /\ usage.bucket \in [DOMAIN usage.bucket -> Nat]

Times ==
  /\ requests \in Seq(Keys) /\ Len(requests) <= MaxRequests
  /\ retained \in 1 .. Len(requests) + 1 /\ window \in 1 .. Len(requests) + 1
  /\ usage.start \in 1 .. window

States ==
  /\ usage.marked \in BOOLEAN /\ telemetry.marked \in BOOLEAN /\ usage.windows \in BOOLEAN
  /\ running \in {"old", "new", "none"} /\ ran \in {"old", "new"}
  /\ may \subseteq {"old", "new"}
  /\ tool.cmd \in {"none", "split", "verify", "merge-back"} /\ tool.at \in Steps
  /\ backup \in {"absent", "partial", "complete"} /\ safe \in BOOLEAN

Typed == Shapes /\ Tables /\ Counters /\ Times /\ States

CopySteps == {"backup", "copying", "totals", "buckets", "logs", "sessions", "mark usage",
              "mark telemetry"}
MergeSteps == {"merge logs", "merge sessions", "merge totals"}

ControlTold == \A k \in Keys : control.totals[k] = Used(k)
UsageTold == \A k \in Keys : k \in DOMAIN usage.totals /\ usage.totals[k] = Used(k)

(* When the commands and the versions run.                                 *)
Order ==
  /\ running # "none" => running = ran /\ may = {running}
  /\ tool.at # "idle" => running = "none"
  /\ telemetry.marked => usage.marked
  /\ tool.at \in CopySteps => tool.cmd = "split" /\ ran = "old" /\ ~telemetry.marked
  /\ tool.at = "mark telemetry" => usage.marked
  /\ tool.at \in MergeSteps => tool.cmd = "merge-back" /\ ran = "new"
  /\ tool.at = "verify" /\ tool.cmd = "split" => usage.marked /\ telemetry.marked
  /\ tool.at = "verify" /\ tool.cmd = "merge-back" => ran = "new" /\ ControlTold

(* The old version has the true totals while it is the one that runs, and  *)
(* after a merge-back; the usage database never has more than they are.    *)
Totals ==
  /\ \A k \in DOMAIN usage.totals : usage.totals[k] <= Used(k)
  /\ ran = "old" \/ "old" \in may => ControlTold

(* What the new version needs to find: the limits, and every request and   *)
(* session within the retention.                                           *)
Distinct(logs) == \A i, j \in DOMAIN logs : logs[i] = logs[j] => i = j

InWindow(k) == SinceThen(window, k)
Covered(k) == SinceThen(Larger(window, retained), k)
LimitsReady == \A k \in Keys : /\ InBucket(k) >= Cardinality(Covered(k))
                               /\ InBucket(k) <= Cardinality(InWindow(k))

LogsReady ==
  /\ Distinct(telemetry.logs)
  /\ \A n \in retained .. Len(requests) :
       \E id \in DOMAIN telemetry.logs : telemetry.logs[id] = n

SessionsReady ==
  \A n \in retained .. Len(requests) :
    /\ requests[n] \in DOMAIN telemetry.sessions
    /\ telemetry.sessions[requests[n]].last >= n

Ready == usage.marked /\ telemetry.marked /\ UsageTold

Carried ==
  /\ ran = "new" \/ "new" \in may => Ready
  /\ Ready => LimitsReady /\ LogsReady /\ SessionsReady

(* Until the copy is marked, the control database has everything, and the  *)
(* copy only what it copied.                                               *)
Source ==
  ~telemetry.marked =>
    /\ Distinct(control.logs)
    /\ \A n \in 1 .. Len(requests) :
         /\ \E id \in DOMAIN control.logs : control.logs[id] = n
         /\ requests[n] \in DOMAIN control.sessions
         /\ control.sessions[requests[n]].last >= n
    /\ \A id \in DOMAIN telemetry.logs :
         id \in DOMAIN control.logs /\ telemetry.logs[id] = control.logs[id]

(* What a split under way has done already.                                *)
Progress ==
  /\ tool.at \in {"buckets", "logs", "sessions", "mark usage", "mark telemetry"} => UsageTold
  /\ tool.at \in {"logs", "sessions", "mark usage", "mark telemetry"} => LimitsReady
  /\ tool.at \in {"sessions", "mark usage", "mark telemetry"} => LogsReady
  /\ tool.at \in {"mark usage", "mark telemetry"} => SessionsReady

(* A directory with the marker is a backup of what there is now.           *)
Saved == BackedUpFirst /\ (backup = "complete" => safe)

IInv == Typed /\ Order /\ Totals /\ Carried /\ Source /\ Progress /\ Saved

LEMMA TypedIsTypeOK == Typed => TypeOK
BY DEF Typed, Tables, LogsOK, SessionsOK, Counters, Times, States, TypeOK, TelemetryOK

----------------------------------------------------------------------------
(* Tables.                                                                 *)

LEMMA OverFacts ==
  ASSUME NEW f, NEW g
  PROVE  /\ DOMAIN Over(f, g) = DOMAIN f \cup DOMAIN g
         /\ \A x \in DOMAIN f : Over(f, g)[x] = f[x]
         /\ \A x \in DOMAIN g \ DOMAIN f : Over(f, g)[x] = g[x]
BY DEF Over

LEMMA RecentFacts ==
  ASSUME NEW db
  PROVE  /\ DOMAIN RecentLogs(db) = {id \in DOMAIN db.logs : db.logs[id] >= retained}
         /\ \A id \in DOMAIN RecentLogs(db) : RecentLogs(db)[id] = db.logs[id]
         /\ DOMAIN RecentSessions(db)
              = {k \in DOMAIN db.sessions : db.sessions[k].last >= retained}
         /\ \A k \in DOMAIN RecentSessions(db) : RecentSessions(db)[k] = db.sessions[k]
BY DEF RecentLogs, RecentSessions, RestrictValues, Restrict, Recent

LEMMA AppendFacts ==
  ASSUME NEW served \in Seq(Keys), NEW k \in Keys
  PROVE  /\ Append(served, k) \in Seq(Keys)
         /\ Len(served) \in Nat /\ Len(Append(served, k)) = Len(served) + 1
         /\ \A n \in 1 .. Len(served) : Append(served, k)[n] = served[n] /\ served[n] \in Keys
         /\ Append(served, k)[Len(served) + 1] = k
OBVIOUS

(* Serving a request leaves the rows of a database right.                  *)
LEMMA TablesServed ==
  ASSUME NEW served \in Seq(Keys), NEW k \in Keys
  PROVE  /\ \A logs, nextId : LogsOK(logs, nextId, served)
                               => LogsOK(logs, nextId, Append(served, k))
         /\ \A sessions : SessionsOK(sessions, served) => SessionsOK(sessions, Append(served, k))
BY AppendFacts DEF LogsOK, SessionsOK

(* So do inserting its row and updating its session.                       *)
LEMMA LogInserted ==
  ASSUME NEW logs, NEW nextId, NEW served \in Seq(Keys), NEW k \in Keys,
         LogsOK(logs, nextId, served)
  PROVE  LogsOK(Put(logs, nextId, Len(served) + 1), nextId + 1, Append(served, k))
<1> DEFINE n == Len(served) + 1
<1>1. Len(served) \in Nat /\ n \in Nat /\ Len(Append(served, k)) = n
  BY AppendFacts
<1>2. nextId \in 1 .. n /\ nextId + 1 \in 1 .. n + 1 /\ (nextId + 1) - 1 = nextId
  BY <1>1 DEF LogsOK
<1>3. DOMAIN Put(logs, nextId, n) \subseteq 1 .. nextId
  BY <1>1, <1>2 DEF LogsOK, Put
<1>4. \A id \in DOMAIN Put(logs, nextId, n) : Put(logs, nextId, n)[id] \in 1 .. n
  BY <1>1 DEF LogsOK, Put
<1> HIDE DEF n
<1>5. LogsOK(Put(logs, nextId, n), nextId + 1, Append(served, k))
  BY <1>1, <1>2, <1>3, <1>4 DEF LogsOK
<1> QED
  BY <1>5 DEF n

LEMMA SessionUpdated ==
  ASSUME NEW sessions, NEW served \in Seq(Keys), NEW k \in Keys, SessionsOK(sessions, served),
         NEW count \in Nat
  PROVE  SessionsOK(Put(sessions, k, [last |-> Len(served) + 1, count |-> count]),
                    Append(served, k))
<1> DEFINE n == Len(served) + 1
           session == [last |-> n, count |-> count]
<1>1. n \in Nat /\ Len(Append(served, k)) = n /\ Append(served, k)[n] = k
  BY AppendFacts
<1>2. session \in Session /\ session.last = n
  BY <1>1 DEF Session
<1>3. Len(served) \in Nat /\ n = Len(served) + 1
  BY AppendFacts
<1> HIDE DEF n, session
<1>4. DOMAIN Put(sessions, k, session) \subseteq Keys
  BY DEF SessionsOK, Put
<1>5. ASSUME NEW j \in DOMAIN Put(sessions, k, session)
      PROVE  /\ Put(sessions, k, session)[j] \in Session
             /\ Put(sessions, k, session)[j].last \in 1 .. n
             /\ Append(served, k)[Put(sessions, k, session)[j].last] = j
  <2>1. CASE j = k
    BY <1>1, <1>2, <2>1 DEF Put
  <2>2. CASE j # k
    <3>1. Put(sessions, k, session)[j] = sessions[j] /\ j \in DOMAIN sessions
      BY <2>2 DEF Put
    <3>2. /\ sessions[j] \in Session /\ sessions[j].last \in 1 .. Len(served)
          /\ served[sessions[j].last] = j
      BY <3>1 DEF SessionsOK
    <3> QED
      BY <1>3, <3>1, <3>2, AppendFacts
  <2> QED
    BY <2>1, <2>2
<1> QED
  BY <1>1, <1>4, <1>5 DEF SessionsOK, n, session

----------------------------------------------------------------------------
(* Counting the requests of a key.                                         *)

Since(served, from, k) == {n \in from .. Len(served) : served[n] = k}

LEMMA SinceFacts ==
  ASSUME NEW served \in Seq(Keys), NEW from \in Nat, NEW k
  PROVE  /\ IsFiniteSet(Since(served, from, k))
         /\ Cardinality(Since(served, from, k)) \in Nat
         /\ from > Len(served) => Cardinality(Since(served, from, k)) = 0
<1>1. IsFiniteSet(from .. Len(served))
  BY FS_Interval
<1>2. Since(served, from, k) \in SUBSET (from .. Len(served))
  BY DEF Since
<1>3. IsFiniteSet(Since(served, from, k))
  BY <1>1, <1>2, FS_Subset
<1>4. from > Len(served) => Since(served, from, k) = {}
  BY DEF Since
<1>5. Cardinality(Since(served, from, k)) \in Nat
  BY <1>3, FS_CardinalityType
<1> QED
  BY <1>3, <1>4, <1>5, FS_EmptySet

(* From a later request on there are no more of them.                      *)
LEMMA SinceFewer ==
  ASSUME NEW served \in Seq(Keys), NEW from \in Nat, NEW later \in Nat, later >= from, NEW k
  PROVE  Cardinality(Since(served, later, k)) <= Cardinality(Since(served, from, k))
<1>1. Since(served, later, k) \in SUBSET Since(served, from, k)
  BY DEF Since
<1>2. IsFiniteSet(Since(served, from, k))
  BY SinceFacts
<1> QED
  BY <1>1, <1>2, FS_Subset

(* One more request counts one for its key, and nothing for the others.    *)
LEMMA SinceAppend ==
  ASSUME NEW served \in Seq(Keys), NEW k \in Keys, NEW j \in Keys,
         NEW from \in 1 .. Len(served) + 1
  PROVE  Cardinality(Since(Append(served, k), from, j))
           = Cardinality(Since(served, from, j)) + (IF j = k THEN 1 ELSE 0)
<1> DEFINE n == Len(served) + 1
<1>1. n \in Nat /\ n \notin Since(served, from, j)
  BY DEF Since
<1>2. Since(Append(served, k), from, j)
        = IF j = k THEN Since(served, from, j) \cup {n} ELSE Since(served, from, j)
  BY AppendFacts DEF Since
<1>3. IsFiniteSet(Since(served, from, j)) /\ Cardinality(Since(served, from, j)) \in Nat
  BY SinceFacts
<1>4. Cardinality(Since(served, from, j) \cup {n}) = Cardinality(Since(served, from, j)) + 1
  BY <1>1, <1>3, FS_AddElement
<1> QED
  BY <1>2, <1>3, <1>4

LEMMA UsedFacts ==
  ASSUME Typed, NEW k
  PROVE  /\ Used(k) = Cardinality(Since(requests, 1, k)) /\ Used(k) \in Nat
         /\ InWindow(k) = Since(requests, window, k)
         /\ Covered(k) = Since(requests, Larger(window, retained), k)
         /\ Cardinality(InWindow(k)) \in Nat /\ Cardinality(Covered(k)) \in Nat
         /\ Cardinality(Covered(k)) <= Cardinality(InWindow(k))
<1>1. /\ Used(k) = Cardinality(Since(requests, 1, k))
      /\ InWindow(k) = Since(requests, window, k)
      /\ Covered(k) = Since(requests, Larger(window, retained), k)
  BY DEF Used, InWindow, Covered, SinceThen, Since
<1>2. requests \in Seq(Keys) /\ window \in Nat
  BY DEF Typed, Times
<1>3. Larger(window, retained) \in Nat /\ Larger(window, retained) >= window
  BY DEF Typed, Times, Larger
<1> QED
  BY <1>1, <1>2, <1>3, SinceFacts, SinceFewer

(* A request served: Used of its key grows by one, and so does the window. *)
LEMMA ServedCounts ==
  ASSUME Typed, NEW k \in Keys, Served(k), NEW j \in Keys
  PROVE  /\ Used(j)' = Used(j) + (IF j = k THEN 1 ELSE 0)
         /\ Cardinality(InWindow(j))' = Cardinality(InWindow(j)) + (IF j = k THEN 1 ELSE 0)
         /\ Cardinality(Covered(j))' = Cardinality(Covered(j)) + (IF j = k THEN 1 ELSE 0)
<1> DEFINE first == Larger(window, retained)
<1>1. /\ requests \in Seq(Keys) /\ window \in 1 .. Len(requests) + 1
      /\ 1 \in 1 .. Len(requests) + 1
  BY DEF Typed, Times
<1>2. first \in 1 .. Len(requests) + 1
  BY DEF Typed, Times, Larger
<1>3. requests' = Append(requests, k) /\ window' = window /\ first' = first
  BY DEF Served, Larger
<1>4. Used(j)' = Cardinality(Since(Append(requests, k), 1, j))
  BY <1>3 DEF Used, Since
<1>5. Cardinality(InWindow(j))' = Cardinality(Since(Append(requests, k), window, j))
  BY <1>3 DEF InWindow, SinceThen, Since
<1>6. Cardinality(Covered(j))' = Cardinality(Since(Append(requests, k), first, j))
  BY <1>3 DEF Covered, SinceThen, Since
<1>7. Covered(j) = Since(requests, first, j) /\ InWindow(j) = Since(requests, window, j)
      /\ Used(j) = Cardinality(Since(requests, 1, j))
  BY UsedFacts
<1> HIDE DEF first
<1> QED
  BY <1>1, <1>2, <1>4, <1>5, <1>6, <1>7, SinceAppend

----------------------------------------------------------------------------
(* Rows that are copied with their ids.                                    *)

(* The next id is above both, and no larger than it needs to be.           *)
LEMMA NextIdFacts ==
  ASSUME NEW from \in 1 .. MaxRequests + 1, NEW added, DOMAIN added \subseteq 1 .. MaxRequests
  PROVE  /\ NextId(from, added) \in 1 .. MaxRequests + 1
         /\ NextId(from, added) >= from
         /\ \A id \in DOMAIN added : NextId(from, added) > id
         /\ NextId(from, added) = from \/ NextId(from, added) - 1 \in DOMAIN added
<1> USE MaxRequestsAssumption
<1> DEFINE Above == {i \in Nat : i >= from /\ \A id \in DOMAIN added : i > id}
           Right(i) == /\ i >= from
                       /\ \A id \in DOMAIN added : i > id
                       /\ i = from \/ i - 1 \in DOMAIN added
<1>1. MaxRequests + 1 \in Above
  OBVIOUS
<1>2. PICK i \in Above : \A m \in Above : ~ (<<m, i>> \in OpToRel(<, Nat))
  <2>1. Above \subseteq Nat /\ Above # {}
    BY <1>1
  <2> HIDE DEF Above
  <2> QED
    BY <2>1, NatLessThanWellFounded, WFMin, Zenon
<1>3. \A m \in Above : m >= i
  <2>1. SUFFICES ASSUME NEW m \in Above PROVE ~ (m < i)
    OBVIOUS
  <2>2. <<m, i>> \in Nat \X Nat /\ <<m, i>>[1] = m /\ <<m, i>>[2] = i
    OBVIOUS
  <2>3. m < i => <<m, i>> \in OpToRel(<, Nat)
    BY <2>2, Zenon DEF OpToRel
  <2> QED
    BY <1>2, <2>3
<1>4. i \in 1 .. MaxRequests + 1
  BY <1>1, <1>3
<1>5. Right(i)
  <2>1. i >= from /\ \A id \in DOMAIN added : i > id
    OBVIOUS
  <2>2. ASSUME i # from PROVE i - 1 \in DOMAIN added
    <3>1. i - 1 \in Nat /\ i - 1 >= from
      BY <2>1, <2>2
    <3>2. i - 1 \notin Above
      BY <1>3, <3>1
    <3>3. PICK id \in DOMAIN added : ~ (i - 1 > id)
      BY <3>1, <3>2
    <3>4. id \in Nat /\ i > id
      BY <2>1
    <3>5. id = i - 1
      BY <3>1, <3>3, <3>4
    <3> QED
      BY <3>5
  <2> QED
    BY <2>1, <2>2
<1>6. NextId(from, added) = CHOOSE m \in 1 .. MaxRequests + 1 : Right(m)
  BY DEF NextId
<1>7. \E m \in 1 .. MaxRequests + 1 : Right(m)
  BY <1>4, <1>5
<1> HIDE DEF Right
<1>8. NextId(from, added) \in 1 .. MaxRequests + 1 /\ Right(NextId(from, added))
  BY <1>6, <1>7
<1> QED
  BY <1>8 DEF Right

(* Rows of one database added to those of another.                         *)
LEMMA LogsMerged ==
  ASSUME NEW served \in Seq(Keys), Len(served) <= MaxRequests,
         NEW logs, NEW nextId, LogsOK(logs, nextId, served),
         NEW added, NEW addedId, LogsOK(added, addedId, served),
         NEW all, DOMAIN all = DOMAIN logs \cup DOMAIN added,
         \A id \in DOMAIN all : \/ id \in DOMAIN logs /\ all[id] = logs[id]
                                \/ id \in DOMAIN added /\ all[id] = added[id]
  PROVE  LogsOK(all, NextId(nextId, added), served)
<1> DEFINE next == NextId(nextId, added)
<1>1. Len(served) \in Nat /\ MaxRequests \in Nat
  BY MaxRequestsAssumption
<1>2. /\ nextId \in 1 .. MaxRequests + 1 /\ nextId <= Len(served) + 1
      /\ DOMAIN logs \subseteq 1 .. nextId - 1
      /\ DOMAIN added \subseteq 1 .. Len(served) /\ DOMAIN added \subseteq 1 .. MaxRequests
  BY <1>1 DEF LogsOK
<1>3. /\ next \in 1 .. MaxRequests + 1 /\ next >= nextId
      /\ \A id \in DOMAIN added : next > id
      /\ next = nextId \/ next - 1 \in DOMAIN added
  BY <1>2, NextIdFacts
<1> HIDE DEF next
<1>4. next \in 1 .. Len(served) + 1
  <2>1. CASE next = nextId
    BY <1>1, <1>2, <1>3, <2>1
  <2>2. CASE next - 1 \in DOMAIN added
    <3>1. next - 1 \in 1 .. Len(served)
      BY <1>2, <2>2
    <3> QED
      BY <1>1, <1>3, <3>1
  <2> QED
    BY <1>3, <2>1, <2>2
<1>5. DOMAIN all \subseteq 1 .. next - 1
  <2>1. SUFFICES ASSUME NEW id \in DOMAIN all PROVE id \in 1 .. next - 1
    OBVIOUS
  <2>2. CASE id \in DOMAIN logs
    BY <1>1, <1>2, <1>3, <2>2
  <2>3. CASE id \in DOMAIN added
    BY <1>1, <1>2, <1>3, <2>3
  <2> QED
    BY <2>2, <2>3
<1>6. \A id \in DOMAIN all : all[id] \in 1 .. Len(served)
  BY DEF LogsOK
<1>7. LogsOK(all, next, served)
  BY <1>4, <1>5, <1>6 DEF LogsOK
<1> QED
  BY <1>7 DEF next

(* Fewer rows.                                                             *)
LEMMA LogsFewer ==
  ASSUME NEW served, NEW logs, NEW nextId, LogsOK(logs, nextId, served),
         NEW kept, DOMAIN kept \subseteq DOMAIN logs, \A id \in DOMAIN kept : kept[id] = logs[id]
  PROVE  LogsOK(kept, nextId, served)
BY DEF LogsOK

----------------------------------------------------------------------------
(* What each part of the invariant depends on.                             *)

LEMMA SameRequests ==
  ASSUME UNCHANGED requests, NEW k
  PROVE  Used(k)' = Used(k)
BY DEF Used

LEMMA SameControl ==
  ASSUME UNCHANGED <<requests, control>>
  PROVE  ControlTold' <=> ControlTold
BY DEF ControlTold, Used

LEMMA SameUsage ==
  ASSUME UNCHANGED <<requests, retained, window, usage>>
  PROVE  (UsageTold' <=> UsageTold) /\ (LimitsReady' <=> LimitsReady)
BY DEF UsageTold, LimitsReady, Used, InWindow, Covered, SinceThen, Larger, InBucket, Bucket

LEMMA SameTelemetry ==
  ASSUME UNCHANGED <<requests, retained, telemetry>>
  PROVE  (LogsReady' <=> LogsReady) /\ (SessionsReady' <=> SessionsReady)
BY DEF LogsReady, SessionsReady, Distinct

LEMMA SameSource ==
  ASSUME UNCHANGED <<requests, control, telemetry>>
  PROVE  Source' <=> Source
BY DEF Source, Distinct

(* A step that writes to no database.                                      *)
LEMMA SameData ==
  ASSUME IInv, UNCHANGED <<requests, retained, window, control, usage, telemetry>>
  PROVE  /\ Tables' /\ Counters' /\ Times' /\ Source'
         /\ \A k : Used(k)' = Used(k)
         /\ (ControlTold' <=> ControlTold) /\ (UsageTold' <=> UsageTold)
         /\ (Ready' <=> Ready) /\ (LimitsReady' <=> LimitsReady)
         /\ (LogsReady' <=> LogsReady) /\ (SessionsReady' <=> SessionsReady)
         /\ splitAlreadyApplied' <=> splitAlreadyApplied
<1>1. Tables' /\ Counters' /\ Times'
  BY DEF IInv, Typed, Tables, Counters, Times
<1>2. Source'
  BY SameSource DEF IInv
<1>3. (UsageTold' <=> UsageTold) /\ (LimitsReady' <=> LimitsReady)
  BY SameUsage
<1>4. (LogsReady' <=> LogsReady) /\ (SessionsReady' <=> SessionsReady)
  BY SameTelemetry
<1>5. ControlTold' <=> ControlTold
  BY SameControl
<1>6. Ready' <=> Ready
  BY <1>3 DEF Ready
<1>7. splitAlreadyApplied' <=> splitAlreadyApplied
  BY DEF splitAlreadyApplied
<1>8. \A k : Used(k)' = Used(k)
  BY DEF Used
<1> QED
  BY <1>1, <1>2, <1>3, <1>4, <1>5, <1>6, <1>7, <1>8

----------------------------------------------------------------------------
(* The invariant holds at the start.                                       *)

LEMMA InitInvariant == Init => IInv
<1> SUFFICES ASSUME Init PROVE IInv
  OBVIOUS
<1> USE DEF Init, NoRows, NoCommand
<1>1. requests = <<>> /\ Len(requests) = 0 /\ requests \in Seq(Keys)
  OBVIOUS
<1>2. Typed
  <2>1. Shapes
    BY DEF Shapes
  <2>2. Tables
    BY <1>1 DEF Tables, LogsOK, SessionsOK
  <2>3. Counters
    BY DEF Counters
  <2>4. Times
    BY <1>1, MaxRequestsAssumption DEF Times
  <2>5. States
    BY DEF States, Steps
  <2> QED
    BY <2>1, <2>2, <2>3, <2>4, <2>5 DEF Typed
<1>3. \A k : Used(k) = 0
  <2>1. SUFFICES ASSUME NEW k PROVE Used(k) = 0
    OBVIOUS
  <2>2. Used(k) = Cardinality(Since(requests, 1, k))
    BY <1>2, UsedFacts
  <2> QED
    <3>1. 1 \in Nat /\ 1 > Len(requests)
      BY <1>1
    <3>2. Cardinality(Since(requests, 1, k)) = 0
      BY <1>1, <3>1, SinceFacts
    <3> QED
      BY <2>2, <3>2
<1>4. Order
  BY DEF Order, CopySteps, MergeSteps
<1>5. Totals
  BY <1>3 DEF Totals, ControlTold
<1>6. Carried
  BY DEF Carried, Ready
<1>7. Source
  BY <1>1 DEF Source, Distinct
<1>8. Progress
  BY DEF Progress
<1>9. Saved
  BY DEF Saved, BackedUpFirst
<1> QED
  BY <1>2, <1>4, <1>5, <1>6, <1>7, <1>8, <1>9 DEF IInv

----------------------------------------------------------------------------
(* The steps that write to no database.                                    *)

LEMMA StopKeeps == ASSUME IInv, Stop PROVE IInv'
<1> USE DEF IInv, Stop
<1>1. Typed'
  <2>1. Shapes'
    BY DEF Typed, Shapes
  <2>2. States'
    BY DEF Typed, States
  <2> QED
    BY <2>1, <2>2, SameData DEF Typed
<1>2. Order'
  BY SameData DEF Order, CopySteps
<1>3. Totals'
  BY SameData DEF Totals
<1>4. Carried'
  BY SameData DEF Carried
<1>5. Source'
  BY SameData
<1>6. Progress'
  BY SameData DEF Progress
<1>7. Saved'
  BY DEF Saved, BackedUpFirst
<1> QED
  BY <1>1, <1>2, <1>3, <1>4, <1>5, <1>6, <1>7

(* Begin, Abort and the backup leave the data, too.                        *)
LEMMA AbortKeeps == ASSUME IInv, Abort PROVE IInv'
<1> USE DEF IInv, Abort
<1>1. UNCHANGED <<requests, retained, window, control, usage, telemetry, running, ran, may>>
  BY DEF service
<1>2. tool' = [cmd |-> "none", at |-> "idle"] /\ tool'.cmd = "none" /\ tool'.at = "idle"
  BY DEF NoCommand
<1>3. Typed'
  <2>1. Shapes'
    BY <1>1, <1>2 DEF Typed, Shapes
  <2>2. States'
    BY <1>1, <1>2 DEF Typed, States, Steps
  <2> QED
    BY <1>1, <2>1, <2>2, SameData DEF Typed
<1>4. Order'
  BY <1>1, <1>2, SameData DEF Order, CopySteps, MergeSteps
<1>5. Totals'
  BY <1>1, SameData DEF Totals
<1>6. Carried'
  BY <1>1, SameData DEF Carried
<1>7. Source'
  BY <1>1, SameData
<1>8. Progress'
  BY <1>1, <1>2, SameData DEF Progress
<1>9. Saved'
  BY <1>1, <1>2 DEF Saved, BackedUpFirst
<1> QED
  BY <1>3, <1>4, <1>5, <1>6, <1>7, <1>8, <1>9

(* The tool's state after a step.                                          *)
LEMMA GoFacts ==
  ASSUME Typed, NEW from, NEW to, Go(from, to)
  PROVE  /\ tool.at = from
         /\ UNCHANGED <<requests, retained, window, running, ran>>
         /\ to # "idle" => /\ tool' = [cmd |-> tool'.cmd, at |-> tool'.at]
                           /\ tool'.cmd = tool.cmd /\ tool'.at = to
         /\ to = "idle" => /\ tool' = [cmd |-> tool'.cmd, at |-> tool'.at]
                           /\ tool'.cmd = "none" /\ tool'.at = "idle"
BY DEF Typed, Shapes, Go, service, NoCommand

LEMMA BeginKeeps ==
  ASSUME IInv, NEW cmd \in {"split", "verify", "merge-back"}, NEW nextSecond \in BOOLEAN,
         Begin(cmd, nextSecond)
  PROVE  IInv'
<1> USE DEF IInv
<1>1. /\ UNCHANGED <<requests, retained, window, control, usage, telemetry, running, ran, may, safe>>
      /\ running = "none" /\ tool.at = "idle"
  BY DEF Begin, Stopped, service
<1>2. /\ tool' = [cmd |-> tool'.cmd, at |-> tool'.at] /\ tool'.cmd = cmd
      /\ \/ cmd = "verify" /\ tool'.at = "verify"
         \/ cmd = "merge-back" /\ tool'.at = "merge logs" /\ ran = "new"
         \/ cmd = "split" /\ splitAlreadyApplied /\ tool'.at = "verify"
         \/ cmd = "split" /\ ~ splitAlreadyApplied /\ tool'.at = "backup"
  <2>1. CASE cmd = "verify"
    BY <2>1 DEF Begin
  <2>2. CASE cmd = "merge-back"
    BY <2>2 DEF Begin
  <2>3. CASE cmd = "split"
    BY <2>3 DEF Begin
  <2> QED
    BY <2>1, <2>2, <2>3
<1>3. backup' \in {"absent", backup}
  BY DEF Begin
<1>4. Typed'
  <2>1. Shapes'
    BY <1>1, <1>2 DEF Typed, Shapes
  <2>2. States'
    BY <1>1, <1>2, <1>3 DEF Typed, States, Steps
  <2> QED
    BY <1>1, <2>1, <2>2, SameData DEF Typed
<1>5. ~ splitAlreadyApplied => ~ telemetry.marked /\ ran = "old"
  <2>1. ~ splitAlreadyApplied => ~ telemetry.marked
    BY DEF splitAlreadyApplied, Order
  <2>2. ~ telemetry.marked => ran # "new"
    BY DEF Carried, Ready
  <2> QED
    BY <2>1, <2>2 DEF Typed, States
<1>6. Order'
  BY <1>1, <1>2, <1>5, SameData DEF Order, CopySteps, MergeSteps, splitAlreadyApplied
<1>7. Totals'
  BY <1>1, SameData DEF Totals
<1>8. Carried'
  BY <1>1, SameData DEF Carried
<1>9. Source'
  BY <1>1, SameData
<1>10. Progress'
  BY <1>1, <1>2 DEF Progress
<1>11. Saved'
  BY <1>1, <1>2, <1>3 DEF Saved, BackedUpFirst
<1> QED
  BY <1>4, <1>6, <1>7, <1>8, <1>9, <1>10, <1>11

LEMMA BackupKeeps == ASSUME IInv, backupSplitData \/ MarkBackup PROVE IInv'
<1> USE DEF IInv
<1>1. UNCHANGED <<requests, retained, window, control, usage, telemetry, running, ran, may>>
  BY GoFacts DEF backupSplitData, MarkBackup
<1>2. tool.cmd = "split" /\ ran = "old" /\ ~telemetry.marked /\ running = "none"
  <2>1. tool.at \in {"backup", "copying"}
    BY GoFacts DEF backupSplitData, MarkBackup
  <2> QED
    BY <2>1 DEF Order, CopySteps
<1>3. /\ tool' = [cmd |-> tool'.cmd, at |-> tool'.at]
      /\ tool'.cmd = "split" /\ tool'.at \in {"copying", "totals"}
      /\ tool'.at = "totals" => safe'
      /\ backup' = "complete" => safe'
      /\ backup' \in {"partial", "complete"} /\ safe' \in BOOLEAN
  <2>1. CASE backup = "complete" /\ Go("backup", "totals") /\ UNCHANGED <<backup, safe>>
    BY <1>2, <2>1, GoFacts DEF Saved, Typed, States
  <2>2. CASE /\ backup = "absent" /\ Go("backup", "copying")
             /\ backup' = "partial" /\ UNCHANGED safe
    BY <1>2, <2>2, GoFacts DEF Saved, Typed, States
  <2>3. CASE MarkBackup
    BY <1>2, <2>3, GoFacts DEF MarkBackup
  <2> QED
    BY <2>1, <2>2, <2>3 DEF backupSplitData
<1>4. Typed'
  <2>1. Shapes'
    BY <1>1, <1>3 DEF Typed, Shapes
  <2>2. States'
    BY <1>1, <1>3 DEF Typed, States, Steps
  <2> QED
    BY <1>1, <2>1, <2>2, SameData DEF Typed
<1>5. Order'
  BY <1>1, <1>2, <1>3, SameData DEF Order, CopySteps, MergeSteps
<1>6. Totals'
  BY <1>1, SameData DEF Totals
<1>7. Carried'
  BY <1>1, SameData DEF Carried
<1>8. Source'
  BY <1>1, SameData
<1>9. Progress'
  BY <1>3 DEF Progress
<1>10. Saved'
  BY <1>3 DEF Saved, BackedUpFirst
<1> QED
  BY <1>4, <1>5, <1>6, <1>7, <1>8, <1>9, <1>10

(* A successful verification shows that the version it lets start is       *)
(* ready: the totals are at least those of the control database, which are *)
(* the true ones, and they are never more.                                 *)
LEMMA VerifyKeeps == ASSUME IInv, verifyOpenDatabases PROVE IInv'
<1> USE DEF IInv
<1>1. UNCHANGED <<requests, retained, window, control, usage, telemetry, running, ran, backup, safe>>
  BY GoFacts DEF verifyOpenDatabases
<1>2. /\ tool.at = "verify" /\ running = "none"
      /\ tool' = [cmd |-> tool'.cmd, at |-> tool'.at] /\ tool'.cmd = "none" /\ tool'.at = "idle"
  <2>1. Go("verify", "idle")
    BY DEF verifyOpenDatabases
  <2>2. /\ tool.at = "verify"
        /\ tool' = [cmd |-> tool'.cmd, at |-> tool'.at] /\ tool'.cmd = "none" /\ tool'.at = "idle"
    BY <2>1, GoFacts
  <2> QED
    BY <2>2 DEF Order
<1>3. tool.cmd = "split" => Ready
  <2>1. SUFFICES ASSUME tool.cmd = "split" PROVE Ready
    OBVIOUS
  <2>2. usage.marked /\ telemetry.marked
    BY <1>2, <2>1 DEF Order
  <2>3. CASE ran = "new"
    BY <2>3 DEF Carried
  <2>4. CASE ran = "old"
    <3>1. SUFFICES ASSUME NEW k \in Keys
                   PROVE  k \in DOMAIN usage.totals /\ usage.totals[k] = Used(k)
      BY <2>2 DEF Ready, UsageTold
    <3>2. control.totals[k] = Used(k)
      BY <2>4 DEF Totals, ControlTold
    <3>3. k \in DOMAIN usage.totals /\ usage.totals[k] >= control.totals[k]
      BY DEF verifyOpenDatabases
    <3>4. usage.totals[k] <= Used(k) /\ usage.totals[k] \in Nat
      BY <3>3 DEF Totals, Typed, Counters
    <3>5. Used(k) \in Nat
      BY UsedFacts
    <3> QED
      BY <3>2, <3>3, <3>4, <3>5
  <2> QED
    BY <2>3, <2>4 DEF Typed, States
<1>4. /\ may' \subseteq {"old", "new"}
      /\ "new" \in may' => "new" \in may \/ tool.cmd = "split"
      /\ "old" \in may' => "old" \in may \/ tool.cmd = "merge-back"
  <2>1. may \subseteq {"old", "new"}
    BY DEF Typed, States
  <2>2. CASE tool.cmd = "split"
    BY <2>1, <2>2 DEF verifyOpenDatabases
  <2>3. CASE tool.cmd = "merge-back"
    BY <2>1, <2>3 DEF verifyOpenDatabases
  <2>4. CASE tool.cmd # "split" /\ tool.cmd # "merge-back"
    BY <2>1, <2>4 DEF verifyOpenDatabases
  <2> QED
    BY <2>2, <2>3, <2>4
<1>5. Typed'
  <2>1. Shapes'
    BY <1>1, <1>2 DEF Typed, Shapes
  <2>2. States'
    BY <1>1, <1>2, <1>4 DEF Typed, States, Steps
  <2> QED
    BY <1>1, <2>1, <2>2, SameData DEF Typed
<1>6. Order'
  BY <1>1, <1>2, SameData DEF Order, CopySteps, MergeSteps
<1>7. Totals'
  BY <1>1, <1>2, <1>4, SameData DEF Totals, Order
<1>8. Carried'
  BY <1>1, <1>3, <1>4, SameData DEF Carried
<1>9. Source'
  BY <1>1, SameData
<1>10. Progress'
  BY <1>2 DEF Progress
<1>11. Saved'
  BY <1>1, <1>2 DEF Saved, BackedUpFirst
<1> QED
  BY <1>5, <1>6, <1>7, <1>8, <1>9, <1>10, <1>11

(* Bootstrap finds nothing to add: a version that may start has counted    *)
(* every request.                                                          *)
LEMMA StartKeeps == ASSUME IInv, NEW v \in {"old", "new"}, Start(v) PROVE IInv'
<1> USE DEF IInv
<1>1. /\ UNCHANGED <<requests, retained, window, control, telemetry, tool>>
      /\ tool.at = "idle" /\ v \in may
      /\ running' = v /\ ran' = v /\ may' = {v} /\ backup' = "absent" /\ safe' = FALSE
  BY DEF Start, Stopped
<1>2. v = "new" => Ready
  BY <1>1 DEF Carried
<1>3. UNCHANGED usage
  <2>1. CASE v = "old"
    BY <2>1 DEF Start
  <2>2. CASE v = "new"
    <3>1. DOMAIN usage.totals = Keys /\ DOMAIN control.totals = Keys
      BY <1>2, <2>2 DEF Ready, UsageTold, Typed, Counters
    <3>2. usage.totals \in [Keys -> Nat]
      BY <3>1 DEF Typed, Counters
    <3>3. Over(usage.totals, control.totals) = usage.totals
      BY <3>1, <3>2 DEF Over
    <3>4. usage' = [usage EXCEPT !.totals = usage.totals]
      BY <2>2, <3>3 DEF Start
    <3> QED
      BY <3>4 DEF Typed, Shapes
  <2> QED
    BY <2>1, <2>2
<1>4. Typed'
  <2>1. Shapes'
    BY <1>1, <1>3 DEF Typed, Shapes
  <2>2. States'
    BY <1>1, <1>3 DEF Typed, States
  <2> QED
    BY <1>1, <1>3, <2>1, <2>2, SameData DEF Typed
<1>5. Order'
  BY <1>1, <1>3, SameData DEF Order, CopySteps, MergeSteps
<1>6. Totals'
  BY <1>1, <1>3, SameData DEF Totals
<1>7. Carried'
  BY <1>1, <1>2, <1>3, SameData DEF Carried
<1>8. Source'
  BY <1>1, <1>3, SameData
<1>9. Progress'
  BY <1>1, <1>3, SameData DEF Progress
<1>10. Saved'
  BY <1>1 DEF Saved, BackedUpFirst
<1> QED
  BY <1>4, <1>5, <1>6, <1>7, <1>8, <1>9, <1>10

(* A new window starts with no request, and with an empty bucket. What the *)
(* retention has run out for is no longer covered.                         *)
LEMMA WaitKeeps ==
  ASSUME IInv, NEW ends \in BOOLEAN, NEW oldest \in retained .. Len(requests) + 1,
         Wait(ends, oldest)
  PROVE  IInv'
<1> USE DEF IInv
<1>1. /\ UNCHANGED <<requests, running, ran, control, usage, telemetry, may, tool, backup, safe>>
      /\ tool.at = "idle" /\ window' \in {window, Len(requests) + 1}
      /\ retained' \in retained .. Len(requests) + 1
  BY DEF Wait
<1>2. /\ Len(requests) \in Nat /\ requests \in Seq(Keys)
      /\ retained \in 1 .. Len(requests) + 1 /\ window \in 1 .. Len(requests) + 1
      /\ usage.start \in 1 .. window
  BY DEF Typed, Times
<1>3. Typed'
  <2>1. Times'
    BY <1>1, <1>2 DEF Typed, Times
  <2>2. Shapes' /\ States'
    BY <1>1 DEF Typed, Shapes, States
  <2>3. Tables' /\ Counters'
    BY <1>1 DEF Typed, Tables, Counters
  <2> QED
    BY <2>1, <2>2, <2>3 DEF Typed
<1>4. (ControlTold' <=> ControlTold) /\ Source' /\ \A k : Used(k)' = Used(k)
  BY <1>1, SameControl, SameSource, SameRequests
<1>5. (UsageTold' <=> UsageTold) /\ (Ready' <=> Ready)
  BY <1>1 DEF UsageTold, Ready, Used
<1>6. LimitsReady => LimitsReady'
  <2> SUFFICES ASSUME LimitsReady, NEW k \in Keys
               PROVE  /\ InBucket(k)' >= Cardinality(Covered(k))'
                      /\ InBucket(k)' <= Cardinality(InWindow(k))'
    BY DEF LimitsReady
  <2>1. InBucket(k) \in Nat
    BY <1>3 DEF InBucket, Bucket, Typed, Counters
  <2>2. Covered(k)' = Since(requests, Larger(window', retained'), k)
    BY <1>1 DEF Covered, SinceThen, Since, Larger
  <2>3. CASE window' = window
    <3>1. InBucket(k)' = InBucket(k) /\ InWindow(k)' = InWindow(k)
      BY <1>1, <2>3 DEF InBucket, Bucket, InWindow, SinceThen
    <3>2. /\ Larger(window, retained) \in Nat /\ Larger(window', retained') \in Nat
          /\ Larger(window', retained') >= Larger(window, retained)
      BY <1>1, <1>2, <2>3 DEF Larger
    <3>3. Cardinality(Covered(k))' <= Cardinality(Covered(k))
      BY <1>2, <2>2, <3>2, SinceFewer, UsedFacts
    <3>4. Cardinality(Covered(k)) \in Nat /\ Cardinality(Covered(k))' \in Nat
      BY <1>2, <2>2, <3>2, SinceFacts, UsedFacts
    <3> QED
      BY <2>1, <3>1, <3>3, <3>4 DEF LimitsReady
  <2>4. CASE window' # window
    <3>1. window' = Len(requests) + 1 /\ usage'.start # window'
      BY <1>1, <1>2, <2>4
    <3>2. InBucket(k)' = 0
      BY <3>1 DEF InBucket, Bucket
    <3>3. InWindow(k)' = Since(requests, Len(requests) + 1, k)
      BY <1>1, <3>1 DEF InWindow, SinceThen, Since
    <3>4. Larger(window', retained') = Len(requests) + 1
      BY <1>1, <1>2, <3>1 DEF Larger
    <3>5. Len(requests) + 1 \in Nat /\ Len(requests) + 1 > Len(requests)
      BY <1>2
    <3>6. Cardinality(Since(requests, Len(requests) + 1, k)) = 0
      BY <1>2, <3>5, SinceFacts
    <3> QED
      BY <2>2, <3>2, <3>3, <3>4, <3>6
  <2> QED
    BY <2>3, <2>4
<1>7. LogsReady => LogsReady'
  BY <1>1, <1>2 DEF LogsReady, Distinct
<1>8. SessionsReady => SessionsReady'
  BY <1>1, <1>2 DEF SessionsReady
<1>9. Order'
  BY <1>1, <1>4 DEF Order, CopySteps, MergeSteps
<1>10. Totals'
  BY <1>1, <1>4 DEF Totals
<1>11. Carried'
  BY <1>1, <1>5, <1>6, <1>7, <1>8 DEF Carried
<1>12. Progress'
  BY <1>1 DEF Progress
<1>13. Saved'
  BY <1>1 DEF Saved, BackedUpFirst
<1> QED
  BY <1>3, <1>4, <1>9, <1>10, <1>11, <1>12, <1>13

----------------------------------------------------------------------------
(* The steps of the running service.                                       *)

LEMMA PruneKeeps == ASSUME IInv, Prune PROVE IInv'
<1> USE DEF IInv
<1>1. /\ UNCHANGED <<requests, retained, window, running, ran, control, usage, may, tool, backup, safe>>
      /\ running = "new" /\ tool.at = "idle" /\ ran = "new"
  BY DEF Prune, service, Order
<1>2. /\ telemetry' = [logs |-> telemetry'.logs, nextId |-> telemetry'.nextId,
                       sessions |-> telemetry'.sessions, marked |-> telemetry'.marked]
      /\ telemetry'.logs = RecentLogs(telemetry) /\ telemetry'.sessions = RecentSessions(telemetry)
      /\ telemetry'.nextId = telemetry.nextId /\ telemetry'.marked = telemetry.marked
  BY DEF Prune, Typed, Shapes
<1>3. Ready /\ LimitsReady /\ LogsReady /\ SessionsReady
  BY <1>1 DEF Carried
<1>4. /\ DOMAIN telemetry'.logs = {id \in DOMAIN telemetry.logs : telemetry.logs[id] >= retained}
      /\ \A id \in DOMAIN telemetry'.logs : telemetry'.logs[id] = telemetry.logs[id]
      /\ DOMAIN telemetry'.sessions
           = {k \in DOMAIN telemetry.sessions : telemetry.sessions[k].last >= retained}
      /\ \A k \in DOMAIN telemetry'.sessions : telemetry'.sessions[k] = telemetry.sessions[k]
  <2> DEFINE logs == telemetry'.logs
             sessions == telemetry'.sessions
  <2>1. logs = RecentLogs(telemetry) /\ sessions = RecentSessions(telemetry)
    BY <1>2
  <2> HIDE DEF logs, sessions
  <2>2. /\ DOMAIN logs = {id \in DOMAIN telemetry.logs : telemetry.logs[id] >= retained}
        /\ \A id \in DOMAIN logs : logs[id] = telemetry.logs[id]
        /\ DOMAIN sessions
             = {k \in DOMAIN telemetry.sessions : telemetry.sessions[k].last >= retained}
        /\ \A k \in DOMAIN sessions : sessions[k] = telemetry.sessions[k]
    BY ONLY <2>1, RecentFacts
  <2> QED
    BY <2>2 DEF logs, sessions
<1>5. retained \in Nat /\ Len(requests) \in Nat
  BY DEF Typed, Times
<1>6. Typed'
  <2>1. Shapes'
    BY <1>1, <1>2 DEF Typed, Shapes
  <2>2. LogsOK(telemetry'.logs, telemetry'.nextId, requests)
    BY <1>2, <1>4, LogsFewer DEF Typed, Tables
  <2>3. SessionsOK(telemetry'.sessions, requests)
    BY <1>4 DEF Typed, Tables, SessionsOK
  <2>4. Tables'
    BY <1>1, <2>2, <2>3 DEF Typed, Tables
  <2>5. Counters' /\ Times'
    BY <1>1 DEF Typed, Counters, Times
  <2>6. States'
    BY <1>1, <1>2 DEF Typed, States
  <2> QED
    BY <2>1, <2>4, <2>5, <2>6 DEF Typed
<1>7. Order'
  BY <1>1, <1>2 DEF Order, CopySteps, MergeSteps
<1>8. Totals'
  BY <1>1 DEF Totals, ControlTold, Used
<1>9. UsageTold' /\ LimitsReady'
  BY <1>1, <1>3, SameUsage DEF Ready
<1>10. LogsReady'
  <2>1. Distinct(telemetry'.logs)
    BY <1>3, <1>4 DEF LogsReady, Distinct
  <2>2. ASSUME NEW n \in retained .. Len(requests)
        PROVE  \E id \in DOMAIN telemetry'.logs : telemetry'.logs[id] = n
    BY <1>3, <1>4, <1>5 DEF LogsReady
  <2> QED
    BY <1>1, <2>1, <2>2 DEF LogsReady
<1>11. SessionsReady'
  <2>1. ASSUME NEW n \in retained .. Len(requests)
        PROVE  /\ requests[n] \in DOMAIN telemetry'.sessions
               /\ telemetry'.sessions[requests[n]].last >= n
    <3>1. /\ requests[n] \in DOMAIN telemetry.sessions
          /\ telemetry.sessions[requests[n]].last >= n
      BY <1>3 DEF SessionsReady
    <3>2. telemetry.sessions[requests[n]].last \in 1 .. Len(requests)
      BY <3>1 DEF Typed, Tables, SessionsOK
    <3>3. telemetry.sessions[requests[n]].last >= retained
      BY <1>5, <3>1, <3>2
    <3> QED
      BY <1>4, <3>1, <3>3
  <2> QED
    BY <1>1, <2>1 DEF SessionsReady
<1>12. Carried'
  BY <1>1, <1>2, <1>3, <1>9, <1>10, <1>11 DEF Carried, Ready
<1>13. Source'
  BY <1>2, <1>3 DEF Source, Ready
<1>14. Progress'
  BY <1>1 DEF Progress
<1>15. Saved'
  BY <1>1 DEF Saved, BackedUpFirst
<1> QED
  BY <1>6, <1>7, <1>8, <1>12, <1>13, <1>14, <1>15

(* What serving a request leaves, and the times it stays within.           *)
LEMMA ServedFacts ==
  ASSUME Typed, NEW k \in Keys, Served(k)
  PROVE  /\ requests' = Append(requests, k) /\ Len(requests) \in Nat
         /\ UNCHANGED <<retained, window, running, ran, may, tool, backup, safe>>
         /\ Len(requests') = Len(requests) + 1 /\ requests'[Len(requests) + 1] = k
         /\ \A n \in 1 .. Len(requests) : requests'[n] = requests[n]
         /\ usage'.start \in 1 .. window => Times'
<1>1. /\ requests \in Seq(Keys) /\ Len(requests) <= MaxRequests
      /\ retained \in 1 .. Len(requests) + 1 /\ window \in 1 .. Len(requests) + 1
      /\ usage.start \in 1 .. window
  BY DEF Typed, Times
<1>2. /\ requests' = Append(requests, k) /\ Len(requests) < MaxRequests
      /\ UNCHANGED <<retained, window, running, ran, may, tool, backup, safe>>
  BY DEF Served
<1>3. /\ requests' \in Seq(Keys) /\ Len(requests) \in Nat
      /\ Len(requests') = Len(requests) + 1 /\ requests'[Len(requests) + 1] = k
      /\ \A n \in 1 .. Len(requests) : requests'[n] = requests[n]
  BY <1>1, <1>2, AppendFacts
<1>4. usage'.start \in 1 .. window => Times'
  BY <1>1, <1>2, <1>3, MaxRequestsAssumption DEF Times
<1> QED
  BY <1>2, <1>3, <1>4

(* Insert adds the row of request n under the next id, and n to its        *)
(* session.                                                                *)
LEMMA InsertedRows ==
  ASSUME NEW served \in Seq(Keys), NEW k \in Keys,
         NEW logs, NEW nextId, LogsOK(logs, nextId, served),
         NEW sessions, SessionsOK(sessions, served)
  PROVE  LET n == Len(served) + 1
             seen == IF k \in DOMAIN sessions THEN sessions[k].count ELSE 0
             logs2 == Put(logs, nextId, n)
             sessions2 == Put(sessions, k, [last |-> n, count |-> seen + 1])
         IN  /\ LogsOK(logs2, nextId + 1, Append(served, k))
             /\ SessionsOK(sessions2, Append(served, k))
             /\ Distinct(logs) => Distinct(logs2)
             /\ logs2[nextId] = n /\ nextId \in DOMAIN logs2 /\ nextId \notin DOMAIN logs
             /\ \A id \in DOMAIN logs : id \in DOMAIN logs2 /\ logs2[id] = logs[id]
             /\ k \in DOMAIN sessions2 /\ sessions2[k].last = n
             /\ \A j \in DOMAIN sessions \ {k} :
                  j \in DOMAIN sessions2 /\ sessions2[j] = sessions[j]
<1> DEFINE n == Len(served) + 1
           seen == IF k \in DOMAIN sessions THEN sessions[k].count ELSE 0
           logs2 == Put(logs, nextId, n)
           sessions2 == Put(sessions, k, [last |-> n, count |-> seen + 1])
<1>1. seen \in Nat
  BY DEF SessionsOK, Session
<1>2. LogsOK(logs2, nextId + 1, Append(served, k))
  BY LogInserted
<1>3. SessionsOK(sessions2, Append(served, k))
  <2> HIDE DEF seen
  <2> QED
    BY <1>1, SessionUpdated
<1>4. nextId \in Nat /\ nextId \notin DOMAIN logs /\ n \in Nat
  BY AppendFacts DEF LogsOK
<1>5. Distinct(logs) => Distinct(logs2)
  <2>1. \A id \in DOMAIN logs : logs[id] # n
    BY AppendFacts DEF LogsOK
  <2> QED
    BY <1>4, <2>1 DEF Distinct, Put
<1>6. /\ logs2[nextId] = n /\ nextId \in DOMAIN logs2
      /\ \A id \in DOMAIN logs : id \in DOMAIN logs2 /\ logs2[id] = logs[id]
  BY <1>4 DEF Put
<1>7. /\ k \in DOMAIN sessions2 /\ sessions2[k].last = n
      /\ \A j \in DOMAIN sessions \ {k} : j \in DOMAIN sessions2 /\ sessions2[j] = sessions[j]
  BY DEF Put
<1> QED
  BY <1>2, <1>3, <1>4, <1>5, <1>6, <1>7

(* The new version: everything that was ready before is ready after, with  *)
(* the new request.                                                        *)
LEMMA RecordNewKeeps ==
  ASSUME IInv, NEW k \in Keys, NEW independent \in BOOLEAN, RecordNew(k, independent)
  PROVE  IInv'
<1> USE DEF IInv
<1> DEFINE n == Len(requests) + 1
<1>1. /\ running = "new" /\ Served(k) /\ ran = "new" /\ may = {"new"} /\ tool.at = "idle"
      /\ UNCHANGED control
  BY DEF RecordNew, Order
<1>2. /\ UNCHANGED <<retained, window, running, ran, may, tool, backup, safe>>
      /\ requests' = Append(requests, k) /\ Len(requests) \in Nat /\ n \in Nat
      /\ Len(requests') = n /\ requests'[n] = k
      /\ \A m \in 1 .. Len(requests) : requests'[m] = requests[m]
      /\ usage'.start \in 1 .. window => Times'
  BY <1>1, ServedFacts
<1>3. Ready /\ LimitsReady /\ LogsReady /\ SessionsReady
  BY <1>1 DEF Carried
<1>4. /\ requests \in Seq(Keys) /\ window \in 1 .. n /\ retained \in 1 .. n
  BY DEF Typed, Times
<1>5. \A j \in Keys : /\ Used(j)' = Used(j) + (IF j = k THEN 1 ELSE 0)
                      /\ Cardinality(InWindow(j))'
                           = Cardinality(InWindow(j)) + (IF j = k THEN 1 ELSE 0)
                      /\ Cardinality(Covered(j))'
                           = Cardinality(Covered(j)) + (IF j = k THEN 1 ELSE 0)
  BY <1>1, ServedCounts
<1>6. /\ usage' = [totals |-> usage'.totals, start |-> usage'.start, bucket |-> usage'.bucket,
                   windows |-> usage'.windows, marked |-> usage'.marked]
      /\ usage'.totals = [usage.totals EXCEPT ![k] = usage.totals[k] + 1]
      /\ usage'.start = window /\ usage'.marked = usage.marked
      /\ usage'.bucket = Put(Bucket, k, InBucket(k) + 1)
      /\ usage'.windows \in BOOLEAN
  BY DEF RecordNew, Typed, Shapes, States
<1>7. /\ telemetry' = [logs |-> telemetry'.logs, nextId |-> telemetry'.nextId,
                       sessions |-> telemetry'.sessions, marked |-> telemetry'.marked]
      /\ telemetry'.nextId = telemetry.nextId + 1 /\ telemetry'.marked = telemetry.marked
      /\ telemetry'.logs = Put(telemetry.logs, telemetry.nextId, n)
      /\ telemetry'.sessions
           = Put(telemetry.sessions, k,
                 [last |-> n, count |-> (IF k \in DOMAIN telemetry.sessions
                                         THEN telemetry.sessions[k].count ELSE 0) + 1])
  BY DEF RecordNew, Insert, Typed, Shapes
<1>8. /\ LogsOK(telemetry'.logs, telemetry'.nextId, requests')
      /\ SessionsOK(telemetry'.sessions, requests')
      /\ Distinct(telemetry.logs) => Distinct(telemetry'.logs)
      /\ telemetry.nextId \in DOMAIN telemetry'.logs /\ telemetry'.logs[telemetry.nextId] = n
      /\ \A id \in DOMAIN telemetry.logs :
           id \in DOMAIN telemetry'.logs /\ telemetry'.logs[id] = telemetry.logs[id]
      /\ k \in DOMAIN telemetry'.sessions /\ telemetry'.sessions[k].last = n
      /\ \A j \in DOMAIN telemetry.sessions \ {k} :
           j \in DOMAIN telemetry'.sessions /\ telemetry'.sessions[j] = telemetry.sessions[j]
  <2>1. LogsOK(telemetry.logs, telemetry.nextId, requests) /\ SessionsOK(telemetry.sessions, requests)
    BY DEF Typed, Tables
  <2> QED
    BY <1>2, <1>4, <1>7, <2>1, InsertedRows
<1> HIDE DEF n
<1>9. /\ DOMAIN Bucket \subseteq Keys /\ \A j \in DOMAIN Bucket : Bucket[j] \in Nat
      /\ \A j \in Keys : InBucket(j) \in Nat
  BY DEF Bucket, InBucket, Typed, Counters
<1>10. Typed'
  <2>1. Shapes'
    BY <1>1, <1>2, <1>6, <1>7 DEF Typed, Shapes
  <2>2. Tables'
    <3>1. LogsOK(control.logs, control.nextId, requests')
          /\ SessionsOK(control.sessions, requests')
      BY <1>2, <1>4, TablesServed DEF Typed, Tables
    <3> QED
      BY <1>1, <1>8, <3>1 DEF Tables
  <2>3. Counters'
    <3>1. DOMAIN usage.totals = Keys /\ usage.totals \in [Keys -> Nat]
      BY <1>3 DEF Ready, UsageTold, Typed, Counters
    <3>2. usage'.totals \in [Keys -> Nat]
      BY <1>6, <3>1
    <3>3. /\ DOMAIN usage'.bucket \subseteq Keys
          /\ usage'.bucket \in [DOMAIN usage'.bucket -> Nat]
      BY <1>6, <1>9 DEF Put
    <3> QED
      BY <1>1, <3>2, <3>3 DEF Typed, Counters
  <2>4. Times'
    BY <1>2, <1>4, <1>6
  <2>5. States'
    BY <1>2, <1>6, <1>7 DEF Typed, States
  <2> QED
    BY <2>1, <2>2, <2>3, <2>4, <2>5 DEF Typed
<1>11. Order'
  BY <1>1, <1>2, <1>6, <1>7 DEF Order, CopySteps, MergeSteps
<1>12. UsageTold'
  <2>1. ASSUME NEW j \in Keys
        PROVE  j \in DOMAIN usage'.totals /\ usage'.totals[j] = Used(j)'
    <3>1. j \in DOMAIN usage.totals /\ usage.totals[j] = Used(j)
      BY <1>3 DEF Ready, UsageTold
    <3>2. Used(j)' = Used(j) + (IF j = k THEN 1 ELSE 0)
      BY <1>5
    <3>3. Used(j) \in Nat
      BY UsedFacts
    <3>4. /\ DOMAIN usage'.totals = DOMAIN usage.totals
          /\ usage'.totals[j] = IF j = k THEN usage.totals[j] + 1 ELSE usage.totals[j]
      BY <1>6, <3>1
    <3> QED
      BY <3>1, <3>2, <3>3, <3>4
  <2> QED
    BY <2>1 DEF UsageTold
<1>13. Totals'
  <2>1. \A j \in DOMAIN usage'.totals : usage'.totals[j] <= Used(j)'
    <3>1. SUFFICES ASSUME NEW j \in DOMAIN usage'.totals PROVE usage'.totals[j] <= Used(j)'
      OBVIOUS
    <3>2. j \in Keys
      BY <1>10 DEF Typed, Counters
    <3>3. usage'.totals[j] = Used(j)' /\ usage'.totals[j] \in Nat
      BY <1>10, <1>12, <3>2 DEF UsageTold, Typed, Counters
    <3> QED
      BY <3>3
  <2> QED
    BY <1>1, <1>2, <2>1 DEF Totals
<1>14. LimitsReady'
  <2>1. SUFFICES ASSUME NEW j \in Keys
                 PROVE  /\ InBucket(j)' >= Cardinality(Covered(j))'
                        /\ InBucket(j)' <= Cardinality(InWindow(j))'
    BY DEF LimitsReady
  <2>2. InBucket(j)' = InBucket(j) + (IF j = k THEN 1 ELSE 0)
    <3>1. Bucket' = Put(Bucket, k, InBucket(k) + 1)
      BY <1>2, <1>6 DEF Bucket
    <3>2. InBucket(j)' = IF j \in DOMAIN Bucket' THEN Bucket'[j] ELSE 0
      BY DEF InBucket
    <3>3. InBucket(j) = IF j \in DOMAIN Bucket THEN Bucket[j] ELSE 0
      BY DEF InBucket
    <3> QED
      BY <1>9, <3>1, <3>2, <3>3 DEF Put
  <2>3. /\ InBucket(j) \in Nat /\ Cardinality(Covered(j)) \in Nat
        /\ Cardinality(InWindow(j)) \in Nat
    BY <1>9, UsedFacts
  <2>4. InBucket(j) >= Cardinality(Covered(j)) /\ InBucket(j) <= Cardinality(InWindow(j))
    BY <1>3 DEF LimitsReady
  <2> QED
    BY <1>5, <2>2, <2>3, <2>4
<1>15. LogsReady'
  <2>1. Distinct(telemetry'.logs)
    BY <1>3, <1>8 DEF LogsReady
  <2>2. ASSUME NEW m \in retained .. n
        PROVE  \E id \in DOMAIN telemetry'.logs : telemetry'.logs[id] = m
    <3>1. CASE m = n
      BY <1>8, <3>1
    <3>2. CASE m # n
      <4>1. m \in retained .. Len(requests)
        BY <1>2, <1>4, <3>2 DEF n
      <4> QED
        BY <1>3, <1>8, <4>1 DEF LogsReady
    <3> QED
      BY <3>1, <3>2
  <2> QED
    BY <1>2, <2>1, <2>2 DEF LogsReady
<1>16. SessionsReady'
  <2>1. ASSUME NEW m \in retained .. n
        PROVE  /\ requests'[m] \in DOMAIN telemetry'.sessions
               /\ telemetry'.sessions[requests'[m]].last >= m
    <3>1. CASE m = n
      BY <1>2, <1>8, <3>1
    <3>2. CASE m # n
      <4>1. m \in retained .. Len(requests) /\ m \in 1 .. Len(requests) /\ m <= n
        BY <1>2, <1>4, <3>2 DEF n
      <4>2. /\ requests'[m] = requests[m] /\ requests[m] \in DOMAIN telemetry.sessions
            /\ telemetry.sessions[requests[m]].last >= m
        BY <1>2, <1>3, <4>1 DEF SessionsReady
      <4>3. CASE requests[m] = k
        BY <1>8, <4>1, <4>2, <4>3
      <4>4. CASE requests[m] # k
        BY <1>8, <4>2, <4>4
      <4> QED
        BY <4>3, <4>4
    <3> QED
      BY <3>1, <3>2
  <2> QED
    BY <1>2, <2>1 DEF SessionsReady
<1>17. Carried'
  <2>1. Ready'
    BY <1>3, <1>6, <1>7, <1>12 DEF Ready
  <2> QED
    BY <2>1, <1>14, <1>15, <1>16 DEF Carried
<1>18. Source'
  BY <1>3, <1>7 DEF Source, Ready
<1>19. Progress'
  BY <1>1, <1>2 DEF Progress
<1>20. Saved'
  BY <1>1, <1>2 DEF Saved, BackedUpFirst
<1> QED
  BY <1>10, <1>11, <1>13, <1>17, <1>18, <1>19, <1>20

(* The old version: the control database goes on to have everything. What  *)
(* the usage database has is no longer enough for the new version.         *)
LEMMA RecordOldKeeps == ASSUME IInv, NEW k \in Keys, RecordOld(k) PROVE IInv'
<1> USE DEF IInv
<1> DEFINE n == Len(requests) + 1
<1>1. /\ running = "old" /\ Served(k) /\ ran = "old" /\ may = {"old"} /\ tool.at = "idle"
      /\ UNCHANGED <<usage, telemetry>>
  BY DEF RecordOld, Order
<1>2. /\ UNCHANGED <<retained, window, running, ran, may, tool, backup, safe>>
      /\ requests' = Append(requests, k) /\ Len(requests) \in Nat /\ n \in Nat
      /\ Len(requests') = n /\ requests'[n] = k
      /\ \A m \in 1 .. Len(requests) : requests'[m] = requests[m]
      /\ usage'.start \in 1 .. window => Times'
  BY <1>1, ServedFacts
<1>3. /\ requests \in Seq(Keys) /\ usage.start \in 1 .. window
      /\ \A j \in Keys : Used(j) \in Nat
  BY UsedFacts DEF Typed, Times
<1>4. ControlTold
  BY <1>1 DEF Totals
<1>5. \A j \in Keys : Used(j)' = Used(j) + (IF j = k THEN 1 ELSE 0)
  BY <1>1, ServedCounts
<1>6. /\ control' = [logs |-> control'.logs, nextId |-> control'.nextId,
                     sessions |-> control'.sessions, totals |-> control'.totals]
      /\ control'.nextId = control.nextId + 1
      /\ control'.totals = [control.totals EXCEPT ![k] = control.totals[k] + 1]
      /\ control'.logs = Put(control.logs, control.nextId, n)
      /\ control'.sessions
           = Put(control.sessions, k,
                 [last |-> n, count |-> (IF k \in DOMAIN control.sessions
                                         THEN control.sessions[k].count ELSE 0) + 1])
  BY DEF RecordOld, Insert, Typed, Shapes
<1>7. /\ LogsOK(control'.logs, control'.nextId, requests')
      /\ SessionsOK(control'.sessions, requests')
      /\ Distinct(control.logs) => Distinct(control'.logs)
      /\ control.nextId \in DOMAIN control'.logs /\ control'.logs[control.nextId] = n
      /\ \A id \in DOMAIN control.logs :
           id \in DOMAIN control'.logs /\ control'.logs[id] = control.logs[id]
      /\ k \in DOMAIN control'.sessions /\ control'.sessions[k].last = n
      /\ \A j \in DOMAIN control.sessions \ {k} :
           j \in DOMAIN control'.sessions /\ control'.sessions[j] = control.sessions[j]
  <2>1. LogsOK(control.logs, control.nextId, requests) /\ SessionsOK(control.sessions, requests)
    BY DEF Typed, Tables
  <2> QED
    BY <1>2, <1>3, <1>6, <2>1, InsertedRows
<1>8. n = Len(requests) + 1
  OBVIOUS
<1> HIDE DEF n
<1>9. Typed'
  <2>1. Shapes'
    BY <1>1, <1>2, <1>6 DEF Typed, Shapes
  <2>2. Tables'
    <3>1. LogsOK(telemetry.logs, telemetry.nextId, requests')
          /\ SessionsOK(telemetry.sessions, requests')
      BY <1>2, <1>3, TablesServed DEF Typed, Tables
    <3> QED
      BY <1>1, <1>7, <3>1 DEF Tables
  <2>3. Counters'
    <3>1. control'.totals \in [Keys -> Nat]
      BY <1>6 DEF Typed, Counters
    <3> QED
      BY <1>1, <3>1 DEF Typed, Counters
  <2>4. Times'
    BY <1>1, <1>2, <1>3
  <2>5. States'
    BY <1>1, <1>2 DEF Typed, States
  <2> QED
    BY <2>1, <2>2, <2>3, <2>4, <2>5 DEF Typed
<1>10. Order'
  BY <1>1, <1>2 DEF Order, CopySteps, MergeSteps
<1>11. Totals'
  <2>1. \A j \in DOMAIN usage.totals :
          j \in Keys /\ usage.totals[j] \in Nat /\ usage.totals[j] <= Used(j)
    BY DEF Totals, Typed, Counters
  <2>2. \A j \in DOMAIN usage.totals : usage.totals[j] <= Used(j)'
    BY <1>3, <1>5, <2>1
  <2>3. ControlTold'
    <3>1. SUFFICES ASSUME NEW j \in Keys PROVE control'.totals[j] = Used(j)'
      BY DEF ControlTold
    <3>2. control.totals[j] = Used(j) /\ control.totals \in [Keys -> Nat]
      BY <1>4 DEF ControlTold, Typed, Counters
    <3>3. control'.totals[j] = IF j = k THEN control.totals[j] + 1 ELSE control.totals[j]
      BY <1>6, <3>2
    <3>4. Used(j)' = Used(j) + (IF j = k THEN 1 ELSE 0) /\ Used(j) \in Nat
      BY <1>3, <1>5
    <3> QED
      BY <3>2, <3>3, <3>4
  <2> QED
    BY <1>1, <2>2, <2>3 DEF Totals
<1>12. Carried'
  <2>1. ~ UsageTold'
    <3>1. SUFFICES ASSUME UsageTold' PROVE FALSE
      OBVIOUS
    <3>2. k \in DOMAIN usage.totals /\ usage.totals[k] = Used(k)'
      BY <1>1, <3>1 DEF UsageTold
    <3>3. usage.totals[k] <= Used(k) /\ Used(k)' = Used(k) + 1 /\ Used(k) \in Nat
      BY <1>3, <1>5, <3>2 DEF Totals
    <3> QED
      BY <3>2, <3>3
  <2> QED
    BY <1>1, <1>2, <2>1 DEF Carried, Ready
<1>13. Source'
  <2>1. SUFFICES ASSUME ~ telemetry.marked
                 PROVE  /\ Distinct(control'.logs)
                        /\ \A m \in 1 .. n :
                             /\ \E id \in DOMAIN control'.logs : control'.logs[id] = m
                             /\ requests'[m] \in DOMAIN control'.sessions
                             /\ control'.sessions[requests'[m]].last >= m
                        /\ \A id \in DOMAIN telemetry.logs :
                             id \in DOMAIN control'.logs /\ telemetry.logs[id] = control'.logs[id]
    BY <1>1, <1>2 DEF Source
  <2>2. Distinct(control'.logs)
    BY <1>7, <2>1 DEF Source
  <2>3. ASSUME NEW m \in 1 .. n
        PROVE  /\ \E id \in DOMAIN control'.logs : control'.logs[id] = m
               /\ requests'[m] \in DOMAIN control'.sessions
               /\ control'.sessions[requests'[m]].last >= m
    <3>1. CASE m = n
      BY <1>2, <1>7, <3>1
    <3>2. CASE m # n
      <4>1. m \in 1 .. Len(requests) /\ m <= n
        BY <1>2, <1>8, <3>2
      <4>2. /\ \E id \in DOMAIN control.logs : control.logs[id] = m
            /\ requests'[m] = requests[m] /\ requests[m] \in DOMAIN control.sessions
            /\ control.sessions[requests[m]].last >= m
        BY <1>2, <2>1, <4>1 DEF Source
      <4>3. \E id \in DOMAIN control'.logs : control'.logs[id] = m
        BY <1>7, <4>2
      <4>4. CASE requests[m] = k
        BY <1>7, <4>1, <4>2, <4>3, <4>4
      <4>5. CASE requests[m] # k
        BY <1>7, <4>2, <4>3, <4>5
      <4> QED
        BY <4>4, <4>5
    <3> QED
      BY <3>1, <3>2
  <2>4. \A id \in DOMAIN telemetry.logs :
          id \in DOMAIN control'.logs /\ telemetry.logs[id] = control'.logs[id]
    BY <1>7, <2>1 DEF Source
  <2> QED
    BY <2>2, <2>3, <2>4
<1>14. Progress'
  BY <1>1, <1>2 DEF Progress
<1>15. Saved'
  BY <1>1, <1>2 DEF Saved, BackedUpFirst
<1> QED
  BY <1>9, <1>10, <1>11, <1>12, <1>13, <1>14, <1>15

----------------------------------------------------------------------------
(* The copy.                                                               *)

(* What a step of the copy finds: the old version ran last, so that the    *)
(* control database has the true totals, and the new one cannot start.     *)
LEMMA CopyFacts ==
  ASSUME IInv, NEW from \in CopySteps, NEW to \in Steps \ {"idle"}, Go(from, to)
  PROVE  /\ UNCHANGED <<requests, retained, window, running, ran>>
         /\ tool' = [cmd |-> tool'.cmd, at |-> tool'.at]
         /\ tool'.cmd = "split" /\ tool'.at = to /\ tool.at = from
         /\ running = "none" /\ ran = "old" /\ ~ telemetry.marked /\ "new" \notin may
         /\ ControlTold
<1>1. /\ tool.at = from /\ UNCHANGED <<requests, retained, window, running, ran>>
      /\ tool' = [cmd |-> tool'.cmd, at |-> tool'.at] /\ tool'.cmd = tool.cmd /\ tool'.at = to
  BY GoFacts DEF IInv
<1>2. tool.cmd = "split" /\ running = "none" /\ ran = "old" /\ ~ telemetry.marked
  BY <1>1 DEF IInv, Order, CopySteps
<1>3. "new" \notin may
  BY <1>2 DEF IInv, Carried, Ready
<1>4. ControlTold
  BY <1>2 DEF IInv, Totals
<1> QED
  BY <1>1, <1>2, <1>3, <1>4

(* The control database has every request once, so that the count over its *)
(* rows is the count over the requests of the window that are retained.    *)
LEMMA LegacyCounts ==
  ASSUME IInv, ~ telemetry.marked, NEW k
  PROVE  LegacyCount(k) = Cardinality(Covered(k))
<1> DEFINE S == {id \in DOMAIN RecentLogs(control) :
                   control.logs[id] >= window /\ requests[control.logs[id]] = k}
           T == Covered(k)
           first == Larger(window, retained)
           f == [id \in S |-> control.logs[id]]
<1>1. /\ Distinct(control.logs)
      /\ \A n \in 1 .. Len(requests) : \E id \in DOMAIN control.logs : control.logs[id] = n
  BY DEF IInv, Source
<1>2. /\ Len(requests) \in Nat /\ retained \in Nat /\ retained >= 1
      /\ window \in Nat /\ window >= 1
      /\ control.nextId \in Nat /\ DOMAIN control.logs \subseteq 1 .. control.nextId - 1
      /\ \A id \in DOMAIN control.logs : control.logs[id] \in 1 .. Len(requests)
  BY DEF IInv, Typed, Times, Tables, LogsOK
<1>3. DOMAIN RecentLogs(control) = {id \in DOMAIN control.logs : control.logs[id] >= retained}
  BY RecentFacts
<1>4. S = {id \in DOMAIN control.logs :
             control.logs[id] >= first /\ requests[control.logs[id]] = k}
  <2>1. ASSUME NEW id \in DOMAIN control.logs
        PROVE  control.logs[id] >= first
                 <=> control.logs[id] >= retained /\ control.logs[id] >= window
    <3>1. control.logs[id] \in Int
      BY <1>2
    <3> QED
      BY <1>2, <3>1 DEF Larger
  <2> DEFINE recent == DOMAIN RecentLogs(control)
             all == DOMAIN control.logs
  <2>2. recent = {id \in all : control.logs[id] >= retained}
    BY <1>3
  <2> HIDE DEF recent, all, first
  <2> QED
    BY <2>1, <2>2 DEF recent, all
<1>0. first \in Nat /\ first >= 1 /\ T = {n \in first .. Len(requests) : requests[n] = k}
  BY <1>2 DEF Larger, Covered, SinceThen
<1> HIDE DEF first
<1>5. IsFiniteSet(S)
  <2>1. IsFiniteSet(1 .. control.nextId - 1)
    <3>1. control.nextId - 1 \in Int
      BY <1>2
    <3> QED
      BY <3>1, FS_Interval
  <2>2. S \in SUBSET (1 .. control.nextId - 1)
    BY <1>2, <1>4
  <2> HIDE DEF S
  <2> QED
    BY <2>1, <2>2, FS_Subset
<1>6. f \in Bijection(S, T)
  <2>1. f \in [S -> T]
    BY <1>0, <1>2, <1>4
  <2>2. IsInjective(f)
    BY <1>1, <1>4 DEF Distinct, IsInjective
  <2>3. \A n \in T : \E id \in S : f[id] = n
    <3>1. SUFFICES ASSUME NEW n \in T PROVE \E id \in S : f[id] = n
      OBVIOUS
    <3>2. n \in 1 .. Len(requests) /\ n >= first /\ requests[n] = k
      BY <1>0, <1>2
    <3>3. PICK id \in DOMAIN control.logs : control.logs[id] = n
      BY <1>1, <3>2
    <3> QED
      BY <1>4, <3>2, <3>3
  <2> QED
    BY <2>1, <2>2, <2>3 DEF Bijection, Injection, Surjection
<1>7. Cardinality(T) = Cardinality(S)
  <2> HIDE DEF S, T, f
  <2>1. ExistsBijection(S, T)
    BY <1>6 DEF ExistsBijection
  <2> QED
    BY <1>5, <2>1, FS_Bijection
<1> QED
  BY <1>7 DEF LegacyCount

LEMMA LegacyBucketFacts ==
  ASSUME IInv, ~ telemetry.marked
  PROVE  /\ DOMAIN LegacyBuckets \subseteq Keys
         /\ \A k \in DOMAIN LegacyBuckets : LegacyBuckets[k] = Cardinality(Covered(k))
         /\ \A k \in Keys \ DOMAIN LegacyBuckets : Cardinality(Covered(k)) = 0
         /\ LegacyBuckets \in [DOMAIN LegacyBuckets -> Nat]
<1> DEFINE count == [k \in Keys |-> LegacyCount(k)]
<1>1. /\ DOMAIN LegacyBuckets = {k \in Keys : count[k] > 0}
      /\ LegacyBuckets = [k \in {j \in Keys : count[j] > 0} |-> count[k]]
  BY DEF LegacyBuckets, RestrictValues, Restrict
<1>2. \A k \in Keys : count[k] = Cardinality(Covered(k)) /\ Cardinality(Covered(k)) \in Nat
  BY LegacyCounts, UsedFacts DEF IInv
<1> HIDE DEF count
<1> QED
  BY <1>1, <1>2

LEMMA CopyTotalsKeeps == ASSUME IInv, copyLegacyUsageTotals PROVE IInv'
<1> USE DEF IInv
<1>1. /\ UNCHANGED <<requests, retained, window, running, ran, control, telemetry, may, backup, safe>>
      /\ tool' = [cmd |-> tool'.cmd, at |-> tool'.at]
      /\ tool'.cmd = "split" /\ tool'.at = "buckets" /\ tool.at = "totals"
      /\ running = "none" /\ ran = "old" /\ ~ telemetry.marked /\ "new" \notin may
      /\ ControlTold
  <2>1. /\ Go("totals", "buckets")
        /\ UNCHANGED <<control, telemetry, may, backup, safe>>
    BY DEF copyLegacyUsageTotals
  <2>2. "totals" \in CopySteps /\ "buckets" \in Steps \ {"idle"}
    BY DEF CopySteps, Steps
  <2> QED
    BY <2>1, <2>2, CopyFacts
<1>2. usage' = [totals |-> Over(control.totals, usage.totals), start |-> usage.start,
                bucket |-> usage.bucket, windows |-> usage.windows, marked |-> usage.marked]
  BY DEF copyLegacyUsageTotals, Typed, Shapes
<1>3. usage'.totals = control.totals /\ usage'.totals \in [Keys -> Nat]
  <2>1. control.totals \in [Keys -> Nat] /\ DOMAIN usage.totals \subseteq Keys
    BY DEF Typed, Counters
  <2>2. Over(control.totals, usage.totals) = control.totals
    BY <2>1 DEF Over
  <2> QED
    BY <1>2, <2>1, <2>2
<1>4. UsageTold'
  <2>1. \A k \in Keys : k \in DOMAIN usage'.totals /\ usage'.totals[k] = Used(k)
    BY <1>1, <1>3 DEF ControlTold
  <2> QED
    BY <1>1, <2>1, SameRequests DEF UsageTold
<1>5. Typed'
  <2>1. Shapes'
    BY <1>1, <1>2 DEF Typed, Shapes
  <2>2. Counters'
    BY <1>1, <1>2, <1>3 DEF Typed, Counters
  <2>3. Tables' /\ Times'
    BY <1>1, <1>2 DEF Typed, Tables, Times
  <2>4. States'
    BY <1>1, <1>2 DEF Typed, States, Steps
  <2> QED
    BY <2>1, <2>2, <2>3, <2>4 DEF Typed
<1>6. Order'
  BY <1>1, <1>2 DEF Order, CopySteps, MergeSteps
<1>7. Totals'
  <2>1. \A k \in DOMAIN usage'.totals : usage'.totals[k] <= Used(k)
    BY <1>1, <1>3, UsedFacts DEF ControlTold
  <2> QED
    BY <1>1, <2>1, SameRequests, SameControl DEF Totals
<1>8. Carried'
  BY <1>1 DEF Carried, Ready
<1>9. Source'
  BY <1>1, SameSource
<1>10. Progress'
  BY <1>1, <1>4 DEF Progress
<1>11. Saved'
  BY <1>1 DEF Saved, BackedUpFirst
<1> QED
  BY <1>5, <1>6, <1>7, <1>8, <1>9, <1>10, <1>11

LEMMA AggregateKeeps == ASSUME IInv, aggregateLegacyUsageBuckets PROVE IInv'
<1> USE DEF IInv
<1>1. /\ UNCHANGED <<requests, retained, window, running, ran, control, telemetry, may, backup, safe>>
      /\ tool' = [cmd |-> tool'.cmd, at |-> tool'.at]
      /\ tool'.cmd = "split" /\ tool'.at = "logs" /\ tool.at = "buckets"
      /\ running = "none" /\ ran = "old" /\ ~ telemetry.marked /\ "new" \notin may
  <2>1. /\ Go("buckets", "logs")
        /\ UNCHANGED <<control, telemetry, may, backup, safe>>
    BY DEF aggregateLegacyUsageBuckets
  <2>2. "buckets" \in CopySteps /\ "logs" \in Steps \ {"idle"}
    BY DEF CopySteps, Steps
  <2> QED
    BY <2>1, <2>2, CopyFacts
<1>2. usage' = [totals |-> usage.totals, start |-> window, bucket |-> LegacyBuckets,
                windows |-> usage.windows, marked |-> usage.marked]
  BY DEF aggregateLegacyUsageBuckets, Typed, Shapes
<1>3. UsageTold'
  <2>1. UsageTold
    BY <1>1 DEF Progress
  <2> QED
    BY <1>1, <1>2, <2>1, SameRequests DEF UsageTold
<1>4. LimitsReady'
  <2>1. SUFFICES ASSUME NEW k \in Keys
                 PROVE  /\ InBucket(k)' >= Cardinality(Covered(k))'
                        /\ InBucket(k)' <= Cardinality(InWindow(k))'
    BY DEF LimitsReady
  <2>2. InWindow(k)' = InWindow(k) /\ Covered(k)' = Covered(k)
    BY <1>1 DEF InWindow, Covered, SinceThen, Larger
  <2>3. Bucket' = LegacyBuckets
    BY <1>1, <1>2 DEF Bucket
  <2>4. InBucket(k)' = IF k \in DOMAIN LegacyBuckets THEN LegacyBuckets[k] ELSE 0
    BY <2>3 DEF InBucket
  <2>5. InBucket(k)' = Cardinality(Covered(k))
    BY <1>1, <2>4, LegacyBucketFacts
  <2>6. /\ Cardinality(Covered(k)) \in Nat /\ Cardinality(InWindow(k)) \in Nat
        /\ Cardinality(Covered(k)) <= Cardinality(InWindow(k))
    BY UsedFacts
  <2> QED
    BY <2>2, <2>5, <2>6
<1>5. Typed'
  <2>1. Shapes'
    BY <1>1, <1>2 DEF Typed, Shapes
  <2>2. Counters'
    BY <1>1, <1>2, LegacyBucketFacts DEF Typed, Counters
  <2>3. Tables' /\ Times'
    BY <1>1, <1>2 DEF Typed, Tables, Times
  <2>4. States'
    BY <1>1, <1>2 DEF Typed, States, Steps
  <2> QED
    BY <2>1, <2>2, <2>3, <2>4 DEF Typed
<1>6. Order'
  BY <1>1, <1>2 DEF Order, CopySteps, MergeSteps
<1>7. Totals'
  BY <1>1, <1>2, SameRequests, SameControl DEF Totals
<1>8. Carried'
  BY <1>1 DEF Carried, Ready
<1>9. Source'
  BY <1>1, SameSource
<1>10. Progress'
  BY <1>1, <1>3, <1>4 DEF Progress
<1>11. Saved'
  BY <1>1 DEF Saved, BackedUpFirst
<1> QED
  BY <1>5, <1>6, <1>7, <1>8, <1>9, <1>10, <1>11

(* Every recent row of the control database arrives, under its own id; a   *)
(* row of an earlier attempt is the same row.                              *)
LEMMA CopyLogsKeeps == ASSUME IInv, copyLegacyRequestLogs PROVE IInv'
<1> USE DEF IInv
<1> DEFINE recent == RecentLogs(control)
           logs == Over(recent, telemetry.logs)
           next == NextId(telemetry.nextId, recent)
<1>1. /\ UNCHANGED <<requests, retained, window, running, ran, control, usage, may, backup, safe>>
      /\ tool' = [cmd |-> tool'.cmd, at |-> tool'.at]
      /\ tool'.cmd = "split" /\ tool'.at = "sessions" /\ tool.at = "logs"
      /\ running = "none" /\ ran = "old" /\ ~ telemetry.marked /\ "new" \notin may
  <2>1. /\ Go("logs", "sessions")
        /\ UNCHANGED <<control, usage, may, backup, safe>>
    BY DEF copyLegacyRequestLogs
  <2>2. "logs" \in CopySteps /\ "sessions" \in Steps \ {"idle"}
    BY DEF CopySteps, Steps
  <2> QED
    BY <2>1, <2>2, CopyFacts
<1>2. telemetry' = [logs |-> logs, nextId |-> next, sessions |-> telemetry.sessions,
                    marked |-> telemetry.marked]
  BY DEF copyLegacyRequestLogs, WithLogs, Typed, Shapes
<1>3. /\ DOMAIN recent = {id \in DOMAIN control.logs : control.logs[id] >= retained}
      /\ \A id \in DOMAIN recent : recent[id] = control.logs[id]
  BY RecentFacts
<1>4. /\ DOMAIN logs = DOMAIN recent \cup DOMAIN telemetry.logs
      /\ \A id \in DOMAIN recent : logs[id] = recent[id]
      /\ \A id \in DOMAIN telemetry.logs \ DOMAIN recent : logs[id] = telemetry.logs[id]
  BY OverFacts
<1>5. /\ requests \in Seq(Keys) /\ Len(requests) \in Nat /\ Len(requests) <= MaxRequests
      /\ retained \in Nat /\ retained >= 1
      /\ LogsOK(telemetry.logs, telemetry.nextId, requests)
      /\ LogsOK(control.logs, control.nextId, requests)
  BY DEF Typed, Times, Tables
<1> HIDE DEF recent, logs, next
<1>6. \A id \in DOMAIN logs : id \in DOMAIN control.logs /\ logs[id] = control.logs[id]
  BY <1>1, <1>3, <1>4 DEF Source
<1>7. LogsOK(logs, next, requests)
  <2>1. LogsOK(recent, control.nextId, requests)
    BY <1>3, <1>5, LogsFewer
  <2>2. \A id \in DOMAIN logs : \/ id \in DOMAIN telemetry.logs /\ logs[id] = telemetry.logs[id]
                                \/ id \in DOMAIN recent /\ logs[id] = recent[id]
    BY <1>4
  <2>3. DOMAIN logs = DOMAIN telemetry.logs \cup DOMAIN recent
    BY <1>4
  <2> QED
    BY <1>5, <2>1, <2>2, <2>3, LogsMerged DEF next
<1>8. Typed'
  <2>1. Shapes'
    BY <1>1, <1>2 DEF Typed, Shapes
  <2>2. Tables'
    BY <1>1, <1>2, <1>7 DEF Typed, Tables
  <2>3. Counters' /\ Times'
    BY <1>1 DEF Typed, Counters, Times
  <2>4. States'
    BY <1>1, <1>2 DEF Typed, States, Steps
  <2> QED
    BY <2>1, <2>2, <2>3, <2>4 DEF Typed
<1>9. LogsReady'
  <2>1. Distinct(logs)
    BY <1>1, <1>6 DEF Source, Distinct
  <2>2. ASSUME NEW n \in retained .. Len(requests)
        PROVE  \E id \in DOMAIN logs : logs[id] = n
    <3>1. n \in 1 .. Len(requests) /\ n >= retained
      BY <1>5
    <3>2. PICK id \in DOMAIN control.logs : control.logs[id] = n
      BY <1>1, <3>1 DEF Source
    <3> QED
      BY <1>3, <1>4, <3>1, <3>2
  <2> QED
    BY <1>1, <1>2, <2>1, <2>2 DEF LogsReady
<1>10. Order'
  BY <1>1, <1>2 DEF Order, CopySteps, MergeSteps
<1>11. Totals'
  BY <1>1, SameRequests, SameControl DEF Totals
<1>12. Carried'
  BY <1>1, <1>2 DEF Carried, Ready
<1>13. Source'
  BY <1>1, <1>2, <1>6 DEF Source
<1>14. Progress'
  <2>1. UsageTold' /\ LimitsReady'
    BY <1>1, SameUsage DEF Progress
  <2> QED
    BY <1>1, <1>9, <2>1 DEF Progress
<1>15. Saved'
  BY <1>1 DEF Saved, BackedUpFirst
<1> QED
  BY <1>8, <1>10, <1>11, <1>12, <1>13, <1>14, <1>15

LEMMA CopySessionsKeeps == ASSUME IInv, copyLegacyAPISessions PROVE IInv'
<1> USE DEF IInv
<1> DEFINE recent == RecentSessions(control)
           sessions == Over(recent, telemetry.sessions)
<1>1. /\ UNCHANGED <<requests, retained, window, running, ran, control, usage, may, backup, safe>>
      /\ tool' = [cmd |-> tool'.cmd, at |-> tool'.at]
      /\ tool'.cmd = "split" /\ tool'.at = "mark usage" /\ tool.at = "sessions"
      /\ running = "none" /\ ran = "old" /\ ~ telemetry.marked /\ "new" \notin may
  <2>1. /\ Go("sessions", "mark usage")
        /\ UNCHANGED <<control, usage, may, backup, safe>>
    BY DEF copyLegacyAPISessions
  <2>2. "sessions" \in CopySteps /\ "mark usage" \in Steps \ {"idle"}
    BY DEF CopySteps, Steps
  <2> QED
    BY <2>1, <2>2, CopyFacts
<1>2. telemetry' = [logs |-> telemetry.logs, nextId |-> telemetry.nextId, sessions |-> sessions,
                    marked |-> telemetry.marked]
  BY DEF copyLegacyAPISessions, Typed, Shapes
<1>3. /\ DOMAIN recent = {k \in DOMAIN control.sessions : control.sessions[k].last >= retained}
      /\ \A k \in DOMAIN recent : recent[k] = control.sessions[k]
  BY RecentFacts
<1>4. /\ DOMAIN sessions = DOMAIN recent \cup DOMAIN telemetry.sessions
      /\ \A k \in DOMAIN recent : sessions[k] = recent[k]
      /\ \A k \in DOMAIN telemetry.sessions \ DOMAIN recent : sessions[k] = telemetry.sessions[k]
  BY OverFacts
<1>5. /\ Len(requests) \in Nat /\ retained \in Nat /\ retained >= 1
      /\ SessionsOK(telemetry.sessions, requests) /\ SessionsOK(control.sessions, requests)
  BY DEF Typed, Times, Tables
<1> HIDE DEF recent, sessions
<1>6. SessionsOK(sessions, requests)
  BY <1>3, <1>4, <1>5 DEF SessionsOK
<1>7. Typed'
  <2>1. Shapes'
    BY <1>1, <1>2 DEF Typed, Shapes
  <2>2. Tables'
    BY <1>1, <1>2, <1>6 DEF Typed, Tables
  <2>3. Counters' /\ Times'
    BY <1>1 DEF Typed, Counters, Times
  <2>4. States'
    BY <1>1, <1>2 DEF Typed, States, Steps
  <2> QED
    BY <2>1, <2>2, <2>3, <2>4 DEF Typed
<1>8. SessionsReady'
  <2>1. ASSUME NEW n \in retained .. Len(requests)
        PROVE  requests[n] \in DOMAIN sessions /\ sessions[requests[n]].last >= n
    <3>1. n \in 1 .. Len(requests) /\ n >= retained
      BY <1>5
    <3>2. requests[n] \in DOMAIN control.sessions /\ control.sessions[requests[n]].last >= n
      BY <1>1, <3>1 DEF Source
    <3>3. control.sessions[requests[n]].last \in 1 .. Len(requests)
      BY <1>5, <3>2 DEF SessionsOK
    <3>4. control.sessions[requests[n]].last >= retained
      BY <1>5, <3>1, <3>2, <3>3
    <3> QED
      BY <1>3, <1>4, <3>2, <3>4
  <2> QED
    BY <1>1, <1>2, <2>1 DEF SessionsReady
<1>9. Order'
  BY <1>1, <1>2 DEF Order, CopySteps, MergeSteps
<1>10. Totals'
  BY <1>1, SameRequests, SameControl DEF Totals
<1>11. Carried'
  BY <1>1, <1>2 DEF Carried, Ready
<1>12. Source'
  BY <1>1, <1>2 DEF Source
<1>13. Progress'
  <2>1. UsageTold' /\ LimitsReady'
    BY <1>1, SameUsage DEF Progress
  <2>2. LogsReady'
    BY <1>1, <1>2 DEF Progress, LogsReady
  <2> QED
    BY <1>1, <1>8, <2>1, <2>2 DEF Progress
<1>14. Saved'
  BY <1>1 DEF Saved, BackedUpFirst
<1> QED
  BY <1>7, <1>9, <1>10, <1>11, <1>12, <1>13, <1>14

(* The marks: with the second, all that a split carries over is in place.  *)
LEMMA MarkKeeps == ASSUME IInv, markUsage \/ markTelemetry PROVE IInv'
<1> USE DEF IInv
<1>1. /\ UNCHANGED <<requests, retained, window, running, ran, control, may, backup, safe>>
      /\ tool' = [cmd |-> tool'.cmd, at |-> tool'.at] /\ tool'.cmd = "split"
      /\ tool.at \in {"mark usage", "mark telemetry"}
      /\ running = "none" /\ ran = "old" /\ ~ telemetry.marked /\ "new" \notin may
      /\ \/ markUsage /\ tool'.at = "mark telemetry"
         \/ markTelemetry /\ tool.at = "mark telemetry" /\ tool'.at = "verify"
  <2>1. \/ Go("mark usage", "mark telemetry") /\ markUsage
        \/ Go("mark telemetry", "verify") /\ markTelemetry
    BY DEF markUsage, markTelemetry
  <2>2. UNCHANGED <<control, may, backup, safe>>
    BY DEF markUsage, markTelemetry
  <2>3. /\ "mark usage" \in CopySteps /\ "mark telemetry" \in CopySteps
        /\ "mark telemetry" \in Steps \ {"idle"} /\ "verify" \in Steps \ {"idle"}
    BY DEF CopySteps, Steps
  <2> QED
    BY <2>1, <2>2, <2>3, CopyFacts
<1>2. /\ telemetry' = [logs |-> telemetry.logs, nextId |-> telemetry.nextId,
                       sessions |-> telemetry.sessions, marked |-> telemetry'.marked]
      /\ usage' = [totals |-> usage.totals, start |-> usage.start, bucket |-> usage.bucket,
                   windows |-> usage.windows, marked |-> TRUE]
      /\ telemetry'.marked \in BOOLEAN
      /\ markUsage => UNCHANGED telemetry
      /\ markTelemetry => telemetry'.marked
  <2>1. CASE markUsage
    <3>1. UNCHANGED telemetry
      BY <2>1 DEF markUsage
    <3>2. usage' = [usage EXCEPT !.marked = TRUE]
      BY <2>1 DEF markUsage
    <3>3. ~ markTelemetry
      BY <2>1 DEF markUsage, markTelemetry, Go
    <3> QED
      BY <2>1, <3>1, <3>2, <3>3 DEF Typed, Shapes, States
  <2>2. CASE markTelemetry
    <3>1. UNCHANGED usage
      BY <2>2 DEF markTelemetry
    <3>2. telemetry' = [telemetry EXCEPT !.marked = TRUE]
      BY <2>2 DEF markTelemetry
    <3>3. usage.marked
      BY <2>2 DEF markTelemetry, Go, Order
    <3>4. ~ markUsage
      BY <2>2 DEF markUsage, markTelemetry, Go
    <3> QED
      BY <2>2, <3>1, <3>2, <3>3, <3>4 DEF Typed, Shapes, States
  <2> QED
    BY <1>1, <2>1, <2>2
<1>3. /\ telemetry'.logs = telemetry.logs /\ telemetry'.nextId = telemetry.nextId
      /\ telemetry'.sessions = telemetry.sessions
      /\ usage'.totals = usage.totals /\ usage'.start = usage.start /\ usage'.bucket = usage.bucket
      /\ usage'.windows = usage.windows /\ usage'.marked
  BY <1>2
<1>4. UsageTold' /\ LimitsReady' /\ LogsReady' /\ SessionsReady'
  <2>1. UsageTold /\ LimitsReady /\ LogsReady /\ SessionsReady
    BY <1>1 DEF Progress
  <2>2. UsageTold'
    BY <1>1, <1>2, <2>1, SameRequests DEF UsageTold
  <2>3. LimitsReady'
    BY <1>1, <1>2, <2>1 DEF LimitsReady, InWindow, Covered, SinceThen, Larger, InBucket, Bucket
  <2>4. LogsReady' /\ SessionsReady'
    <3>1. LogsReady'
      BY <1>1, <1>3, <2>1 DEF LogsReady
    <3>2. SessionsReady'
      BY <1>1, <1>3, <2>1 DEF SessionsReady
    <3> QED
      BY <3>1, <3>2
  <2> QED
    BY <2>2, <2>3, <2>4
<1>5. Typed'
  <2>1. Shapes'
    BY <1>1, <1>2 DEF Typed, Shapes
  <2>2. Tables' /\ Counters' /\ Times'
    BY <1>1, <1>3 DEF Typed, Tables, Counters, Times
  <2>3. States'
    BY <1>1, <1>2 DEF Typed, States, Steps
  <2> QED
    BY <2>1, <2>2, <2>3 DEF Typed
<1>6. Order'
  BY <1>1, <1>2 DEF Order, CopySteps, MergeSteps
<1>7. Totals'
  BY <1>1, <1>2, SameRequests, SameControl DEF Totals
<1>8. Carried'
  BY <1>1, <1>4 DEF Carried
<1>9. Source'
  <2>1. CASE markUsage
    BY <1>1, <1>2, <2>1, SameSource
  <2>2. CASE markTelemetry
    BY <1>2, <2>2 DEF Source
  <2> QED
    BY <1>1, <2>1, <2>2
<1>10. Progress'
  BY <1>4 DEF Progress
<1>11. Saved'
  BY <1>1 DEF Saved, BackedUpFirst
<1> QED
  BY <1>5, <1>6, <1>7, <1>8, <1>9, <1>10, <1>11

----------------------------------------------------------------------------
(* The way back: only the control database is written to. The databases of *)
(* the new version stay as they are, ready for it to start again.          *)

LEMMA MergeRows ==
  ASSUME IInv, MergeBack
  PROVE  /\ control' = [logs |-> control'.logs, nextId |-> control'.nextId,
                        sessions |-> control'.sessions, totals |-> control'.totals]
         /\ LogsOK(control'.logs, control'.nextId, requests)
         /\ SessionsOK(control'.sessions, requests)
<1> USE DEF IInv
<1>1. /\ requests \in Seq(Keys) /\ Len(requests) \in Nat /\ Len(requests) <= MaxRequests
      /\ LogsOK(control.logs, control.nextId, requests) /\ SessionsOK(control.sessions, requests)
      /\ LogsOK(telemetry.logs, telemetry.nextId, requests)
      /\ SessionsOK(telemetry.sessions, requests)
  BY DEF Typed, Times, Tables
<1>2. CASE mergeTelemetryLogsBack
  <2> DEFINE logs == Over(control.logs, telemetry.logs)
             next == NextId(control.nextId, telemetry.logs)
  <2>1. control' = [logs |-> logs, nextId |-> next, sessions |-> control.sessions,
                    totals |-> control.totals]
    BY <1>2 DEF mergeTelemetryLogsBack, WithLogs, Typed, Shapes
  <2>2. /\ DOMAIN logs = DOMAIN control.logs \cup DOMAIN telemetry.logs
        /\ \A id \in DOMAIN logs : \/ id \in DOMAIN control.logs /\ logs[id] = control.logs[id]
                                   \/ id \in DOMAIN telemetry.logs /\ logs[id] = telemetry.logs[id]
    BY DEF Over
  <2> HIDE DEF logs, next
  <2>3. LogsOK(logs, next, requests)
    BY <1>1, <2>2, LogsMerged DEF next
  <2> QED
    BY <1>1, <2>1, <2>3
<1>3. CASE mergeTelemetrySessionsBack
  <2> DEFINE merged == [k \in DOMAIN telemetry.sessions |-> Merged(control.sessions, k)]
             sessions == Over(merged, control.sessions)
  <2>1. control' = [logs |-> control.logs, nextId |-> control.nextId, sessions |-> sessions,
                    totals |-> control.totals]
    BY <1>3 DEF mergeTelemetrySessionsBack, Typed, Shapes
  <2>2. ASSUME NEW k \in DOMAIN telemetry.sessions
        PROVE  /\ merged[k] \in Session /\ merged[k].last \in 1 .. Len(requests)
               /\ requests[merged[k].last] = k
    <3> DEFINE new == telemetry.sessions[k]
               last == IF k \in DOMAIN control.sessions
                       THEN Larger(control.sessions[k].last, new.last) ELSE new.last
    <3>1. /\ new \in Session /\ new.last \in 1 .. Len(requests) /\ requests[new.last] = k
          /\ k \in DOMAIN control.sessions =>
               /\ control.sessions[k].last \in 1 .. Len(requests)
               /\ requests[control.sessions[k].last] = k
      BY <1>1 DEF SessionsOK
    <3>2. last \in 1 .. Len(requests) /\ requests[last] = k
      BY <3>1 DEF Larger
    <3>3. merged[k] = [new EXCEPT !.last = last]
      BY DEF Merged
    <3> HIDE DEF last, new, merged
    <3>4. merged[k] \in Session /\ merged[k].last = last
      BY <1>1, <3>1, <3>2, <3>3 DEF Session
    <3> QED
      BY <3>2, <3>4
  <2>3. DOMAIN merged = DOMAIN telemetry.sessions
    OBVIOUS
  <2> HIDE DEF merged
  <2>4. /\ DOMAIN sessions = DOMAIN merged \cup DOMAIN control.sessions
        /\ \A k \in DOMAIN merged : sessions[k] = merged[k]
        /\ \A k \in DOMAIN control.sessions \ DOMAIN merged : sessions[k] = control.sessions[k]
    BY OverFacts
  <2> HIDE DEF sessions
  <2>5. SessionsOK(sessions, requests)
    BY <1>1, <2>2, <2>3, <2>4 DEF SessionsOK
  <2> QED
    BY <1>1, <2>1, <2>5
<1>4. CASE mergeUsageTotalsBack
  BY <1>1, <1>4 DEF mergeUsageTotalsBack, Typed, Shapes
<1> QED
  BY <1>2, <1>3, <1>4 DEF MergeBack

LEMMA MergeBackKeeps == ASSUME IInv, MergeBack PROVE IInv'
<1> USE DEF IInv
<1>1. \/ /\ Go("merge logs", "merge sessions") /\ UNCHANGED control.totals
      \/ /\ Go("merge sessions", "merge totals") /\ UNCHANGED control.totals
      \/ /\ Go("merge totals", "verify")
         /\ control'.totals = Over(usage.totals, control.totals)
  BY DEF MergeBack, mergeTelemetryLogsBack, mergeTelemetrySessionsBack, mergeUsageTotalsBack,
         WithLogs, Typed, Shapes
<1>2. UNCHANGED <<usage, telemetry, may, backup, safe>>
  BY DEF MergeBack, mergeTelemetryLogsBack, mergeTelemetrySessionsBack, mergeUsageTotalsBack
<1>3. /\ UNCHANGED <<requests, retained, window, running, ran>>
      /\ tool' = [cmd |-> tool'.cmd, at |-> tool'.at]
      /\ tool'.cmd = tool.cmd /\ tool.at \in MergeSteps
      /\ \/ tool'.at \in {"merge sessions", "merge totals"} /\ UNCHANGED control.totals
         \/ /\ tool'.at = "verify" /\ tool.at = "merge totals"
            /\ control'.totals = Over(usage.totals, control.totals)
  <2>1. CASE Go("merge logs", "merge sessions") /\ UNCHANGED control.totals
    <3>1. Go("merge logs", "merge sessions")
      BY <2>1
    <3>2. /\ UNCHANGED <<requests, retained, window, running, ran>>
          /\ tool' = [cmd |-> tool'.cmd, at |-> tool'.at]
          /\ tool'.cmd = tool.cmd /\ tool.at = "merge logs" /\ tool'.at = "merge sessions"
      BY <3>1 DEF Go, service, Typed, Shapes
    <3> QED
      BY <2>1, <3>2 DEF MergeSteps
  <2>2. CASE Go("merge sessions", "merge totals") /\ UNCHANGED control.totals
    <3>1. Go("merge sessions", "merge totals")
      BY <2>2
    <3>2. /\ UNCHANGED <<requests, retained, window, running, ran>>
          /\ tool' = [cmd |-> tool'.cmd, at |-> tool'.at]
          /\ tool'.cmd = tool.cmd /\ tool.at = "merge sessions" /\ tool'.at = "merge totals"
      BY <3>1 DEF Go, service, Typed, Shapes
    <3> QED
      BY <2>2, <3>2 DEF MergeSteps
  <2>3. CASE /\ Go("merge totals", "verify")
             /\ control'.totals = Over(usage.totals, control.totals)
    <3>1. Go("merge totals", "verify")
      BY <2>3
    <3>2. /\ UNCHANGED <<requests, retained, window, running, ran>>
          /\ tool' = [cmd |-> tool'.cmd, at |-> tool'.at]
          /\ tool'.cmd = tool.cmd /\ tool.at = "merge totals" /\ tool'.at = "verify"
      BY <3>1 DEF Go, service, Typed, Shapes
    <3> QED
      BY <2>3, <3>2 DEF MergeSteps
  <2> QED
    BY <1>1, <2>1, <2>2, <2>3
<1>4. tool.cmd = "merge-back" /\ ran = "new" /\ running = "none"
  BY <1>3 DEF Order, MergeSteps
<1>5. Ready
  BY <1>4 DEF Carried
<1>6. /\ \A k : Used(k)' = Used(k)
      /\ (UsageTold' <=> UsageTold) /\ (LimitsReady' <=> LimitsReady)
      /\ (LogsReady' <=> LogsReady) /\ (SessionsReady' <=> SessionsReady)
  BY <1>2, <1>3, SameRequests, SameUsage, SameTelemetry
<1>7. /\ tool'.at = "verify" => control'.totals = usage.totals
      /\ control'.totals \in [Keys -> Nat]
  <2>1. control.totals \in [Keys -> Nat] /\ usage.totals \in [Keys -> Nat]
    BY <1>5 DEF Ready, UsageTold, Typed, Counters
  <2>2. Over(usage.totals, control.totals) = usage.totals
    BY <2>1 DEF Over
  <2> QED
    BY <1>3, <2>1, <2>2
<1>8. (tool'.at = "verify" \/ ControlTold) => ControlTold'
  <2>1. CASE tool'.at = "verify"
    BY <1>5, <1>6, <1>7, <2>1 DEF ControlTold, Ready, UsageTold
  <2>2. CASE tool'.at # "verify"
    BY <1>3, <1>6, <2>2 DEF ControlTold
  <2> QED
    BY <2>1, <2>2
<1>9. Typed'
  <2>1. Shapes'
    BY <1>2, <1>3, MergeRows DEF Typed, Shapes
  <2>2. Tables'
    BY <1>2, <1>3, MergeRows DEF Typed, Tables
  <2>3. Counters' /\ Times'
    BY <1>2, <1>3, <1>7 DEF Typed, Counters, Times
  <2>4. States'
    BY <1>2, <1>3, <1>4 DEF Typed, States, Steps
  <2> QED
    BY <2>1, <2>2, <2>3, <2>4 DEF Typed
<1>10. Order'
  BY <1>2, <1>3, <1>4, <1>8 DEF Order, CopySteps, MergeSteps
<1>11. Totals'
  BY <1>2, <1>3, <1>4, <1>6, <1>8 DEF Totals
<1>12. Carried'
  BY <1>2, <1>3, <1>5, <1>6 DEF Carried, Ready
<1>13. Source'
  BY <1>2, <1>5 DEF Source, Ready
<1>14. Progress'
  BY <1>3 DEF Progress
<1>15. Saved'
  BY <1>2, <1>3 DEF Saved, BackedUpFirst
<1> QED
  BY <1>9, <1>10, <1>11, <1>12, <1>13, <1>14, <1>15

----------------------------------------------------------------------------
(* The theorems.                                                           *)

LEMMA NextKeeps == IInv /\ [Next]_vars => IInv'
<1> SUFFICES ASSUME IInv, [Next]_vars PROVE IInv'
  OBVIOUS
<1>1. CASE \E v \in {"old", "new"} : Start(v)
  BY <1>1, StartKeeps
<1>2. CASE Stop
  BY <1>2, StopKeeps
<1>3. CASE Prune
  BY <1>3, PruneKeeps
<1>4. CASE \E k \in Keys : RecordOld(k) \/ \E independent \in BOOLEAN : RecordNew(k, independent)
  BY <1>4, RecordOldKeeps, RecordNewKeeps
<1>5. CASE \E ends \in BOOLEAN, oldest \in retained .. Len(requests) + 1 : Wait(ends, oldest)
  BY <1>5, WaitKeeps
<1>6. CASE \E cmd \in {"split", "verify", "merge-back"}, nextSecond \in BOOLEAN :
             Begin(cmd, nextSecond)
  BY <1>6, BeginKeeps
<1>7. CASE Abort
  BY <1>7, AbortKeeps
<1>8. CASE Split
  BY <1>8, BackupKeeps, CopyTotalsKeeps, AggregateKeeps, CopyLogsKeeps, CopySessionsKeeps,
     MarkKeeps DEF Split
<1>9. CASE MergeBack
  BY <1>9, MergeBackKeeps
<1>10. CASE verifyOpenDatabases
  BY <1>10, VerifyKeeps
<1>11. CASE UNCHANGED vars
  <2>1. UNCHANGED <<requests, retained, window, control, usage, telemetry, running, ran, may,
                    tool, backup, safe>>
    BY <1>11 DEF vars, service
  <2>2. Typed'
    BY <2>1 DEF IInv, Typed, Shapes, Tables, Counters, Times, States
  <2>3. Source' /\ Progress' /\ Saved'
    BY <2>1, SameData DEF IInv, Progress, Saved, BackedUpFirst
  <2>4. Order'
    BY <2>1, SameData DEF IInv, Order, CopySteps, MergeSteps
  <2>5. Totals' /\ Carried'
    BY <2>1, SameData DEF IInv, Totals, Carried
  <2> QED
    BY <2>2, <2>3, <2>4, <2>5 DEF IInv
<1> QED
  BY <1>1, <1>2, <1>3, <1>4, <1>5, <1>6, <1>7, <1>8, <1>9, <1>10, <1>11 DEF Next

(* For every set of keys and every number of requests, the databases stay  *)
(* in a state from which whichever version may start finds what it needs.  *)
THEOREM MigrationInvariant == Spec => []IInv
BY InitInvariant, NextKeeps, PTL DEF Spec

----------------------------------------------------------------------------
(* The way back: what the old version finds when it may run again.         *)

(* A request has the same id wherever it has a row.                        *)
Paired ==
  /\ Distinct(control.logs) /\ Distinct(telemetry.logs)
  /\ \A i \in DOMAIN control.logs, j \in DOMAIN telemetry.logs :
       control.logs[i] = telemetry.logs[j] => i = j

ControlLogsReady ==
  \A n \in retained .. Len(requests) : \E id \in DOMAIN control.logs : control.logs[id] = n

ControlSessionsReady ==
  \A n \in retained .. Len(requests) :
    /\ requests[n] \in DOMAIN control.sessions
    /\ control.sessions[requests[n]].last >= n

(* When the rows have been merged back, or never left.                     *)
MergedBack(steps) ==
  \/ ran = "old" \/ "old" \in may
  \/ tool.cmd = "merge-back" /\ tool.at \in steps
LogsBack == MergedBack({"merge sessions", "merge totals", "verify"})
SessionsBack == MergedBack({"merge totals", "verify"})

Returned ==
  /\ Paired
  /\ LogsBack /\ IdsAgree => ControlLogsReady
  /\ SessionsBack => ControlSessionsReady

LEMMA SamePairs ==
  ASSUME Paired, UNCHANGED <<control.logs, telemetry.logs>>
  PROVE  Paired'
BY DEF Paired, Distinct

(* A step that writes no row of these tables, and lets nobody go on who    *)
(* could not before.                                                       *)
LEMMA SameRows ==
  ASSUME IInv, Returned, UNCHANGED <<requests, control.logs, control.sessions, telemetry.logs>>,
         retained' \in retained .. Len(requests) + 1,
         LogsBack' => LogsBack, SessionsBack' => SessionsBack
  PROVE  Returned'
<1>1. retained \in Nat /\ Len(requests) \in Nat
  BY DEF IInv, Typed, Times
<1>2. Paired'
  BY SamePairs DEF Returned
<1>3. IdsAgree' <=> IdsAgree
  BY DEF IdsAgree
<1>4. ControlLogsReady => ControlLogsReady'
  BY <1>1 DEF ControlLogsReady
<1>5. ControlSessionsReady => ControlSessionsReady'
  BY <1>1 DEF ControlSessionsReady
<1> QED
  BY <1>2, <1>3, <1>4, <1>5 DEF Returned

LEMMA InitReturned == Init => Returned
<1> SUFFICES ASSUME Init PROVE Returned
  OBVIOUS
<1>1. Len(requests) = 0 /\ retained = 1
  BY DEF Init
<1>2. DOMAIN control.logs = {} /\ DOMAIN telemetry.logs = {}
  BY DEF Init, NoRows
<1>3. Paired
  BY <1>2 DEF Paired, Distinct
<1>4. ControlLogsReady /\ ControlSessionsReady
  BY <1>1 DEF ControlLogsReady, ControlSessionsReady
<1> QED
  BY <1>3, <1>4 DEF Returned

(* Everything but the records, the retention of the new version, the copy  *)
(* of the logs and the merge of the logs and the sessions.                 *)
LEMMA QuietReturned ==
  ASSUME IInv, Returned,
         \/ \E v \in {"old", "new"} : Start(v)
         \/ Stop
         \/ \E ends \in BOOLEAN, oldest \in retained .. Len(requests) + 1 : Wait(ends, oldest)
         \/ \E cmd \in {"split", "verify", "merge-back"}, nextSecond \in BOOLEAN :
              Begin(cmd, nextSecond)
         \/ Abort \/ UNCHANGED vars
  PROVE  Returned'
<1>0. retained \in retained .. Len(requests) + 1
  BY DEF IInv, Typed, Times
<1>1. /\ UNCHANGED <<requests, control.logs, control.sessions, telemetry.logs>>
      /\ retained' \in retained .. Len(requests) + 1
  <2>1. \/ UNCHANGED <<requests, retained, control, telemetry>>
        \/ \E ends \in BOOLEAN, oldest \in retained .. Len(requests) + 1 : Wait(ends, oldest)
    BY DEF Start, Stop, Begin, Abort, service, vars
  <2>2. CASE UNCHANGED <<requests, retained, control, telemetry>>
    BY <1>0, <2>2
  <2>3. CASE \E ends \in BOOLEAN, oldest \in retained .. Len(requests) + 1 : Wait(ends, oldest)
    BY <2>3 DEF Wait
  <2> QED
    BY <2>1, <2>2, <2>3
<1>2. CASE \E v \in {"old", "new"} : Start(v)
  <2>1. PICK v \in {"old", "new"} : Start(v)
    BY <1>2
  <2>2. /\ ran' = v /\ may' = {v} /\ v \in may /\ tool'.at = "idle"
    BY <2>1 DEF Start, Stopped
  <2>3. (LogsBack' => LogsBack) /\ (SessionsBack' => SessionsBack)
    BY <2>2 DEF LogsBack, SessionsBack, MergedBack
  <2> QED
    BY <1>1, <2>3, SameRows
<1>3. CASE Stop \/ UNCHANGED vars
        \/ \E ends \in BOOLEAN, oldest \in retained .. Len(requests) + 1 : Wait(ends, oldest)
  <2>1. UNCHANGED <<ran, may, tool>>
    BY <1>3 DEF Stop, Wait, vars, service
  <2>2. (LogsBack' => LogsBack) /\ (SessionsBack' => SessionsBack)
    BY <2>1 DEF LogsBack, SessionsBack, MergedBack
  <2> QED
    BY <1>1, <2>2, SameRows
<1>4. CASE Abort \/ \E cmd \in {"split", "verify", "merge-back"}, nextSecond \in BOOLEAN :
                      Begin(cmd, nextSecond)
  <2>1. /\ UNCHANGED <<ran, may>>
        /\ tool'.at \in {"idle", "verify", "merge logs", "backup"}
        /\ tool'.at = "verify" => tool'.cmd # "merge-back"
    <3>1. CASE Abort
      BY <3>1 DEF Abort, service, NoCommand
    <3>2. ASSUME NEW cmd \in {"split", "verify", "merge-back"}, NEW nextSecond \in BOOLEAN,
                 Begin(cmd, nextSecond)
          PROVE  /\ UNCHANGED <<ran, may>>
                 /\ tool'.at \in {"idle", "verify", "merge logs", "backup"}
                 /\ tool'.at = "verify" => tool'.cmd # "merge-back"
      <4>1. UNCHANGED <<ran, may>>
        BY <3>2 DEF Begin, service
      <4>2. CASE cmd = "verify"
        BY <3>2, <4>1, <4>2 DEF Begin
      <4>3. CASE cmd = "merge-back"
        BY <3>2, <4>1, <4>3 DEF Begin
      <4>4. CASE cmd = "split"
        BY <3>2, <4>1, <4>4 DEF Begin
      <4> QED
        BY <4>2, <4>3, <4>4
    <3> QED
      BY <1>4, <3>1, <3>2
  <2>2. (LogsBack' => LogsBack) /\ (SessionsBack' => SessionsBack)
    BY <2>1 DEF LogsBack, SessionsBack, MergedBack
  <2> QED
    BY <1>1, <2>2, SameRows
<1> QED
  BY <1>2, <1>3, <1>4

LEMMA CommandReturned ==
  ASSUME IInv, Returned,
         \/ backupSplitData \/ MarkBackup \/ copyLegacyUsageTotals
         \/ aggregateLegacyUsageBuckets \/ copyLegacyAPISessions
         \/ markUsage \/ markTelemetry \/ mergeUsageTotalsBack \/ verifyOpenDatabases
  PROVE  Returned'
<1>1. /\ UNCHANGED <<requests, retained, ran, control.logs, control.sessions, telemetry.logs>>
      /\ retained' \in retained .. Len(requests) + 1
  <2>0. retained \in retained .. Len(requests) + 1
    BY DEF IInv, Typed, Times
  <2>1. UNCHANGED <<requests, retained, ran>>
    BY DEF service, Go, backupSplitData, MarkBackup, copyLegacyUsageTotals,
           aggregateLegacyUsageBuckets, copyLegacyAPISessions, markUsage, markTelemetry,
           mergeUsageTotalsBack, verifyOpenDatabases
  <2>2. \/ UNCHANGED control
        \/ control' = [control EXCEPT !.totals = Over(usage.totals, @)]
    BY DEF backupSplitData, MarkBackup, copyLegacyUsageTotals, aggregateLegacyUsageBuckets,
           copyLegacyAPISessions, markUsage, markTelemetry, mergeUsageTotalsBack,
           verifyOpenDatabases
  <2>3. UNCHANGED <<control.logs, control.sessions>>
    BY <2>2 DEF IInv, Typed, Shapes
  <2>4. \/ UNCHANGED telemetry
        \/ telemetry' = [telemetry EXCEPT !.sessions = Over(RecentSessions(control), @)]
        \/ telemetry' = [telemetry EXCEPT !.marked = TRUE]
    BY DEF backupSplitData, MarkBackup, copyLegacyUsageTotals, aggregateLegacyUsageBuckets,
           copyLegacyAPISessions, markUsage, markTelemetry, mergeUsageTotalsBack,
           verifyOpenDatabases
  <2>5. UNCHANGED telemetry.logs
    BY <2>4 DEF IInv, Typed, Shapes
  <2> QED
    BY <2>0, <2>1, <2>3, <2>5
<1>2. CASE mergeUsageTotalsBack
  <2>1. tool.at = "merge totals" /\ tool'.cmd = tool.cmd /\ UNCHANGED may
    BY <1>2 DEF mergeUsageTotalsBack, Go, IInv, Typed, Shapes
  <2>2. (LogsBack' => LogsBack) /\ (SessionsBack' => SessionsBack)
    BY <1>1, <2>1 DEF LogsBack, SessionsBack, MergedBack
  <2> QED
    BY <1>1, <2>2, SameRows
<1>3. CASE verifyOpenDatabases
  <2>1. /\ tool.at = "verify" /\ tool'.cmd = "none"
        /\ "old" \in may' => "old" \in may \/ tool.cmd = "merge-back"
    BY <1>3 DEF verifyOpenDatabases, Go, NoCommand
  <2>2. (LogsBack' => LogsBack) /\ (SessionsBack' => SessionsBack)
    BY <1>1, <2>1 DEF LogsBack, SessionsBack, MergedBack
  <2> QED
    BY <1>1, <2>2, SameRows
<1>4. CASE \/ backupSplitData \/ MarkBackup \/ copyLegacyUsageTotals
           \/ aggregateLegacyUsageBuckets \/ copyLegacyAPISessions
           \/ markUsage \/ markTelemetry
  <2>1. tool.at \in CopySteps
    BY <1>4 DEF Go, backupSplitData, MarkBackup, copyLegacyUsageTotals,
       aggregateLegacyUsageBuckets, copyLegacyAPISessions, markUsage, markTelemetry, CopySteps
  <2>2. ran = "old"
    BY <2>1 DEF IInv, Order
  <2>3. LogsBack /\ SessionsBack
    BY <2>2 DEF LogsBack, SessionsBack, MergedBack
  <2> QED
    BY <1>1, <2>3, SameRows
<1> QED
  BY <1>2, <1>3, <1>4

(* The old version goes on to have all; the new request has no row in the  *)
(* other database.                                                         *)
LEMMA RecordOldReturned ==
  ASSUME IInv, Returned, NEW k \in Keys, RecordOld(k)
  PROVE  Returned'
<1> DEFINE n == Len(requests) + 1
<1>1. Typed /\ running = "old" /\ Served(k) /\ ran = "old" /\ UNCHANGED telemetry
  BY DEF RecordOld, IInv, Order
<1>2. /\ requests \in Seq(Keys) /\ Len(requests) \in Nat /\ n \in Nat
      /\ retained \in 1 .. n /\ UNCHANGED retained
      /\ requests' = Append(requests, k) /\ Len(requests') = n /\ requests'[n] = k
      /\ \A m \in 1 .. Len(requests) : requests'[m] = requests[m]
  BY <1>1, ServedFacts DEF Typed, Times
<1>3. /\ control'.logs = Put(control.logs, control.nextId, n)
      /\ control'.sessions
           = Put(control.sessions, k,
                 [last |-> n, count |-> (IF k \in DOMAIN control.sessions
                                         THEN control.sessions[k].count ELSE 0) + 1])
  BY <1>1 DEF RecordOld, Insert, Typed, Shapes
<1>4. /\ LogsOK(control.logs, control.nextId, requests) /\ SessionsOK(control.sessions, requests)
      /\ LogsOK(telemetry.logs, telemetry.nextId, requests)
  BY <1>1 DEF Typed, Tables
<1>5. /\ Distinct(control.logs) => Distinct(control'.logs)
      /\ control.nextId \in DOMAIN control'.logs /\ control'.logs[control.nextId] = n
      /\ \A id \in DOMAIN control.logs :
           id \in DOMAIN control'.logs /\ control'.logs[id] = control.logs[id]
      /\ k \in DOMAIN control'.sessions /\ control'.sessions[k].last = n
      /\ \A j \in DOMAIN control.sessions \ {k} :
           j \in DOMAIN control'.sessions /\ control'.sessions[j] = control.sessions[j]
  BY <1>2, <1>3, <1>4, InsertedRows
<1>6. \A id \in DOMAIN control'.logs : id \in DOMAIN control.logs \/ id = control.nextId
  BY <1>3 DEF Put
<1>7. n = Len(requests) + 1
  OBVIOUS
<1> HIDE DEF n
<1>8. Paired'
  <2>1. \A j \in DOMAIN telemetry.logs : telemetry.logs[j] # n
    BY <1>2, <1>4, <1>7 DEF LogsOK
  <2>2. Distinct(control'.logs) /\ Distinct(telemetry'.logs)
    BY <1>1, <1>5 DEF Returned, Paired
  <2> QED
    BY <1>1, <1>5, <1>6, <2>1, <2>2 DEF Returned, Paired
<1>9. IdsAgree' => IdsAgree
  BY <1>1, <1>5 DEF IdsAgree
<1>10. LogsBack /\ SessionsBack
  BY <1>1 DEF LogsBack, SessionsBack, MergedBack
<1>11. ControlLogsReady => ControlLogsReady'
  <2>1. SUFFICES ASSUME ControlLogsReady, NEW m \in retained .. n
                 PROVE  \E id \in DOMAIN control'.logs : control'.logs[id] = m
    BY <1>2 DEF ControlLogsReady
  <2>2. CASE m = n
    BY <1>5, <2>2
  <2>3. CASE m # n
    <3>1. m \in retained .. Len(requests)
      BY <1>2, <1>7, <2>3
    <3> QED
      BY <1>5, <2>1, <3>1 DEF ControlLogsReady
  <2> QED
    BY <2>2, <2>3
<1>12. ControlSessionsReady'
  <2>1. SUFFICES ASSUME NEW m \in retained .. n
                 PROVE  /\ requests'[m] \in DOMAIN control'.sessions
                        /\ control'.sessions[requests'[m]].last >= m
    BY <1>2 DEF ControlSessionsReady
  <2>2. CASE m = n
    BY <1>2, <1>5, <2>2
  <2>3. CASE m # n
    <3>1. m \in retained .. Len(requests) /\ m \in 1 .. Len(requests) /\ m <= n
      BY <1>2, <1>7, <2>3
    <3>2. /\ requests'[m] = requests[m] /\ requests[m] \in DOMAIN control.sessions
          /\ control.sessions[requests[m]].last >= m
      BY <1>2, <1>10, <3>1 DEF Returned, ControlSessionsReady
    <3>3. CASE requests[m] = k
      BY <1>5, <3>1, <3>2, <3>3
    <3>4. CASE requests[m] # k
      BY <1>5, <3>2, <3>4
    <3> QED
      BY <3>3, <3>4
  <2> QED
    BY <2>2, <2>3
<1> QED
  BY <1>8, <1>9, <1>10, <1>11, <1>12 DEF Returned

(* While the new version runs, the old one may not.                        *)
LEMMA NewReturned ==
  ASSUME IInv, Returned,
         Prune \/ \E k \in Keys, independent \in BOOLEAN : RecordNew(k, independent)
  PROVE  Returned'
<1>1. /\ Typed /\ running = "new" /\ ran = "new" /\ may = {"new"} /\ tool.at = "idle"
      /\ UNCHANGED <<ran, may, tool, control>>
  BY DEF Prune, RecordNew, Served, service, IInv, Order
<1>2. ~ LogsBack' /\ ~ SessionsBack'
  BY <1>1 DEF LogsBack, SessionsBack, MergedBack
<1>3. Paired'
  <2>1. CASE Prune
    <3>1. /\ telemetry'.logs = RecentLogs(telemetry)
      BY <1>1, <2>1 DEF Prune, Typed, Shapes
    <3>2. \A id \in DOMAIN telemetry'.logs :
            id \in DOMAIN telemetry.logs /\ telemetry'.logs[id] = telemetry.logs[id]
      <4> DEFINE logs == telemetry'.logs
      <4>1. logs = RecentLogs(telemetry)
        BY <3>1
      <4> HIDE DEF logs
      <4>2. \A id \in DOMAIN logs : id \in DOMAIN telemetry.logs /\ logs[id] = telemetry.logs[id]
        BY ONLY <4>1, RecentFacts
      <4> QED
        BY <4>2 DEF logs
    <3> QED
      BY <1>1, <3>2 DEF Returned, Paired, Distinct
  <2>2. CASE \E k \in Keys, independent \in BOOLEAN : RecordNew(k, independent)
    <3>1. PICK k \in Keys, independent \in BOOLEAN : RecordNew(k, independent)
      BY <2>2
    <3> DEFINE n == Len(requests) + 1
    <3>2. telemetry'.logs = Put(telemetry.logs, telemetry.nextId, n)
      BY <1>1, <3>1 DEF RecordNew, Insert, Typed, Shapes
    <3>3. /\ \A id \in DOMAIN control.logs : control.logs[id] # n
          /\ \A id \in DOMAIN telemetry.logs : telemetry.logs[id] # n
          /\ telemetry.nextId \notin DOMAIN telemetry.logs
      BY <1>1 DEF Typed, Tables, LogsOK, Times
    <3> HIDE DEF n
    <3>4. /\ DOMAIN telemetry'.logs = DOMAIN telemetry.logs \cup {telemetry.nextId}
          /\ telemetry'.logs[telemetry.nextId] = n
          /\ \A id \in DOMAIN telemetry.logs : telemetry'.logs[id] = telemetry.logs[id]
      BY <3>2, <3>3 DEF Put
    <3> QED
      BY <1>1, <3>3, <3>4 DEF Returned, Paired, Distinct
  <2> QED
    BY <2>1, <2>2
<1> QED
  BY <1>2, <1>3 DEF Returned

(* A split only copies rows, so that the control database keeps them all.  *)
LEMMA CopyLogsReturned ==
  ASSUME IInv, Returned, copyLegacyRequestLogs
  PROVE  Returned'
<1> DEFINE recent == RecentLogs(control)
           logs == Over(recent, telemetry.logs)
<1>1. /\ UNCHANGED <<requests, retained, ran, control, may>>
      /\ ~ telemetry.marked /\ ran = "old" /\ telemetry'.logs = logs
  BY DEF copyLegacyRequestLogs, Go, service, WithLogs, IInv, Order, CopySteps, Typed, Shapes
<1>2. \A id \in DOMAIN logs : id \in DOMAIN control.logs /\ logs[id] = control.logs[id]
  <2>1. /\ DOMAIN recent \subseteq DOMAIN control.logs
        /\ \A id \in DOMAIN recent : recent[id] = control.logs[id]
    BY RecentFacts
  <2>2. /\ DOMAIN logs = DOMAIN recent \cup DOMAIN telemetry.logs
        /\ \A id \in DOMAIN recent : logs[id] = recent[id]
        /\ \A id \in DOMAIN telemetry.logs \ DOMAIN recent : logs[id] = telemetry.logs[id]
    BY OverFacts
  <2> HIDE DEF recent, logs
  <2> QED
    BY <1>1, <2>1, <2>2 DEF IInv, Source
<1> HIDE DEF logs
<1>3. Paired'
  BY <1>1, <1>2 DEF Returned, Paired, Distinct
<1>4. ControlLogsReady'
  <2>1. retained \in Nat /\ retained >= 1 /\ Len(requests) \in Nat
    BY DEF IInv, Typed, Times
  <2> QED
    BY <1>1, <2>1 DEF ControlLogsReady, IInv, Source
<1>5. ControlSessionsReady'
  <2>1. SessionsBack
    BY <1>1 DEF SessionsBack, MergedBack
  <2> QED
    BY <1>1, <2>1 DEF Returned, ControlSessionsReady
<1> QED
  BY <1>3, <1>4, <1>5 DEF Returned

(* Where no two requests have one id, every row of the new version arrives. *)
LEMMA MergeLogsReturned ==
  ASSUME IInv, Returned, mergeTelemetryLogsBack
  PROVE  Returned'
<1> DEFINE logs == Over(control.logs, telemetry.logs)
<1>1. /\ UNCHANGED <<requests, retained, ran, telemetry, may>> /\ tool.at = "merge logs"
      /\ tool'.at = "merge sessions" /\ ran = "new" /\ LogsReady
      /\ control'.logs = logs /\ control'.sessions = control.sessions
  BY DEF mergeTelemetryLogsBack, Go, service, WithLogs, IInv, Order, MergeSteps, Carried, Typed,
         Shapes
<1>2. /\ DOMAIN logs = DOMAIN control.logs \cup DOMAIN telemetry.logs
      /\ \A id \in DOMAIN control.logs : logs[id] = control.logs[id]
      /\ \A id \in DOMAIN telemetry.logs \ DOMAIN control.logs : logs[id] = telemetry.logs[id]
  BY OverFacts
<1> HIDE DEF logs
<1>3. Paired'
  <2>1. Distinct(logs)
    BY <1>2 DEF Returned, Paired, Distinct
  <2>2. \A i \in DOMAIN logs, j \in DOMAIN telemetry.logs : logs[i] = telemetry.logs[j] => i = j
    BY <1>2 DEF Returned, Paired, Distinct
  <2> QED
    BY <1>1, <2>1, <2>2 DEF Returned, Paired
<1>4. IdsAgree' => ControlLogsReady'
  <2>1. SUFFICES ASSUME IdsAgree', NEW n \in retained .. Len(requests)
                 PROVE  \E id \in DOMAIN logs : logs[id] = n
    BY <1>1 DEF ControlLogsReady
  <2>2. PICK id \in DOMAIN telemetry.logs : telemetry.logs[id] = n
    BY <1>1, <2>1 DEF LogsReady
  <2>3. id \in DOMAIN logs
    BY <1>2
  <2>4. logs[id] = telemetry.logs[id]
    BY <1>1, <2>1, <2>3 DEF IdsAgree
  <2> QED
    BY <2>2, <2>3, <2>4
<1>5. SessionsBack' => SessionsBack
  BY <1>1 DEF SessionsBack, MergedBack
<1>6. ControlSessionsReady => ControlSessionsReady'
  BY <1>1 DEF ControlSessionsReady
<1> QED
  BY <1>3, <1>4, <1>5, <1>6 DEF Returned

LEMMA MergeSessionsReturned ==
  ASSUME IInv, Returned, mergeTelemetrySessionsBack
  PROVE  Returned'
<1> DEFINE merged == [k \in DOMAIN telemetry.sessions |-> Merged(control.sessions, k)]
           sessions == Over(merged, control.sessions)
<1>1. /\ UNCHANGED <<requests, retained, ran, telemetry, may>> /\ tool.at = "merge sessions"
      /\ tool.cmd = "merge-back" /\ ran = "new" /\ SessionsReady
      /\ control'.logs = control.logs /\ control'.sessions = sessions
  BY DEF mergeTelemetrySessionsBack, Go, service, IInv, Order, MergeSteps, Carried, Typed, Shapes
<1>2. /\ requests \in Seq(Keys) /\ retained \in Nat /\ Len(requests) \in Nat
      /\ SessionsOK(control.sessions, requests) /\ SessionsOK(telemetry.sessions, requests)
      /\ SessionsOK(sessions, requests)
  <2>1. MergeBack
    BY DEF MergeBack
  <2>2. SessionsOK(control'.sessions, requests)
    BY <2>1, MergeRows
  <2> HIDE DEF sessions
  <2>3. SessionsOK(sessions, requests)
    <3>1. control'.sessions = sessions
      BY <1>1
    <3> QED
      BY <2>2, <3>1
  <2>4. /\ requests \in Seq(Keys) /\ retained \in Nat /\ Len(requests) \in Nat
        /\ SessionsOK(control.sessions, requests) /\ SessionsOK(telemetry.sessions, requests)
    BY DEF IInv, Typed, Times, Tables
  <2> QED
    BY <2>3, <2>4
<1>0. DOMAIN merged = DOMAIN telemetry.sessions
  OBVIOUS
<1> HIDE DEF merged
<1>3. /\ DOMAIN telemetry.sessions \subseteq DOMAIN sessions
      /\ \A k \in DOMAIN telemetry.sessions : sessions[k] = merged[k]
  <2>1. /\ DOMAIN sessions = DOMAIN merged \cup DOMAIN control.sessions
        /\ \A k \in DOMAIN merged : sessions[k] = merged[k]
    BY OverFacts
  <2> HIDE DEF sessions
  <2> QED
    BY <1>0, <2>1
<1>4. ASSUME NEW k \in DOMAIN telemetry.sessions
      PROVE  merged[k].last >= telemetry.sessions[k].last
  <2> DEFINE new == telemetry.sessions[k]
             last == IF k \in DOMAIN control.sessions
                     THEN Larger(control.sessions[k].last, new.last) ELSE new.last
  <2>1. /\ new \in Session /\ new.last \in Nat
        /\ k \in DOMAIN control.sessions => control.sessions[k].last \in Nat
    BY <1>2 DEF SessionsOK
  <2>2. last >= new.last
    BY <2>1 DEF Larger
  <2>3. merged[k] = [new EXCEPT !.last = last]
    BY DEF merged, Merged
  <2> HIDE DEF last
  <2> QED
    BY <2>1, <2>2, <2>3 DEF Session
<1> HIDE DEF sessions
<1>5. ControlSessionsReady'
  <2>1. ASSUME NEW n \in retained .. Len(requests)
        PROVE  requests[n] \in DOMAIN sessions /\ sessions[requests[n]].last >= n
    <3>1. /\ requests[n] \in DOMAIN telemetry.sessions
          /\ telemetry.sessions[requests[n]].last >= n
      BY <1>1, <2>1 DEF SessionsReady
    <3>2. /\ telemetry.sessions[requests[n]].last \in Nat
          /\ sessions[requests[n]].last >= telemetry.sessions[requests[n]].last
      BY <1>2, <1>3, <1>4, <3>1 DEF SessionsOK
    <3>3. sessions[requests[n]].last \in Int
      BY <1>2, <1>3, <3>1 DEF SessionsOK
    <3> QED
      BY <1>2, <1>3, <3>1, <3>2, <3>3
  <2> QED
    BY <1>1, <2>1 DEF ControlSessionsReady
<1>6. (LogsBack' => LogsBack) /\ (IdsAgree' <=> IdsAgree)
  <2>1. IdsAgree' <=> IdsAgree
    BY <1>1 DEF IdsAgree
  <2>2. LogsBack
    BY <1>1 DEF LogsBack, MergedBack
  <2> QED
    BY <2>1, <2>2
<1>7. Paired'
  <2>1. UNCHANGED <<control.logs, telemetry.logs>> /\ Paired
    BY <1>1 DEF Returned
  <2> QED
    BY <2>1, SamePairs
<1>8. ControlLogsReady => ControlLogsReady'
  BY <1>1 DEF ControlLogsReady
<1> QED
  BY <1>5, <1>6, <1>7, <1>8 DEF Returned

LEMMA NextReturned == IInv /\ Returned /\ [Next]_vars => Returned'
<1> SUFFICES ASSUME IInv, Returned, [Next]_vars PROVE Returned'
  OBVIOUS
<1>1. CASE \/ \E v \in {"old", "new"} : Start(v)
           \/ Stop
           \/ \E ends \in BOOLEAN, oldest \in retained .. Len(requests) + 1 : Wait(ends, oldest)
           \/ \E cmd \in {"split", "verify", "merge-back"}, nextSecond \in BOOLEAN :
                Begin(cmd, nextSecond)
           \/ Abort \/ UNCHANGED vars
  BY <1>1, QuietReturned
<1>2. CASE Prune
  BY <1>2, NewReturned
<1>3. CASE \E k \in Keys : RecordOld(k) \/ \E independent \in BOOLEAN : RecordNew(k, independent)
  BY <1>3, RecordOldReturned, NewReturned
<1>4. CASE Split
  BY <1>4, CommandReturned, CopyLogsReturned DEF Split
<1>5. CASE MergeBack
  BY <1>5, CommandReturned, MergeLogsReturned, MergeSessionsReturned DEF MergeBack
<1>6. CASE verifyOpenDatabases
  BY <1>6, CommandReturned
<1> QED
  BY <1>1, <1>2, <1>3, <1>4, <1>5, <1>6 DEF Next

LEMMA ReturnInvariant == Spec => []Returned
BY InitReturned, NextReturned, MigrationInvariant, PTL DEF Spec

(* Types: rows are about keys and requests that exist, no id twice.        *)
THEOREM MigrationTyped == Spec => []TypeOK
<1>1. IInv => TypeOK
  BY TypedIsTypeOK DEF IInv
<1> QED
  BY <1>1, MigrationInvariant, PTL

LEMMA OneRow ==
  ASSUME NEW db, Distinct(db.logs), NEW n, \E id \in DOMAIN db.logs : db.logs[id] = n
  PROVE  LoggedOnce(db, n)
<1>1. PICK id \in DOMAIN db.logs : db.logs[id] = n
  OBVIOUS
<1>2. {i \in DOMAIN db.logs : db.logs[i] = n} = {id}
  BY <1>1 DEF Distinct
<1> QED
  BY <1>2, FS_Singleton DEF LoggedOnce

(* Whichever version runs has counted every request of every key once; the *)
(* limits of the new one count each request of the window at most once and *)
(* miss none that is retained; and either reports every retained request   *)
(* once (the old one, if no two requests got the same id) and knows its    *)
(* session: commands interrupted anywhere and repeated, and roll-backs,    *)
(* lose and double nothing else, whatever the retention.                   *)
THEOREM NothingLostOnTheWay == Spec => []CarriedOver
<1>1. IInv /\ Returned => CarriedOver
  <2> SUFFICES ASSUME IInv, Returned PROVE CarriedOver
    OBVIOUS
  <2> USE DEF IInv
  <2>1. running = "new" => Ready /\ LimitsReady /\ LogsReady /\ SessionsReady
    BY DEF Order, Carried
  <2>2. running = "old" => /\ ControlTold /\ ControlSessionsReady
                           /\ IdsAgree => ControlLogsReady
    BY DEF Order, Totals, Returned, LogsBack, SessionsBack, MergedBack
  <2>3. UsageCarriedOver
    BY <2>1, <2>2 DEF UsageCarriedOver, Ready, UsageTold, ControlTold
  <2>4. LimitsCarriedOver
    BY <2>1 DEF LimitsCarriedOver, LimitsReady, InWindow, Covered
  <2>5. ASSUME NEW n \in retained .. Len(requests), running = "new"
        PROVE  LoggedOnce(telemetry, n) /\ SessionKnown(telemetry, n)
    BY <2>1, <2>5, OneRow DEF LogsReady, SessionsReady, SessionKnown
  <2>6. ASSUME NEW n \in retained .. Len(requests), running = "old"
        PROVE  (IdsAgree => LoggedOnce(control, n)) /\ SessionKnown(control, n)
    <3>1. Distinct(control.logs)
      BY DEF Returned, Paired
    <3>2. IdsAgree => LoggedOnce(control, n)
      BY <2>2, <2>6, <3>1, OneRow DEF ControlLogsReady
    <3>3. SessionKnown(control, n)
      BY <2>2, <2>6 DEF ControlSessionsReady, SessionKnown
    <3> QED
      BY <3>2, <3>3
  <2> QED
    BY <2>3, <2>4, <2>5, <2>6 DEF CarriedOver, ReportsCarriedOver
<1> QED
  BY <1>1, MigrationInvariant, ReturnInvariant, PTL

(* The split writes to a database only when a complete backup holds what   *)
(* the service last left behind.                                           *)
THEOREM BacksUpFirst == Spec => []BackedUpFirst
<1>1. IInv => BackedUpFirst
  BY DEF IInv, Saved
<1> QED
  BY <1>1, MigrationInvariant, PTL

=============================================================================
