------------------------- MODULE QuotaMonitorProofs -------------------------
(***************************************************************************)
(* Proofs about QuotaMonitor, for any provider files and any number of     *)
(* accounts, queries and reloads.                                          *)
(***************************************************************************)
EXTENDS QuotaMonitor, TLAPS, FiniteSetTheorems, SequenceTheorems

Configs == UNION {Range(ConfigsIn[v]) : v \in Versions}
Dues == 0 .. MaxTime + Interval
States == {"pending", "ok", "error"}
QueryStages == {"queued", "asking", "answered", "failed"}

TargetOK(target) == target \in [config : Configs, due : Dues]

(* What is shown of a target at a given time. *)
SnapshotOK(snapshot, target, now) ==
  /\ snapshot \in [state : States, shown : Configs \cup {Empty}, asked : Times \cup {Never}]
  /\ snapshot.shown = Empty <=> snapshot.asked = Never
  /\ snapshot.shown \in {Empty, target.config}
  /\ snapshot.asked # Never => snapshot.asked <= now

(* The report shows what is watched. *)
Watched ==
  /\ DOMAIN snapshots = DOMAIN targets
  /\ \A id \in DOMAIN targets :
       TargetOK(targets[id]) /\ SnapshotOK(snapshots[id], targets[id], clock)

(* A query that was sent was sent after the answers that are shown of its  *)
(* accounts had been asked for.                                            *)
QueryOK(q, shown, now) ==
  /\ q = [asks |-> q.asks, stage |-> q.stage, asked |-> q.asked]
  /\ q.stage \in QueryStages /\ q.asks # {}
  /\ \A a \in q.asks : a = <<a[1], a[2]>>
  /\ \A a, b \in q.asks : RequestOf(a[2]) = RequestOf(b[2])
  /\ q.stage # "queued" =>
       /\ q.asked \in Times /\ q.asked <= now
       /\ \A a \in q.asks : a[1] \in DOMAIN shown =>
            shown[a[1]].asked = Never \/ shown[a[1]].asked <= q.asked

(* No two queries of a sweep ask for the same account. *)
Asking ==
  /\ queries # {} => loop = "sweeping"
  /\ \A q \in queries : QueryOK(q, snapshots, clock)
  /\ \A q, other \in queries : \A a \in q.asks, b \in other.asks : a[1] = b[1] => q = other

Sent == {q \in queries : q.stage # "queued"}
Limited == IsFiniteSet(Sent) /\ Cardinality(Sent) <= MaxConcurrency

(* The last reload that replaced the routes is the one the monitor follows *)
(* or is about to follow, unless two were replacing them at a time.        *)
Routed == {n \in 1 .. MaxReloads : reload[n].at = "routed"}

Following ==
  /\ routes \in Buildable /\ reloads \in 0 .. MaxReloads
  /\ DOMAIN reload = 1 .. MaxReloads
  /\ \A n \in 1 .. MaxReloads :
       /\ reload[n] \in [at : {"out", "loaded", "routed", "replaced"}, version : Versions]
       /\ reload[n].at = "routed" => reload[n].version \in Buildable
       /\ n > reloads => reload[n].at = "out"
  /\ ~crossed =>
       /\ \A n, other \in Routed : n = other
       /\ \A n \in Routed : reload[n].version = routes
       /\ Routed = {} => [id \in DOMAIN targets |-> targets[id].config] = ConfigsIn[routes]

Switches ==
  /\ clock \in Times /\ loop \in {"looking", "waiting", "sweeping", "done"}
  /\ wake \in BOOLEAN /\ cancelled \in BOOLEAN /\ crossed \in BOOLEAN

IInv == Switches /\ Watched /\ Asking /\ Limited /\ Following


----------------------------------------------------------------------------
(* Files, routes and targets.                                              *)

LEMMA NeverLater == Never \in Int /\ Never \notin Times /\ \A t \in Times : t \in Int /\ t <= MaxTime
BY QuotaAssumption DEF Never, Times

LEMMA ConfigsAreFunctions ==
  ASSUME NEW v \in Versions
  PROVE  /\ ConfigsIn[v] = [id \in DOMAIN ConfigsIn[v] |-> ConfigsIn[v][id]]
         /\ \A id \in DOMAIN ConfigsIn[v] : ConfigsIn[v][id] \in Configs
         /\ Empty \notin Configs
<1>1. ConfigsIn[v] = TargetsOf(Contents[v])
  BY DEF ConfigsIn
<1>2. ConfigsIn[v] = [id \in DOMAIN ConfigsIn[v] |-> ConfigsIn[v][id]]
  BY <1>1 DEF TargetsOf, AsFunction
<1>3. \A id \in DOMAIN ConfigsIn[v] : ConfigsIn[v][id] \in Range(ConfigsIn[v])
  BY DEF Range
<1>4. \A id \in DOMAIN ConfigsIn[v] : ConfigsIn[v][id] \in Configs
  BY <1>3 DEF Configs
<1>5. Empty \notin Configs
  BY ConfigurationAssumption DEF Configs
<1> QED
  BY <1>2, <1>4, <1>5

LEMMA BuiltTargets ==
  ASSUME NEW v \in Versions, clock \in Times
  PROVE  /\ DOMAIN buildTargets(v) = DOMAIN ConfigsIn[v]
         /\ \A id \in DOMAIN buildTargets(v) :
              /\ TargetOK(buildTargets(v)[id])
              /\ buildTargets(v)[id].config = ConfigsIn[v][id]
         /\ [id \in DOMAIN buildTargets(v) |-> buildTargets(v)[id].config] = ConfigsIn[v]
<1>1. clock \in Dues
  BY QuotaAssumption DEF Dues, Times
<1> QED
  BY <1>1, ConfigsAreFunctions DEF buildTargets, TargetOK

LEMMA PendingOK ==
  ASSUME NEW target, NEW now
  PROVE  SnapshotOK(Pending, target, now)
BY DEF SnapshotOK, Pending, States

(* A registry that can be built has nothing that the monitor refuses.      *)
LEMMA BuildableIsWatchable == Buildable \subseteq Watchable
BY DEF Buildable, Watchable, Builds, ValidateProviderConfig, validateProviderQuotaConfig

(* Every model of valid files has a pool with accounts that have keys.     *)
LEMMA RoutesAreServed ==
  ASSUME NEW v \in Buildable, NEW route \in DOMAIN Routes(Contents[v])
  PROVE  /\ Routes(Contents[v])[route] # {}
         /\ \A account \in Routes(Contents[v])[route] : ResolvedKey(account) # Empty
<1> DEFINE files == Contents[v]
           Row(file, model) ==
             [id |-> <<EffectiveProtocol(file, model), model.public>>, is |-> Serving(file, model)]
           rows == UNION {{Row(file, model) : model \in Range(file.models)} : file \in Range(files)}
<1>1. Routes(files) = AsFunction(rows)
  BY DEF Routes
<1>2. PICK row \in rows : row.id = route /\ Routes(files)[route] = row.is
  <2> HIDE DEF rows
  <2>1. route \in {row.id : row \in rows}
    BY <1>1 DEF AsFunction
  <2>2. \E row \in rows : row.id = route
    BY <2>1
  <2>3. Routes(files)[route] = (CHOOSE row \in rows : row.id = route).is
    BY <1>1, <2>1 DEF AsFunction
  <2> QED
    BY <2>2, <2>3
<1>2a. PICK file \in Range(files) : \E model \in Range(file.models) : row = Row(file, model)
  OBVIOUS
<1>3. PICK model \in Range(file.models) : row = Row(file, model)
  BY <1>2a
<1>4. row.is = Serving(file, model)
  BY <1>3
<1>5. v \in Versions /\ ValidateProviderConfig(file)
  BY <1>3 DEF Buildable, Builds
<1>6. ValidPools(file) /\ PoolOf(file, model) \in {pool.name : pool \in Range(file.pools)}
  BY <1>3, <1>5 DEF ValidateProviderConfig, ValidModel
<1>7. PICK pool \in Range(file.pools) : pool.name = PoolOf(file, model)
  BY <1>6
<1>8. pool.accounts \in Seq(Range(pool.accounts)) /\ pool.accounts # <<>>
  BY <1>3, <1>5, <1>6, <1>7, QuotaAssumption DEF ValidPools
<1>9. Len(pool.accounts) \in Nat \ {0}
  BY <1>8, EmptySeq, LenProperties
<1>10. pool.accounts[1] \in Range(pool.accounts)
  BY <1>8, <1>9, ElementOfSeq
<1>11. Range(pool.accounts) \subseteq Serving(file, model)
  BY <1>7 DEF Serving
<1>12. \A account \in Serving(file, model) : ResolvedKey(account) # Empty
  BY <1>6 DEF Serving, ValidPools
<1> QED
  BY <1>2, <1>4, <1>10, <1>11, <1>12

----------------------------------------------------------------------------
(* What a step leaves as it was.                                           *)

LEMMA SameWatched ==
  ASSUME Watched, clock \in Times, clock' \in Times, clock' >= clock,
         targets' = targets, snapshots' = snapshots
  PROVE  Watched'
<1> SUFFICES ASSUME NEW id \in DOMAIN targets
             PROVE  TargetOK(targets[id]) /\ SnapshotOK(snapshots[id], targets[id], clock')
  BY DEF Watched, TargetOK, SnapshotOK
<1>1. TargetOK(targets[id]) /\ SnapshotOK(snapshots[id], targets[id], clock)
  BY DEF Watched
<1> QED
  BY <1>1, NeverLater DEF SnapshotOK

LEMMA QueryLater ==
  ASSUME NEW q, QueryOK(q, snapshots, clock), clock \in Times, clock' \in Times, clock' >= clock,
         \A id \in DOMAIN snapshots' :
           snapshots'[id].asked # Never =>
             id \in DOMAIN snapshots /\ snapshots'[id].asked = snapshots[id].asked
  PROVE  QueryOK(q, snapshots', clock')
<1>1. ASSUME q.stage # "queued"
      PROVE  /\ q.asked \in Times /\ q.asked <= clock'
             /\ \A a \in q.asks : a[1] \in DOMAIN snapshots' =>
                  snapshots'[a[1]].asked = Never \/ snapshots'[a[1]].asked <= q.asked
  <2>1. q.asked \in Times /\ q.asked <= clock
    BY <1>1 DEF QueryOK
  <2>2. q.asked <= clock'
    BY <2>1, NeverLater
  <2>3. ASSUME NEW a \in q.asks, a[1] \in DOMAIN snapshots', snapshots'[a[1]].asked # Never
        PROVE  snapshots'[a[1]].asked <= q.asked
    BY <1>1, <2>3 DEF QueryOK
  <2> QED
    BY <2>1, <2>2, <2>3
<1> QED
  BY <1>1 DEF QueryOK

LEMMA SameAsking ==
  ASSUME Asking, Limited, clock \in Times, clock' \in Times, clock' >= clock,
         queries' = queries, queries = {} \/ loop' = "sweeping",
         \A id \in DOMAIN snapshots' :
           snapshots'[id].asked # Never =>
             id \in DOMAIN snapshots /\ snapshots'[id].asked = snapshots[id].asked
  PROVE  Asking' /\ Limited'
<1>1. \A q \in queries' : QueryOK(q, snapshots', clock')
  BY QueryLater DEF Asking
<1>2. Limited'
  BY DEF Limited, Sent
<1>3. (queries # {} => loop = "sweeping")'
  OBVIOUS
<1> QED
  BY <1>1, <1>2, <1>3 DEF Asking

LEMMA SameFollowing ==
  ASSUME Following, UNCHANGED adminVars,
         [id \in DOMAIN targets' |-> targets'[id].config] = [id \in DOMAIN targets |-> targets[id].config]
  PROVE  Following'
<1>1. routes' = routes /\ reload' = reload /\ reloads' = reloads /\ crossed' = crossed
  BY DEF adminVars
<1>2. Routed' = Routed
  BY <1>1 DEF Routed
<1> QED
  BY <1>1, <1>2 DEF Following

(* A query that goes on as another one, or ends. *)
LEMMA BecomesKeeps ==
  ASSUME Asking, Limited, NEW q \in queries, NEW next, Becomes(q, next),
         \A other \in queries \ {q} : QueryOK(other, snapshots', clock'),
         \A new \in next : QueryOK(new, snapshots', clock'),
         \A new \in next, other \in next : new = other,
         \A new \in next : \A a \in new.asks : \E b \in q.asks : a[1] = b[1],
         \/ \A new \in next : new.stage = "queued" \/ q.stage # "queued"
         \/ Cardinality(Sent) < MaxConcurrency
  PROVE  Asking' /\ Limited'
<1>1. queries' = (queries \ {q}) \cup next /\ loop' = loop /\ loop = "sweeping"
  BY DEF Becomes, Asking
<1>2. \A other \in queries' : QueryOK(other, snapshots', clock')
  BY <1>1
<1>3. ASSUME NEW one \in queries', NEW other \in queries', NEW a \in one.asks, NEW b \in other.asks,
             a[1] = b[1]
      PROVE  one = other
  <2> DEFINE Before(r) == IF r \in queries \ {q} THEN r ELSE q
  <2>1. \A r \in queries' : /\ Before(r) \in queries
                            /\ \A c \in r.asks : \E d \in Before(r).asks : c[1] = d[1]
    BY <1>1
  <2>2. PICK c \in Before(one).asks, d \in Before(other).asks : c[1] = d[1]
    BY <1>3, <2>1
  <2>3. Before(one) = Before(other)
    BY <2>1, <2>2 DEF Asking
  <2> QED
    BY <1>1, <2>3
<1>4. Asking'
  BY <1>1, <1>2, <1>3 DEF Asking
<1>5. Limited'
  <2> DEFINE kept == Sent \ {q}
             added == {new \in next : new.stage # "queued"} \ kept
  <2>1. Sent' = kept \cup added
    BY <1>1 DEF Sent
  <2>2. IsFiniteSet(Sent) /\ Cardinality(Sent) \in Nat /\ Cardinality(Sent) <= MaxConcurrency
        /\ MaxConcurrency \in Nat
    BY FS_CardinalityType, QuotaAssumption DEF Limited
  <2>3. IsFiniteSet(kept) /\ Cardinality(kept) \in Nat /\ Cardinality(kept) <= Cardinality(Sent)
        /\ (q.stage # "queued" => Cardinality(kept) = Cardinality(Sent) - 1)
    <3>1. q.stage # "queued" <=> q \in Sent
      BY DEF Sent
    <3>2. IsFiniteSet(Sent \ {q}) /\ Cardinality(Sent \ {q}) \in Nat
          /\ Cardinality(Sent \ {q}) = IF q \in Sent THEN Cardinality(Sent) - 1 ELSE Cardinality(Sent)
      BY <2>2, FS_RemoveElement, FS_CardinalityType
    <3> QED
      BY <2>2, <3>1, <3>2
  <2>4. CASE added = {}
    <3>1. Sent' = kept
      BY <2>1, <2>4
    <3> HIDE DEF kept, added
    <3> QED
      BY <2>2, <2>3, <3>1 DEF Limited
  <2>5. CASE added # {}
    <3>1. PICK new \in added : added = {new}
      BY <2>5
    <3>2. IsFiniteSet(kept \cup {new}) /\ Cardinality(kept \cup {new}) = Cardinality(kept) + 1
      BY <2>3, <3>1, FS_AddElement
    <3>3. Cardinality(kept) + 1 <= MaxConcurrency
      BY <2>2, <2>3, <3>1
    <3>4. Sent' = kept \cup {new}
      BY <2>1, <3>1
    <3> HIDE DEF kept, added
    <3> QED
      BY <3>2, <3>3, <3>4 DEF Limited
  <2> QED
    BY <2>4, <2>5
<1> QED
  BY <1>4, <1>5

----------------------------------------------------------------------------
(* The steps.                                                              *)

LEMMA InitOK == Init => IInv
<1> SUFFICES ASSUME Init PROVE IInv
  OBVIOUS
<1>1. Switches
  <2>1. clock \in Times
    BY QuotaAssumption DEF Init, Times
  <2>2. wake = FALSE /\ cancelled = FALSE /\ crossed = FALSE /\ loop = "looking"
    BY DEF Init
  <2> QED
    BY <2>1, <2>2 DEF Switches
<1>2. AtStart \in Buildable /\ AtStart \in Versions
  BY StartAssumption, QuotaAssumption DEF Buildable
<1>3. targets = buildTargets(AtStart) /\ snapshots = [id \in DOMAIN targets |-> Pending]
  BY DEF Init, NewSnapshots
<1>4. Watched
  BY <1>1, <1>2, <1>3, BuiltTargets, PendingOK DEF Watched, Switches
<1>5. Asking
  BY DEF Init, Asking
<1>6. Limited
  <2>1. Sent = {}
    BY DEF Init, Sent
  <2> QED
    BY <2>1, FS_EmptySet, QuotaAssumption DEF Limited
<1>7. Following
  <2>1. routes \in Buildable /\ reloads \in 0 .. MaxReloads /\ DOMAIN reload = 1 .. MaxReloads
    BY <1>2, QuotaAssumption DEF Init
  <2>2. \A n \in 1 .. MaxReloads : reload[n] = [at |-> "out", version |-> AtStart]
    BY DEF Init, Out
  <2>3. Routed = {}
    BY <2>2 DEF Routed
  <2>4. [id \in DOMAIN targets |-> targets[id].config] = ConfigsIn[routes]
    BY <1>1, <1>2, <1>3, BuiltTargets DEF Init, Switches
  <2> QED
    BY <1>2, <2>1, <2>2, <2>3, <2>4 DEF Following
<1> QED
  BY <1>1, <1>4, <1>5, <1>6, <1>7 DEF IInv

(* The clock, and what the goroutine does besides its sweeps. *)
LEMMA QuietStep ==
  ASSUME IInv, Switches', clock' >= clock, UNCHANGED <<targets, snapshots, queries, adminVars>>,
         queries = {} \/ loop' = "sweeping"
  PROVE  IInv'
<1>1. Watched'
  BY SameWatched DEF IInv, Switches
<1>2. Asking' /\ Limited'
  BY SameAsking DEF IInv, Switches
<1>3. Following'
  BY SameFollowing DEF IInv
<1> QED
  BY <1>1, <1>2, <1>3 DEF IInv

LEMMA Idle == ASSUME IInv, loop # "sweeping" PROVE queries = {}
BY DEF IInv, Asking

LEMMA ClockRuns == ASSUME IInv PROVE clock >= clock
BY NeverLater DEF IInv, Switches

LEMMA TickStep == ASSUME IInv, Tick PROVE IInv'
<1>1. clock' \in Times /\ clock' >= clock
  BY QuotaAssumption DEF IInv, Switches, Tick, Times
<1>2. Switches'
  BY <1>1 DEF IInv, Switches, Tick, monitorVars, adminVars
<1> QED
  BY <1>1, <1>2, QuietStep DEF Tick, monitorVars, IInv, Asking

LEMMA CloseStep == ASSUME IInv, Close PROVE IInv'
<1>1. Switches'
  BY DEF IInv, Switches, Close, monitorVars, adminVars
<1> QED
  BY <1>1, QuietStep, ClockRuns DEF Close, monitorVars, IInv, Asking

LEMMA NextWaitStep == ASSUME IInv, NextWait PROVE IInv'
<1>1. Switches'
  BY DEF IInv, Switches, NextWait, Goes, adminVars
<1> QED
  BY <1>1, QuietStep, ClockRuns, Idle DEF NextWait, Goes

LEMMA WakeUpStep == ASSUME IInv, WakeUp PROVE IInv'
<1>1. Switches'
  BY DEF IInv, Switches, WakeUp, Goes, adminVars
<1> QED
  BY <1>1, QuietStep, ClockRuns, Idle DEF WakeUp, Goes

LEMMA EndSweepStep == ASSUME IInv, EndSweep PROVE IInv'
<1>1. Switches'
  BY DEF IInv, Switches, EndSweep, Goes, adminVars
<1> QED
  BY <1>1, QuietStep, ClockRuns DEF EndSweep, Goes

LEMMA SeeCancelStep == ASSUME IInv, SeeCancel PROVE IInv'
<1>1. Switches'
  BY DEF IInv, Switches, SeeCancel, Goes, adminVars
<1> QED
  BY <1>1, QuietStep, ClockRuns, Idle DEF SeeCancel, Goes

LEMMA SweepStep == ASSUME IInv, Sweep PROVE IInv'
<1> DEFINE due == {id \in DOMAIN targets : targets[id].due <= clock}
           Asked(request) == {id \in due : RequestOf(targets[id].config) = request}
           Query0(request) ==
             [asks |-> {<<id, targets[id].config>> : id \in Asked(request)},
              stage |-> "queued", asked |-> Never]
           requests == {RequestOf(targets[id].config) : id \in due}
<1>1. /\ loop = "waiting" /\ loop' = "sweeping" /\ clock' = clock /\ snapshots' = snapshots
      /\ queries' = queries \cup {Query0(request) : request \in requests}
      /\ targets' = [id \in DOMAIN targets |->
                       IF id \in due THEN [targets[id] EXCEPT !.due = clock + Interval]
                       ELSE targets[id]]
      /\ UNCHANGED adminVars /\ wake' = wake /\ cancelled' = cancelled
  BY DEF Sweep, Goes
<1>2. queries = {} /\ queries' = {Query0(request) : request \in requests}
  BY <1>1, Idle
<1>3. Switches'
  BY <1>1 DEF IInv, Switches, adminVars
<1>4. ASSUME NEW id \in DOMAIN targets
      PROVE  TargetOK(targets'[id]) /\ targets'[id].config = targets[id].config
  <2>1. TargetOK(targets[id]) /\ clock + Interval \in Dues
    BY QuotaAssumption DEF IInv, Watched, Switches, Times, Dues
  <2> QED
    BY <1>1, <2>1 DEF TargetOK
<1>5. DOMAIN targets' = DOMAIN targets
  BY <1>1
<1>6. Watched'
  <2>1. ASSUME NEW id \in DOMAIN targets PROVE SnapshotOK(snapshots[id], targets'[id], clock)
    BY <1>4 DEF IInv, Watched, SnapshotOK
  <2> QED
    BY <1>1, <1>4, <1>5, <2>1 DEF IInv, Watched, TargetOK, SnapshotOK
<1>7. Following'
  BY <1>1, <1>4, <1>5, SameFollowing DEF IInv
<1>8. ASSUME NEW request \in requests
      PROVE  /\ QueryOK(Query0(request), snapshots', clock') /\ Query0(request).stage = "queued"
             /\ \A a \in Query0(request).asks :
                  a[1] \in due /\ RequestOf(targets[a[1]].config) = request
  <2>1. Asked(request) # {}
    OBVIOUS
  <2>2. Query0(request).asks # {}
    BY <2>1
  <2>3. \A a \in Query0(request).asks :
          /\ a = <<a[1], a[2]>> /\ a[1] \in due /\ RequestOf(a[2]) = request
          /\ RequestOf(targets[a[1]].config) = request
    OBVIOUS
  <2> DEFINE new == Query0(request)
  <2>4. new = [asks |-> new.asks, stage |-> "queued", asked |-> Never] /\ new.stage = "queued"
        /\ new.asked = Never
    OBVIOUS
  <2> HIDE DEF due, requests, Asked, Query0
  <2>5. QueryOK(new, snapshots', clock')
    BY <2>2, <2>3, <2>4 DEF QueryOK, QueryStages
  <2> QED
    BY <2>3, <2>4, <2>5
<1>9. ASSUME NEW q \in queries', NEW other \in queries', NEW a \in q.asks, NEW b \in other.asks,
             a[1] = b[1]
      PROVE  q = other
  <2>1. PICK one \in requests : q = Query0(one)
    BY <1>2
  <2>2. PICK two \in requests : other = Query0(two)
    BY <1>2
  <2>3. RequestOf(targets[a[1]].config) = one /\ RequestOf(targets[b[1]].config) = two
    BY <1>8, <2>1, <2>2
  <2>4. one = two
    BY <1>9, <2>3
  <2> QED
    BY <2>1, <2>2, <2>4
<1>10. ASSUME NEW q \in queries' PROVE QueryOK(q, snapshots', clock') /\ q.stage = "queued"
  <2>1. PICK request \in requests : q = Query0(request)
    BY <1>2
  <2> HIDE DEF Query0, requests
  <2> QED
    BY <1>8, <2>1
<1>11. Asking'
  BY <1>1, <1>9, <1>10 DEF Asking
<1>12. Sent' = {}
  BY <1>10 DEF Sent
<1>13. Limited'
  BY <1>12, FS_EmptySet, QuotaAssumption DEF Limited
<1> QED
  BY <1>3, <1>6, <1>7, <1>11, <1>13 DEF IInv

(* A step of one query that changes what is shown at most of its accounts. *)
LEMMA QueryStep ==
  ASSUME IInv, NEW q \in queries, NEW next, Becomes(q, next), Watched',
         \A other \in queries \ {q} : QueryOK(other, snapshots', clock'),
         \A new \in next : QueryOK(new, snapshots', clock'),
         \A new \in next, other \in next : new = other,
         \A new \in next : \A a \in new.asks : \E b \in q.asks : a[1] = b[1],
         \/ \A new \in next : new.stage = "queued" \/ q.stage # "queued"
         \/ Cardinality(Sent) < MaxConcurrency
  PROVE  IInv'
<1>1. Asking' /\ Limited'
  BY BecomesKeeps DEF IInv
<1>2. Following'
  BY SameFollowing DEF IInv, Becomes
<1>3. Switches'
  BY DEF IInv, Switches, Becomes, adminVars
<1> QED
  BY <1>1, <1>2, <1>3 DEF IInv

LEMMA SilentQuery ==
  ASSUME IInv, NEW q \in queries, NEW next, Becomes(q, next), snapshots' = snapshots
  PROVE  /\ Watched'
         /\ \A other \in queries :
              QueryOK(other, snapshots, clock) /\ QueryOK(other, snapshots', clock')
         /\ clock \in Times /\ clock' = clock /\ clock <= clock
<1>1. clock \in Times /\ clock' = clock /\ clock <= clock
  BY ClockRuns DEF IInv, Switches, Becomes
<1>2. Watched'
  BY <1>1, SameWatched DEF IInv, Becomes
<1>3. \A other \in queries :
        QueryOK(other, snapshots, clock) /\ QueryOK(other, snapshots', clock')
  BY <1>1, QueryLater DEF IInv, Asking
<1> QED
  BY <1>1, <1>2, <1>3

LEMMA FetchStep == ASSUME IInv, NEW q \in queries, Fetch(q) PROVE IInv'
<1> DEFINE new == [q EXCEPT !.stage = "asking", !.asked = clock]
<1>1. /\ q.stage = "queued" /\ Cardinality(Sent) < MaxConcurrency
      /\ Becomes(q, {new}) /\ snapshots' = snapshots
  BY DEF Fetch, Sent
<1>2. /\ Watched'
      /\ \A other \in queries :
        QueryOK(other, snapshots, clock) /\ QueryOK(other, snapshots', clock')
      /\ clock \in Times /\ clock' = clock /\ clock <= clock
  BY <1>1, SilentQuery
<1>3. new = [asks |-> q.asks, stage |-> "asking", asked |-> clock]
  <2>1. q \in [asks : {q.asks}, stage : {q.stage}, asked : {q.asked}]
    BY <1>2 DEF QueryOK
  <2>2. new \in [asks : {q.asks}, stage : {"asking"}, asked : {clock}]
    BY <2>1
  <2> HIDE DEF new
  <2> QED
    BY <2>2
<1>4. new.asks = q.asks /\ new.stage = "asking" /\ new.asked = clock
  BY <1>3
<1>5. \A id \in DOMAIN snapshots : snapshots[id].asked = Never \/ snapshots[id].asked <= clock
  BY DEF IInv, Watched, SnapshotOK
<1> HIDE DEF new
<1>6. QueryOK(new, snapshots', clock')
  <2>1. QueryOK(q, snapshots, clock)
    BY <1>2
  <2> QED
    BY <1>1, <1>2, <1>3, <1>4, <1>5, <2>1 DEF QueryOK, QueryStages
<1>7. \A n \in {new} : n = new /\ QueryOK(n, snapshots', clock') /\ n.asks = q.asks
  BY <1>4, <1>6
<1> QED
  BY <1>1, <1>2, <1>7, QueryStep

LEMMA GiveUpStep == ASSUME IInv, NEW q \in queries, GiveUp(q) PROVE IInv'
<1>1. Becomes(q, {}) /\ snapshots' = snapshots
  BY DEF GiveUp
<1> QED
  BY <1>1, SilentQuery, QueryStep

LEMMA AnsweredStep ==
  ASSUME IInv, NEW q \in queries, NEW body \in BOOLEAN, Answered(q, body) PROVE IInv'
<1> DEFINE stage == IF body THEN "answered" ELSE "failed"
           new == [q EXCEPT !.stage = stage]
<1>1. q.stage = "asking" /\ Becomes(q, {new}) /\ snapshots' = snapshots
  BY DEF Answered
<1>2. /\ Watched'
      /\ \A other \in queries :
        QueryOK(other, snapshots, clock) /\ QueryOK(other, snapshots', clock')
      /\ clock \in Times /\ clock' = clock /\ clock <= clock
  BY <1>1, SilentQuery
<1>3. stage \in QueryStages /\ stage # "queued"
  BY DEF QueryStages
<1> HIDE DEF stage
<1>4. /\ new = [asks |-> q.asks, stage |-> stage, asked |-> q.asked]
      /\ new.asks = q.asks /\ new.stage = stage /\ new.asked = q.asked
  BY <1>2 DEF QueryOK
<1>5. QueryOK(q, snapshots', clock')
  BY <1>2
<1> HIDE DEF new
<1>6. QueryOK(new, snapshots', clock')
  BY <1>1, <1>3, <1>4, <1>5 DEF QueryOK
<1> QED
  BY <1>1, <1>2, <1>4, <1>6, QueryStep

LEMMA ApplyStep ==
  ASSUME IInv, NEW q \in queries, NEW ask \in q.asks, NEW parsed \in BOOLEAN,
         Apply(q, ask[1], ask[2], parsed)
  PROVE  IInv'
<1> DEFINE id == ask[1]
           config == ask[2]
           shown == IF parsed THEN Success(q, config) ELSE [snapshots[id] EXCEPT !.state = "error"]
           new == [q EXCEPT !.asks = @ \ {<<id, config>>}]
           next == IF q.asks = {<<id, config>>} THEN {} ELSE {new}
<1>1. /\ q.stage \in {"answered", "failed"} /\ q.stage # "queued"
      /\ snapshots' = IF ~Current(id, config) THEN snapshots
                      ELSE [snapshots EXCEPT ![id] = shown]
      /\ Becomes(q, next) /\ targets' = targets /\ clock' = clock
  BY DEF Apply, ApplyIf, Becomes
<1>2. /\ QueryOK(q, snapshots, clock) /\ q.asked \in Times /\ q.asked <= clock /\ clock \in Times
      /\ \A a \in q.asks : a[1] \in DOMAIN snapshots =>
           snapshots[a[1]].asked = Never \/ snapshots[a[1]].asked <= q.asked
  BY <1>1 DEF IInv, Asking, QueryOK, Switches
<1>3. ask = <<id, config>> /\ DOMAIN snapshots' = DOMAIN snapshots
      /\ \A other \in DOMAIN snapshots \ {id} : snapshots'[other] = snapshots[other]
  BY <1>1, <1>2 DEF QueryOK
<1>4. ASSUME Current(id, config)
      PROVE  /\ TargetOK(targets[id]) /\ SnapshotOK(shown, targets[id], clock)
             /\ shown.asked = (IF parsed THEN q.asked ELSE snapshots[id].asked)
  <2>1. TargetOK(targets[id]) /\ SnapshotOK(snapshots[id], targets[id], clock)
        /\ targets[id].config = config
    BY <1>4 DEF IInv, Watched, Current
  <2>2. CASE parsed
    <3>1. shown = [state |-> "ok", shown |-> config, asked |-> q.asked]
      BY <2>2 DEF Success
    <3>2. config \in Configs /\ config # Empty
      BY <2>1, ConfigsAreFunctions, QuotaAssumption DEF TargetOK
    <3>3. shown \in [state : States, shown : Configs \cup {Empty}, asked : Times \cup {Never}]
      BY <1>2, <3>1, <3>2 DEF States
    <3>4. shown.shown = config /\ shown.asked = q.asked
      BY <3>1
    <3>5. q.asked # Never
      BY <1>2, NeverLater
    <3> HIDE DEF shown
    <3> QED
      BY <1>2, <2>1, <2>2, <3>2, <3>3, <3>4, <3>5 DEF SnapshotOK
  <2>3. CASE ~parsed
    <3>1. shown = [snapshots[id] EXCEPT !.state = "error"]
      BY <2>3
    <3>2. shown \in [state : States, shown : Configs \cup {Empty}, asked : Times \cup {Never}]
          /\ shown.shown = snapshots[id].shown /\ shown.asked = snapshots[id].asked
      BY <2>1, <3>1 DEF SnapshotOK, States
    <3> HIDE DEF shown
    <3> QED
      BY <2>1, <2>3, <3>2 DEF SnapshotOK
  <2> QED
    BY <2>2, <2>3
<1> HIDE DEF shown
<1>5. ASSUME NEW other \in DOMAIN snapshots
      PROVE  /\ TargetOK(targets[other]) /\ SnapshotOK(snapshots'[other], targets[other], clock)
             /\ \/ snapshots'[other].asked = snapshots[other].asked
                \/ other = id /\ snapshots'[other].asked = q.asked
  <2>1. CASE other = id /\ Current(id, config)
    BY <1>1, <1>4, <2>1
  <2>2. CASE ~(other = id /\ Current(id, config))
    <3>1. snapshots'[other] = snapshots[other]
      BY <1>1, <1>3, <2>2
    <3> QED
      BY <3>1 DEF IInv, Watched
  <2> QED
    BY <2>1, <2>2
<1>6. Watched'
  BY <1>1, <1>3, <1>5 DEF IInv, Watched, TargetOK, SnapshotOK
<1>7. ASSUME NEW other \in queries \ {q} PROVE QueryOK(other, snapshots', clock')
  <2>1. QueryOK(other, snapshots, clock) /\ \A a \in other.asks : a[1] # id
    BY <1>2 DEF IInv, Asking
  <2>2. ASSUME NEW a \in other.asks, a[1] \in DOMAIN snapshots'
        PROVE  snapshots'[a[1]].asked = snapshots[a[1]].asked
    BY <1>3, <2>1, <2>2
  <2> QED
    BY <1>1, <1>3, <2>1, <2>2 DEF QueryOK
<1>8. ASSUME NEW n \in next PROVE n = new /\ QueryOK(n, snapshots', clock') /\ n.asks \subseteq q.asks
  <2>1. n = new /\ q.asks # {ask}
    BY <1>3
  <2>2. new = [asks |-> q.asks \ {ask}, stage |-> q.stage, asked |-> q.asked]
    BY <1>2, <1>3 DEF QueryOK
  <2>3. new.asks = q.asks \ {ask} /\ new.stage = q.stage /\ new.asked = q.asked
        /\ new.asks # {}
    BY <1>2, <2>1, <2>2 DEF QueryOK
  <2>4. ASSUME NEW a \in q.asks, a[1] \in DOMAIN snapshots'
        PROVE  snapshots'[a[1]].asked = Never \/ snapshots'[a[1]].asked <= q.asked
    <3>1. q.asked <= q.asked
      BY <1>2, NeverLater
    <3> QED
      BY <1>2, <1>3, <1>5, <2>4, <3>1
  <2> HIDE DEF new
  <2>5. QueryOK(new, snapshots', clock')
    BY <1>1, <1>2, <2>2, <2>3, <2>4 DEF QueryOK
  <2> QED
    BY <2>1, <2>3, <2>5
<1>9. \A n \in next : n.stage = "queued" \/ q.stage # "queued"
  BY <1>1
<1> HIDE DEF next, new
<1> QED
  BY <1>1, <1>6, <1>7, <1>8, <1>9, QueryStep

(* A reload that touches neither what is watched nor what is asked. *)
LEMMA ReloadStep ==
  ASSUME IInv, Following', UNCHANGED <<clock, monitorVars, cancelled>>, wake' \in BOOLEAN,
         crossed' \in BOOLEAN
  PROVE  IInv'
<1>1. Watched' /\ Asking' /\ Limited'
  BY SameWatched, SameAsking, ClockRuns DEF IInv, Switches, Asking, monitorVars
<1>2. Switches'
  BY DEF IInv, Switches, monitorVars
<1> QED
  BY <1>1, <1>2 DEF IInv

LEMMA LoadStep ==
  ASSUME IInv, NEW version \in Versions, LoadProviderConfigs(version) PROVE IInv'
<1> DEFINE loaded == [at |-> "loaded", version |-> version]
<1>1. /\ reloads < MaxReloads /\ reloads' = reloads + 1 /\ routes' = routes
      /\ crossed' = crossed /\ targets' = targets
      /\ reload' = IF version \in Loadable THEN [reload EXCEPT ![reloads'] = loaded] ELSE reload
  BY DEF LoadProviderConfigs, monitorVars
<1>2. Following /\ MaxReloads \in Nat /\ reloads' \in 1 .. MaxReloads /\ reloads \in Nat
  BY <1>1, QuotaAssumption DEF IInv, Following
<1>3. loaded \in [at : {"out", "loaded", "routed", "replaced"}, version : Versions]
      /\ loaded.at = "loaded"
  OBVIOUS
<1> HIDE DEF loaded
<1>4. ASSUME NEW n \in 1 .. MaxReloads
      PROVE  /\ reload'[n] \in [at : {"out", "loaded", "routed", "replaced"}, version : Versions]
             /\ reload'[n].at = "routed" <=> reload[n].at = "routed"
             /\ reload'[n].at = "routed" => reload'[n] = reload[n]
             /\ n > reloads' => reload'[n].at = "out"
  <2>1. CASE reload'[n] = reload[n]
    BY <1>1, <1>2, <2>1 DEF Following
  <2>2. CASE n = reloads' /\ reload'[n] = loaded
    <3>1. reload[n].at = "out"
      BY <1>1, <1>2, <2>2 DEF Following
    <3> QED
      BY <1>2, <1>3, <2>2, <3>1
  <2> QED
    BY <1>1, <1>2, <2>1, <2>2 DEF Following
<1>5. Routed' = Routed /\ DOMAIN reload' = 1 .. MaxReloads
  BY <1>1, <1>2, <1>4 DEF Routed, Following
<1>6. Following'
  <2>1. ASSUME ~crossed'
        PROVE  /\ \A n, other \in Routed' : n = other
               /\ \A n \in Routed' : reload'[n].version = routes'
               /\ Routed' = {} =>
                    [id \in DOMAIN targets' |-> targets'[id].config] = ConfigsIn[routes']
    <3>1. \A n \in Routed : reload'[n] = reload[n]
      BY <1>4 DEF Routed
    <3> QED
      BY <1>1, <1>2, <1>5, <2>1, <3>1 DEF Following
  <2>2. \A n \in 1 .. MaxReloads : reload'[n].at = "routed" => reload'[n].version \in Buildable
    BY <1>2, <1>4 DEF Following
  <2>3. routes' \in Buildable /\ reloads' \in 0 .. MaxReloads
    BY <1>1, <1>2 DEF Following
  <2> QED
    BY <1>4, <1>5, <2>1, <2>2, <2>3 DEF Following
<1>7. wake' \in BOOLEAN /\ crossed' \in BOOLEAN
  BY DEF IInv, Switches, LoadProviderConfigs
<1> QED
  BY <1>6, <1>7, ReloadStep DEF LoadProviderConfigs

(* A step of a reload that was asked for: it is refused, or goes on. *)
LEMMA ReloadMoves ==
  ASSUME Following, NEW n \in 1 .. reloads, NEW from, NEW accepted,
         NEW to \in {"out", "routed", "replaced"},
         Reloads(n, from, accepted, to), UNCHANGED reloads,
         accepted /\ to = "routed" => reload[n].version \in Buildable
  PROVE  /\ n \in 1 .. MaxReloads /\ DOMAIN reload' = 1 .. MaxReloads
         /\ reload[n].version \in Versions
         /\ accepted => reload'[n].at = to /\ reload'[n].version = reload[n].version
         /\ ~accepted => reload'[n].at = "out"
         /\ \A other \in (1 .. MaxReloads) \ {n} : reload'[other] = reload[other]
         /\ \A m \in 1 .. MaxReloads :
              /\ reload'[m] \in [at : {"out", "loaded", "routed", "replaced"}, version : Versions]
              /\ reload'[m].at = "routed" => reload'[m].version \in Buildable
              /\ m > reloads' => reload'[m].at = "out"
<1> DEFINE next == IF accepted THEN [reload[n] EXCEPT !.at = to] ELSE Out
           Rows == [at : {"out", "loaded", "routed", "replaced"}, version : Versions]
<1>1. reload' = [reload EXCEPT ![n] = next] /\ reloads' = reloads
  BY DEF Reloads
<1>2. n \in 1 .. MaxReloads /\ DOMAIN reload = 1 .. MaxReloads /\ reload[n] \in Rows
      /\ reloads \in Nat /\ MaxReloads \in Nat /\ n <= reloads
  BY QuotaAssumption DEF Following
<1>3. CASE accepted
  <2>1. next = [reload[n] EXCEPT !.at = to]
    BY <1>3
  <2>2. next \in Rows /\ next.at = to /\ next.version = reload[n].version
    BY <1>2, <2>1
  <2> HIDE DEF next, Rows
  <2>3. reload'[n] = next /\ \A other \in (1 .. MaxReloads) \ {n} : reload'[other] = reload[other]
    BY <1>1, <1>2
  <2>4. ASSUME NEW m \in 1 .. MaxReloads
        PROVE  /\ reload'[m] \in Rows
               /\ reload'[m].at = "routed" => reload'[m].version \in Buildable
               /\ m > reloads' => reload'[m].at = "out"
    <3>1. CASE m = n
      BY <1>1, <1>2, <1>3, <2>2, <2>3, <3>1
    <3>2. CASE m # n
      BY <1>1, <2>3, <3>2 DEF Following, Rows
    <3> QED
      BY <3>1, <3>2
  <2> QED
    BY <1>1, <1>2, <1>3, <2>2, <2>3, <2>4 DEF Rows
<1>4. CASE ~accepted
  <2>1. next = [at |-> "out", version |-> AtStart]
    BY <1>4 DEF Out
  <2>2. next \in Rows /\ next.at = "out"
    BY <2>1, QuotaAssumption
  <2> HIDE DEF next, Rows
  <2>3. reload'[n] = next /\ \A other \in (1 .. MaxReloads) \ {n} : reload'[other] = reload[other]
    BY <1>1, <1>2
  <2>4. ASSUME NEW m \in 1 .. MaxReloads
        PROVE  /\ reload'[m] \in Rows
               /\ reload'[m].at = "routed" => reload'[m].version \in Buildable
               /\ m > reloads' => reload'[m].at = "out"
    <3>1. CASE m = n
      BY <2>2, <2>3, <3>1
    <3>2. CASE m # n
      BY <1>1, <2>3, <3>2 DEF Following, Rows
    <3> QED
      BY <3>1, <3>2
  <2> QED
    BY <1>1, <1>2, <1>4, <2>2, <2>3, <2>4 DEF Rows
<1> QED
  BY <1>3, <1>4

LEMMA ReplaceRoutesStep ==
  ASSUME IInv, NEW n \in 1 .. reloads, ReplaceRoutes(n) PROVE IInv'
<1> DEFINE accepted == reload[n].version \in Buildable
<1>1. /\ reload[n].at = "loaded" /\ Reloads(n, "loaded", accepted, "routed")
      /\ UNCHANGED <<reloads, targets, snapshots, wake>>
      /\ routes' = IF accepted THEN reload[n].version ELSE routes
      /\ accepted => crossed' = \E other \in 1 .. reloads : reload[other].at = "routed"
      /\ ~accepted => crossed' = crossed
  BY DEF ReplaceRoutes, Reloads
<1>2. Following
  BY DEF IInv
<1>3. /\ n \in 1 .. MaxReloads /\ DOMAIN reload' = 1 .. MaxReloads
      /\ accepted => reload'[n].at = "routed" /\ reload'[n].version = reload[n].version
      /\ ~accepted => reload'[n].at = "out"
      /\ \A other \in (1 .. MaxReloads) \ {n} : reload'[other] = reload[other]
      /\ \A m \in 1 .. MaxReloads :
           /\ reload'[m] \in [at : {"out", "loaded", "routed", "replaced"}, version : Versions]
           /\ reload'[m].at = "routed" => reload'[m].version \in Buildable
           /\ m > reloads' => reload'[m].at = "out"
  BY <1>1, <1>2, ReloadMoves
<1>4. crossed' \in BOOLEAN
  <2>1. CASE accepted
    <3>1. crossed' = \E other \in 1 .. reloads : reload[other].at = "routed"
      BY <1>1, <2>1
    <3> QED
      BY <3>1, Zenon
  <2>2. CASE ~accepted
    BY <1>1, <2>2 DEF IInv, Switches
  <2> QED
    BY <2>1, <2>2
<1>5. CASE accepted
  <2>1. Routed' = Routed \cup {n}
    BY <1>3, <1>5 DEF Routed
  <2>2. ASSUME ~crossed' PROVE Routed = {}
    <3>1. ~\E other \in 1 .. reloads : reload[other].at = "routed"
      BY <1>1, <1>5, <2>2
    <3>2. \A m \in 1 .. MaxReloads : reload[m].at = "routed" => m \in 1 .. reloads
      BY <1>2, QuotaAssumption DEF Following
    <3> QED
      BY <3>1, <3>2 DEF Routed
  <2>3. routes' = reload'[n].version /\ routes' \in Buildable
    BY <1>1, <1>3, <1>5
  <2> HIDE DEF accepted
  <2>4. ASSUME ~crossed'
        PROVE  /\ \A m, other \in Routed' : m = other
               /\ \A m \in Routed' : reload'[m].version = routes'
               /\ Routed' # {}
    BY <2>1, <2>2, <2>3, <2>4
  <2>5. reloads' \in 0 .. MaxReloads
    BY <1>1, <1>2 DEF Following
  <2>6. Following'
    BY <1>3, <2>3, <2>4, <2>5 DEF Following
  <2> QED
    BY <1>1, <1>4, <2>6, ReloadStep DEF Reloads, monitorVars, IInv, Switches
<1>6. CASE ~accepted
  <2>1. Routed' = Routed
    BY <1>1, <1>3, <1>6 DEF Routed
  <2>2. routes' = routes /\ reloads' = reloads /\ targets' = targets /\ (~crossed' => ~crossed)
    BY <1>1, <1>6
  <2>3. \A m \in Routed : reload'[m].version = reload[m].version
    BY <1>1, <1>3 DEF Routed
  <2> HIDE DEF accepted
  <2>4. Following'
    BY <1>2, <1>3, <2>1, <2>2, <2>3 DEF Following
  <2> QED
    BY <1>1, <1>4, <2>4, ReloadStep DEF Reloads, monitorVars, IInv, Switches
<1> QED
  BY <1>5, <1>6

LEMMA ReplaceTargetsStep ==
  ASSUME IInv, NEW n \in 1 .. reloads, ReplaceTargets(n) PROVE IInv'
<1> DEFINE version == reload[n].version
           accepted == version \in Watchable
           new == buildTargets(version)
           kept == {id \in DOMAIN ConfigsIn[version] : Current(id, ConfigsIn[version][id])}
<1>1. /\ reload[n].at = "routed" /\ Reloads(n, "routed", accepted, "replaced")
      /\ UNCHANGED <<routes, crossed, reloads, wake>>
      /\ accepted =>
           /\ targets' = [id \in DOMAIN new |-> IF id \in kept THEN targets[id] ELSE new[id]]
           /\ snapshots' = [id \in DOMAIN new |-> IF id \in kept THEN snapshots[id] ELSE Pending]
  BY DEF ReplaceTargets, ReplaceKeeping, Reloads
<1>2. Following /\ Watched /\ clock \in Times /\ clock' = clock
  BY <1>1 DEF IInv, Switches, Reloads
<1>3. /\ n \in 1 .. MaxReloads /\ DOMAIN reload' = 1 .. MaxReloads /\ version \in Versions
      /\ reload'[n].at # "routed"
      /\ \A other \in (1 .. MaxReloads) \ {n} : reload'[other] = reload[other]
      /\ \A m \in 1 .. MaxReloads :
           /\ reload'[m] \in [at : {"out", "loaded", "routed", "replaced"}, version : Versions]
           /\ reload'[m].at = "routed" => reload'[m].version \in Buildable
           /\ m > reloads' => reload'[m].at = "out"
  BY <1>1, <1>2, ReloadMoves
<1>4. accepted
  BY <1>1, <1>2, <1>3, BuildableIsWatchable DEF Following
<1>5. /\ DOMAIN new = DOMAIN ConfigsIn[version]
      /\ \A id \in DOMAIN new : TargetOK(new[id]) /\ new[id].config = ConfigsIn[version][id]
      /\ [id \in DOMAIN new |-> new[id].config] = ConfigsIn[version]
  BY <1>2, <1>3, BuiltTargets
<1>6. \A id \in kept : id \in DOMAIN targets /\ targets[id].config = ConfigsIn[version][id]
  BY DEF Current
<1>7. targets' = [id \in DOMAIN new |-> IF id \in kept THEN targets[id] ELSE new[id]]
      /\ snapshots' = [id \in DOMAIN new |-> IF id \in kept THEN snapshots[id] ELSE Pending]
  BY <1>1, <1>4
<1> HIDE DEF new, kept, version, accepted
<1>8. ASSUME NEW id \in DOMAIN new
      PROVE  /\ TargetOK(targets'[id]) /\ SnapshotOK(snapshots'[id], targets'[id], clock)
             /\ targets'[id].config = ConfigsIn[version][id]
             /\ snapshots'[id].asked # Never =>
                  id \in DOMAIN snapshots /\ snapshots'[id].asked = snapshots[id].asked
  <2>1. CASE id \in kept
    BY <1>2, <1>6, <1>7, <2>1 DEF Watched
  <2>2. CASE id \notin kept
    BY <1>5, <1>7, <2>2, PendingOK DEF Pending
  <2> QED
    BY <2>1, <2>2
<1>9. Watched'
  BY <1>2, <1>7, <1>8 DEF Watched, TargetOK, SnapshotOK
<1>10. Asking' /\ Limited'
  <2>1. queries' = queries /\ loop' = loop
    BY <1>1 DEF Reloads
  <2> QED
    BY <1>2, <1>7, <1>8, <2>1, SameAsking, ClockRuns DEF IInv, Asking
<1>11. [id \in DOMAIN targets' |-> targets'[id].config] = ConfigsIn[version]
  BY <1>3, <1>5, <1>7, <1>8, ConfigsAreFunctions
<1>12. Following'
  <2>1. Routed' = Routed \ {n} /\ n \in Routed
    BY <1>1, <1>3 DEF Routed
  <2>2. routes' = routes /\ reloads' = reloads /\ (~crossed' => ~crossed)
    BY <1>1
  <2>3. ~crossed => version = routes /\ Routed' = {}
    BY <1>2, <2>1 DEF Following, version
  <2>4. ASSUME ~crossed'
        PROVE  /\ Routed' = {}
               /\ [id \in DOMAIN targets' |-> targets'[id].config] = ConfigsIn[routes']
    BY <1>11, <2>2, <2>3, <2>4
  <2>5. routes' \in Buildable /\ reloads' \in 0 .. MaxReloads
    BY <1>2, <2>2 DEF Following
  <2> QED
    BY <1>3, <2>4, <2>5 DEF Following
<1>13. Switches'
  BY <1>1 DEF IInv, Switches, Reloads
<1> QED
  BY <1>9, <1>10, <1>12, <1>13 DEF IInv

LEMMA SignalWakeStep == ASSUME IInv, NEW n \in 1 .. reloads, SignalWake(n) PROVE IInv'
<1>1. /\ reload[n].at = "replaced" /\ Reloads(n, "replaced", FALSE, "out") /\ wake' = TRUE
      /\ UNCHANGED <<routes, crossed, reloads, targets, snapshots>>
  BY DEF SignalWake, Reloads
<1>2. Following
  BY DEF IInv
<1>3. /\ n \in 1 .. MaxReloads /\ DOMAIN reload' = 1 .. MaxReloads
      /\ reload'[n].at = "out"
      /\ \A other \in (1 .. MaxReloads) \ {n} : reload'[other] = reload[other]
      /\ \A m \in 1 .. MaxReloads :
           /\ reload'[m] \in [at : {"out", "loaded", "routed", "replaced"}, version : Versions]
           /\ reload'[m].at = "routed" => reload'[m].version \in Buildable
           /\ m > reloads' => reload'[m].at = "out"
  BY <1>1, <1>2, ReloadMoves
<1>4. Routed' = Routed
  BY <1>1, <1>3 DEF Routed
<1>5. \A m \in Routed : reload'[m].version = reload[m].version
  BY <1>1, <1>3 DEF Routed
<1>6. Following'
  BY <1>1, <1>2, <1>3, <1>4, <1>5 DEF Following
<1> QED
  BY <1>1, <1>6, ReloadStep DEF Reloads, monitorVars, IInv, Switches

LEMMA StutterStep == ASSUME IInv, UNCHANGED vars PROVE IInv'
<1>1. UNCHANGED <<clock, targets, snapshots, loop, timer, queries, wake, cancelled>>
      /\ UNCHANGED adminVars /\ crossed' = crossed
  BY DEF vars, monitorVars, adminVars
<1>2. Switches'
  BY <1>1 DEF IInv, Switches
<1> QED
  BY <1>1, <1>2, QuietStep, ClockRuns DEF IInv, Asking

LEMMA NextOK == IInv /\ [Next]_vars => IInv'
<1> SUFFICES ASSUME IInv, [Next]_vars PROVE IInv'
  OBVIOUS
<1>1. CASE Next
  <2>1. CASE Tick \/ Close
    BY <2>1, TickStep, CloseStep
  <2>2. CASE Run
    BY <2>2, NextWaitStep, WakeUpStep, SweepStep, EndSweepStep, SeeCancelStep DEF Run
  <2>3. ASSUME NEW q \in queries, Query(q) PROVE IInv'
    BY <2>3, FetchStep, GiveUpStep, AnsweredStep, ApplyStep DEF Query
  <2>4. CASE \E version \in Versions : LoadProviderConfigs(version)
    BY <2>4, LoadStep
  <2>5. ASSUME NEW n \in 1 .. reloads, Reloading(n) PROVE IInv'
    BY <2>5, ReplaceRoutesStep, ReplaceTargetsStep, SignalWakeStep DEF Reloading
  <2> QED
    BY <1>1, <2>1, <2>2, <2>3, <2>4, <2>5 DEF Next
<1>2. CASE UNCHANGED vars
  BY <1>2, StutterStep
<1> QED
  BY <1>1, <1>2

(* For every set of accounts and every number of reloads, what the monitor *)
(* watches, asks and shows stays that of the configuration in force.       *)
THEOREM QuotaInvariant == Spec => []IInv
<1>1. Init => IInv
  BY InitOK
<1>2. IInv /\ [Next]_vars => IInv'
  BY NextOK
<1> QED
  BY <1>1, <1>2, PTL DEF Spec

----------------------------------------------------------------------------
(* What follows.                                                           *)

(* Every variable of the monitor keeps its type: queries are there only in *)
(* a sweep, share their URL and key, and no more of them than the limit    *)
(* are under way at a time.                                                *)
THEOREM MonitorTyped == Spec => []TypeOK
<1>1. IInv => TypeOK
  <2> SUFFICES ASSUME IInv PROVE TypeOK
    OBVIOUS
  <2>1. \A id \in DOMAIN targets : targets[id].due \in 0 .. MaxTime + Interval
    BY DEF IInv, Watched, TargetOK, Dues
  <2>2. ASSUME NEW id \in DOMAIN snapshots
        PROVE  /\ snapshots[id].state \in {"pending", "ok", "error"}
               /\ snapshots[id].asked \in Times \cup {Never}
               /\ (snapshots[id].shown = Empty) = (snapshots[id].asked = Never)
    <3>1. SnapshotOK(snapshots[id], targets[id], clock)
      BY DEF IInv, Watched
    <3>2. snapshots[id].shown = Empty <=> snapshots[id].asked = Never
      BY <3>1 DEF SnapshotOK
    <3>3. (snapshots[id].shown = Empty) = (snapshots[id].asked = Never)
      BY <3>2, Zenon
    <3>4. snapshots[id].state \in {"pending", "ok", "error"}
          /\ snapshots[id].asked \in Times \cup {Never}
      BY <3>1 DEF SnapshotOK, States
    <3> QED
      BY <3>3, <3>4
  <2>3. {wake, cancelled, crossed} \subseteq BOOLEAN
    <3>1. wake \in BOOLEAN /\ cancelled \in BOOLEAN /\ crossed \in BOOLEAN
      BY DEF IInv, Switches
    <3> QED
      BY <3>1, Zenon
  <2>4. ASSUME NEW q \in queries
        PROVE  /\ q.stage \in {"queued", "asking", "answered", "failed"}
               /\ q.asks # {} /\ \A a, b \in q.asks : RequestOf(a[2]) = RequestOf(b[2])
    BY DEF IInv, Asking, QueryOK, QueryStages
  <2>5. clock \in Times /\ loop \in {"looking", "waiting", "sweeping", "done"}
        /\ (queries # {} => loop = "sweeping")
    BY DEF IInv, Switches, Asking
  <2>6. Cardinality({q \in queries : q.stage # "queued"}) <= MaxConcurrency
    BY DEF IInv, Limited, Sent
  <2>7. routes \in Versions
        /\ \A n \in 1 .. MaxReloads : reload[n].at \in {"out", "loaded", "routed", "replaced"}
    BY DEF IInv, Following, Buildable
  <2> QED
    BY <2>1, <2>2, <2>3, <2>4, <2>5, <2>6, <2>7 DEF TypeOK
<1> QED
  BY <1>1, QuotaInvariant, PTL

(* Nothing rendered for a configuration that is no longer in force is      *)
(* shown, however many reloads and late answers there are.                 *)
THEOREM ReportIsCurrent == Spec => []SnapshotsCurrent
<1>1. IInv => SnapshotsCurrent
  BY DEF IInv, Watched, SnapshotOK, SnapshotsCurrent
<1> QED
  BY <1>1, QuotaInvariant, PTL

(* What a reload accepts, the registry routes to and the monitor watches;  *)
(* and every route has an account with a key, whatever the files say.      *)
THEOREM ReloadsAreInForce == Spec => []AcceptedInForce
<1>1. IInv => QuotaFollowsRoutes
  BY DEF IInv, Following, Routed, QuotaFollowsRoutes
<1>2. IInv => RoutesServe
  <2> SUFFICES ASSUME IInv, NEW route \in DOMAIN RoutesIn[routes]
               PROVE  /\ RoutesIn[routes][route] # {}
                      /\ \A account \in RoutesIn[routes][route] : ResolvedKey(account) # Empty
    BY DEF RoutesServe
  <2>1. routes \in Buildable
    BY DEF IInv, Following
  <2>2. RoutesIn[routes] = Routes(Contents[routes])
    BY <2>1 DEF RoutesIn
  <2> QED
    BY <2>1, <2>2, RoutesAreServed
<1>3. IInv => AcceptedInForce
  BY <1>1, <1>2 DEF AcceptedInForce
<1> QED
  BY <1>3, QuotaInvariant, PTL

(* What LastSuccessKept says of one account in a step. *)
KeptInStep(id) ==
  \/ snapshots[id].asked = Never
  \/ ~(id \in DOMAIN targets' /\ targets'[id].config = targets[id].config)
  \/ /\ snapshots'[id].shown = snapshots[id].shown
     /\ snapshots'[id].asked \in snapshots[id].asked .. MaxTime

LEMMA UnchangedKept ==
  ASSUME IInv, NEW id \in DOMAIN snapshots, snapshots'[id] = snapshots[id]
  PROVE  KeptInStep(id)
<1>1. SnapshotOK(snapshots[id], targets[id], clock)
  BY DEF IInv, Watched
<1>2. snapshots[id].asked # Never => snapshots[id].asked \in snapshots[id].asked .. MaxTime
  BY <1>1, NeverLater, QuotaAssumption DEF SnapshotOK
<1> QED
  BY <1>2 DEF KeptInStep

LEMMA ReloadKept ==
  ASSUME IInv, NEW n \in 1 .. reloads, ReplaceTargets(n), NEW id \in DOMAIN snapshots
  PROVE  KeptInStep(id)
<1> DEFINE version == reload[n].version
           new == buildTargets(version)
           kept == {i \in DOMAIN ConfigsIn[version] : Current(i, ConfigsIn[version][i])}
<1>1. CASE version \in Watchable
  <2>1. targets' = [i \in DOMAIN new |-> IF i \in kept THEN targets[i] ELSE new[i]]
        /\ snapshots' = [i \in DOMAIN new |-> IF i \in kept THEN snapshots[i] ELSE Pending]
    BY <1>1 DEF ReplaceTargets, ReplaceKeeping
  <2>2. n \in 1 .. MaxReloads
    BY QuotaAssumption DEF IInv, Following
  <2>3. version \in Versions /\ clock \in Times
    BY <2>2 DEF IInv, Following, Switches
  <2>4. DOMAIN new = DOMAIN ConfigsIn[version]
        /\ \A i \in DOMAIN new : new[i].config = ConfigsIn[version][i]
    BY <2>3, BuiltTargets
  <2> HIDE DEF new, version
  <2>5. CASE id \in kept
    BY <2>1, <2>4, <2>5, UnchangedKept
  <2>6. CASE id \in DOMAIN new /\ id \notin kept
    <3>1. targets'[id].config = ConfigsIn[version][id] /\ ~Current(id, ConfigsIn[version][id])
      BY <2>1, <2>4, <2>6
    <3>2. id \in DOMAIN targets
      BY DEF IInv, Watched
    <3> QED
      BY <3>1, <3>2 DEF Current, KeptInStep
  <2>7. CASE id \notin DOMAIN new
    BY <2>1, <2>7 DEF KeptInStep
  <2> QED
    BY <2>4, <2>5, <2>6, <2>7
<1>2. CASE version \notin Watchable
  BY <1>2, UnchangedKept DEF ReplaceTargets, ReplaceKeeping
<1> QED
  BY <1>1, <1>2

(* An answer that is shown was asked for after the one it replaces. *)
LEMMA AnswerKept ==
  ASSUME IInv, NEW q \in queries, NEW ask \in q.asks, NEW parsed \in BOOLEAN,
         Apply(q, ask[1], ask[2], parsed), NEW id \in DOMAIN snapshots
  PROVE  KeptInStep(id)
<1> DEFINE config == ask[2]
           shown == IF parsed THEN Success(q, config)
                    ELSE [snapshots[ask[1]] EXCEPT !.state = "error"]
<1>1. CASE id = ask[1] /\ Current(id, config) /\ snapshots[id].asked # Never
  <2>1. snapshots' = [snapshots EXCEPT ![id] = shown] /\ q.stage # "queued"
    BY <1>1 DEF Apply, ApplyIf
  <2>2. SnapshotOK(snapshots[id], targets[id], clock) /\ targets[id].config = config
    BY <1>1 DEF IInv, Watched, Current
  <2>3. snapshots[id].shown = config
    BY <1>1, <2>2 DEF SnapshotOK
  <2>4. q.asked \in Times /\ snapshots[id].asked <= q.asked
    BY <1>1, <2>1 DEF IInv, Asking, QueryOK
  <2>5. snapshots[id].asked \in Times
    BY <1>1, <2>2 DEF SnapshotOK
  <2>6. CASE parsed
    <3>1. snapshots'[id].shown = config /\ snapshots'[id].asked = q.asked
      BY <2>1, <2>6 DEF Success
    <3>2. q.asked \in snapshots[id].asked .. MaxTime
      BY <2>4, <2>5, NeverLater, QuotaAssumption
    <3> QED
      BY <2>3, <3>1, <3>2 DEF KeptInStep
  <2>7. CASE ~parsed
    <3>1. snapshots'[id] = [snapshots[id] EXCEPT !.state = "error"]
      BY <1>1, <2>1, <2>7
    <3>2. snapshots'[id].shown = snapshots[id].shown /\ snapshots'[id].asked = snapshots[id].asked
      BY <2>2, <3>1 DEF SnapshotOK
    <3>3. snapshots[id].asked \in snapshots[id].asked .. MaxTime
      BY <2>5, NeverLater, QuotaAssumption
    <3> QED
      BY <3>2, <3>3 DEF KeptInStep
  <2> QED
    BY <2>6, <2>7
<1>2. CASE ~(id = ask[1] /\ Current(id, config))
  <2>1. snapshots'[id] = snapshots[id]
    BY <1>2 DEF Apply, ApplyIf
  <2> QED
    BY <2>1, UnchangedKept
<1>3. CASE snapshots[id].asked = Never
  BY <1>3 DEF KeptInStep
<1> QED
  BY <1>1, <1>2, <1>3

LEMMA SuccessKeptStep ==
  ASSUME IInv, [Next]_vars, NEW id \in DOMAIN snapshots
  PROVE  KeptInStep(id)
<1>1. CASE UNCHANGED vars \/ Tick \/ Close \/ Run
           \/ \E version \in Versions : LoadProviderConfigs(version)
  <2>1. snapshots' = snapshots
    BY <1>1 DEF vars, monitorVars, Tick, Close, Run, NextWait, WakeUp, Sweep, EndSweep, SeeCancel,
                LoadProviderConfigs
  <2> QED
    BY <2>1, UnchangedKept
<1>2. ASSUME NEW q \in queries, Query(q) PROVE KeptInStep(id)
  <2>1. CASE Fetch(q) \/ GiveUp(q) \/ \E b \in BOOLEAN : Answered(q, b)
    BY <2>1, UnchangedKept DEF Fetch, GiveUp, Answered
  <2>2. CASE \E b \in BOOLEAN : \E ask \in q.asks : Apply(q, ask[1], ask[2], b)
    BY <2>2, AnswerKept
  <2> QED
    BY <1>2, <2>1, <2>2 DEF Query
<1>3. ASSUME NEW n \in 1 .. reloads, Reloading(n) PROVE KeptInStep(id)
  <2>1. CASE ReplaceRoutes(n) \/ SignalWake(n)
    BY <2>1, UnchangedKept DEF ReplaceRoutes, SignalWake
  <2>2. CASE ReplaceTargets(n)
    BY <2>2, ReloadKept
  <2> QED
    BY <1>3, <2>1, <2>2 DEF Reloading
<1> QED
  BY <1>1, <1>2, <1>3 DEF Next

(* What is shown of an account is replaced only by an answer that was      *)
(* asked for later, as long as its configuration stays, for any number of  *)
(* overlapping reloads and whatever the order in which queries end.        *)
THEOREM SuccessesAreKept == Spec => LastSuccessKept
<1>1. IInv /\ [Next]_vars
      => [\A id \in DOMAIN snapshots :
            \/ snapshots[id].asked = Never
            \/ ~(id \in DOMAIN targets' /\ targets'[id].config = targets[id].config)
            \/ /\ snapshots'[id].shown = snapshots[id].shown
               /\ snapshots'[id].asked \in snapshots[id].asked .. MaxTime]_vars
  BY SuccessKeptStep DEF KeptInStep
<1> QED
  BY <1>1, QuotaInvariant, PTL DEF Spec, LastSuccessKept

=============================================================================
