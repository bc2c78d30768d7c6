---------------------------- MODULE QuotaMonitor ----------------------------
(***************************************************************************)
(* The monitor that asks the providers for the quota left on each upstream *)
(* account (internal/providerquota/monitor.go), and the reload that gives  *)
(* the registry and then the monitor another configuration (gateway/       *)
(* admin.go, internal/config/config.go, internal/provider/registry.go).    *)
(*                                                                         *)
(* A goroutine waits for the next account that is due, or for a wake-up,   *)
(* and sweeps: accounts with the same URL and key share one query, every   *)
(* query is a goroutine, and the sweep ends when the last query has ended. *)
(***************************************************************************)
EXTENDS ProviderConfig, FiniteSetsExt

CONSTANTS
  Versions,        \* states of the directory of provider files
  Contents,        \* version -> the sequence of files
  AtStart,         \* the version there is when the process starts
  MaxConcurrency, Interval,
  MaxReloads, MaxTime  \* bounds on the reloads and on the clock

Times == 0 .. MaxTime
Never == MaxTime + 1

ASSUME QuotaAssumption ==
  /\ Contents \in [Versions -> Seq(UNION {Range(Contents[v]) : v \in Versions})]
  /\ \A v \in Versions : \A file \in Range(Contents[v]) : \A pool \in Range(file.pools) :
       pool.accounts \in Seq(Range(pool.accounts))
  /\ AtStart \in Versions
  /\ MaxConcurrency \in Nat \ {0} /\ Interval \in Nat \ {0}
  /\ MaxReloads \in Nat /\ MaxTime \in Nat

(* The process does not start with files that it refuses.                  *)
ASSUME StartAssumption == Loads(Contents[AtStart]) /\ Builds(Contents[AtStart])

VARIABLES
  clock,
  routes,      \* the version that the registry was built from
  targets,     \* account -> its configuration, and when it is due
  snapshots,   \* account -> what the report shows of it
  wake,        \* the buffered channel holds a signal
  cancelled,   \* Close was called
  loop,        \* the goroutine: "looking", "waiting", "sweeping" or "done"
  timer,       \* when its timer fires, or Never
  queries,     \* the queries of the sweep
  reloads,     \* how often a reload was asked for
  reload,      \* which of them -> how far it is, and the version it has loaded
  crossed      \* history: the routes were replaced by two reloads at a time

monitorVars == <<targets, snapshots, loop, timer, queries>>
adminVars == <<routes, reload, reloads, crossed>>
vars == <<clock, monitorVars, wake, cancelled, adminVars>>

(* Of what a snapshot shows: the configuration its entries were rendered   *)
(* with and when the provider was asked for them.                          *)
Pending == [state |-> "pending", shown |-> Empty, asked |-> Never]
Out == [at |-> "out", version |-> AtStart]

(* The versions that each of the steps accepts, and what it makes of them. *)
Loadable == {v \in Versions : Loads(Contents[v])}
Buildable == {v \in Versions : Builds(Contents[v])}
RoutesIn == [v \in Buildable |-> Routes(Contents[v])]
Watchable ==
  {v \in Versions : \A file \in Range(Contents[v]) : file.quota # Empty => ValidInterval(file.quota)}
ConfigsIn == [v \in Versions |-> TargetsOf(Contents[v])]

(* A configuration is a quota block and a key, not a text that is missing. *)
ASSUME ConfigurationAssumption == \A v \in Versions : Empty \notin Range(ConfigsIn[v])

(* buildTargets: every account of a provider with a quota block, due now.  *)
buildTargets(version) ==
  [id \in DOMAIN ConfigsIn[version] |-> [config |-> ConfigsIn[version][id], due |-> clock]]

NewSnapshots(new) == [id \in DOMAIN new |-> Pending]

Init ==
  /\ clock = 0 /\ routes = AtStart
  /\ targets = buildTargets(routes) /\ snapshots = NewSnapshots(targets)
  /\ wake = FALSE /\ cancelled = FALSE
  /\ loop = "looking" /\ timer = Never /\ queries = {}
  /\ reload = [n \in 1 .. MaxReloads |-> Out] /\ reloads = 0 /\ crossed = FALSE

Tick ==
  /\ clock < MaxTime
  /\ clock' = clock + 1
  /\ UNCHANGED <<monitorVars, wake, cancelled, adminVars>>

----------------------------------------------------------------------------
(* The goroutine.                                                          *)

Goes(from, to) ==
  /\ loop = from /\ loop' = to
  /\ UNCHANGED <<clock, cancelled, adminVars>>

NextWait ==
  /\ Goes("looking", "waiting")
  /\ timer' = IF targets = <<>> THEN Never ELSE Min({targets[id].due : id \in DOMAIN targets})
  /\ UNCHANGED <<targets, snapshots, queries, wake>>

WakeUp ==
  /\ wake /\ wake' = FALSE
  /\ Goes("waiting", "looking")
  /\ UNCHANGED <<targets, snapshots, timer, queries>>

(* The timer fires: one query for all accounts that are due and share it.  *)
Sweep ==
  LET due == {id \in DOMAIN targets : targets[id].due <= clock}
      Query(request) ==
        [asks |-> {<<id, targets[id].config>> :
                     id \in {id \in due : RequestOf(targets[id].config) = request}},
         stage |-> "queued", asked |-> Never]
  IN /\ timer <= clock
     /\ Goes("waiting", "sweeping")
     /\ queries' = queries \cup {Query(request) : request \in {RequestOf(targets[id].config) : id \in due}}
     /\ targets' = [id \in DOMAIN targets |->
                      IF id \in due THEN [targets[id] EXCEPT !.due = clock + Interval]
                      ELSE targets[id]]
     /\ UNCHANGED <<snapshots, timer, wake>>

Becomes(q, next) ==
  /\ queries' = (queries \ {q}) \cup next
  /\ UNCHANGED <<clock, loop, timer, targets, wake, cancelled, adminVars>>

(* A broken variant: the limit of simultaneous queries is not kept. *)
FetchAtOnce(q) ==
  /\ q.stage = "queued"
  /\ Becomes(q, {[q EXCEPT !.stage = "asking", !.asked = clock]})
  /\ UNCHANGED snapshots

(* queryGroup, once the semaphore lets the query through.                  *)
Fetch(q) ==
  /\ q.stage = "queued"
  /\ Cardinality({other \in queries : other.stage # "queued"}) < MaxConcurrency
  /\ Becomes(q, {[q EXCEPT !.stage = "asking", !.asked = clock]})
  /\ UNCHANGED snapshots

(* A query that has no slot yet is not asked any more after Close.         *)
GiveUp(q) ==
  /\ q.stage = "queued" /\ cancelled
  /\ Becomes(q, {})
  /\ UNCHANGED snapshots

(* An answer, an error of any kind, the timeout or the cancellation.       *)
Answered(q, body) ==
  /\ q.stage = "asking"
  /\ Becomes(q, {[q EXCEPT !.stage = IF body THEN "answered" ELSE "failed"]})
  /\ UNCHANGED snapshots

Success(q, config) == [state |-> "ok", shown |-> config, asked |-> q.asked]

Current(id, config) == id \in DOMAIN targets /\ targets[id].config = config

(* The body is rendered with the account's own configuration, which may    *)
(* fail; a failure leaves what was shown before.                           *)
ApplyIf(q, id, config, parsed, wanted) ==
  /\ q.stage \in {"answered", "failed"} /\ <<id, config>> \in q.asks
  /\ parsed => q.stage = "answered"
  /\ snapshots' =
       IF ~wanted THEN snapshots
       ELSE [snapshots EXCEPT ![id] =
               IF parsed THEN Success(q, config)
               ELSE [@ EXCEPT !.state = "error"]]
  /\ Becomes(q, IF q.asks = {<<id, config>>} THEN {} ELSE {[q EXCEPT !.asks = @ \ {<<id, config>>}]})

(* A broken variant: an answer goes to the account of that name. *)
ApplyToName(q, id, config, parsed) == ApplyIf(q, id, config, parsed, id \in DOMAIN targets)

(* applySuccess and applyError: one account of the query after the other.  *)
Apply(q, id, config, parsed) == ApplyIf(q, id, config, parsed, Current(id, config))

EndSweep ==
  /\ queries = {}
  /\ Goes("sweeping", "looking")
  /\ UNCHANGED <<targets, snapshots, timer, queries, wake>>

SeeCancel ==
  /\ cancelled
  /\ Goes("waiting", "done")
  /\ UNCHANGED <<targets, snapshots, timer, queries, wake>>

Close ==
  /\ ~cancelled /\ cancelled' = TRUE
  /\ UNCHANGED <<clock, monitorVars, wake, adminVars>>

----------------------------------------------------------------------------
(* The reload.                                                             *)

(* A step of a reload, which ends when the step refuses the files.         *)
Reloads(n, from, accepted, to) ==
  /\ reload[n].at = from
  /\ reload' = [reload EXCEPT ![n] = IF accepted THEN [@ EXCEPT !.at = to] ELSE Out]
  /\ UNCHANGED <<clock, loop, timer, queries, cancelled>>

LoadProviderConfigs(version) ==
  /\ reloads < MaxReloads /\ reloads' = reloads + 1
  /\ reload' = IF version \in Loadable
               THEN [reload EXCEPT ![reloads'] = [at |-> "loaded", version |-> version]]
               ELSE reload
  /\ UNCHANGED <<clock, monitorVars, wake, cancelled, routes, crossed>>

(* Registry.Replace: all of the new routes or, after an error, none.       *)
ReplaceRoutes(n) ==
  LET accepted == reload[n].version \in Buildable
  IN /\ Reloads(n, "loaded", accepted, "routed")
     /\ routes' = IF accepted THEN reload[n].version ELSE routes
     /\ crossed' = IF accepted THEN \E other \in 1 .. reloads : reload[other].at = "routed"
                   ELSE crossed
     /\ UNCHANGED <<reloads, targets, snapshots, wake>>

(* Monitor.replace: what was not changed keeps its snapshot and its turn;  *)
(* an interval that cannot be used is refused here as well.                *)
ReplaceKeeping(n, kept) ==
  LET accepted == reload[n].version \in Watchable
      new == buildTargets(reload[n].version)
  IN /\ Reloads(n, "routed", accepted, "replaced")
     /\ IF accepted
        THEN /\ targets' = [id \in DOMAIN new |-> IF id \in kept THEN targets[id] ELSE new[id]]
             /\ snapshots' = [id \in DOMAIN new |-> IF id \in kept THEN snapshots[id] ELSE Pending]
        ELSE UNCHANGED <<targets, snapshots>>
     /\ UNCHANGED <<routes, crossed, reloads, wake>>

(* A broken variant: a reload forgets what was shown. *)
ReplaceAll(n) == ReplaceKeeping(n, {})

ReplaceTargets(n) ==
  LET new == ConfigsIn[reload[n].version]
  IN ReplaceKeeping(n, {id \in DOMAIN new : Current(id, new[id])})

(* A broken variant: the goroutine is not woken. *)
SignalNobody(n) ==
  /\ Reloads(n, "replaced", FALSE, "out")
  /\ UNCHANGED <<routes, crossed, reloads, targets, snapshots, wake>>

SignalWake(n) ==
  /\ Reloads(n, "replaced", FALSE, "out")
  /\ wake' = TRUE
  /\ UNCHANGED <<routes, crossed, reloads, targets, snapshots>>

Query(q) ==
  \/ Fetch(q) \/ GiveUp(q)
  \/ \E b \in BOOLEAN : Answered(q, b) \/ \E ask \in q.asks : Apply(q, ask[1], ask[2], b)

Run == NextWait \/ WakeUp \/ Sweep \/ EndSweep \/ SeeCancel

Reloading(n) ==
  ReplaceRoutes(n) \/ ReplaceTargets(n) \/ SignalWake(n)

Next ==
  \/ Tick \/ Close
  \/ Run
  \/ \E q \in queries : Query(q)
  \/ \E version \in Versions : LoadProviderConfigs(version)
  \/ \E n \in 1 .. reloads : Reloading(n)

(* Goroutines go on, and a query has a timeout.                            *)
Fairness ==
  /\ WF_vars(Run) /\ WF_vars(\E q \in queries : Query(q))
  /\ \A n \in 1 .. MaxReloads : WF_vars(Reloading(n))

Spec == Init /\ [][Next]_vars /\ Fairness

----------------------------------------------------------------------------
(* Every variable has its type.                                            *)
TypeOK ==
  /\ clock \in Times /\ routes \in Versions
  /\ \A id \in DOMAIN targets : targets[id].due \in 0 .. MaxTime + Interval
  /\ \A id \in DOMAIN snapshots :
       /\ snapshots[id].state \in {"pending", "ok", "error"}
       /\ snapshots[id].asked \in Times \cup {Never}
       /\ (snapshots[id].shown = Empty) = (snapshots[id].asked = Never)
  /\ {wake, cancelled, crossed} \subseteq BOOLEAN
  /\ loop \in {"looking", "waiting", "sweeping", "done"}
  /\ queries # {} => loop = "sweeping"
  /\ \A q \in queries :
       /\ q.stage \in {"queued", "asking", "answered", "failed"}
       /\ q.asks # {} /\ \A a, b \in q.asks : RequestOf(a[2]) = RequestOf(b[2])
  /\ Cardinality({q \in queries : q.stage # "queued"}) <= MaxConcurrency
  /\ \A n \in 1 .. MaxReloads : reload[n].at \in {"out", "loaded", "routed", "replaced"}

(* The report shows exactly the accounts that are watched, and nothing     *)
(* that was rendered for a configuration that is no longer in force, even  *)
(* if its answer came after the reload.                                    *)
SnapshotsCurrent ==
  /\ DOMAIN snapshots = DOMAIN targets
  /\ \A id \in DOMAIN snapshots : snapshots[id].shown \in {Empty, targets[id].config}

(* Between two reloads the monitor watches the accounts that the registry  *)
(* routes to, whatever was wrong with the files of the last one: it has    *)
(* changed both or neither. Only reloads that ran at the same time may     *)
(* leave the two apart, until the next one.                                *)
QuotaFollowsRoutes ==
  ~crossed /\ (\A n \in 1 .. MaxReloads : reload[n].at # "routed") =>
    [id \in DOMAIN targets |-> targets[id].config] = ConfigsIn[routes]

(* Every route in force has an account to serve it, with a key to show     *)
(* upstream: what the validation lets through, the registry can build.     *)
RoutesServe ==
  LET served == RoutesIn[routes]
  IN \A route \in DOMAIN served :
       served[route] # {} /\ \A account \in served[route] : ResolvedKey(account) # Empty

(* What a reload accepts is in force everywhere, and can be served.        *)
AcceptedInForce == QuotaFollowsRoutes /\ RoutesServe

(* What is shown of an account is replaced by a later answer only, as long *)
(* as its configuration stays: failures, other answers on their way and    *)
(* reloads keep it.                                                        *)
LastSuccessKept ==
  [][\A id \in DOMAIN snapshots :
       \/ snapshots[id].asked = Never
       \/ ~(id \in DOMAIN targets' /\ targets'[id].config = targets[id].config)
       \/ /\ snapshots'[id].shown = snapshots[id].shown
          /\ snapshots'[id].asked \in snapshots[id].asked .. MaxTime]_vars

(* Every account that is new or was changed is asked for, however reloads  *)
(* and sweeps overlap, unless it is changed again or the monitor closed.   *)
PendingAsked ==
  \A id \in UNION {DOMAIN ConfigsIn[v] : v \in Buildable} :
    (id \in DOMAIN snapshots /\ snapshots[id].state = "pending") ~>
      (cancelled \/ ~(id \in DOMAIN snapshots /\ snapshots[id].state = "pending"))
=============================================================================
