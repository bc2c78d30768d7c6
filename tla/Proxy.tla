------------------------------- MODULE Proxy -------------------------------
(***************************************************************************)
(* A proxied request from its arrival to the log (internal/gateway/        *)
(* proxy.go), the registry of routes, pools and accounts it is routed with *)
(* (internal/provider/registry.go), and the administrator who reloads the  *)
(* configuration, moves a public model to another pool and disables it     *)
(* meanwhile. There is one public model; each protocol routes it to a      *)
(* provider of its own.                                                    *)
(***************************************************************************)
EXTENDS CircuitBreaker, Sequences, FiniteSets, Functions

CONSTANTS
  Requests, Keys, KeyOf,        \* requests, and the key each one comes with
  Protocols, ProtocolOf,        \* the protocol of the endpoint it calls
  TTS,                          \* speech protocols
  Attentive,                    \* requests whose client sends the body and reads the answer
  Pools, Names,                 \* names of pools and of accounts
  DefaultPool,                  \* protocol -> the pool of its route
  Layouts,                      \* configurations: protocol -> pool -> accounts
  NoPool,
  MaxConcurrentPerKey,
  MaxReloads, MaxEdits,         \* bounds on what the administrator does
  MaxTime                       \* bound on the clock

Times == 0 .. MaxTime
Generations == 0 .. MaxReloads
Accounts == Generations \X Protocols \X Pools \X Names

ASSUME ProxyAssumption ==
  /\ KeyOf \in [Requests -> Keys] /\ ProtocolOf \in [Requests -> Protocols]
  /\ TTS \subseteq Protocols /\ Attentive \subseteq Requests /\ NoPool \notin Pools
  /\ DefaultPool \in [Protocols -> Pools]
  /\ \A layout \in Layouts :
       /\ DOMAIN layout \subseteq Protocols
       /\ \A p \in DOMAIN layout :
            /\ DefaultPool[p] \in DOMAIN layout[p] /\ DOMAIN layout[p] \subseteq Pools
            /\ \A pool \in DOMAIN layout[p] : layout[p][pool] \in Seq(Names)
  /\ MaxConcurrentPerKey \in Nat \ {0}
  /\ MaxReloads \in Nat /\ MaxEdits \in Nat /\ MaxTime \in Nat

VARIABLES
  clock,
  generation, layout,   \* the registry: how often it was replaced, and its routes
  breaker,              \* account of a generation -> its breaker
  disabled,             \* protocols the model is disabled for
  override,             \* the row of route_overrides, or NoPool
  admin,                \* the pool setRoutePool has validated, or NoPool
  edits,
  at,                   \* request -> how far it is
  local,                \* request -> the variables of its handler
  active,               \* key -> requests that hold a slot
  outcomes              \* history: account -> the last outcomes recorded on it

adminVars == <<generation, layout, disabled, override, admin, edits>>
requestVars == <<at, local, active>>
vars == <<clock, adminVars, breaker, requestVars, outcomes>>

Nowhere == [generation |-> 0, pool |-> NoPool, accounts |-> <<>>]
Nothing == [generations |-> {}, pools |-> {}, enabled |-> {}]
InForce == [generations |-> {generation}, pools |-> {override}, enabled |-> Protocols \ disabled]

(* A handler's variables: the route; the override it has read; the next    *)
(* account to ask and those that allowed it; the account it was given;     *)
(* whether upstream answered well; and, a history, all that was in force   *)
(* since the request arrived.                                              *)
NoLocals ==
  [route |-> Nowhere, found |-> NoPool, scan |-> 1, candidates |-> {}, account |-> <<>>,
   healthy |-> FALSE, since |-> Nothing]

Init ==
  /\ clock = 0 /\ generation = 0 /\ layout \in Layouts
  /\ breaker = [a \in Accounts |-> NewBreaker]
  /\ disabled = {} /\ override = NoPool /\ admin = NoPool /\ edits = 0
  /\ at = [r \in Requests |-> "new"] /\ local = [r \in Requests |-> NoLocals]
  /\ active = [k \in Keys |-> 0]
  /\ outcomes = [a \in Accounts |-> <<>>]

Tick ==
  /\ clock < MaxTime
  /\ clock' = clock + 1
  /\ UNCHANGED <<adminVars, breaker, requestVars, outcomes>>

----------------------------------------------------------------------------
(* The administrator. What he changes is in force from then on for every   *)
(* request that has not yet been given its accounts.                       *)

Deciding == {"routing", "checking", "overriding", "pooling"}

Noted(r) ==
  [generations |-> local[r].since.generations \cup InForce'.generations,
   pools |-> local[r].since.pools \cup InForce'.pools,
   enabled |-> local[r].since.enabled \cup InForce'.enabled]

NotedByAll ==
  local' = [r \in Requests |->
              IF at[r] \in Deciding THEN [local[r] EXCEPT !.since = Noted(r)] ELSE local[r]]

(* reloadProviders and Replace: new routes, and new accounts with breakers *)
(* that know of no failure; requests under way keep the old ones.          *)
Reload(new) ==
  /\ generation < MaxReloads
  /\ generation' = generation + 1 /\ layout' = new
  /\ UNCHANGED <<clock, disabled, override, admin, edits, breaker, at, active, outcomes>>
  /\ NotedByAll

Edit ==
  /\ edits < MaxEdits
  /\ edits' = edits + 1
  /\ UNCHANGED <<clock, generation, layout, breaker, at, active, outcomes>>

(* setRoutePool asks the registry first and writes the row afterwards.     *)
ValidatePool(pool) ==
  /\ admin = NoPool
  /\ \E p \in DOMAIN layout : pool \in DOMAIN layout[p]
  /\ admin' = pool
  /\ Edit
  /\ UNCHANGED <<disabled, override, local>>

SetRouteOverride ==
  /\ admin # NoPool
  /\ override' = admin /\ admin' = NoPool
  /\ UNCHANGED <<clock, generation, layout, disabled, edits, breaker, at, active, outcomes>>
  /\ NotedByAll

ClearRouteOverride ==
  /\ admin = NoPool /\ override # NoPool
  /\ override' = NoPool
  /\ Edit /\ UNCHANGED <<disabled, admin>>
  /\ NotedByAll

SetModelEnabled(p, enabled) ==
  /\ (p \in disabled) = enabled
  /\ disabled' = IF enabled THEN disabled \ {p} ELSE disabled \cup {p}
  /\ Edit /\ UNCHANGED <<override, admin>>
  /\ NotedByAll

----------------------------------------------------------------------------
(* The request.                                                            *)

Held == {"picking", "picked", "sent", "copying"}
Upstream == {"sent", "copying"}
Ended == {"done", "rejected", "misrouted"}

(* One step of a handler, which goes on with the variables l; when it ends  *)
(* they are gone, and its slot is given back.                              *)
Step(r, from, to, l) ==
  /\ at[r] = from
  /\ at' = [at EXCEPT ![r] = to]
  /\ local' = [local EXCEPT ![r] = IF to \in Ended THEN NoLocals ELSE l]
  /\ active' = IF from \in Held /\ to \in Ended THEN [active EXCEPT ![KeyOf[r]] = @ - 1]
               ELSE active
  /\ UNCHANGED <<clock, adminVars>>

Same == UNCHANGED <<breaker, outcomes>>

Arrive(r) == Step(r, "new", "routing", [NoLocals EXCEPT !.since = InForce]) /\ Same

(* The body, the key, its quotas, the price or an error of a database may  *)
(* refuse a request at every step before it is sent.                       *)
Refuse(r) ==
  /\ at[r] \in Deciding \cup {"routed", "picking", "picked"}
  /\ at[r] = "picking" => local[r].scan = 1
  /\ Step(r, at[r], "rejected", NoLocals) /\ Same

RoutedTo(r, pool) ==
  [local[r] EXCEPT !.route = [generation |-> generation, pool |-> pool,
                              accounts |-> layout[ProtocolOf[r]][pool]]]

(* Resolve: the route with its default pool, as of this generation.        *)
Resolve(r) ==
  /\ ProtocolOf[r] \in DOMAIN layout
  /\ Step(r, "routing", "checking", RoutedTo(r, DefaultPool[ProtocolOf[r]])) /\ Same

RouteNotFound(r) ==
  /\ ProtocolOf[r] \notin DOMAIN layout
  /\ Step(r, "routing", "rejected", NoLocals) /\ Same

(* A broken variant: a disabled model goes on. *)
CheckModelAlways(r) == Step(r, "checking", "overriding", local[r]) /\ Same

CheckModel(r) ==
  /\ Step(r, "checking", IF ProtocolOf[r] \in disabled THEN "rejected" ELSE "overriding", local[r])
  /\ Same

GetRouteOverride(r) ==
  Step(r, "overriding", "pooling", [local[r] EXCEPT !.found = override]) /\ Same

(* A broken variant: a request waits for a pool that is gone to come back. *)
ApplyPoolOverrideWaiting(r) ==
  /\ local[r].found # NoPool
  /\ ProtocolOf[r] \in DOMAIN layout /\ local[r].found \in DOMAIN layout[ProtocolOf[r]]
  /\ Step(r, "pooling", "routed", RoutedTo(r, local[r].found)) /\ Same

(* ApplyPoolOverride: the accounts of that pool, as of the generation that *)
(* is in force by now.                                                     *)
ApplyPoolOverride(r) ==
  LET p == ProtocolOf[r]
      pool == local[r].found
  IN /\ pool # NoPool
     /\ IF p \in DOMAIN layout /\ pool \in DOMAIN layout[p]
        THEN Step(r, "pooling", "routed", RoutedTo(r, pool))
        ELSE Step(r, "pooling", "misrouted", NoLocals)
     /\ Same

KeepPool(r) ==
  /\ local[r].found = NoPool
  /\ Step(r, "pooling", "routed", local[r]) /\ Same

BeginWithin(r, free) ==
  /\ at[r] = "routed"
  /\ IF free
     THEN /\ at' = [at EXCEPT ![r] = "picking"]
          /\ active' = [active EXCEPT ![KeyOf[r]] = @ + 1]
          /\ UNCHANGED <<clock, adminVars, local>>
     ELSE Step(r, "routed", "rejected", NoLocals)
  /\ Same

(* A broken variant: one more request than the limit is let in. *)
BeginKeyRequestPast(r) == BeginWithin(r, active[KeyOf[r]] <= MaxConcurrentPerKey)

BeginKeyRequest(r) == BeginWithin(r, active[KeyOf[r]] < MaxConcurrentPerKey)

(* The i-th account of the pool the request is routed to.                  *)
AccountAt(r, i) ==
  LET route == local[r].route
  IN <<route.generation, ProtocolOf[r], route.pool, route.accounts[i]>>

Scanned(r) == local[r].scan > Len(local[r].route.accounts)

(* PickAccount asks one breaker after the other, each under its own mutex, *)
(* and then chooses among those that allowed it, at random by weight.      *)
AskAccount(r) ==
  /\ at[r] = "picking" /\ ~Scanned(r)
  /\ LET a == AccountAt(r, local[r].scan)
         allowed == IF Resting(breaker[a], clock) THEN {} ELSE {a}
     IN /\ breaker' = [breaker EXCEPT ![a] = Allow(@, clock)]
        /\ Step(r, "picking", "picking",
                [local[r] EXCEPT !.scan = @ + 1, !.candidates = @ \cup allowed])
  /\ UNCHANGED outcomes

PickAccount(r) ==
  /\ Scanned(r)
  /\ \E a \in local[r].candidates : Step(r, "picking", "picked", [local[r] EXCEPT !.account = a])
  /\ Same

NoHealthyAccount(r) ==
  /\ Scanned(r) /\ local[r].candidates = {}
  /\ Step(r, "picking", "rejected", NoLocals) /\ Same

(* Admit lets the request through, and client.Do sends it.                 *)
Send(r) == Step(r, "picked", "sent", local[r]) /\ Same

Recorded(r, result) ==
  LET a == local[r].account
      past == Append(outcomes[a], [result |-> result, time |-> clock])
  IN /\ breaker' = [breaker EXCEPT ![a] = Record(@, result = "ok", clock)]
     /\ outcomes' = [outcomes EXCEPT ![a] = IF Len(past) > Threshold THEN Tail(past) ELSE past]

(* client.Do fails: no answer from upstream, or the client has gone away,  *)
(* which cancels the upstream request as well.                             *)
UpstreamError(r, result) ==
  /\ result \in {"upstream", "client"}
  /\ Step(r, "sent", "rejected", NoLocals)
  /\ Recorded(r, result)

(* The header of the response. It is healthy unless it is 429 or above     *)
(* 499; speech is judged by its body.                                      *)
Answer(r, ok) ==
  /\ Step(r, "sent", "copying", [local[r] EXCEPT !.healthy = ok])
  /\ IF ProtocolOf[r] \in TTS THEN Same ELSE Recorded(r, IF ok THEN "ok" ELSE "upstream")

Judged(r, retryable) ==
  IF ProtocolOf[r] \in TTS
  THEN Recorded(r, IF local[r].healthy /\ ~retryable THEN "ok" ELSE "upstream")
  ELSE ~retryable /\ Same

(* A broken variant: a way out that keeps the slot. *)
FinishHolding(r, retryable) ==
  /\ at[r] = "copying" /\ at' = [at EXCEPT ![r] = "done"]
  /\ local' = [local EXCEPT ![r] = NoLocals]
  /\ Judged(r, retryable)
  /\ UNCHANGED <<clock, adminVars, active>>

(* The body is copied, and the request counted and logged.                 *)
Finish(r, retryable) == Step(r, "copying", "done", NoLocals) /\ Judged(r, retryable)

Next ==
  \/ Tick \/ SetRouteOverride \/ ClearRouteOverride
  \/ \E new \in Layouts : Reload(new)
  \/ \E pool \in Pools : ValidatePool(pool)
  \/ \E p \in Protocols, b \in BOOLEAN : SetModelEnabled(p, b)
  \/ \E r \in Requests :
       \/ Arrive(r) \/ Refuse(r) \/ Resolve(r) \/ RouteNotFound(r) \/ CheckModel(r)
       \/ GetRouteOverride(r) \/ ApplyPoolOverride(r) \/ KeepPool(r) \/ BeginKeyRequest(r)
       \/ AskAccount(r) \/ PickAccount(r) \/ NoHealthyAccount(r) \/ Send(r)
       \/ \E result \in {"upstream", "client"} : UpstreamError(r, result)
       \/ \E b \in BOOLEAN : Answer(r, b) \/ Finish(r, b)

(* The steps that wait for the client: Resolve and RouteNotFound come      *)
(* after the body has been read, Finish after the answer has been written. *)
(* The server bounds neither (it has a ReadHeaderTimeout only), and the    *)
(* upstream timeout does not reach them: nothing but the client makes them *)
(* happen, and only an attentive one does (or goes away, which fails both).*)
WithClient(r) ==
  Resolve(r) \/ RouteNotFound(r) \/ \E b \in BOOLEAN : Finish(r, b)

(* All others a handler takes by itself; the timeout of the HTTP client    *)
(* ends every wait for upstream.                                           *)
Handler(r) ==
  \/ CheckModel(r) \/ GetRouteOverride(r) \/ ApplyPoolOverride(r) \/ KeepPool(r)
  \/ BeginKeyRequest(r) \/ AskAccount(r) \/ PickAccount(r) \/ NoHealthyAccount(r)
  \/ Send(r)
  \/ \E result \in {"upstream", "client"} : UpstreamError(r, result)
  \/ \E b \in BOOLEAN : Answer(r, b)

Fairness ==
  /\ \A r \in Requests : WF_vars(Handler(r))
  /\ \A r \in Attentive : WF_vars(WithClient(r))

Spec == Init /\ [][Next]_vars /\ Fairness

----------------------------------------------------------------------------
(* Properties.                                                             *)

(* Every variable has its type.                                            *)
TypeOK ==
  /\ clock \in Times /\ generation \in Generations /\ layout \in Layouts
  /\ breaker \in [Accounts -> Breakers(Times)]
  /\ disabled \subseteq Protocols /\ override \in Pools \cup {NoPool}
  /\ admin \in Pools \cup {NoPool} /\ edits \in 0 .. MaxEdits
  /\ at \in [Requests -> Deciding \cup Held \cup Ended \cup {"new", "routed"}]
  /\ \A r \in Requests :
       LET l == local[r]
       IN /\ l.route.generation \in Generations /\ l.route.pool \in Pools \cup {NoPool}
          /\ l.route.accounts \in Seq(Names) /\ l.found \in Pools \cup {NoPool}
          /\ l.scan \in 1 .. Len(l.route.accounts) + 1
          /\ l.candidates \subseteq {AccountAt(r, i) : i \in 1 .. l.scan - 1}
          /\ at[r] \in {"picked"} \cup Upstream => l.account \in l.candidates
          /\ l.healthy \in BOOLEAN
  /\ active \in [Keys -> 0 .. MaxConcurrentPerKey]

(* A slot of a key is taken by exactly the requests between the check of   *)
(* the limit and the end of the handler, whichever way they end; no more   *)
(* than the limit are upstream at once.                                    *)
SlotsExact ==
  \A k \in Keys : active[k] = Cardinality({r \in Requests : KeyOf[r] = k /\ at[r] \in Held})

(* A request goes upstream only if the model was enabled for its protocol  *)
(* at some moment after it arrived, and to the pool and the generation of  *)
(* accounts that were in force at some such moment.                        *)
RoutedAsConfigured ==
  \A r \in Requests : at[r] \in Upstream =>
    LET p == ProtocolOf[r]
        l == local[r]
    IN /\ p \in l.since.enabled
       /\ l.account[1] \in l.since.generations
       /\ \/ l.account[3] \in l.since.pools
          \/ l.account[3] = DefaultPool[p] /\ NoPool \in l.since.pools

(* An account is cut off exactly when its last Threshold outcomes all      *)
(* failed, whichever requests, old or new, reported them and in whichever  *)
(* order; it rests from the last of these failures on, and is tried again  *)
(* only a whole cooldown after it.                                         *)
TripsOnConsecutiveFailures ==
  \A a \in Accounts :
    LET seen == outcomes[a]
        tripped == Len(seen) = Threshold /\ \A i \in 1 .. Threshold : seen[i].result # "ok"
    IN /\ (breaker[a].state # "closed") = tripped
       /\ breaker[a].state = "open" => breaker[a].openedAt = seen[Threshold].time
       /\ breaker[a].state = "half_open" => clock - seen[Threshold].time >= Cooldown

(* Between the body and the answer nothing holds a request up, and the     *)
(* request of an attentive client ends and gives its slot back, whatever   *)
(* the other clients do. A client that neither sends nor reads keeps its   *)
(* request, and its slot, for as long as it likes.                         *)
RequestsEnd ==
  /\ \A r \in Requests : at[r] = "checking" ~> at[r] \in {"copying"} \cup Ended
  /\ \A r \in Attentive : at[r] = "routing" ~> at[r] \in Ended

(* Only the upstream account's failures cut it off.                        *)
OnlyUpstreamFailuresTrip ==
  \A a \in Accounts : breaker[a].state # "closed" =>
    \E i \in DOMAIN outcomes[a] : outcomes[a][i].result = "upstream"
=============================================================================
