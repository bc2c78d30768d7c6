---------------------------- MODULE ProxyProofs ----------------------------
(***************************************************************************)
(* Proofs about Proxy and CircuitBreaker, for any number of requests, keys *)
(* and protocols, every layout of routes, every threshold and cooldown,    *)
(* and every bound on the administrator and the clock.                     *)
(***************************************************************************)
EXTENDS Proxy, TLAPS, FiniteSetTheorems, SequenceTheorems

Stages == Deciding \cup Held \cup Ended \cup {"new", "routed"}
MaybePools == Pools \cup {NoPool}

RoutesTaken == [generation : Generations, pool : MaybePools, accounts : Seq(Names)]
Memories ==
  [generations : SUBSET Generations, pools : SUBSET MaybePools, enabled : SUBSET Protocols]
Locals ==
  [route : RoutesTaken, found : MaybePools, scan : Nat \ {0}, candidates : SUBSET Accounts,
   account : Accounts \cup {<<>>}, healthy : BOOLEAN, since : Memories]

Outcomes == [result : {"ok", "upstream", "client"}, time : Times]

Typed ==
  /\ clock \in Times /\ generation \in Generations /\ layout \in Layouts
  /\ breaker \in [Accounts -> Breakers(Times)]
  /\ disabled \subseteq Protocols /\ override \in MaybePools /\ admin \in MaybePools
  /\ edits \in 0 .. MaxEdits
  /\ at \in [Requests -> Stages] /\ local \in [Requests -> Locals]
  /\ active \in [Keys -> Nat]
  /\ outcomes \in [Accounts -> Seq(Outcomes)]

(* The i-th account of a route of protocol p. *)
AccountOf(p, route, i) == <<route.generation, p, route.pool, route.accounts[i]>>

(* What the handler's variables say at each stage of a request that calls  *)
(* protocol p: which accounts it has asked, and that its route was in      *)
(* force at some moment since it arrived.                                  *)
HandlerOK(p, stage, l) ==
  /\ l.scan <= Len(l.route.accounts) + 1
  /\ \A a \in l.candidates : \E i \in 1 .. l.scan - 1 : a = AccountOf(p, l.route, i)
  /\ stage \in Deciding \cup {"routed"} => l.scan = 1
  /\ stage \in {"checking", "overriding", "pooling", "routed"} \cup Held =>
       l.route.pool \in Pools /\ l.route.generation \in l.since.generations
  /\ stage \in {"overriding", "pooling", "routed"} \cup Held => p \in l.since.enabled
  /\ stage \in {"checking", "overriding", "pooling"} => l.route.pool = DefaultPool[p]
  /\ stage = "pooling" => l.found \in l.since.pools
  /\ stage \in {"routed"} \cup Held =>
       \/ l.route.pool \in l.since.pools
       \/ l.route.pool = DefaultPool[p] /\ NoPool \in l.since.pools
  /\ stage \in {"picked"} \cup Upstream => l.account \in l.candidates

Handlers == \A r \in Requests : HandlerOK(ProtocolOf[r], at[r], local[r])

(* A request remembers what is in force for as long as it decides by it.   *)
Knows(memory) ==
  /\ generation \in memory.generations /\ override \in memory.pools
  /\ Protocols \ disabled \subseteq memory.enabled

Aware == \A r \in Requests : at[r] \in Deciding => Knows(local[r].since)

Holders(k) == {r \in Requests : KeyOf[r] = k /\ at[r] \in Held}

Slots ==
  \A k \in Keys : /\ IsFiniteSet(Holders(k)) /\ active[k] = Cardinality(Holders(k))
                  /\ active[k] <= MaxConcurrentPerKey

(* A breaker and the last outcomes that were recorded on it: a closed one  *)
(* counts the failures since the last success, the others have seen        *)
(* nothing but failures since they opened or long before.                  *)
BreakerOK(b, seen, now) ==
  /\ Len(seen) <= Threshold
  /\ b.state = "closed" =>
       /\ b.failures < Threshold /\ b.failures <= Len(seen)
       /\ \A i \in 1 .. Len(seen) : i > Len(seen) - b.failures => seen[i].result # "ok"
       /\ b.failures = Len(seen) \/ seen[Len(seen) - b.failures].result = "ok"
  /\ b.state # "closed" =>
       /\ b.failures >= Threshold /\ Len(seen) = Threshold
       /\ \A i \in 1 .. Threshold : seen[i].result # "ok"
       /\ b.openedAt = seen[Threshold].time
  /\ b.state = "half_open" => now - b.openedAt >= Cooldown

Records == \A a \in Accounts : BreakerOK(breaker[a], outcomes[a], clock)

IInv == Typed /\ Handlers /\ Aware /\ Slots /\ Records

----------------------------------------------------------------------------
(* The breaker of one account.                                             *)

(* The outcomes that are remembered after one more. *)
Last(seen, outcome) ==
  LET past == Append(seen, outcome)
  IN IF Len(past) > Threshold THEN Tail(past) ELSE past

(* How many of the older ones that costs. *)
Forgotten(seen) == IF Len(seen) = Threshold THEN 1 ELSE 0

LEMMA LastOutcomes ==
  ASSUME NEW seen \in Seq(Outcomes), NEW outcome \in Outcomes, Len(seen) <= Threshold
  PROVE  /\ Last(seen, outcome) \in Seq(Outcomes)
         /\ Len(Last(seen, outcome)) = Len(seen) + 1 - Forgotten(seen)
         /\ Last(seen, outcome)[Len(Last(seen, outcome))] = outcome
         /\ \A i \in 1 .. Len(Last(seen, outcome)) - 1 :
              /\ i + Forgotten(seen) \in 1 .. Len(seen)
              /\ Last(seen, outcome)[i] = seen[i + Forgotten(seen)]
<1> DEFINE past == Append(seen, outcome)
           next == Last(seen, outcome)
<1>1. /\ past \in Seq(Outcomes) /\ Len(past) = Len(seen) + 1 /\ Len(seen) \in Nat
      /\ past # <<>>
      /\ \A i \in 1 .. Len(seen) : past[i] = seen[i]
      /\ past[Len(seen) + 1] = outcome
  BY AppendProperties, LenProperties
<1>2. Tail(past) \in Seq(Outcomes) /\ Len(Tail(past)) = Len(past) - 1
      /\ \A i \in 1 .. Len(Tail(past)) : Tail(past)[i] = past[i + 1]
  BY <1>1, HeadTailProperties
<1>3. next = IF Len(past) > Threshold THEN Tail(past) ELSE past
  BY DEF Last
<1> HIDE DEF past, next
<1>4. Threshold \in Nat \ {0}
  BY CircuitAssumption
<1>5. CASE Len(seen) = Threshold
  <2>1. next = Tail(past) /\ Len(next) = Len(seen)
    BY <1>1, <1>2, <1>3, <1>4, <1>5
  <2>2. next[Len(next)] = outcome
    BY <1>1, <1>2, <1>4, <1>5, <2>1
  <2>3. \A i \in 1 .. Len(next) - 1 : i + 1 \in 1 .. Len(seen) /\ next[i] = seen[i + 1]
    BY <1>1, <1>2, <1>4, <1>5, <2>1
  <2>4. Forgotten(seen) = 1 /\ next \in Seq(Outcomes) /\ Len(next) = Len(seen) + 1 - 1
    BY <1>1, <1>2, <1>5, <2>1 DEF Forgotten
  <2> QED
    BY <2>2, <2>3, <2>4 DEF next
<1>6. CASE Len(seen) # Threshold
  <2>1. next = past
    BY <1>1, <1>3, <1>4, <1>6
  <2>2. \A i \in 1 .. Len(next) - 1 : i + 0 \in 1 .. Len(seen) /\ next[i] = seen[i + 0]
    BY <1>1, <2>1
  <2> QED
    BY <1>1, <1>6, <2>1, <2>2 DEF next, Forgotten
<1> QED
  BY <1>5, <1>6

(* Record keeps the agreement of the breaker with the outcomes, whatever   *)
(* state it is in: a late failure on an open breaker included.             *)
LEMMA RecordKeeps ==
  ASSUME NEW b \in Breakers(Times), NEW seen \in Seq(Outcomes), NEW now \in Times,
         NEW result \in {"ok", "upstream", "client"}, BreakerOK(b, seen, now)
  PROVE  LET next == Last(seen, [result |-> result, time |-> now])
             new == Record(b, result = "ok", now)
         IN new \in Breakers(Times) /\ next \in Seq(Outcomes) /\ BreakerOK(new, next, now)
<1> DEFINE outcome == [result |-> result, time |-> now]
           next == Last(seen, outcome)
           new == Record(b, result = "ok", now)
           forgotten == Forgotten(seen)
<1>1. outcome \in Outcomes /\ outcome.result = result /\ outcome.time = now
  BY DEF Outcomes
<1>2. Threshold \in Nat \ {0} /\ Len(seen) \in Nat /\ Len(seen) <= Threshold
  BY CircuitAssumption, LenProperties DEF BreakerOK
<1>3. /\ next \in Seq(Outcomes) /\ Len(next) = Len(seen) + 1 - forgotten
      /\ next[Len(next)] = outcome
      /\ \A i \in 1 .. Len(next) - 1 : i + forgotten \in 1 .. Len(seen)
                                       /\ next[i] = seen[i + forgotten]
  BY <1>1, <1>2, LastOutcomes
<1> HIDE DEF outcome, next, forgotten
<1>a. /\ forgotten \in {0, 1} /\ (forgotten = 1 <=> Len(seen) = Threshold)
      /\ Len(next) \in 1 .. Threshold /\ Len(next) = Len(seen) + 1 - forgotten
  BY <1>2, <1>3 DEF forgotten, Forgotten
<1>4. /\ b = [state |-> b.state, failures |-> b.failures, openedAt |-> b.openedAt]
      /\ b.state \in {"closed", "open", "half_open"} /\ b.failures \in Nat
      /\ b.openedAt \in Times \cup {Never}
  BY DEF Breakers
<1>5. CASE result = "ok"
  <2>1. new = NewBreaker
    BY <1>5 DEF Record
  <2>2. NewBreaker \in Breakers(Times) /\ NewBreaker.state = "closed" /\ NewBreaker.failures = 0
    BY DEF NewBreaker, Breakers
  <2>3. Len(next) \in Nat /\ Len(next) <= Threshold /\ Len(next) - 0 = Len(next)
        /\ next[Len(next)].result = "ok"
    BY <1>1, <1>2, <1>3, <1>5, <1>a
  <2>4. BreakerOK(NewBreaker, next, now)
    BY <1>2, <2>2, <2>3 DEF BreakerOK
  <2> HIDE DEF new
  <2> QED
    BY <1>3, <2>1, <2>2, <2>4 DEF next, outcome, new
<1>6. CASE result # "ok" /\ (b.state = "half_open" \/ b.failures + 1 >= Threshold)
  <2>1. new = [state |-> "open", failures |-> b.failures + 1, openedAt |-> now]
    BY <1>4, <1>6 DEF Record
  <2>2. new \in Breakers(Times) /\ new.state = "open" /\ new.failures = b.failures + 1
        /\ new.openedAt = now
    BY <1>4, <2>1 DEF Breakers
  <2> HIDE DEF new
  <2>3. new.failures >= Threshold
    BY <1>2, <1>4, <1>6, <2>2 DEF BreakerOK
  <2>4. Len(next) = Threshold
    BY <1>2, <1>4, <1>6, <1>a DEF BreakerOK
  <2>5. \A i \in 1 .. Threshold - 1 : next[i].result # "ok"
    <3> SUFFICES ASSUME NEW i \in 1 .. Threshold - 1 PROVE next[i].result # "ok"
      OBVIOUS
    <3>1. next[i] = seen[i + forgotten] /\ i + forgotten \in 1 .. Len(seen)
      BY <1>2, <1>3, <2>4
    <3>2. CASE b.state = "closed"
      BY <1>2, <1>4, <1>6, <1>a, <2>4, <3>1, <3>2 DEF BreakerOK
    <3>3. CASE b.state # "closed"
      BY <1>2, <1>4, <1>a, <2>4, <3>1, <3>3 DEF BreakerOK
    <3> QED
      BY <3>2, <3>3
  <2>6. \A i \in 1 .. Threshold : next[i].result # "ok"
    BY <1>1, <1>2, <1>3, <1>6, <2>4, <2>5
  <2>7. BreakerOK(new, next, now)
    BY <1>1, <1>2, <1>3, <2>2, <2>3, <2>4, <2>6 DEF BreakerOK
  <2> QED
    BY <1>3, <2>2, <2>7 DEF next, outcome, new
<1>7. CASE result # "ok" /\ b.state # "half_open" /\ b.failures + 1 < Threshold
  <2>1. new = [state |-> b.state, failures |-> b.failures + 1, openedAt |-> b.openedAt]
    BY <1>2, <1>4, <1>7 DEF Record
  <2>2. b.state = "closed"
    BY <1>2, <1>4, <1>7 DEF BreakerOK
  <2>3. new \in Breakers(Times) /\ new.state = "closed" /\ new.failures = b.failures + 1
    BY <1>4, <2>1, <2>2 DEF Breakers
  <2> HIDE DEF new
  <2>4. /\ b.failures <= Len(seen)
        /\ \A i \in 1 .. Len(seen) : i > Len(seen) - b.failures => seen[i].result # "ok"
        /\ b.failures = Len(seen) \/ seen[Len(seen) - b.failures].result = "ok"
    BY <2>2 DEF BreakerOK
  <2>5. \A i \in 1 .. Len(next) : i > Len(next) - new.failures => next[i].result # "ok"
    <3> SUFFICES ASSUME NEW i \in 1 .. Len(next), i > Len(next) - new.failures
                 PROVE  next[i].result # "ok"
      OBVIOUS
    <3>1. CASE i = Len(next)
      BY <1>1, <1>3, <1>7, <3>1
    <3>2. CASE i \in 1 .. Len(next) - 1
      <4>1. i + forgotten \in 1 .. Len(seen) /\ next[i] = seen[i + forgotten]
        BY <1>3, <3>2
      <4>2. i + forgotten > Len(seen) - b.failures
        BY <1>2, <1>3, <1>4, <1>a, <2>3
      <4> QED
        BY <2>4, <4>1, <4>2
    <3> QED
      BY <1>2, <1>3, <1>a, <3>1, <3>2
  <2>6. new.failures <= Len(next) /\ Len(next) <= Threshold /\ new.failures < Threshold
    BY <1>2, <1>4, <1>7, <1>a, <2>3, <2>4
  <2>7. new.failures = Len(next) \/ next[Len(next) - new.failures].result = "ok"
    <3> SUFFICES ASSUME new.failures # Len(next)
                 PROVE  next[Len(next) - new.failures].result = "ok"
      OBVIOUS
    <3> DEFINE i == Len(next) - new.failures
    <3>1. i \in 1 .. Len(next) - 1
      BY <1>2, <1>3, <1>4, <1>a, <2>3, <2>6
    <3>2. next[i] = seen[i + forgotten] /\ i + forgotten = Len(seen) - b.failures
      BY <1>2, <1>3, <1>4, <1>a, <2>3, <3>1
    <3>3. b.failures # Len(seen)
      BY <1>2, <1>3, <1>4, <1>7, <1>a, <2>3 DEF forgotten, Forgotten
    <3> QED
      BY <2>4, <3>2, <3>3
  <2>8. BreakerOK(new, next, now)
    BY <2>3, <2>5, <2>6, <2>7 DEF BreakerOK
  <2> QED
    BY <1>3, <2>3, <2>8 DEF next, outcome, new
<1> QED
  BY <1>2, <1>4, <1>5, <1>6, <1>7

(* Allow only ends a rest that has lasted a whole cooldown. *)
LEMMA AllowKeeps ==
  ASSUME NEW b \in Breakers(Times), NEW seen \in Seq(Outcomes), NEW now \in Times,
         BreakerOK(b, seen, now)
  PROVE  Allow(b, now) \in Breakers(Times) /\ BreakerOK(Allow(b, now), seen, now)
<1>1. /\ b = [state |-> b.state, failures |-> b.failures, openedAt |-> b.openedAt]
      /\ b.state \in {"closed", "open", "half_open"} /\ b.failures \in Nat
      /\ b.openedAt \in Times \cup {Never}
  BY DEF Breakers
<1>2. CASE b.state = "open" /\ ~Resting(b, now)
  <2>1. Allow(b, now) = [state |-> "half_open", failures |-> b.failures, openedAt |-> b.openedAt]
    BY <1>1, <1>2 DEF Allow
  <2>2. now - b.openedAt >= Cooldown
    BY <1>1, <1>2, CircuitAssumption, ProxyAssumption DEF Resting, Times, Never
  <2> QED
    BY <1>1, <1>2, <2>1, <2>2 DEF Breakers, BreakerOK
<1>3. CASE ~(b.state = "open" /\ ~Resting(b, now))
  BY <1>3 DEF Allow
<1> QED
  BY <1>2, <1>3

(* Time alone keeps the agreement. *)
LEMMA TimeKeeps ==
  ASSUME NEW b \in Breakers(Times), NEW seen \in Seq(Outcomes), NEW now \in Times,
         BreakerOK(b, seen, now)
  PROVE  BreakerOK(b, seen, now + 1)
<1>1. b.openedAt \in Int /\ now \in Int /\ Cooldown \in Int
  BY CircuitAssumption, ProxyAssumption DEF Breakers, Times, Never
<1> QED
  BY <1>1 DEF BreakerOK

----------------------------------------------------------------------------
(* The handlers and the slots of the keys.                                 *)

LEMMA NoLocalsOK ==
  /\ NoLocals \in Locals
  /\ \A p \in Protocols, stage \in Ended \cup {"new"} : HandlerOK(p, stage, NoLocals)
<1>1. <<>> \in Seq(Names) /\ Len(<<>>) = 0
  BY EmptySeq
<1>2. Nowhere \in RoutesTaken /\ Nothing \in Memories
  BY <1>1, ProxyAssumption DEF Nowhere, RoutesTaken, MaybePools, Generations, Nothing, Memories
<1>3. NoLocals \in Locals
  BY <1>2 DEF NoLocals, Locals, MaybePools
<1>4. /\ NoLocals.scan = 1 /\ NoLocals.candidates = {} /\ NoLocals.route.accounts = <<>>
  BY DEF NoLocals, Nowhere
<1>5. ASSUME NEW p \in Protocols, NEW stage \in Ended \cup {"new"}
      PROVE  HandlerOK(p, stage, NoLocals)
  BY <1>1, <1>4 DEF HandlerOK, Ended, Deciding, Held, Upstream
<1> QED
  BY <1>3, <1>5

(* What is in force is a memory of its own. *)
LEMMA InForceTyped ==
  ASSUME Typed
  PROVE  /\ InForce \in Memories /\ Knows(InForce)
         /\ InForce.generations = {generation} /\ InForce.pools = {override}
         /\ InForce.enabled = Protocols \ disabled
BY DEF Typed, InForce, Memories, Knows

(* Requests that hold a slot, when one of them changes its stage. *)
LEMMA HoldersAfter ==
  ASSUME Typed, Slots, NEW r \in Requests, NEW to \in Stages, at' = [at EXCEPT ![r] = to],
         \/ /\ at[r] \in Held <=> to \in Held
            /\ active' = active
         \/ /\ at[r] \in Held /\ to \notin Held
            /\ active' = [active EXCEPT ![KeyOf[r]] = @ - 1]
         \/ /\ at[r] \notin Held /\ to \in Held
            /\ active[KeyOf[r]] < MaxConcurrentPerKey
            /\ active' = [active EXCEPT ![KeyOf[r]] = @ + 1]
  PROVE  Slots' /\ active' \in [Keys -> Nat]
<1>1. /\ at \in [Requests -> Stages] /\ active \in [Keys -> Nat]
      /\ KeyOf \in [Requests -> Keys] /\ MaxConcurrentPerKey \in Nat \ {0}
  BY ProxyAssumption DEF Typed
<1>2. /\ at'[r] = to /\ \A s \in Requests \ {r} : at'[s] = at[s]
      /\ KeyOf[r] \in Keys
  BY <1>1
<1> DEFINE key == KeyOf[r]
<1>3. \A k \in Keys : /\ IsFiniteSet(Holders(k)) /\ active[k] = Cardinality(Holders(k))
                      /\ active[k] <= MaxConcurrentPerKey
  BY DEF Slots
<1>4. \A k \in Keys \ {key} : Holders(k)' = Holders(k)
  BY <1>2 DEF Holders
<1>5. r \in Holders(key) <=> at[r] \in Held
  BY DEF Holders
<1>6. CASE (at[r] \in Held <=> to \in Held) /\ active' = active
  <2>1. Holders(key)' = Holders(key)
    BY <1>2, <1>6 DEF Holders
  <2>2. ASSUME NEW k \in Keys PROVE Holders(k)' = Holders(k)
    BY <1>4, <2>1
  <2>3. ASSUME NEW k \in Keys
        PROVE  /\ IsFiniteSet(Holders(k)') /\ active'[k] = Cardinality(Holders(k)')
               /\ active'[k] <= MaxConcurrentPerKey
    BY <1>3, <1>6, <2>2
  <2> QED
    BY <1>1, <1>6, <2>3 DEF Slots
<1>7. CASE /\ at[r] \in Held /\ to \notin Held
           /\ active' = [active EXCEPT ![KeyOf[r]] = @ - 1]
  <2>1. Holders(key)' = Holders(key) \ {r}
    BY <1>2, <1>7 DEF Holders
  <2>2. IsFiniteSet(Holders(key) \ {r}) /\ Cardinality(Holders(key) \ {r}) = Cardinality(Holders(key)) - 1
    BY <1>2, <1>3, <1>5, <1>7, FS_RemoveElement
  <2>3. Cardinality(Holders(key) \ {r}) \in Nat
    BY <2>2, FS_CardinalityType
  <2>4. active'[key] = active[key] - 1 /\ \A k \in Keys \ {key} : active'[k] = active[k]
    BY <1>1, <1>2, <1>7
  <2>5. active'[key] \in Nat /\ active'[key] = Cardinality(Holders(key)')
        /\ active'[key] <= MaxConcurrentPerKey /\ IsFiniteSet(Holders(key)')
    BY <1>1, <1>2, <1>3, <2>1, <2>2, <2>3, <2>4
  <2>6. ASSUME NEW k \in Keys
        PROVE  /\ IsFiniteSet(Holders(k)') /\ active'[k] = Cardinality(Holders(k)')
               /\ active'[k] <= MaxConcurrentPerKey
    <3>1. CASE k = key
      BY <2>5, <3>1
    <3>2. CASE k # key
      BY <1>3, <1>4, <2>4, <3>2
    <3> QED
      BY <3>1, <3>2
  <2>7. active' \in [Keys -> Nat]
    BY <1>1, <1>2, <1>7, <2>4, <2>5
  <2> QED
    BY <2>6, <2>7 DEF Slots
<1>8. CASE /\ at[r] \notin Held /\ to \in Held
           /\ active[KeyOf[r]] < MaxConcurrentPerKey
           /\ active' = [active EXCEPT ![KeyOf[r]] = @ + 1]
  <2>1. Holders(key)' = Holders(key) \cup {r}
    BY <1>2, <1>8 DEF Holders
  <2>2. /\ IsFiniteSet(Holders(key) \cup {r})
        /\ Cardinality(Holders(key) \cup {r}) = Cardinality(Holders(key)) + 1
    BY <1>2, <1>3, <1>5, <1>8, FS_AddElement
  <2>3. active'[key] = active[key] + 1 /\ \A k \in Keys \ {key} : active'[k] = active[k]
    BY <1>1, <1>2, <1>8
  <2>4. active'[key] \in Nat /\ active'[key] = Cardinality(Holders(key)')
        /\ active'[key] <= MaxConcurrentPerKey /\ IsFiniteSet(Holders(key)')
    BY <1>1, <1>2, <1>3, <1>8, <2>1, <2>2, <2>3
  <2>5. ASSUME NEW k \in Keys
        PROVE  /\ IsFiniteSet(Holders(k)') /\ active'[k] = Cardinality(Holders(k)')
               /\ active'[k] <= MaxConcurrentPerKey
    <3>1. CASE k = key
      BY <2>4, <3>1
    <3>2. CASE k # key
      BY <1>3, <1>4, <2>3, <3>2
    <3> QED
      BY <3>1, <3>2
  <2>6. active' \in [Keys -> Nat]
    BY <1>1, <1>2, <1>8, <2>3, <2>4
  <2> QED
    BY <2>5, <2>6 DEF Slots
<1> QED
  BY <1>6, <1>7, <1>8

(* The part of the invariant that a step of a handler can disturb. *)
Requested ==
  /\ at \in [Requests -> Stages] /\ local \in [Requests -> Locals] /\ active \in [Keys -> Nat]
  /\ Handlers /\ Aware /\ Slots

LEMMA StepKeeps ==
  ASSUME Typed, Handlers, Aware, Slots,
         NEW r \in Requests, NEW from, NEW to \in Stages, NEW l \in Locals,
         Step(r, from, to, l),
         to \in Held => from \in Held, from \in Held => to \in Held \cup Ended,
         to \notin Ended => HandlerOK(ProtocolOf[r], to, l),
         to \in Deciding => Knows(l.since)
  PROVE  Requested'
<1> DEFINE kept == IF to \in Ended THEN NoLocals ELSE l
<1>1. /\ at \in [Requests -> Stages] /\ local \in [Requests -> Locals]
      /\ ProtocolOf \in [Requests -> Protocols]
  BY ProxyAssumption DEF Typed
<1>2. /\ at[r] = from /\ at' = [at EXCEPT ![r] = to] /\ local' = [local EXCEPT ![r] = kept]
      /\ active' = (IF from \in Held /\ to \in Ended THEN [active EXCEPT ![KeyOf[r]] = @ - 1]
                    ELSE active)
      /\ generation' = generation /\ override' = override /\ disabled' = disabled
  BY DEF Step, adminVars
<1>3. kept \in Locals
  BY NoLocalsOK
<1>4. HandlerOK(ProtocolOf[r], to, kept)
  BY <1>1, NoLocalsOK
<1>5. to \in Deciding => Knows(kept.since)
  BY DEF Deciding, Ended
<1> HIDE DEF kept
<1>6. at' \in [Requests -> Stages] /\ local' \in [Requests -> Locals]
  BY <1>1, <1>2, <1>3
<1>7. /\ at'[r] = to /\ local'[r] = kept
      /\ \A s \in Requests \ {r} : at'[s] = at[s] /\ local'[s] = local[s]
  BY <1>1, <1>2
<1>8. Handlers'
  <2>1. ASSUME NEW s \in Requests PROVE HandlerOK(ProtocolOf[s], at'[s], local'[s])
    <3>1. CASE s = r
      BY <1>4, <1>7, <3>1
    <3>2. CASE s # r
      BY <1>7, <3>2 DEF Handlers
    <3> QED
      BY <3>1, <3>2
  <2> QED
    BY <2>1 DEF Handlers, HandlerOK, AccountOf
<1>9. Aware'
  <2>1. ASSUME NEW s \in Requests, at'[s] \in Deciding PROVE Knows(local'[s].since)
    <3>1. CASE s = r
      BY <1>5, <1>7, <2>1, <3>1
    <3>2. CASE s # r
      BY <1>7, <2>1, <3>2 DEF Aware
    <3> QED
      BY <3>1, <3>2
  <2> QED
    BY <1>2, <2>1 DEF Aware, Knows
<1>10. Slots' /\ active' \in [Keys -> Nat]
  <2>1. CASE from \in Held /\ to \in Ended
    BY <1>2, <2>1, HoldersAfter DEF Held, Ended
  <2>2. CASE ~(from \in Held /\ to \in Ended)
    BY <1>2, <2>2, HoldersAfter
  <2> QED
    BY <2>1, <2>2
<1> QED
  BY <1>6, <1>8, <1>9, <1>10 DEF Requested

(* The administrator's steps: every request that still decides remembers   *)
(* what has come into force.                                               *)
LEMMA NotedKeeps ==
  ASSUME Typed, Handlers, Aware, Slots, NotedByAll, at' = at, active' = active,
         generation' \in Generations, override' \in MaybePools, disabled' \subseteq Protocols
  PROVE  Requested'
<1>1. /\ at \in [Requests -> Stages] /\ local \in [Requests -> Locals]
      /\ active \in [Keys -> Nat] /\ ProtocolOf \in [Requests -> Protocols]
  BY ProxyAssumption DEF Typed
<1>2. /\ InForce'.generations = {generation'} /\ InForce'.pools = {override'}
      /\ InForce'.enabled = Protocols \ disabled'
  BY DEF InForce
<1>3. ASSUME NEW s \in Requests
      PROVE  /\ local'[s] \in Locals /\ HandlerOK(ProtocolOf[s], at'[s], local'[s])
             /\ at'[s] \in Deciding =>
                  /\ generation' \in local'[s].since.generations
                  /\ override' \in local'[s].since.pools
                  /\ Protocols \ disabled' \subseteq local'[s].since.enabled
  <2> DEFINE l == local[s]
             p == ProtocolOf[s]
  <2>1. l \in Locals /\ l.since \in Memories /\ HandlerOK(p, at[s], l) /\ at[s] \in Stages
    BY <1>1 DEF Handlers, Locals
  <2>2. CASE at[s] \in Deciding
    <3> DEFINE memory == Noted(s)
    <3>1. local'[s] = [l EXCEPT !.since = memory]
      BY <2>2 DEF NotedByAll
    <3>2. /\ memory.generations = l.since.generations \cup {generation'}
          /\ memory.pools = l.since.pools \cup {override'}
          /\ memory.enabled = l.since.enabled \cup (Protocols \ disabled')
      BY <1>2 DEF Noted
    <3>3. memory \in Memories
      BY <1>2, <2>1 DEF Noted, Memories
    <3> HIDE DEF memory
    <3>4. /\ local'[s].route = l.route /\ local'[s].found = l.found /\ local'[s].scan = l.scan
          /\ local'[s].candidates = l.candidates /\ local'[s].account = l.account
          /\ local'[s].since = memory
      BY <2>1, <3>1 DEF Locals
    <3>5. local'[s] \in Locals
      BY <2>1, <3>1, <3>3 DEF Locals
    <3>6. HandlerOK(p, at[s], local'[s])
      BY <2>1, <2>2, <3>2, <3>4 DEF HandlerOK, Deciding, Held, Upstream
    <3> QED
      BY <3>2, <3>4, <3>5, <3>6
  <2>3. CASE at[s] \notin Deciding
    <3>1. local'[s] = l
      BY <2>3 DEF NotedByAll
    <3> QED
      BY <2>1, <2>3, <3>1
  <2> QED
    BY <2>2, <2>3
<1>4. local' \in [Requests -> Locals]
  BY <1>3 DEF NotedByAll
<1>5. Handlers'
  BY <1>3 DEF Handlers, HandlerOK, AccountOf
<1>6. Aware'
  BY <1>3 DEF Aware, Knows
<1>7. Slots'
  BY DEF Slots, Holders
<1> QED
  BY <1>1, <1>4, <1>5, <1>6, <1>7 DEF Requested

(* The parts of the invariant about the administrator and the breakers. *)
Configured ==
  /\ clock \in Times /\ generation \in Generations /\ layout \in Layouts
  /\ disabled \subseteq Protocols /\ override \in MaybePools /\ admin \in MaybePools
  /\ edits \in 0 .. MaxEdits

Recording ==
  /\ breaker \in [Accounts -> Breakers(Times)] /\ outcomes \in [Accounts -> Seq(Outcomes)]
  /\ Records

LEMMA Parts == IInv <=> Configured /\ Requested /\ Recording
BY DEF IInv, Typed, Configured, Requested, Recording

LEMMA SameRecording ==
  ASSUME Recording, Same, clock' = clock
  PROVE  Recording'
BY DEF Recording, Records, Same, BreakerOK

(* An outcome is recorded on the account a request was given. *)
LEMMA RecordedKeeps ==
  ASSUME IInv, NEW r \in Requests, NEW result \in {"ok", "upstream", "client"},
         local[r].account \in Accounts, Recorded(r, result), clock' = clock
  PROVE  Recording'
<1> DEFINE a == local[r].account
           outcome == [result |-> result, time |-> clock]
           next == Last(outcomes[a], outcome)
           new == Record(breaker[a], result = "ok", clock)
<1>1. /\ breaker \in [Accounts -> Breakers(Times)] /\ outcomes \in [Accounts -> Seq(Outcomes)]
      /\ clock \in Times /\ \A b \in Accounts : BreakerOK(breaker[b], outcomes[b], clock)
  BY DEF IInv, Typed, Records
<1>2. breaker' = [breaker EXCEPT ![a] = new] /\ outcomes' = [outcomes EXCEPT ![a] = next]
  BY DEF Recorded, Last
<1>3. new \in Breakers(Times) /\ next \in Seq(Outcomes) /\ BreakerOK(new, next, clock)
  BY <1>1, RecordKeeps
<1> HIDE DEF a, outcome, next, new
<1>4. a \in Accounts
  BY DEF a
<1>5. breaker' \in [Accounts -> Breakers(Times)] /\ outcomes' \in [Accounts -> Seq(Outcomes)]
  BY <1>1, <1>2, <1>3, <1>4
<1>6. ASSUME NEW b \in Accounts PROVE BreakerOK(breaker'[b], outcomes'[b], clock')
  <2>1. CASE b = a
    BY <1>1, <1>2, <1>3, <2>1
  <2>2. CASE b # a
    BY <1>1, <1>2, <2>2
  <2> QED
    BY <2>1, <2>2
<1> QED
  BY <1>5, <1>6 DEF Recording, Records, BreakerOK

(* What the invariant says of one request. *)
LEMMA OfRequest ==
  ASSUME IInv, NEW r \in Requests
  PROVE  /\ local[r] \in Locals /\ at[r] \in Stages /\ ProtocolOf[r] \in Protocols
         /\ local[r].route \in RoutesTaken /\ local[r].since \in Memories
         /\ local[r].candidates \subseteq Accounts /\ local[r].scan \in Nat \ {0}
         /\ HandlerOK(ProtocolOf[r], at[r], local[r])
         /\ at[r] \in Deciding => Knows(local[r].since)
         /\ Typed /\ Handlers /\ Aware /\ Slots
<1>1. IInv /\ local \in [Requests -> Locals] /\ at \in [Requests -> Stages]
      /\ ProtocolOf \in [Requests -> Protocols]
  BY ProxyAssumption DEF IInv, Typed
<1>2. local[r] \in Locals
  BY <1>1
<1>3. /\ local[r].route \in RoutesTaken /\ local[r].since \in Memories
      /\ local[r].candidates \subseteq Accounts /\ local[r].scan \in Nat \ {0}
  BY <1>2 DEF Locals
<1> QED
  BY <1>1, <1>2, <1>3 DEF IInv, Handlers, Aware

(* A step of a handler that leaves the breakers alone or keeps them right. *)
LEMMA HandlerStep ==
  ASSUME IInv, NEW r \in Requests, NEW from, NEW to \in Stages, NEW l \in Locals,
         Step(r, from, to, l), Same \/ Recording',
         to \in Held => from \in Held, from \in Held => to \in Held \cup Ended,
         to \notin Ended => HandlerOK(ProtocolOf[r], to, l),
         to \in Deciding => Knows(l.since)
  PROVE  IInv'
<1>1. Configured /\ Recording
  BY Parts
<1>2. Configured' /\ clock' = clock
  BY <1>1 DEF Step, adminVars, Configured
<1>3. Recording'
  BY <1>1, <1>2, SameRecording
<1>4. Requested'
  BY StepKeeps, OfRequest
<1> QED
  BY <1>2, <1>3, <1>4 DEF IInv, Typed, Configured, Requested, Recording

(* A handler may end at any stage. *)
LEMMA EndingStep ==
  ASSUME IInv, NEW r \in Requests, NEW from, NEW to \in Ended, NEW l,
         Step(r, from, to, l), Same \/ Recording'
  PROVE  IInv'
<1>1. Step(r, from, to, NoLocals)
  BY DEF Step
<1>2. to \in Stages /\ to \notin Held /\ to \notin Deciding
  BY DEF Stages, Ended, Held, Deciding
<1> QED
  BY <1>1, <1>2, NoLocalsOK, HandlerStep

----------------------------------------------------------------------------
(* The steps.                                                              *)

LEMMA InitOK == Init => IInv
<1> SUFFICES ASSUME Init PROVE IInv
  OBVIOUS
<1>1. Configured
  BY ProxyAssumption
  DEF Init, Configured, Times, Generations, MaybePools
<1>2. Threshold \in Nat \ {0} /\ NewBreaker \in Breakers(Times) /\ NewBreaker.state = "closed"
      /\ NewBreaker.failures = 0
  BY CircuitAssumption DEF NewBreaker, Breakers
<1>3. <<>> \in Seq(Outcomes) /\ Len(<<>>) = 0
  BY EmptySeq
<1>4. BreakerOK(NewBreaker, <<>>, clock)
  BY <1>2, <1>3 DEF BreakerOK
<1>5. Recording
  BY <1>2, <1>3, <1>4 DEF Init, Recording, Records
<1>6. at \in [Requests -> Stages] /\ local \in [Requests -> Locals] /\ active \in [Keys -> Nat]
  BY NoLocalsOK DEF Init, Stages
<1>7. Handlers
  BY NoLocalsOK, ProxyAssumption DEF Init, Handlers
<1>8. Aware
  BY DEF Init, Aware, Deciding
<1>9. \A k \in Keys : Holders(k) = {}
  BY DEF Init, Holders, Held
<1>10. Slots
  <2>1. IsFiniteSet({}) /\ Cardinality({}) = 0 /\ MaxConcurrentPerKey \in Nat
    BY FS_EmptySet, ProxyAssumption
  <2>2. \A k \in Keys : active[k] = 0
    BY DEF Init
  <2> QED
    BY <1>9, <2>1, <2>2 DEF Slots
<1> QED
  BY <1>1, <1>5, <1>6, <1>7, <1>8, <1>10, Parts DEF Requested

(* What the handlers are at when neither they nor the administrator move. *)
LEMMA SameRequested ==
  ASSUME Requested, at' = at, local' = local, active' = active,
         generation' = generation, override' = override, disabled' = disabled
  PROVE  Requested'
<1>1. Handlers'
  BY DEF Requested, Handlers, HandlerOK, AccountOf
<1>2. Aware'
  BY DEF Requested, Aware, Knows
<1>3. \A k \in Keys : Holders(k)' = Holders(k)
  BY DEF Holders
<1>4. Slots'
  BY <1>3 DEF Requested, Slots
<1> QED
  BY <1>1, <1>2, <1>4 DEF Requested

LEMMA TickStep == ASSUME IInv, Tick PROVE IInv'
<1>1. Configured /\ Recording /\ Requested /\ clock' = clock + 1 /\ clock' \in Times
  BY Parts, ProxyAssumption DEF Tick, Configured, Times
<1>2. Configured'
  BY <1>1 DEF Tick, adminVars, Configured
<1>3. Requested'
  BY <1>1, SameRequested DEF Tick, adminVars, requestVars
<1>4. breaker' = breaker /\ outcomes' = outcomes
  BY DEF Tick
<1>5. ASSUME NEW a \in Accounts PROVE BreakerOK(breaker[a], outcomes[a], clock')
  BY <1>1, TimeKeeps DEF Recording, Records, Configured
<1>6. Recording'
  BY <1>1, <1>4, <1>5 DEF Recording, Records, BreakerOK
<1> QED
  BY <1>2, <1>3, <1>6 DEF IInv, Typed, Configured, Requested, Recording

(* The administrator's steps. *)
LEMMA AdminStep ==
  ASSUME IInv, Configured', clock' = clock, Same, at' = at, active' = active,
         NotedByAll \/ (local' = local /\ generation' = generation /\ override' = override
                        /\ disabled' = disabled)
  PROVE  IInv'
<1>1. Configured /\ Recording /\ Requested /\ Typed /\ Handlers /\ Aware /\ Slots
  BY Parts DEF IInv
<1>2. Recording'
  BY <1>1, SameRecording
<1>3. CASE NotedByAll
  <2>1. Requested'
    BY <1>1, <1>3, NotedKeeps DEF Configured
  <2> QED
    BY <1>2, <2>1 DEF IInv, Typed, Configured, Requested, Recording
<1>4. CASE local' = local /\ generation' = generation /\ override' = override
           /\ disabled' = disabled
  <2>1. Requested'
    BY <1>1, <1>4, SameRequested
  <2> QED
    BY <1>2, <2>1 DEF IInv, Typed, Configured, Requested, Recording
<1> QED
  BY <1>3, <1>4

LEMMA ReloadStep == ASSUME IInv, NEW new \in Layouts, Reload(new) PROVE IInv'
<1>1. Configured /\ generation' \in Generations
  BY Parts, ProxyAssumption DEF Reload, Configured, Generations
<1>2. Configured'
  BY <1>1 DEF Reload, Configured
<1> QED
  BY <1>2, AdminStep DEF Reload, Same

LEMMA EditKeeps == ASSUME IInv, Edit PROVE Configured /\ edits' \in 0 .. MaxEdits
BY Parts, ProxyAssumption DEF Edit, Configured

LEMMA ValidatePoolStep == ASSUME IInv, NEW pool \in Pools, ValidatePool(pool) PROVE IInv'
<1>1. Configured'
  BY EditKeeps DEF ValidatePool, Edit, Configured, MaybePools
<1> QED
  BY <1>1, AdminStep DEF ValidatePool, Edit, Same

LEMMA SetRouteOverrideStep == ASSUME IInv, SetRouteOverride PROVE IInv'
<1>1. Configured'
  BY Parts DEF SetRouteOverride, Configured, MaybePools
<1> QED
  BY <1>1, AdminStep DEF SetRouteOverride, Same

LEMMA ClearRouteOverrideStep == ASSUME IInv, ClearRouteOverride PROVE IInv'
<1>1. Configured'
  BY EditKeeps DEF ClearRouteOverride, Edit, Configured, MaybePools
<1> QED
  BY <1>1, AdminStep DEF ClearRouteOverride, Edit, Same

LEMMA SetModelEnabledStep ==
  ASSUME IInv, NEW p \in Protocols, NEW b \in BOOLEAN, SetModelEnabled(p, b) PROVE IInv'
<1>1. Configured /\ edits' \in 0 .. MaxEdits
  BY EditKeeps DEF SetModelEnabled
<1>2. disabled' \subseteq Protocols
  BY <1>1 DEF SetModelEnabled, Configured
<1>3. Configured'
  BY <1>1, <1>2 DEF SetModelEnabled, Edit, Configured
<1> QED
  BY <1>3, AdminStep DEF SetModelEnabled, Edit, Same

LEMMA ArriveStep == ASSUME IInv, NEW r \in Requests, Arrive(r) PROVE IInv'
<1> DEFINE l == [NoLocals EXCEPT !.since = InForce]
<1>1. InForce \in Memories /\ Knows(InForce)
  BY InForceTyped DEF IInv
<1>2. l \in Locals /\ l.since = InForce /\ l.scan = 1 /\ l.candidates = {}
      /\ l.route.accounts = <<>>
  BY <1>1, NoLocalsOK DEF Locals, NoLocals, Nowhere
<1>3. HandlerOK(ProtocolOf[r], "routing", l)
  BY <1>2, EmptySeq DEF HandlerOK, Deciding, Held, Upstream
<1>4. Step(r, "new", "routing", l) /\ Same
  BY DEF Arrive
<1> HIDE DEF l
<1> QED
  BY <1>1, <1>2, <1>3, <1>4, HandlerStep DEF Stages, Deciding, Held, Ended

LEMMA RefuseStep == ASSUME IInv, NEW r \in Requests, Refuse(r) PROVE IInv'
BY EndingStep DEF Refuse, Ended

(* A route with its pool, as the generation in force has it. *)
LEMMA RouteTaken ==
  ASSUME IInv, NEW r \in Requests, NEW pool,
         ProtocolOf[r] \in DOMAIN layout, pool \in DOMAIN layout[ProtocolOf[r]]
  PROVE  /\ RoutedTo(r, pool) \in Locals
         /\ RoutedTo(r, pool).route.generation = generation
         /\ RoutedTo(r, pool).route.pool = pool /\ pool \in Pools
         /\ RoutedTo(r, pool).scan = local[r].scan /\ RoutedTo(r, pool).found = local[r].found
         /\ RoutedTo(r, pool).candidates = local[r].candidates
         /\ RoutedTo(r, pool).since = local[r].since
         /\ DefaultPool[ProtocolOf[r]] \in DOMAIN layout[ProtocolOf[r]]
         /\ Len(RoutedTo(r, pool).route.accounts) \in Nat
<1> DEFINE p == ProtocolOf[r]
           route == [generation |-> generation, pool |-> pool, accounts |-> layout[p][pool]]
<1>1. layout \in Layouts /\ generation \in Generations /\ local[r] \in Locals
  BY OfRequest DEF IInv, Typed
<1>2. pool \in Pools /\ layout[p][pool] \in Seq(Names) /\ DefaultPool[p] \in DOMAIN layout[p]
  BY <1>1, ProxyAssumption
<1>3. route \in RoutesTaken /\ Len(route.accounts) \in Nat
  BY <1>1, <1>2, LenProperties DEF RoutesTaken, MaybePools
<1>4. RoutedTo(r, pool) = [local[r] EXCEPT !.route = route] /\ route.generation = generation
      /\ route.pool = pool
  BY DEF RoutedTo
<1> HIDE DEF route
<1>5. RoutedTo(r, pool) \in Locals /\ RoutedTo(r, pool).route = route
  BY <1>1, <1>3, <1>4 DEF Locals
<1>6. /\ RoutedTo(r, pool).scan = local[r].scan /\ RoutedTo(r, pool).found = local[r].found
      /\ RoutedTo(r, pool).candidates = local[r].candidates
      /\ RoutedTo(r, pool).since = local[r].since
  BY <1>1, <1>4 DEF Locals
<1> QED
  BY <1>2, <1>3, <1>4, <1>5, <1>6

LEMMA ResolveStep == ASSUME IInv, NEW r \in Requests, Resolve(r) PROVE IInv'
<1> DEFINE p == ProtocolOf[r]
           l == RoutedTo(r, DefaultPool[p])
<1>1. Step(r, "routing", "checking", l) /\ Same /\ p \in DOMAIN layout
  BY DEF Resolve
<1>2. at[r] = "routing" /\ layout \in Layouts
  BY <1>1 DEF Step, IInv, Typed
<1>3. DefaultPool[p] \in DOMAIN layout[p]
  BY <1>1, <1>2, ProxyAssumption
<1>4. /\ l \in Locals /\ l.route.generation = generation /\ l.route.pool = DefaultPool[p]
      /\ DefaultPool[p] \in Pools /\ l.scan = local[r].scan /\ l.since = local[r].since
      /\ l.candidates = local[r].candidates /\ Len(l.route.accounts) \in Nat
  BY <1>1, <1>3, RouteTaken
<1>5. HandlerOK(p, "routing", local[r]) /\ Knows(local[r].since)
  BY <1>2, OfRequest DEF Deciding
<1> HIDE DEF l
<1>6. local[r].scan = 1 /\ local[r].candidates = {}
  BY <1>5 DEF HandlerOK, Deciding
<1>7. HandlerOK(p, "checking", l)
  BY <1>4, <1>5, <1>6 DEF HandlerOK, Deciding, Held, Upstream, Knows
<1> QED
  BY <1>1, <1>4, <1>5, <1>7, HandlerStep DEF Stages, Deciding, Held, Ended

LEMMA RouteNotFoundStep == ASSUME IInv, NEW r \in Requests, RouteNotFound(r) PROVE IInv'
BY EndingStep DEF RouteNotFound, Ended

LEMMA CheckModelStep == ASSUME IInv, NEW r \in Requests, CheckModel(r) PROVE IInv'
<1>1. CASE ProtocolOf[r] \in disabled
  BY <1>1, EndingStep DEF CheckModel, Ended
<1>2. CASE ProtocolOf[r] \notin disabled
  <2>1. Step(r, "checking", "overriding", local[r]) /\ Same /\ at[r] = "checking"
    BY <1>2 DEF CheckModel, Step
  <2>2. /\ HandlerOK(ProtocolOf[r], "checking", local[r]) /\ Knows(local[r].since)
        /\ local[r] \in Locals /\ ProtocolOf[r] \in Protocols
    BY <2>1, OfRequest DEF Deciding
  <2>3. HandlerOK(ProtocolOf[r], "overriding", local[r])
    BY <1>2, <2>2 DEF HandlerOK, Deciding, Held, Upstream, Knows
  <2> QED
    BY <2>1, <2>2, <2>3, HandlerStep DEF Stages, Deciding, Held, Ended
<1> QED
  BY <1>1, <1>2

LEMMA GetRouteOverrideStep == ASSUME IInv, NEW r \in Requests, GetRouteOverride(r) PROVE IInv'
<1> DEFINE l == [local[r] EXCEPT !.found = override]
<1>1. Step(r, "overriding", "pooling", l) /\ Same /\ at[r] = "overriding"
  BY DEF GetRouteOverride, Step
<1>2. /\ HandlerOK(ProtocolOf[r], "overriding", local[r]) /\ Knows(local[r].since)
      /\ local[r] \in Locals /\ override \in MaybePools
  BY <1>1, OfRequest DEF Deciding, Typed
<1>3. /\ l \in Locals /\ l.found = override /\ l.route = local[r].route
      /\ l.scan = local[r].scan /\ l.candidates = local[r].candidates
      /\ l.since = local[r].since /\ l.account = local[r].account
  BY <1>2 DEF Locals
<1> HIDE DEF l
<1>4. HandlerOK(ProtocolOf[r], "pooling", l)
  BY <1>2, <1>3 DEF HandlerOK, Deciding, Held, Upstream, Knows
<1> QED
  BY <1>1, <1>2, <1>3, <1>4, HandlerStep DEF Stages, Deciding, Held, Ended

LEMMA ApplyPoolOverrideStep == ASSUME IInv, NEW r \in Requests, ApplyPoolOverride(r) PROVE IInv'
<1> DEFINE p == ProtocolOf[r]
           pool == local[r].found
           l == RoutedTo(r, pool)
<1>1. CASE p \in DOMAIN layout /\ pool \in DOMAIN layout[p]
  <2>1. Step(r, "pooling", "routed", l) /\ Same /\ at[r] = "pooling"
    BY <1>1 DEF ApplyPoolOverride, Step
  <2>2. HandlerOK(p, "pooling", local[r]) /\ Knows(local[r].since)
    BY <2>1, OfRequest DEF Deciding
  <2>3. /\ l \in Locals /\ l.route.generation = generation /\ l.route.pool = pool
        /\ pool \in Pools /\ l.scan = local[r].scan /\ l.since = local[r].since
        /\ l.candidates = local[r].candidates /\ Len(l.route.accounts) \in Nat
    BY <1>1, RouteTaken
  <2>4. local[r].scan = 1 /\ local[r].candidates = {} /\ pool \in local[r].since.pools
        /\ p \in local[r].since.enabled
    BY <2>2 DEF HandlerOK, Deciding
  <2> HIDE DEF l
  <2>5. HandlerOK(p, "routed", l)
    BY <2>2, <2>3, <2>4 DEF HandlerOK, Deciding, Held, Upstream, Knows
  <2> QED
    BY <2>1, <2>3, <2>5, HandlerStep DEF Stages, Deciding, Held, Ended
<1>2. CASE ~(p \in DOMAIN layout /\ pool \in DOMAIN layout[p])
  <2>1. Step(r, "pooling", "misrouted", NoLocals) /\ Same
    BY <1>2 DEF ApplyPoolOverride
  <2> QED
    BY <2>1, EndingStep DEF Ended
<1> QED
  BY <1>1, <1>2

LEMMA KeepPoolStep == ASSUME IInv, NEW r \in Requests, KeepPool(r) PROVE IInv'
<1>1. Step(r, "pooling", "routed", local[r]) /\ Same /\ at[r] = "pooling"
      /\ local[r].found = NoPool
  BY DEF KeepPool, Step
<1>2. HandlerOK(ProtocolOf[r], "pooling", local[r]) /\ local[r] \in Locals
  BY <1>1, OfRequest
<1>3. HandlerOK(ProtocolOf[r], "routed", local[r])
  BY <1>1, <1>2 DEF HandlerOK, Deciding, Held, Upstream
<1> QED
  BY <1>1, <1>2, <1>3, HandlerStep DEF Stages, Deciding, Held, Ended

LEMMA BeginKeyRequestStep == ASSUME IInv, NEW r \in Requests, BeginKeyRequest(r) PROVE IInv'
<1>1. CASE active[KeyOf[r]] < MaxConcurrentPerKey
  <2>1. /\ at[r] = "routed" /\ at' = [at EXCEPT ![r] = "picking"]
        /\ active' = [active EXCEPT ![KeyOf[r]] = @ + 1]
        /\ clock' = clock /\ generation' = generation /\ layout' = layout
        /\ disabled' = disabled /\ override' = override /\ admin' = admin /\ edits' = edits
        /\ local' = local /\ Same
    BY <1>1 DEF BeginKeyRequest, BeginWithin, adminVars
  <2>2. /\ HandlerOK(ProtocolOf[r], "routed", local[r])
        /\ Typed /\ Handlers /\ Aware /\ Slots
    BY <2>1, OfRequest
  <2>3. HandlerOK(ProtocolOf[r], "picking", local[r])
    BY <2>2 DEF HandlerOK, Deciding, Held, Upstream
  <2>4. Slots' /\ active' \in [Keys -> Nat]
    BY <1>1, <2>1, <2>2, HoldersAfter DEF Stages, Deciding, Held
  <2>5. at \in [Requests -> Stages] /\ local \in [Requests -> Locals] /\ "picking" \in Stages
    BY <2>2 DEF Typed, Stages, Held
  <2>6. at' \in [Requests -> Stages] /\ at'[r] = "picking"
        /\ \A s \in Requests \ {r} : at'[s] = at[s]
    BY <2>1, <2>5
  <2>7. ASSUME NEW s \in Requests PROVE HandlerOK(ProtocolOf[s], at'[s], local'[s])
    <3>1. CASE s = r
      BY <2>1, <2>3, <2>6, <3>1
    <3>2. CASE s # r
      BY <2>1, <2>2, <2>6, <3>2 DEF Handlers
    <3> QED
      BY <3>1, <3>2
  <2>8. Handlers'
    BY <2>7 DEF Handlers, HandlerOK, AccountOf
  <2>9. ASSUME NEW s \in Requests, at'[s] \in Deciding PROVE Knows(local'[s].since)
    <3>1. s # r
      BY <2>6, <2>9 DEF Deciding
    <3> QED
      BY <2>1, <2>2, <2>6, <2>9, <3>1 DEF Aware
  <2>10. Aware'
    BY <2>1, <2>9 DEF Aware, Knows
  <2>11. Configured /\ Recording
    BY Parts
  <2>12. Configured' /\ Recording'
    BY <2>1, <2>11, SameRecording DEF Configured
  <2> QED
    BY <2>1, <2>4, <2>5, <2>6, <2>8, <2>10, <2>12 DEF IInv, Typed, Configured, Recording
<1>2. CASE ~(active[KeyOf[r]] < MaxConcurrentPerKey)
  BY <1>2, EndingStep DEF BeginKeyRequest, BeginWithin, Ended
<1> QED
  BY <1>1, <1>2

LEMMA AskAccountStep == ASSUME IInv, NEW r \in Requests, AskAccount(r) PROVE IInv'
<1> DEFINE p == ProtocolOf[r]
           a == AccountAt(r, local[r].scan)
           allowed == IF Resting(breaker[a], clock) THEN {} ELSE {a}
           l == [local[r] EXCEPT !.scan = @ + 1, !.candidates = @ \cup allowed]
<1>1. /\ at[r] = "picking" /\ ~Scanned(r) /\ breaker' = [breaker EXCEPT ![a] = Allow(@, clock)]
      /\ Step(r, "picking", "picking", l) /\ outcomes' = outcomes
  BY DEF AskAccount
<1>2. /\ HandlerOK(p, "picking", local[r]) /\ local[r] \in Locals /\ p \in Protocols
      /\ local[r].route \in RoutesTaken /\ local[r].scan \in Nat \ {0}
      /\ local[r].candidates \subseteq Accounts
  BY <1>1, OfRequest
<1>3. local[r].scan \in 1 .. Len(local[r].route.accounts)
      /\ local[r].route.accounts \in Seq(Names)
  BY <1>1, <1>2, LenProperties DEF Scanned, RoutesTaken
<1>4. local[r].route.accounts[local[r].scan] \in Names
  BY <1>3, ElementOfSeq
<1>5. a = AccountOf(p, local[r].route, local[r].scan)
  BY DEF AccountAt, AccountOf
<1>6. local[r].route.pool \in Pools /\ local[r].route.generation \in Generations
  BY <1>2 DEF HandlerOK, Held, RoutesTaken
<1>7. a \in Accounts
  BY <1>2, <1>4, <1>5, <1>6 DEF AccountOf, Accounts
<1> HIDE DEF a
<1>8. allowed \subseteq {a}
  OBVIOUS
<1> HIDE DEF allowed
<1>9. /\ l.scan = local[r].scan + 1 /\ l.candidates = local[r].candidates \cup allowed
      /\ l.route = local[r].route /\ l.since = local[r].since
  BY <1>2 DEF Locals
<1>10. l \in Locals
  <2>1. local[r].scan + 1 \in Nat \ {0}
    BY <1>2
  <2>2. local[r].candidates \cup allowed \in SUBSET Accounts
    BY <1>2, <1>7, <1>8
  <2> QED
    BY <1>2, <2>1, <2>2 DEF Locals
<1> HIDE DEF l
<1>11. ASSUME NEW c \in l.candidates
       PROVE  \E i \in 1 .. l.scan - 1 : c = AccountOf(p, l.route, i)
  <2>1. CASE c \in local[r].candidates
    <3>1. PICK i \in 1 .. local[r].scan - 1 : c = AccountOf(p, local[r].route, i)
      BY <1>2, <2>1 DEF HandlerOK
    <3>2. i \in 1 .. l.scan - 1
      BY <1>2, <1>9, <3>1
    <3> QED
      BY <1>9, <3>1, <3>2
  <2>2. CASE c = a
    BY <1>2, <1>5, <1>9, <2>2
  <2> QED
    BY <1>8, <1>9, <2>1, <2>2
<1>12. l.scan <= Len(l.route.accounts) + 1
  BY <1>2, <1>3, <1>9, LenProperties
<1>13. HandlerOK(p, "picking", l)
  BY <1>2, <1>9, <1>11, <1>12 DEF HandlerOK, Deciding, Held, Upstream
<1>14. /\ breaker \in [Accounts -> Breakers(Times)] /\ outcomes \in [Accounts -> Seq(Outcomes)]
       /\ clock \in Times /\ \A b \in Accounts : BreakerOK(breaker[b], outcomes[b], clock)
       /\ clock' = clock
  BY <1>1 DEF IInv, Typed, Records, Step
<1>15. /\ Allow(breaker[a], clock) \in Breakers(Times)
       /\ BreakerOK(Allow(breaker[a], clock), outcomes[a], clock)
  BY <1>7, <1>14, AllowKeeps
<1>16. breaker' \in [Accounts -> Breakers(Times)]
  BY <1>1, <1>7, <1>14, <1>15
<1>17. ASSUME NEW b \in Accounts PROVE BreakerOK(breaker'[b], outcomes[b], clock)
  <2>1. CASE b = a
    BY <1>1, <1>14, <1>15, <2>1
  <2>2. CASE b # a
    BY <1>1, <1>14, <2>2
  <2> QED
    BY <2>1, <2>2
<1>18. Recording'
  BY <1>1, <1>14, <1>16, <1>17 DEF Recording, Records, BreakerOK
<1> QED
  BY <1>1, <1>10, <1>13, <1>18, HandlerStep DEF Stages, Deciding, Held, Ended

LEMMA PickAccountStep == ASSUME IInv, NEW r \in Requests, PickAccount(r) PROVE IInv'
<1>1. PICK a \in local[r].candidates :
        Step(r, "picking", "picked", [local[r] EXCEPT !.account = a])
  BY DEF PickAccount
<1> DEFINE l == [local[r] EXCEPT !.account = a]
<1>2. /\ HandlerOK(ProtocolOf[r], "picking", local[r]) /\ local[r] \in Locals
      /\ local[r].candidates \subseteq Accounts
  BY <1>1, OfRequest DEF Step
<1>3. /\ l \in Locals /\ l.account = a /\ l.route = local[r].route /\ l.scan = local[r].scan
      /\ l.candidates = local[r].candidates /\ l.since = local[r].since
  BY <1>1, <1>2 DEF Locals
<1>4. Step(r, "picking", "picked", l) /\ Same
  BY <1>1 DEF PickAccount
<1> HIDE DEF l
<1>5. HandlerOK(ProtocolOf[r], "picked", l)
  BY <1>1, <1>2, <1>3 DEF HandlerOK, Deciding, Held, Upstream
<1> QED
  BY <1>3, <1>4, <1>5, HandlerStep DEF Stages, Deciding, Held, Ended

LEMMA NoHealthyAccountStep == ASSUME IInv, NEW r \in Requests, NoHealthyAccount(r) PROVE IInv'
BY EndingStep DEF NoHealthyAccount, Ended

LEMMA SendStep == ASSUME IInv, NEW r \in Requests, Send(r) PROVE IInv'
<1>1. Step(r, "picked", "sent", local[r]) /\ Same /\ at[r] = "picked"
  BY DEF Send, Step
<1>2. HandlerOK(ProtocolOf[r], "picked", local[r]) /\ local[r] \in Locals
  BY <1>1, OfRequest
<1>3. HandlerOK(ProtocolOf[r], "sent", local[r])
  BY <1>2 DEF HandlerOK, Deciding, Held, Upstream
<1> QED
  BY <1>1, <1>2, <1>3, HandlerStep DEF Stages, Deciding, Held, Ended

LEMMA AccountInUse ==
  ASSUME IInv, NEW r \in Requests, at[r] \in Upstream
  PROVE  local[r].account \in Accounts
BY OfRequest DEF HandlerOK, Upstream

LEMMA UpstreamErrorStep ==
  ASSUME IInv, NEW r \in Requests, NEW result \in {"upstream", "client"}, UpstreamError(r, result)
  PROVE  IInv'
<1>1. Step(r, "sent", "rejected", NoLocals) /\ Recorded(r, result) /\ at[r] \in Upstream
      /\ clock' = clock
  BY DEF UpstreamError, Step, Upstream
<1>2. Recording'
  BY <1>1, AccountInUse, RecordedKeeps
<1> QED
  BY <1>1, <1>2, EndingStep DEF Ended

LEMMA AnswerStep == ASSUME IInv, NEW r \in Requests, NEW ok \in BOOLEAN, Answer(r, ok) PROVE IInv'
<1> DEFINE l == [local[r] EXCEPT !.healthy = ok]
<1>1. Step(r, "sent", "copying", l) /\ at[r] = "sent" /\ at[r] \in Upstream /\ clock' = clock
  BY DEF Answer, Step, Upstream
<1>2. HandlerOK(ProtocolOf[r], "sent", local[r]) /\ local[r] \in Locals
  BY <1>1, OfRequest
<1>3. /\ l \in Locals /\ l.account = local[r].account /\ l.route = local[r].route
      /\ l.scan = local[r].scan /\ l.candidates = local[r].candidates
      /\ l.since = local[r].since
  BY <1>2 DEF Locals
<1> HIDE DEF l
<1>4. HandlerOK(ProtocolOf[r], "copying", l)
  BY <1>2, <1>3 DEF HandlerOK, Deciding, Held, Upstream
<1>5. Same \/ \E result \in {"ok", "upstream", "client"} : Recorded(r, result)
  BY DEF Answer
<1>6. Same \/ Recording'
  BY <1>1, <1>5, AccountInUse, RecordedKeeps
<1> QED
  BY <1>1, <1>3, <1>4, <1>6, HandlerStep DEF Stages, Deciding, Held, Ended

LEMMA FinishStep == ASSUME IInv, NEW r \in Requests, NEW b \in BOOLEAN, Finish(r, b) PROVE IInv'
<1>1. Step(r, "copying", "done", NoLocals) /\ at[r] \in Upstream /\ clock' = clock
  BY DEF Finish, Step, Upstream
<1>2. Same \/ \E result \in {"ok", "upstream", "client"} : Recorded(r, result)
  BY DEF Finish, Judged
<1>3. Same \/ Recording'
  BY <1>1, <1>2, AccountInUse, RecordedKeeps
<1> QED
  BY <1>1, <1>3, EndingStep DEF Ended

LEMMA StutterStep == ASSUME IInv, UNCHANGED vars PROVE IInv'
<1>1. Configured /\ Recording /\ Requested
  BY Parts
<1>2. /\ clock' = clock /\ generation' = generation /\ layout' = layout
      /\ disabled' = disabled /\ override' = override /\ admin' = admin /\ edits' = edits
      /\ at' = at /\ local' = local /\ active' = active /\ Same
  BY DEF vars, adminVars, requestVars, Same
<1>3. Configured' /\ Recording' /\ Requested'
  BY <1>1, <1>2, SameRecording, SameRequested DEF Configured
<1> QED
  BY <1>3 DEF IInv, Typed, Configured, Requested, Recording

LEMMA NextOK == IInv /\ [Next]_vars => IInv'
<1> SUFFICES ASSUME IInv, [Next]_vars PROVE IInv'
  OBVIOUS
<1>1. CASE Next
  <2>1. CASE Tick \/ SetRouteOverride \/ ClearRouteOverride
    BY <2>1, TickStep, SetRouteOverrideStep, ClearRouteOverrideStep
  <2>2. CASE \E new \in Layouts : Reload(new)
    BY <2>2, ReloadStep
  <2>3. CASE \E pool \in Pools : ValidatePool(pool)
    BY <2>3, ValidatePoolStep
  <2>4. CASE \E p \in Protocols, b \in BOOLEAN : SetModelEnabled(p, b)
    BY <2>4, SetModelEnabledStep
  <2>5. ASSUME NEW r \in Requests,
               \/ Arrive(r) \/ Refuse(r) \/ Resolve(r) \/ RouteNotFound(r) \/ CheckModel(r)
               \/ GetRouteOverride(r) \/ ApplyPoolOverride(r) \/ KeepPool(r)
        PROVE  IInv'
    BY <2>5, ArriveStep, RefuseStep, ResolveStep, RouteNotFoundStep, CheckModelStep,
       GetRouteOverrideStep, ApplyPoolOverrideStep, KeepPoolStep
  <2>6. ASSUME NEW r \in Requests,
               \/ BeginKeyRequest(r) \/ AskAccount(r) \/ PickAccount(r)
               \/ NoHealthyAccount(r) \/ Send(r)
               \/ \E result \in {"upstream", "client"} : UpstreamError(r, result)
               \/ \E b \in BOOLEAN : Answer(r, b) \/ Finish(r, b)
        PROVE  IInv'
    BY <2>6, BeginKeyRequestStep, AskAccountStep, PickAccountStep, NoHealthyAccountStep,
       SendStep, UpstreamErrorStep, AnswerStep, FinishStep
  <2> QED
    BY <1>1, <2>1, <2>2, <2>3, <2>4, <2>5, <2>6 DEF Next
<1>2. CASE UNCHANGED vars
  BY <1>2, StutterStep
<1> QED
  BY <1>1, <1>2

(* For every set of accounts, models and requests and every number of      *)
(* edits and reloads, the proxy stays in a state in which handlers, slots, *)
(* breakers and the memory of what was in force agree.                     *)
THEOREM ProxyInvariant == Spec => []IInv
<1>1. Init => IInv
  BY InitOK
<1>2. IInv /\ [Next]_vars => IInv'
  BY NextOK
<1> QED
  BY <1>1, <1>2, PTL DEF Spec

----------------------------------------------------------------------------
(* What follows.                                                           *)

(* Every variable of the proxy keeps its type: a handler's candidates are  *)
(* accounts it has asked, and its account is one of them.                  *)
THEOREM ProxyTyped == Spec => []TypeOK
<1>1. IInv => TypeOK
  <2> SUFFICES ASSUME IInv PROVE TypeOK
    OBVIOUS
  <2>1. ASSUME NEW r \in Requests
        PROVE  LET l == local[r]
               IN /\ l.route.generation \in Generations /\ l.route.pool \in Pools \cup {NoPool}
                  /\ l.route.accounts \in Seq(Names) /\ l.found \in Pools \cup {NoPool}
                  /\ l.scan \in 1 .. Len(l.route.accounts) + 1
                  /\ l.candidates \subseteq {AccountAt(r, i) : i \in 1 .. l.scan - 1}
                  /\ at[r] \in {"picked"} \cup Upstream => l.account \in l.candidates
                  /\ l.healthy \in BOOLEAN
    <3> DEFINE l == local[r]
    <3>1. /\ l \in Locals /\ l.route \in RoutesTaken /\ l.scan \in Nat \ {0}
          /\ HandlerOK(ProtocolOf[r], at[r], l)
      BY OfRequest
    <3>2. /\ l.route.generation \in Generations /\ l.route.pool \in Pools \cup {NoPool}
          /\ l.route.accounts \in Seq(Names)
      BY <3>1 DEF RoutesTaken, MaybePools
    <3>3. l.found \in Pools \cup {NoPool} /\ l.healthy \in BOOLEAN
      BY <3>1 DEF Locals, MaybePools
    <3>4. l.scan \in 1 .. Len(l.route.accounts) + 1
      BY <3>1, <3>2, LenProperties DEF HandlerOK
    <3>5. \A i : AccountOf(ProtocolOf[r], l.route, i) = AccountAt(r, i)
      BY DEF AccountAt, AccountOf
    <3>6. l.candidates \subseteq {AccountAt(r, i) : i \in 1 .. l.scan - 1}
      BY <3>1, <3>5 DEF HandlerOK
    <3>7. at[r] \in {"picked"} \cup Upstream => l.account \in l.candidates
      BY <3>1 DEF HandlerOK
    <3> QED
      BY <3>2, <3>3, <3>4, <3>6, <3>7
  <2>2. active \in [Keys -> 0 .. MaxConcurrentPerKey]
    BY ProxyAssumption DEF IInv, Typed, Slots
  <2> QED
    BY <2>1, <2>2 DEF IInv, Typed, TypeOK, Stages, MaybePools
<1> QED
  BY <1>1, ProxyInvariant, PTL

(* A key's slots are held by exactly the requests between the check of the *)
(* limit and the end of their handlers, however many there are.            *)
THEOREM SlotsAreGivenBack == Spec => []SlotsExact
<1>1. IInv => SlotsExact
  BY DEF IInv, Slots, Holders, SlotsExact
<1> QED
  BY <1>1, ProxyInvariant, PTL

(* Whatever the administrator reloads, moves or disables meanwhile, a      *)
(* request goes where the configuration sent it at some moment after it    *)
(* arrived.                                                                *)
THEOREM RoutesAreInForce == Spec => []RoutedAsConfigured
<1>1. IInv => RoutedAsConfigured
  <2> SUFFICES ASSUME IInv, NEW r \in Requests, at[r] \in Upstream
               PROVE  /\ ProtocolOf[r] \in local[r].since.enabled
                      /\ local[r].account[1] \in local[r].since.generations
                      /\ \/ local[r].account[3] \in local[r].since.pools
                         \/ /\ local[r].account[3] = DefaultPool[ProtocolOf[r]]
                            /\ NoPool \in local[r].since.pools
    BY DEF RoutedAsConfigured
  <2> DEFINE l == local[r]
             p == ProtocolOf[r]
  <2>1. HandlerOK(p, at[r], l) /\ at[r] \in Held
    BY OfRequest DEF Upstream, Held
  <2>2. l.account \in l.candidates
    BY <2>1 DEF HandlerOK
  <2>3. PICK i \in 1 .. l.scan - 1 : l.account = AccountOf(p, l.route, i)
    BY <2>1, <2>2 DEF HandlerOK
  <2>4. l.account[1] = l.route.generation /\ l.account[3] = l.route.pool
    BY <2>3 DEF AccountOf
  <2> QED
    BY <2>1, <2>4 DEF HandlerOK
<1> QED
  BY <1>1, ProxyInvariant, PTL

(* An account is cut off exactly by Threshold failures in a row, and rests *)
(* a whole cooldown from the last of them, for every threshold.            *)
THEOREM BreakersTripOnFailures == Spec => []TripsOnConsecutiveFailures
<1>1. IInv => TripsOnConsecutiveFailures
  <2> SUFFICES ASSUME IInv, NEW a \in Accounts
               PROVE  LET seen == outcomes[a]
                          tripped == /\ Len(seen) = Threshold
                                     /\ \A i \in 1 .. Threshold : seen[i].result # "ok"
                      IN /\ (breaker[a].state # "closed") = tripped
                         /\ breaker[a].state = "open" => breaker[a].openedAt = seen[Threshold].time
                         /\ breaker[a].state = "half_open" =>
                              clock - seen[Threshold].time >= Cooldown
    BY DEF TripsOnConsecutiveFailures
  <2> DEFINE seen == outcomes[a]
             b == breaker[a]
             tripped == Len(seen) = Threshold /\ \A i \in 1 .. Threshold : seen[i].result # "ok"
  <2>1. BreakerOK(b, seen, clock) /\ b \in Breakers(Times) /\ seen \in Seq(Outcomes)
    BY DEF IInv, Typed, Records
  <2>2. Len(seen) \in Nat /\ Threshold \in Nat \ {0} /\ b.failures \in Nat
    BY <2>1, CircuitAssumption, LenProperties DEF Breakers
  <2>3. b.state # "closed" => tripped /\ b.openedAt = seen[Threshold].time
    BY <2>1 DEF BreakerOK
  <2>4. b.state = "closed" => ~tripped
    <3> SUFFICES ASSUME b.state = "closed", Len(seen) = Threshold
                 PROVE  \E i \in 1 .. Threshold : seen[i].result = "ok"
      OBVIOUS
    <3>1. b.failures < Threshold /\ seen[Threshold - b.failures].result = "ok"
      BY <2>1, <2>2 DEF BreakerOK
    <3>2. Threshold - b.failures \in 1 .. Threshold
      BY <2>2, <3>1
    <3> QED
      BY <3>1, <3>2
  <2>5. b.state = "half_open" => clock - seen[Threshold].time >= Cooldown
    BY <2>1 DEF BreakerOK
  <2>6. (b.state # "closed") = tripped
    BY <2>3, <2>4, Zenon
  <2> QED
    BY <2>3, <2>5, <2>6
<1> QED
  BY <1>1, ProxyInvariant, PTL

=============================================================================
