--------------------------- MODULE MCQuotaMonitor ---------------------------
(* An instance of QuotaMonitor: two providers with an account each, and a  *)
(* few states of their files.                                              *)
EXTENDS QuotaMonitor, TLC

CONSTANTS none, broken, k1, env1, here, there, left, usedUp, chat, speech

Variables == env1 :> k1

Main(key, env) == <<[name |-> "main", accounts |-> <<[name |-> "a", key |-> key, env |-> env]>>]>>
Model(public, pool) ==
  [public |-> public, protocol |-> none, type |-> "chat", pool |-> pool, since |-> none]
Quota(url, interval, uses) ==
  [url |-> url, interval |-> interval, fields |-> {left, usedUp}, uses |-> uses]
File(name, pools, quota, public, pool) ==
  [name |-> name, protocol |-> chat, quota |-> quota, pools |-> pools,
   default |-> none, models |-> <<Model(public, pool)>>]

X(quota) == File("x", Main(k1, none), quota, "m1", none)
Y(quota) == File("y", Main(none, env1), quota, "m2", "main")

\* x and y share a query; x is asked elsewhere; or y not at all. The rest is
\* refused: an interval, a pool, a key that is missing, a route claimed twice.
Files == [
  sharing |-> <<X(Quota(here, none, {left})), Y(Quota(here, 1, {usedUp}))>>,
  apart |-> <<X(Quota(there, none, {left})), Y(Quota(here, 1, {usedUp}))>>,
  alone |-> <<X(Quota(here, none, {left})), Y(none)>>,
  noInterval |-> <<X(Quota(there, broken, {left}))>>,
  tooOften |-> <<X(Quota(there, 0, {left}))>>,
  noPool |-> <<File("x", Main(k1, none), none, "m1", "spare")>>,
  noKey |-> <<File("x", Main(none, none), none, "m1", none)>>,
  twice |-> <<X(none), File("z", Main(k1, none), none, "m1", none)>>]
=============================================================================
