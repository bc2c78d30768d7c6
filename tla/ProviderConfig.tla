--------------------------- MODULE ProviderConfig ---------------------------
(***************************************************************************)
(* What the provider files say, which of them are refused where, and what  *)
(* the registry builds from them (internal/config/config.go, provider/     *)
(* registry.go). A file is a record                                        *)
(*   [name, protocol, quota, pools, default, models]                       *)
(* with pools a sequence of [name, accounts], accounts a sequence of       *)
(* [name, key, env] and models a sequence of [public, protocol, type,      *)
(* pool, since]. A quota block is [url, interval, fields, uses]: what its  *)
(* templates refer to are the fields it uses.                              *)
(***************************************************************************)
EXTENDS Naturals, Sequences, FiniteSets, Functions

CONSTANTS
  Empty,       \* a text that is not there, a block that is left out
  Environment, \* environment variable -> its value, or Empty
  Protocols, SpeechProtocols, Types,
  Broken       \* a text that cannot be parsed

ASSUME ConfigAssumption == SpeechProtocols \subseteq Protocols /\ "tts" \in Types

Or(text, fallback) == IF text = Empty THEN fallback ELSE text
Distinct(s, Key(_)) == \A i, j \in DOMAIN s : Key(s[i]) = Key(s[j]) => i = j
Name(x) == x.name
Public(model) == model.public

----------------------------------------------------------------------------
(* Loading one file.                                                       *)

(* resolveAccountAPIKeys: the key may come from the environment; a named   *)
(* variable that is not set is an error.                                   *)
ResolvedKey(account) ==
  IF account.key = Empty /\ account.env # Empty THEN Environment[account.env] ELSE account.key

AllAccounts(file) == UNION {Range(pool.accounts) : pool \in Range(file.pools)}

KeysResolve(file) ==
  \A account \in AllAccounts(file) : account.env # Empty => ResolvedKey(account) # Empty

(* Minutes between two queries; a text that is no duration is refused, and *)
(* so is less than a minute.                                               *)
ProviderQuotaInterval(quota) == Or(quota.interval, 10)

ValidInterval(quota) ==
  ProviderQuotaInterval(quota) # Broken /\ ProviderQuotaInterval(quota) >= 1

validateProviderQuotaConfig(quota) ==
  /\ quota.url \notin {Empty, Broken}
  /\ ValidInterval(quota)
  /\ quota.fields # {} /\ quota.uses # {} /\ quota.uses \subseteq quota.fields

DefaultPool(file) == Or(file.default, file.pools[1].name)
PoolOf(file, model) == Or(model.pool, DefaultPool(file))
EffectiveProtocol(file, model) == Or(model.protocol, file.protocol)

ValidPools(file) ==
  /\ file.pools # <<>> /\ Distinct(file.pools, Name)
  /\ \A pool \in Range(file.pools) :
       /\ pool.name # Empty /\ pool.accounts # <<>>
       /\ \A account \in Range(pool.accounts) : account.name # Empty /\ ResolvedKey(account) # Empty
  /\ DefaultPool(file) \in {pool.name : pool \in Range(file.pools)}

ValidModelInAnyPool(file, model) ==
  /\ model.public # Empty /\ model.type \in Types
  /\ EffectiveProtocol(file, model) \in Protocols
  /\ (model.type = "tts") = (EffectiveProtocol(file, model) \in SpeechProtocols)

ValidModel(file, model) ==
  /\ ValidModelInAnyPool(file, model)
  /\ PoolOf(file, model) \in {pool.name : pool \in Range(file.pools)}

ValidateProviderConfig(file) ==
  /\ file.name # Empty /\ file.protocol \in Protocols
  /\ file.quota # Empty => validateProviderQuotaConfig(file.quota)
  /\ ValidPools(file)
  /\ file.models # <<>> /\ Distinct(file.models, Public)
  /\ \A model \in Range(file.models) : ValidModel(file, model)

(* LoadProviderConfigs looks at every file by itself.                      *)
Loads(files) == \A file \in Range(files) : KeysResolve(file) /\ ValidateProviderConfig(file)

----------------------------------------------------------------------------
(* The registry.                                                           *)

RouteKeys(file) == {<<EffectiveProtocol(file, model), model.public>> : model \in Range(file.models)}

(* build checks every file again, and what only all of them together show. *)
Builds(files) ==
  /\ \A file \in Range(files) : ValidateProviderConfig(file)
  /\ Distinct(files, Name)
  /\ \A i, j \in DOMAIN files : RouteKeys(files[i]) \cap RouteKeys(files[j]) # {} => i = j
  /\ \A file \in Range(files) : \A model \in Range(file.models) : model.since # Broken

(* A set of [id, is] records with distinct ids as a function.              *)
AsFunction(rows) ==
  [id \in {row.id : row \in rows} |-> (CHOOSE row \in rows : row.id = id).is]

(* The routes: protocol and public model -> the accounts that serve it.    *)
Serving(file, model) ==
  UNION {Range(pool.accounts) : pool \in {p \in Range(file.pools) : p.name = PoolOf(file, model)}}

Routes(files) ==
  AsFunction(UNION {{[id |-> <<EffectiveProtocol(file, model), model.public>>,
                      is |-> Serving(file, model)] : model \in Range(file.models)}
                    : file \in Range(files)})

(* buildTargets: the accounts of the files with a quota block, each under  *)
(* the names of its file and its pool. Which query it needs is told by the *)
(* URL and the key, what is shown of it by the whole block and the key.    *)
TargetsOf(files) ==
  LET Account(file, pool, account) ==
        [id |-> <<file.name, pool.name, account.name>>,
         is |-> [quota |-> file.quota, key |-> ResolvedKey(account)]]
  IN AsFunction(UNION {UNION {{Account(file, pool, account) : account \in Range(pool.accounts)}
                              : pool \in Range(file.pools)}
                       : file \in {f \in Range(files) : f.quota # Empty}})

RequestOf(config) == <<config.quota.url, config.key>>
=============================================================================
