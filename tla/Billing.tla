------------------------------ MODULE Billing ------------------------------
(***************************************************************************)
(* What a request costs: the prices an administrator may store, the price  *)
(* of a request's tokens, images or characters (internal/store/credits.go) *)
(* and what of a request is settled before it is sent (internal/gateway/   *)
(* credits.go, requestModelPrice in proxy.go).                             *)
(*                                                                         *)
(* A price has a rate for input, output, cache hits and cache writes, a    *)
(* sequence of tiers with rates of their own, a sequence of image rules    *)
(* and a rate for characters; a rate that is not given is None.            *)
(***************************************************************************)
EXTENDS Integers, Sequences, FiniteSets, SequencesExt, FiniteSetsExt

CONSTANTS
  None,            \* no price, no rate, no such field
  CreditsUnit,
  Wildcard,        \* an empty selector of an image rule
  MaxInt64,        \* the largest amount
  MaxRate,         \* the largest rate
  PerMillion,      \* rates of tokens are for so many of them
  Per10K,          \* and those of characters for so many
  MaxImages        \* an image request asks for at most so many

ASSUME BillingAssumption ==
  /\ MaxInt64 \in Nat \ {0} /\ MaxRate \in 1 .. MaxInt64
  /\ PerMillion \in Nat \ {0} /\ Per10K \in Nat \ {0} /\ MaxImages \in Nat \ {0}
  /\ None \notin Int

Or(value, default) == IF value = None THEN default ELSE value
Saturated(amount) == Min({amount, MaxInt64})
Rounded(product, per) == Saturated((product + per \div 2) \div per)

----------------------------------------------------------------------------
(* The prices that are accepted.                                           *)

ZeroRates(p) == {p.input, p.output, Or(p.hit, 0), Or(p.write, 0)} = {0}
InRange(rates) == \A rate \in rates \ {None} : rate \in 0 .. MaxRate

ValidTier(tier) ==
  /\ InRange({tier.input, tier.output, tier.hit})
  /\ {tier.input, tier.output, Or(tier.hit, 0)} # {0}

ValidTiers(p) ==
  /\ p.tiers # <<>> => p.mode = "tokens"
  /\ \A i \in DOMAIN p.tiers :
       /\ p.tiers[i].above >= 0 /\ ValidTier(p.tiers[i])
       /\ i > 1 => p.tiers[i].above > p.tiers[i - 1].above

ValidImages(p) ==
  /\ p.mode = "image" => p.images # <<>>
  /\ \A i \in DOMAIN p.images :
       /\ p.images[i].charge \in 1 .. MaxRate
       /\ \A j \in DOMAIN p.images \ {i} :
            <<p.images[i].size, p.images[i].quality>> # <<p.images[j].size, p.images[j].quality>>

ValidCharacters(p) ==
  IF p.mode = "characters"
  THEN /\ p.speech /\ p.characters \in 1 .. MaxRate
       /\ <<p.input, p.output, p.hit, p.write, p.images>> = <<0, 0, None, None, <<>>>>
  ELSE p.characters = None

validateBilling(p) ==
  /\ p.mode \in {"tokens", "image", "characters", "free"}
  /\ p.speech => p.mode \in {"characters", "free"}
  /\ InRange({p.input, p.output, p.hit, p.write})
  /\ p.mode = "tokens" => ~ZeroRates(p)
  /\ ValidTiers(p) /\ ValidImages(p) /\ ValidCharacters(p)

----------------------------------------------------------------------------
(* What is charged. The last tier whose threshold the input exceeds takes  *)
(* the place of the price's own rates, that of cache writes apart.         *)

Tariff(p, input) ==
  LET above == {i \in DOMAIN p.tiers : input > p.tiers[i].above}
      tier == p.tiers[Max(above)]
  IN IF above = {} THEN p
     ELSE [p EXCEPT !.input = tier.input, !.output = tier.output, !.hit = tier.hit]

(* A broken variant: cache writes are not kept apart from the cache hits. *)
TokenCostTwice(p, tokens) ==
  LET tariff == Tariff(p, tokens.request)
      hit == Min({tokens.hit, tokens.request})
      write == Min({tokens.write, tokens.request})
      plain == Max({0, tokens.request - hit - write})
  IN IF p.mode = "free" THEN 0
     ELSE Rounded(plain * tariff.input + hit * Or(tariff.hit, tariff.input)
                  + write * Or(tariff.write, tariff.input) + tokens.response * tariff.output,
                  PerMillion)

TokenCost(p, tokens) ==
  LET tariff == Tariff(p, tokens.request)
      hit == Min({tokens.hit, tokens.request})
      write == Min({tokens.write, tokens.request - hit})
      plain == tokens.request - hit - write
  IN IF p.mode = "free" THEN 0
     ELSE Rounded(plain * tariff.input + hit * Or(tariff.hit, tariff.input)
                  + write * Or(tariff.write, tariff.input) + tokens.response * tariff.output,
                  PerMillion)

(* What a charge must be, however the provider's counters overlap or       *)
(* exceed the input: every token of it at one rate, at those of the cache  *)
(* as far as the counters say so and input is left for them.               *)
EachOnce(p, t, charge) ==
  LET tariff == Tariff(p, t.request)
  IN \E hit \in 0 .. t.hit, write \in 0 .. t.write :
       /\ hit + write <= t.request
       /\ <<hit, write>> = <<t.hit, t.write>> \/ hit + write = t.request
       /\ charge = Rounded((t.request - hit - write) * tariff.input
                             + hit * Or(tariff.hit, tariff.input)
                             + write * Or(tariff.write, tariff.input)
                             + t.response * tariff.output, PerMillion)

CharacterCost(p, characters) ==
  IF p.mode # "characters" THEN 0 ELSE Rounded(characters * p.characters, Per10K)

ImageCost(count, unit) == Saturated(count * unit)

(* The most specific rule that matches, unless there are two of them.      *)
Selects(rule, size, quality) == rule.size \in {Wildcard, size} /\ rule.quality \in {Wildcard, quality}
Score(rule) == Cardinality({f \in {"size", "quality"} : rule[f] # Wildcard})
NoRule == [best |-> -1, value |-> 0, matches |-> 0]

Better(found, rule, size, quality) ==
  IF ~Selects(rule, size, quality) \/ Score(rule) < found.best THEN found
  ELSE IF Score(rule) = found.best THEN [found EXCEPT !.matches = @ + 1]
  ELSE [best |-> Score(rule), value |-> rule.charge, matches |-> 1]

ImageUnitCost(p, size, quality) ==
  LET found == FoldLeft(LAMBDA f, rule : Better(f, rule, size, quality), NoRule, p.images)
  IN IF found.matches = 1 THEN found.value ELSE None

----------------------------------------------------------------------------
(* Before a request is sent. r has the type of its model, its endpoint and *)
(* what it asks for; p is the price of the model, or None.                 *)

PriceRefused(r, p) ==
  IF p = None THEN r.limited
  ELSE p.unit # CreditsUnit \/ (p.mode = "tokens" /\ ZeroRates(p))

BillingRefused(r, p) ==
  \/ r.type = "tts" /\ p # None /\ p.mode \notin {"characters", "free"}
  \/ /\ r.type # "tts" /\ p # None
     /\ \/ p.mode = "characters"
        \/ r.type # "image-generation" /\ p.mode = "image"
        \/ r.type = "image-generation" /\ Or(r.n, 1) \notin 1 .. MaxImages
        \/ /\ r.type = "image-generation" /\ p.mode = "image"
           /\ ImageUnitCost(p, r.size, r.quality) = None

ImageUnit(r, p) ==
  IF p # None /\ p.mode = "image" THEN ImageUnitCost(p, r.size, r.quality) ELSE 0
=============================================================================
