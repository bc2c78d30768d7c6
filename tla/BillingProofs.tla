--------------------------- MODULE BillingProofs ---------------------------
(***************************************************************************)
(* Proofs about Billing, for every accepted price, every largest amount    *)
(* and every answer a provider may report.                                 *)
(***************************************************************************)
EXTENDS Billing, TLAPS, FiniteSetTheorems, WellFoundedInduction

(* ModelPrice and its tiers: an input and an output rate are numbers, that *)
(* of the cache may be left out.                                           *)
Rate == Int \cup {None}
Tier == [above : Int, input : Int, output : Int, hit : Rate]
IsPrice(p) ==
  /\ p = [unit |-> p.unit, speech |-> p.speech, mode |-> p.mode, input |-> p.input,
          output |-> p.output, hit |-> p.hit, write |-> p.write,
          characters |-> p.characters, tiers |-> p.tiers, images |-> p.images]
  /\ p.input \in Int /\ p.output \in Int /\ p.hit \in Rate /\ p.write \in Rate
  /\ p.tiers \in Seq(Tier)

TokenCounts ==
  [request : Nat, response : Nat, hit : Nat, miss : Nat, write : Nat]

----------------------------------------------------------------------------
(* Numbers.                                                                *)

LEMMA MinOfTwo ==
  ASSUME NEW a \in Int, NEW b \in Int
  PROVE  Min({a, b}) = IF a <= b THEN a ELSE b
<1> DEFINE m == IF a <= b THEN a ELSE b
<1>1. m \in {a, b} /\ \A y \in {a, b} : m <= y
  OBVIOUS
<1>2. \A x \in {a, b} : (\A y \in {a, b} : x <= y) => x = m
  OBVIOUS
<1>3. Min({a, b}) \in {a, b} /\ \A y \in {a, b} : Min({a, b}) <= y
  <2> HIDE DEF m
  <2> QED
    BY <1>1 DEF Min
<1> QED
  BY <1>2, <1>3

LEMMA Division ==
  ASSUME NEW a \in Nat, NEW d \in Nat \ {0}
  PROVE  /\ a \div d \in Nat /\ d * (a \div d) <= a /\ a < d * (a \div d) + d
OBVIOUS

LEMMA SaturatedFacts ==
  ASSUME NEW amount \in Nat
  PROVE  /\ Saturated(amount) \in 0 .. MaxInt64 /\ Saturated(amount) <= amount
         /\ amount <= MaxInt64 => Saturated(amount) = amount
         /\ amount > MaxInt64 => Saturated(amount) = MaxInt64
BY MinOfTwo, BillingAssumption DEF Saturated

LEMMA RoundedFacts ==
  ASSUME NEW product \in Nat, NEW per \in Nat \ {0}
  PROVE  Rounded(product, per) \in 0 .. MaxInt64
<1>1. per \div 2 \in Nat
  BY Division
<1>2. (product + per \div 2) \div per \in Nat
  BY <1>1, Division
<1> QED
  BY <1>2, SaturatedFacts DEF Rounded

(* The largest of finitely many numbers.                                   *)
LEMMA MaxFacts ==
  ASSUME NEW n \in Nat, NEW S \in SUBSET (1 .. n), S # {}
  PROVE  Max(S) \in S /\ \A x \in S : Max(S) >= x
<1> DEFINE T == {n - x : x \in S}
<1>1. T \subseteq Nat /\ T # {}
  <2>1. \A x \in S : n - x \in Nat
    OBVIOUS
  <2> QED
    BY <2>1
<1>2. PICK t \in T : \A u \in T : ~ (<<u, t>> \in OpToRel(<, Nat))
  <2> HIDE DEF T
  <2> QED
    BY <1>1, NatLessThanWellFounded, WFMin, Zenon
<1>3. \A u \in T : u >= t
  <2>1. SUFFICES ASSUME NEW u \in T PROVE ~ (u < t)
    BY <1>1
  <2>2. <<u, t>> \in Nat \X Nat /\ <<u, t>>[1] = u /\ <<u, t>>[2] = t
    BY <1>1
  <2>3. u < t => <<u, t>> \in OpToRel(<, Nat)
    BY <2>2, Zenon DEF OpToRel
  <2> QED
    BY <1>2, <2>3
<1>4. PICK m \in S : t = n - m
  OBVIOUS
<1>5. \A x \in S : m >= x
  <2>1. SUFFICES ASSUME NEW x \in S PROVE m >= x
    OBVIOUS
  <2>2. n - x \in T
    OBVIOUS
  <2>3. n - x >= n - m
    BY <1>3, <1>4, <2>2
  <2>4. x \in Nat /\ m \in Nat
    OBVIOUS
  <2> HIDE DEF T
  <2> QED
    BY <2>3, <2>4
<1> QED
  BY <1>5 DEF Max

----------------------------------------------------------------------------
(* The rates in force.                                                     *)

LEMMA AcceptedRates ==
  ASSUME NEW p, IsPrice(p), validateBilling(p)
  PROVE  /\ p.input \in 0 .. MaxRate /\ p.output \in 0 .. MaxRate
         /\ p.hit \in (0 .. MaxRate) \cup {None} /\ p.write \in (0 .. MaxRate) \cup {None}
         /\ \A i \in DOMAIN p.tiers :
              /\ p.tiers[i].above \in Nat
              /\ p.tiers[i].input \in 0 .. MaxRate /\ p.tiers[i].output \in 0 .. MaxRate
              /\ p.tiers[i].hit \in (0 .. MaxRate) \cup {None}
<1>1. p.input # None /\ p.output # None
  BY BillingAssumption DEF IsPrice
<1>2. /\ p.input \in 0 .. MaxRate /\ p.output \in 0 .. MaxRate
      /\ p.hit \in (0 .. MaxRate) \cup {None} /\ p.write \in (0 .. MaxRate) \cup {None}
  BY <1>1 DEF validateBilling, InRange
<1>3. ASSUME NEW i \in DOMAIN p.tiers
      PROVE  /\ p.tiers[i].above \in Nat
             /\ p.tiers[i].input \in 0 .. MaxRate /\ p.tiers[i].output \in 0 .. MaxRate
             /\ p.tiers[i].hit \in (0 .. MaxRate) \cup {None}
  <2>1. p.tiers[i] \in Tier
    BY DEF IsPrice
  <2>2. p.tiers[i].above >= 0 /\ InRange({p.tiers[i].input, p.tiers[i].output, p.tiers[i].hit})
    BY DEF validateBilling, ValidTiers, ValidTier
  <2>3. p.tiers[i].above \in Int /\ p.tiers[i].input \in Int /\ p.tiers[i].output \in Int
    BY <2>1 DEF Tier
  <2>4. p.tiers[i].input # None /\ p.tiers[i].output # None
    BY <2>3, BillingAssumption
  <2> QED
    BY <2>2, <2>3, <2>4 DEF InRange
<1> QED
  BY <1>2, <1>3

(* The tier of an input is the one with the largest threshold that it      *)
(* exceeds, as the thresholds were checked to rise.                        *)
Exceeded(p, input) == {i \in DOMAIN p.tiers : input > p.tiers[i].above}

LEMMA TierFacts ==
  ASSUME NEW p, IsPrice(p), NEW input \in Nat
  PROVE  /\ Exceeded(p, input) = {} => Tariff(p, input) = p
         /\ Exceeded(p, input) # {} =>
              /\ Max(Exceeded(p, input)) \in Exceeded(p, input)
              /\ \A i \in Exceeded(p, input) : Max(Exceeded(p, input)) >= i
              /\ Tariff(p, input).input = p.tiers[Max(Exceeded(p, input))].input
              /\ Tariff(p, input).output = p.tiers[Max(Exceeded(p, input))].output
              /\ Tariff(p, input).hit = p.tiers[Max(Exceeded(p, input))].hit
              /\ Tariff(p, input).write = p.write
<1>1. Len(p.tiers) \in Nat /\ Exceeded(p, input) \in SUBSET (1 .. Len(p.tiers))
  BY DEF IsPrice, Exceeded
<1>2. Exceeded(p, input) = {} => Tariff(p, input) = p
  BY DEF Tariff, Exceeded
<1>3. ASSUME Exceeded(p, input) # {}
      PROVE  /\ Max(Exceeded(p, input)) \in Exceeded(p, input)
             /\ \A i \in Exceeded(p, input) : Max(Exceeded(p, input)) >= i
  BY <1>1, <1>3, MaxFacts
<1>4. ASSUME Exceeded(p, input) # {}
      PROVE  Tariff(p, input) = [p EXCEPT !.input = p.tiers[Max(Exceeded(p, input))].input,
                                          !.output = p.tiers[Max(Exceeded(p, input))].output,
                                          !.hit = p.tiers[Max(Exceeded(p, input))].hit]
  BY <1>4 DEF Tariff, Exceeded
<1> QED
  BY <1>2, <1>3, <1>4 DEF IsPrice

LEMMA TariffRates ==
  ASSUME NEW p, IsPrice(p), validateBilling(p), NEW input \in Nat
  PROVE  /\ Tariff(p, input).input \in 0 .. MaxRate /\ Tariff(p, input).output \in 0 .. MaxRate
         /\ Or(Tariff(p, input).hit, Tariff(p, input).input) \in 0 .. MaxRate
         /\ Or(Tariff(p, input).write, Tariff(p, input).input) \in 0 .. MaxRate
<1>1. CASE Exceeded(p, input) = {}
  BY <1>1, TierFacts, AcceptedRates DEF Or
<1>2. CASE Exceeded(p, input) # {}
  <2>1. Max(Exceeded(p, input)) \in DOMAIN p.tiers
    BY <1>2, TierFacts DEF Exceeded
  <2> QED
    BY <1>2, <2>1, TierFacts, AcceptedRates DEF Or
<1> QED
  BY <1>1, <1>2

----------------------------------------------------------------------------
(* The charge.                                                             *)

LEMMA NatProduct ==
  ASSUME NEW a \in Nat, NEW b \in Nat
  PROVE  a * b \in Nat
OBVIOUS

(* The parts of the input: what the cache served, what it stored, the rest.*)
LEMMA PartsOfInput ==
  ASSUME NEW t \in TokenCounts
  PROVE  LET hit == Min({t.hit, t.request})
             write == Min({t.write, t.request - hit})
         IN  /\ hit \in 0 .. t.hit /\ write \in 0 .. t.write
             /\ hit + write <= t.request /\ t.request - hit - write \in Nat
             /\ <<hit, write>> = <<t.hit, t.write>> \/ hit + write = t.request
<1> DEFINE hit == Min({t.hit, t.request})
           write == Min({t.write, t.request - hit})
<1>1. t.request \in Nat /\ t.hit \in Nat /\ t.write \in Nat
  BY DEF TokenCounts
<1>2. hit = IF t.hit <= t.request THEN t.hit ELSE t.request
  BY <1>1, MinOfTwo
<1> HIDE DEF hit
<1>3. hit \in Nat /\ t.request - hit \in Nat
  BY <1>1, <1>2
<1>4. write = IF t.write <= t.request - hit THEN t.write ELSE t.request - hit
  BY <1>1, <1>3, MinOfTwo
<1> HIDE DEF write
<1>5. /\ hit \in 0 .. t.hit /\ write \in 0 .. t.write
      /\ hit + write <= t.request /\ t.request - hit - write \in Nat
      /\ (hit = t.hit /\ write = t.write) \/ hit + write = t.request
  BY <1>1, <1>2, <1>3, <1>4
<1> QED
  BY <1>5 DEF hit, write

(* A charge is an amount: never more than the largest, and of an answer    *)
(* under a free price it is nothing.                                       *)
THEOREM ChargesStayAmounts ==
  ASSUME NEW p, IsPrice(p), validateBilling(p), NEW t \in TokenCounts
  PROVE  TokenCost(p, t) \in 0 .. MaxInt64 /\ (p.mode = "free" => TokenCost(p, t) = 0)
<1> DEFINE tariff == Tariff(p, t.request)
           hit == Min({t.hit, t.request})
           write == Min({t.write, t.request - hit})
           plain == t.request - hit - write
           product == plain * tariff.input + hit * Or(tariff.hit, tariff.input)
                        + write * Or(tariff.write, tariff.input) + t.response * tariff.output
<1>1. hit \in Nat /\ write \in Nat /\ plain \in Nat /\ t.response \in Nat /\ t.request \in Nat
  BY PartsOfInput DEF TokenCounts
<1>2. /\ tariff.input \in Nat /\ tariff.output \in Nat
      /\ Or(tariff.hit, tariff.input) \in Nat /\ Or(tariff.write, tariff.input) \in Nat
  BY <1>1, TariffRates, BillingAssumption
<1>3. TokenCost(p, t) = IF p.mode = "free" THEN 0 ELSE Rounded(product, PerMillion)
  BY DEF TokenCost
<1> HIDE DEF tariff, hit, write, plain
<1>4. /\ plain * tariff.input \in Nat /\ hit * Or(tariff.hit, tariff.input) \in Nat
      /\ write * Or(tariff.write, tariff.input) \in Nat /\ t.response * tariff.output \in Nat
  BY <1>1, <1>2, NatProduct
<1>5. product \in Nat
  BY <1>4
<1> HIDE DEF product
<1>6. Rounded(product, PerMillion) \in 0 .. MaxInt64
  BY <1>5, RoundedFacts, BillingAssumption
<1> QED
  BY <1>3, <1>6, BillingAssumption

(* The charge of an answer in tokens is what it must be: every token of    *)
(* the input once, at one rate, whatever the counters of the cache say.    *)
THEOREM TokensAreChargedOnce ==
  ASSUME NEW p, p.mode # "free", NEW t \in TokenCounts
  PROVE  EachOnce(p, t, TokenCost(p, t))
<1> DEFINE tariff == Tariff(p, t.request)
           hit == Min({t.hit, t.request})
           write == Min({t.write, t.request - hit})
<1>1. /\ hit \in 0 .. t.hit /\ write \in 0 .. t.write /\ hit + write <= t.request
      /\ <<hit, write>> = <<t.hit, t.write>> \/ hit + write = t.request
  BY PartsOfInput
<1>2. TokenCost(p, t) = Rounded((t.request - hit - write) * tariff.input
                                  + hit * Or(tariff.hit, tariff.input)
                                  + write * Or(tariff.write, tariff.input)
                                  + t.response * tariff.output, PerMillion)
  BY DEF TokenCost
<1> HIDE DEF hit, write
<1> QED
  BY <1>1, <1>2 DEF EachOnce

(* The rates are those of the tier with the largest threshold that the     *)
(* input exceeds, or the price's own: validateBilling lets thresholds only *)
(* rise, and the last of them is the largest.                              *)
THEOREM LargestThresholdApplies ==
  ASSUME NEW p, IsPrice(p), validateBilling(p), NEW input \in Nat, NEW i \in DOMAIN p.tiers,
         input > p.tiers[i].above
  PROVE  \E j \in DOMAIN p.tiers :
           /\ input > p.tiers[j].above /\ p.tiers[j].above >= p.tiers[i].above
           /\ Tariff(p, input).input = p.tiers[j].input
           /\ Tariff(p, input).output = p.tiers[j].output
<1> DEFINE j == Max(Exceeded(p, input))
<1>1. /\ j \in Exceeded(p, input) /\ j >= i
      /\ Tariff(p, input).input = p.tiers[j].input /\ Tariff(p, input).output = p.tiers[j].output
  BY TierFacts DEF Exceeded
<1>2. j \in DOMAIN p.tiers /\ input > p.tiers[j].above
  BY <1>1 DEF Exceeded
<1>3. \A m \in DOMAIN p.tiers : m > 1 => p.tiers[m].above > p.tiers[m - 1].above
  BY DEF validateBilling, ValidTiers
<1>4. \A m \in DOMAIN p.tiers : p.tiers[m].above \in Nat
  BY AcceptedRates
<1>5. Len(p.tiers) \in Nat /\ DOMAIN p.tiers = 1 .. Len(p.tiers)
  BY DEF IsPrice
<1> HIDE DEF j
<1>6. p.tiers[j].above >= p.tiers[i].above
  <2> DEFINE Below == {m \in Nat : m <= j - i /\ p.tiers[i + m].above < p.tiers[i].above}
  <2>1. i \in 1 .. Len(p.tiers) /\ j \in 1 .. Len(p.tiers) /\ j - i \in Nat
    BY <1>1, <1>2, <1>5
  <2>2. Below = {}
    <3>1. SUFFICES ASSUME Below # {} PROVE FALSE
      OBVIOUS
    <3>2. PICK m \in Below : \A u \in Below : ~ (<<u, m>> \in OpToRel(<, Nat))
      <4>1. Below \subseteq Nat
        OBVIOUS
      <4> HIDE DEF Below
      <4> QED
        BY <3>1, <4>1, NatLessThanWellFounded, WFMin, Zenon
    <3>3. m \in Nat /\ m <= j - i /\ p.tiers[i + m].above < p.tiers[i].above
      OBVIOUS
    <3>4. m # 0
      BY <1>4, <2>1, <3>3
    <3>5. m - 1 \in Nat /\ i + m \in 1 .. Len(p.tiers) /\ i + m > 1 /\ i + (m - 1) = (i + m) - 1
          /\ i + (m - 1) \in 1 .. Len(p.tiers)
      <4> DEFINE n == Len(p.tiers)
      <4>1. n \in Nat /\ i \in 1 .. n /\ j \in 1 .. n /\ m \in Nat /\ m <= j - i /\ m # 0
        BY <1>5, <2>1, <3>3, <3>4
      <4> HIDE DEF n
      <4>2. /\ m - 1 \in Nat /\ i + m \in 1 .. n /\ i + m > 1 /\ i + (m - 1) = (i + m) - 1
            /\ i + (m - 1) \in 1 .. n
        BY ONLY <4>1
      <4> QED
        BY <4>2 DEF n
    <3>6. p.tiers[i + (m - 1)].above < p.tiers[i + m].above
      BY <1>3, <1>5, <3>5
    <3>7. p.tiers[i + (m - 1)].above < p.tiers[i].above
      <4>1. /\ p.tiers[i + (m - 1)].above \in Nat /\ p.tiers[i + m].above \in Nat
            /\ p.tiers[i].above \in Nat
        BY <1>4, <1>5, <2>1, <3>5
      <4> QED
        BY <3>3, <3>6, <4>1
    <3>8. m - 1 \in Below
      BY <2>1, <3>3, <3>5, <3>7
    <3>9. <<m - 1, m>> \in OpToRel(<, Nat)
      <4>1. <<m - 1, m>> \in Nat \X Nat /\ m - 1 < m
        BY <3>3, <3>5
      <4>2. <<m - 1, m>>[1] = m - 1 /\ <<m - 1, m>>[2] = m
        OBVIOUS
      <4> QED
        BY <4>1, <4>2, Zenon DEF OpToRel
    <3> QED
      BY <3>2, <3>8, <3>9
  <2>3. j - i \in Nat /\ i + (j - i) = j
    BY <2>1
  <2>4. ~ (p.tiers[i + (j - i)].above < p.tiers[i].above)
    BY <2>2, <2>3
  <2> QED
    BY <1>2, <1>4, <2>3, <2>4
<1> QED
  BY <1>1, <1>2, <1>6

(* Rounding is to the nearest amount: unless it is cut to the largest, the *)
(* charge is off by at most half a unit.                                   *)
THEOREM RoundedToTheNearest ==
  ASSUME NEW product \in Nat, NEW per \in Nat \ {0},
         (product + per \div 2) \div per <= MaxInt64
  PROVE  /\ 2 * product <= 2 * (per * Rounded(product, per)) + per
         /\ 2 * (per * Rounded(product, per)) <= 2 * product + per
<1> DEFINE half == per \div 2
           amount == (product + half) \div per
<1>1. half \in Nat /\ 2 * half <= per /\ per < 2 * half + 2
  BY Division
<1> HIDE DEF half
<1>2. product + half \in Nat
  BY <1>1
<1>3. amount \in Nat /\ per * amount <= product + half /\ product + half < per * amount + per
  BY <1>2, Division
<1>4. Rounded(product, per) = amount
  BY <1>3, SaturatedFacts DEF Rounded, half
<1> HIDE DEF amount
<1>5. per * amount \in Nat
  BY <1>3, NatProduct
<1>6. ASSUME NEW x \in Nat, x <= product + half, product + half < x + per
      PROVE  2 * product <= 2 * x + per /\ 2 * x <= 2 * product + per
  BY <1>1, <1>6
<1> QED
  BY <1>3, <1>4, <1>5, <1>6

=============================================================================
